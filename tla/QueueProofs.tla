------------------------------ MODULE QueueProofs ------------------------------
(***************************************************************************)
(* The ring of queue.c is a FIFO channel, for every size of the ring, every *)
(* number of threads and every length of their loops.                      *)
(***************************************************************************)
EXTENDS BoundedQueue, SequenceTheorems, FiniteSetTheorems, TLAPS

-------------------------------------------------------------------------------
\* The inductive invariant.

\* The slot of the i-th value that waits.
Slot(i) == IF tail + i - 1 < Size THEN tail + i - 1 ELSE tail + i - 1 - Size

\* What lies between tail and head was put there, and is not what malloc left.
Filled == \A i \in 1 .. Count : data[Slot(i)] \in Values

Ended == {p \in Producers : pc[p] = "exited"}

\* end_count is the number of producers that have ended.
EndIsCounted == end_count = Cardinality(Ended)

QueueInv == TypeOK /\ Filled /\ EndIsCounted

-------------------------------------------------------------------------------
\* Arithmetic of the ring.

\* The remainder, as it is used to go once around the ring.
LEMMA OnceAround ==
    ASSUME NEW n \in Nat \ {0}, NEW x \in 0 .. 2 * n - 1
    PROVE  x % n = IF x < n THEN x ELSE x - n
  OBVIOUS

\* The values that wait are in their slots, which are different ones and not the
\* one at head, and one slot is left free.
LEMMA RingFacts ==
    ASSUME TypeOK
    PROVE  /\ Count \in 0 .. Size - 1
           /\ \A i \in 1 .. Count : Slot(i) \in Slots /\ Slot(i) # head
           /\ Slot(Count + 1) = head
           /\ Contents = [i \in 1 .. Count |-> data[Slot(i)]]
           /\ Full <=> Count = Size - 1
           /\ Empty <=> Count = 0
  <1> USE QueueAssumption
  <1>1. Size \in Nat /\ Size > 1 /\ head \in 0 .. Size - 1 /\ tail \in 0 .. Size - 1
    BY DEF TypeOK, Slots
  <1>2. Count \in 0 .. Size - 1
    BY <1>1 DEF Count
  <1>3. \A i \in 1 .. Count : Slot(i) \in Slots /\ Slot(i) # head
    BY <1>1, <1>2 DEF Count, Slot, Slots
  <1>4. Slot(Count + 1) = head
    BY <1>1 DEF Count, Slot
  <1>5. \A i \in 1 .. Count : (tail + i - 1) % Size = Slot(i)
    <2> SUFFICES ASSUME NEW i \in 1 .. Count PROVE (tail + i - 1) % Size = Slot(i)
      OBVIOUS
    <2> DEFINE x == tail + i - 1
    <2>1. Size \in Nat \ {0} /\ x \in 0 .. 2 * Size - 1
      BY <1>1, <1>2
    <2> HIDE DEF x
    <2>2. x % Size = IF x < Size THEN x ELSE x - Size
      BY <2>1, OnceAround
    <2> QED BY <2>2, <1>1, <1>2 DEF Slot, x
  <1>6. Contents = [i \in 1 .. Count |-> data[Slot(i)]]
    BY <1>5 DEF Contents
  <1>7. (tail - 1 + Size) % Size = IF tail = 0 THEN Size - 1 ELSE tail - 1
    <2> DEFINE x == tail - 1 + Size
    <2>1. Size \in Nat \ {0} /\ x \in 0 .. 2 * Size - 1
      BY <1>1
    <2> HIDE DEF x
    <2>2. x % Size = IF x < Size THEN x ELSE x - Size
      BY <2>1, OnceAround
    <2> QED BY <2>2, <1>1 DEF x
  <1>8. Full <=> Count = Size - 1
    BY <1>1, <1>7 DEF Full, Count
  <1>9. Empty <=> Count = 0
    BY <1>1 DEF Empty, Count
  <1> QED BY <1>2, <1>3, <1>4, <1>6, <1>8, <1>9

\* NextSlot stays in the ring and is one slot further.
LEMMA NextSlotType ==
    ASSUME NEW i \in Slots
    PROVE  NextSlot(i) \in Slots
  BY QueueAssumption DEF NextSlot, Slots

\* Advancing head makes room for one more value, and no value moves.
LEMMA HeadAdvances ==
    ASSUME TypeOK, ~ Full, head' = NextSlot(head), tail' = tail
    PROVE  /\ Count' = Count + 1
           /\ \A i \in 1 .. Count + 1 : Slot(i)' = Slot(i)
  <1> USE QueueAssumption
  <1>1. Size \in Nat /\ Size > 1 /\ head \in 0 .. Size - 1 /\ tail \in 0 .. Size - 1
    BY DEF TypeOK, Slots
  <1>2. Count # Size - 1
    BY RingFacts
  <1>3. Count' = Count + 1
    BY <1>1, <1>2 DEF Count, NextSlot
  <1>4. \A i \in 1 .. Count + 1 : Slot(i)' = Slot(i)
    BY DEF Slot
  <1> QED BY <1>3, <1>4

\* Advancing tail takes the first value away, and the others move up by one.
LEMMA TailAdvances ==
    ASSUME TypeOK, ~ Empty, tail' = NextSlot(tail), head' = head
    PROVE  /\ Count' = Count - 1
           /\ \A i \in 1 .. Count - 1 : Slot(i)' = Slot(i + 1)
           /\ Slot(1) = tail
  <1> USE QueueAssumption
  <1>1. Size \in Nat /\ Size > 1 /\ head \in 0 .. Size - 1 /\ tail \in 0 .. Size - 1
    BY DEF TypeOK, Slots
  <1>2. Count' = Count - 1
    BY <1>1 DEF Count, NextSlot, Empty
  <1>3. Count \in 0 .. Size - 1
    BY RingFacts
  <1>4. \A i \in 1 .. Count - 1 : Slot(i)' = Slot(i + 1)
    BY <1>1, <1>3 DEF Slot, NextSlot
  <1>5. Slot(1) = tail
    BY <1>1 DEF Slot
  <1> QED BY <1>2, <1>4, <1>5

-------------------------------------------------------------------------------
\* The steps that change neither the ring nor its end.

LEMMA RingStands ==
    ASSUME Filled, data' = data, head' = head, tail' = tail
    PROVE  Filled' /\ Count' = Count /\ Contents' = Contents
  <1>1. Count' = Count
    BY DEF Count
  <1>2. \A i \in 1 .. Count : Slot(i)' = Slot(i)
    BY DEF Slot
  <1>3. Filled'
    BY <1>1, <1>2 DEF Filled
  <1>4. Contents' = Contents
    BY <1>1 DEF Contents
  <1> QED BY <1>1, <1>3, <1>4

\* Waking threads up leaves the program counters in their set and ends nobody.
LEMMA WakeFacts ==
    ASSUME TypeOK, NEW cond \in {"empty", "full"}, NEW W \in SUBSET Workers,
           \A t \in W : pc[t] = cond
    PROVE  /\ Wake(cond, W) \in [Workers -> {"run", "empty", "full", "exited"}]
           /\ \A t \in Workers : Wake(cond, W)[t] = "exited" <=> pc[t] = "exited"
  BY DEF TypeOK, Wake

LEMMA WokenFacts ==
    ASSUME NEW cond, NEW W \in Woken(cond)
    PROVE  W \in SUBSET Workers /\ \A t \in W : pc[t] = cond
  BY DEF Woken

\* Who has ended stays so, and nobody else ends.
LEMMA EndStands ==
    ASSUME EndIsCounted, end_count' = end_count,
           \A p \in Producers : pc'[p] = "exited" <=> pc[p] = "exited"
    PROVE  EndIsCounted'
  <1>1. Ended' = Ended
    BY DEF Ended
  <1> QED BY <1>1 DEF EndIsCounted

LEMMA EndInRange ==
    ASSUME EndIsCounted
    PROVE  end_count \in 0 .. Cardinality(Producers)
  <1>1. IsFiniteSet(Producers) /\ Ended \subseteq Producers
    BY QueueAssumption DEF Ended
  <1>2. Cardinality(Ended) \in Nat /\ Cardinality(Producers) \in Nat
        /\ Cardinality(Ended) <= Cardinality(Producers)
    BY <1>1, FS_Subset, FS_CardinalityType
  <1> QED BY <1>2 DEF EndIsCounted

-------------------------------------------------------------------------------
\* The invariant holds at first and is preserved.

LEMMA QueueInit ==
    ASSUME Init
    PROVE  QueueInv
  <1> USE QueueAssumption
  <1>1. Ended = {}
    BY DEF Init, Ended, Workers
  <1>2. EndIsCounted
    BY <1>1, FS_EmptySet DEF EndIsCounted, Init
  <1>3. end_count \in 0 .. Cardinality(Producers)
    BY <1>2, EndInRange
  <1>4. got \in [Consumers -> Seq(Values)]
    BY DEF Init
  <1>5. /\ data \in [Slots -> Values \cup {Nothing}]
        /\ pc \in [Workers -> {"run", "empty", "full", "exited"}]
        /\ done \in [Workers -> Nat]
        /\ gets \in Gets /\ started \in SUBSET Workers
    BY DEF Init
  <1>8. head \in Slots /\ tail \in Slots
    BY DEF Init, Slots
  <1>9. aborted \in BOOLEAN
    BY DEF Init
  <1>6. TypeOK
    BY <1>3, <1>4, <1>5, <1>8, <1>9 DEF TypeOK
  <1>7. Filled
    BY DEF Init, Filled, Count
  <1> QED BY <1>2, <1>6, <1>7 DEF QueueInv

LEMMA EnqueueStep ==
    ASSUME QueueInv, NEW p \in Producers, Enqueue(p)
    PROVE  /\ QueueInv'
           /\ Count < Size - 1
           /\ <<p, done[p]>> \in Values
           /\ Contents' = Append(Contents, <<p, done[p]>>)
  <1> USE QueueAssumption
  <1> DEFINE v == <<p, done[p]>>
  <1>1. TypeOK /\ Filled /\ EndIsCounted /\ p \in Workers
    BY DEF QueueInv, Workers
  <1>2. /\ data' = [data EXCEPT ![head] = v] /\ head' = NextSlot(head)
        /\ done' = [done EXCEPT ![p] = @ + 1] /\ tail' = tail
        /\ end_count' = end_count /\ got' = got /\ gets' = gets
        /\ started' = started /\ aborted' = aborted /\ done[p] < Puts /\ ~ Full
    BY DEF Enqueue, program
  <1>3. PICK W \in Woken("empty") : pc' = Wake("empty", W)
    BY DEF Enqueue
  <1>4. W \in SUBSET Workers /\ \A t \in W : pc[t] = "empty"
    BY WokenFacts
  <1>5. /\ pc' \in [Workers -> {"run", "empty", "full", "exited"}]
        /\ \A t \in Workers : pc'[t] = "exited" <=> pc[t] = "exited"
    BY <1>1, <1>3, <1>4, WakeFacts
  <1>6. EndIsCounted'
    BY <1>1, <1>2, <1>5, EndStands DEF Workers
  <1>7. v \in Values
    BY <1>1, <1>2 DEF TypeOK, Values
  <1>8. head \in Slots /\ head' \in Slots
    BY <1>1, <1>2, NextSlotType DEF TypeOK
  <1> HIDE DEF v
  <1>9. data' \in [Slots -> Values \cup {Nothing}] /\ done' \in [Workers -> Nat]
    BY <1>1, <1>2, <1>7 DEF TypeOK
  <1>10. TypeOK'
    BY <1>1, <1>2, <1>5, <1>8, <1>9 DEF TypeOK
  <1>11. /\ Count \in 0 .. Size - 1
         /\ \A i \in 1 .. Count : Slot(i) \in Slots /\ Slot(i) # head
         /\ Slot(Count + 1) = head
         /\ Contents = [i \in 1 .. Count |-> data[Slot(i)]]
         /\ Count # Size - 1
    BY <1>1, <1>2, RingFacts
  <1>12. Count' = Count + 1 /\ \A i \in 1 .. Count + 1 : Slot(i)' = Slot(i)
    BY <1>1, <1>2, HeadAdvances
  <1>13. \A i \in 1 .. Count + 1 :
            data'[Slot(i)'] = IF i = Count + 1 THEN v ELSE data[Slot(i)]
    BY <1>1, <1>2, <1>8, <1>11, <1>12 DEF TypeOK
  <1>14. Filled'
    BY <1>1, <1>7, <1>11, <1>12, <1>13 DEF Filled
  <1>15. Contents' = [i \in 1 .. Count + 1 |-> data'[Slot(i)']]
    <2>1. (Contents = [i \in 1 .. Count |-> data[Slot(i)]])'
      BY <1>10, RingFacts, PTL
    <2> QED BY <2>1, <1>12
  <1>16. Contents' = [i \in 1 .. Count + 1 |-> IF i = Count + 1 THEN v ELSE data[Slot(i)]]
    BY <1>13, <1>15
  <1>17. Contents \in Seq(Values) /\ Len(Contents) = Count
    BY <1>1, <1>11 DEF Filled
  <1>18. Contents' = Append(Contents, v)
    BY <1>7, <1>11, <1>16, <1>17
  <1> QED BY <1>6, <1>7, <1>10, <1>11, <1>14, <1>18 DEF QueueInv, v

LEMMA DequeueStep ==
    ASSUME QueueInv, NEW c \in Consumers, Dequeue(c)
    PROVE  /\ QueueInv'
           /\ Contents # << >>
           /\ Contents' = Tail(Contents)
           /\ got' = [got EXCEPT ![c] = Append(@, Head(Contents))]
  <1> USE QueueAssumption
  <1>1. TypeOK /\ Filled /\ EndIsCounted /\ c \in Workers
    BY DEF QueueInv, Workers
  <1>2. /\ got' = [got EXCEPT ![c] = Append(@, data[tail])]
        /\ tail' = NextSlot(tail) /\ done' = [done EXCEPT ![c] = @ + 1]
        /\ data' = data /\ head' = head /\ end_count' = end_count
        /\ gets' = gets /\ started' = started /\ aborted' = aborted /\ ~ Empty
    BY DEF Dequeue, program
  <1>3. PICK W \in Woken("full") : pc' = Wake("full", W)
    BY DEF Dequeue
  <1>4. W \in SUBSET Workers /\ \A t \in W : pc[t] = "full"
    BY WokenFacts
  <1>5. /\ pc' \in [Workers -> {"run", "empty", "full", "exited"}]
        /\ \A t \in Workers : pc'[t] = "exited" <=> pc[t] = "exited"
    BY <1>1, <1>3, <1>4, WakeFacts
  <1>6. EndIsCounted'
    BY <1>1, <1>2, <1>5, EndStands DEF Workers
  <1>7. /\ Count \in 1 .. Size - 1
        /\ Contents = [i \in 1 .. Count |-> data[Slot(i)]]
    BY <1>1, <1>2, RingFacts
  <1>8. /\ Count' = Count - 1
        /\ \A i \in 1 .. Count - 1 : Slot(i)' = Slot(i + 1)
        /\ Slot(1) = tail
    BY <1>1, <1>2, TailAdvances
  <1>9. data[tail] \in Values
    BY <1>1, <1>7, <1>8 DEF Filled
  <1>10. tail' \in Slots /\ done' \in [Workers -> Nat]
    BY <1>1, <1>2, NextSlotType DEF TypeOK
  <1>11. got' \in [Consumers -> Seq(Values)]
    <2>1. got \in [Consumers -> Seq(Values)] /\ got[c] \in Seq(Values)
      BY <1>1 DEF TypeOK
    <2>2. Append(got[c], data[tail]) \in Seq(Values)
      BY <2>1, <1>9
    <2> QED BY <2>1, <2>2, <1>2
  <1>12. TypeOK'
    BY <1>1, <1>2, <1>5, <1>10, <1>11 DEF TypeOK
  <1>13. Filled'
    BY <1>1, <1>2, <1>7, <1>8 DEF Filled
  <1>14. Contents' = [i \in 1 .. Count - 1 |-> data[Slot(i + 1)]]
    <2>1. (Contents = [i \in 1 .. Count |-> data[Slot(i)]])'
      BY <1>12, RingFacts, PTL
    <2> QED BY <2>1, <1>2, <1>8
  <1>15. Contents \in Seq(Values) /\ Len(Contents) = Count
    BY <1>1, <1>7 DEF Filled
  <1>16. Contents # << >> /\ Head(Contents) = data[tail]
    BY <1>7, <1>8, <1>15
  <1>17. Contents' = Tail(Contents)
    BY <1>7, <1>14, <1>15
  <1> QED BY <1>2, <1>6, <1>12, <1>13, <1>16, <1>17 DEF QueueInv

\* A producer that ends is counted once.
LEMMA TerminateStep ==
    ASSUME QueueInv, NEW p \in Producers, SignalTerminate(p)
    PROVE  QueueInv'
  <1> USE QueueAssumption
  <1>1. TypeOK /\ Filled /\ EndIsCounted /\ p \in Workers /\ p \notin Ended
    BY DEF QueueInv, Workers, SignalTerminate, Running, Ended
  <1>2. /\ data' = data /\ head' = head /\ tail' = tail /\ end_count' = end_count + 1
        /\ done' = done /\ got' = got /\ gets' = gets /\ started' = started
        /\ aborted' = aborted
    BY DEF SignalTerminate, ring, program
  <1> DEFINE W == Broadcast("empty")
  <1>3. W \in SUBSET Workers /\ \A t \in W : pc[t] = "empty"
    BY DEF Broadcast
  <1>4. pc' = [Wake("empty", W) EXCEPT ![p] = "exited"]
    BY DEF SignalTerminate
  <1> HIDE DEF W
  <1>5. /\ Wake("empty", W) \in [Workers -> {"run", "empty", "full", "exited"}]
        /\ \A t \in Workers : Wake("empty", W)[t] = "exited" <=> pc[t] = "exited"
    BY <1>1, <1>3, WakeFacts
  <1>6. /\ pc' \in [Workers -> {"run", "empty", "full", "exited"}]
        /\ \A t \in Workers : pc'[t] = "exited" <=> (pc[t] = "exited" \/ t = p)
    BY <1>1, <1>4, <1>5
  <1>7. Ended' = Ended \cup {p}
    BY <1>6 DEF Ended, Workers
  <1>8. IsFiniteSet(Ended)
    <2>1. Ended \subseteq Producers
      BY DEF Ended
    <2> QED BY <2>1, FS_Subset
  <1>9. Cardinality(Ended \cup {p}) = Cardinality(Ended) + 1
    BY <1>1, <1>8, FS_AddElement
  <1>10. EndIsCounted'
    BY <1>1, <1>2, <1>7, <1>9 DEF EndIsCounted
  <1>11. (end_count \in 0 .. Cardinality(Producers))'
    BY <1>10, EndInRange, PTL
  <1>12. TypeOK'
    BY <1>1, <1>2, <1>6, <1>11 DEF TypeOK
  <1>13. Filled'
    BY <1>1, <1>2, RingStands
  <1> QED BY <1>10, <1>12, <1>13 DEF QueueInv

\* A step that leaves the ring alone and ends no producer.
QuietStep ==
    /\ data' = data /\ head' = head /\ tail' = tail /\ end_count' = end_count
    /\ done' = done /\ got' = got /\ gets' = gets
    /\ pc' \in [Workers -> {"run", "empty", "full", "exited"}]
    /\ \A p \in Producers : pc'[p] = "exited" <=> pc[p] = "exited"
    /\ started' \in SUBSET Workers
    /\ aborted' \in BOOLEAN
    /\ aborted' => aborted \/ (Empty /\ end_count = Cardinality(Producers))

LEMMA QuietKeeps ==
    ASSUME QueueInv, QuietStep
    PROVE  QueueInv' /\ Contents' = Contents /\ got' = got
  <1>1. TypeOK /\ Filled /\ EndIsCounted
    BY DEF QueueInv
  <1>2. EndIsCounted'
    BY <1>1, EndStands DEF QuietStep
  <1>3. TypeOK'
    BY <1>1 DEF TypeOK, QuietStep
  <1>4. Filled' /\ Contents' = Contents
    BY <1>1, RingStands DEF QuietStep
  <1> QED BY <1>2, <1>3, <1>4 DEF QueueInv, QuietStep

\* All other steps are quiet.
LEMMA OthersAreQuiet ==
    ASSUME QueueInv, [Next]_vars,
           \A p \in Producers : ~ Enqueue(p) /\ ~ SignalTerminate(p),
           \A c \in Consumers : ~ Dequeue(c)
    PROVE  QuietStep
  <1> USE QueueAssumption
  <1>1. TypeOK
    BY DEF QueueInv
  <1>2. CASE UNCHANGED vars
    BY <1>1, <1>2 DEF TypeOK, QuietStep, vars, program
  <1>3. ASSUME NEW p \in Producers, WaitUntilNotFull(p)
        PROVE  QuietStep
    BY <1>1, <1>3 DEF TypeOK, QuietStep, WaitUntilNotFull, Running, ring, program, Workers
  <1>4. ASSUME NEW c \in Consumers, WaitUntilNotEmpty(c)
        PROVE  QuietStep
    BY <1>1, <1>4 DEF TypeOK, QuietStep, WaitUntilNotEmpty, Running, ring, program, Workers
  <1>5. ASSUME NEW c \in Consumers, DequeueTerminated(c)
        PROVE  QuietStep
    <2> DEFINE W == Broadcast("empty")
    <2>1. W \in SUBSET Workers /\ \A t \in W : pc[t] = "empty"
      BY DEF Broadcast
    <2>2. /\ pc' = Wake("empty", W) /\ aborted' = TRUE
          /\ Empty /\ end_count = Cardinality(Producers)
      BY <1>5 DEF DequeueTerminated
    <2> HIDE DEF W
    <2>3. /\ pc' \in [Workers -> {"run", "empty", "full", "exited"}]
          /\ \A t \in Workers : pc'[t] = "exited" <=> pc[t] = "exited"
      BY <1>1, <2>1, <2>2, WakeFacts
    <2>4. /\ data' = data /\ head' = head /\ tail' = tail /\ end_count' = end_count
          /\ done' = done /\ got' = got /\ gets' = gets /\ started' = started
      BY <1>5 DEF DequeueTerminated, ring, program
    <2> QED BY <1>1, <2>2, <2>3, <2>4 DEF QuietStep, TypeOK, Workers
  <1>6. ASSUME NEW c \in Consumers, ConsumerExit(c)
        PROVE  QuietStep
    BY <1>1, <1>6 DEF TypeOK, QuietStep, ConsumerExit, Running, ring, program, Workers
  <1>7. ASSUME NEW t \in Workers, Create(t)
        PROVE  QuietStep
    BY <1>1, <1>7 DEF TypeOK, QuietStep, Create, ring
  <1>8. ASSUME NEW t \in Workers, SpuriousWakeup(t)
        PROVE  QuietStep
    BY <1>1, <1>8 DEF TypeOK, QuietStep, SpuriousWakeup, ring, program, Workers
  <1>9. CASE Return
    BY <1>2, <1>9 DEF Return
  <1> QED BY <1>2, <1>3, <1>4, <1>5, <1>6, <1>7, <1>8, <1>9 DEF Next, Produce, Consume

LEMMA QueueNext ==
    ASSUME QueueInv, [Next]_vars
    PROVE  QueueInv'
  <1>1. CASE \E p \in Producers : Enqueue(p)
    BY <1>1, EnqueueStep
  <1>2. CASE \E p \in Producers : SignalTerminate(p)
    BY <1>2, TerminateStep
  <1>3. CASE \E c \in Consumers : Dequeue(c)
    BY <1>3, DequeueStep
  <1>4. CASE /\ \A p \in Producers : ~ Enqueue(p) /\ ~ SignalTerminate(p)
             /\ \A c \in Consumers : ~ Dequeue(c)
    BY <1>4, OthersAreQuiet, QuietKeeps
  <1> QED BY <1>1, <1>2, <1>3, <1>4

-------------------------------------------------------------------------------
\* The state of queue.c keeps its types: in particular head and tail stay inside
\* the ring, no consumer gets a slot that was never written, and the count of
\* ended producers does not pass their number.
THEOREM QueueTypes == Spec => []TypeOK
  <1>1. Init => QueueInv
    BY QueueInit
  <1>2. QueueInv /\ [Next]_vars => QueueInv'
    BY QueueNext
  <1>3. QueueInv => TypeOK
    BY DEF QueueInv
  <1> QED BY <1>1, <1>2, <1>3, PTL DEF Spec

\* A step of queue.c is a step of the channel, or changes nothing of it.
LEMMA FifoStep ==
    ASSUME QueueInv, [Next]_vars
    PROVE  [Fifo!Next]_(Fifo!vars)
  <1> USE QueueAssumption
  <1>1. ASSUME NEW p \in Producers, Enqueue(p)
        PROVE  Fifo!Next
    <2>1. /\ Count < Size - 1 /\ <<p, done[p]>> \in Values
          /\ Contents' = Append(Contents, <<p, done[p]>>)
      BY <1>1, EnqueueStep
    <2>2. Len(Contents) = Count
      BY RingFacts DEF QueueInv
    <2>3. got' = got
      BY <1>1 DEF Enqueue
    <2>4. Fifo!Put(<<p, done[p]>>)
      BY <2>1, <2>2, <2>3 DEF Fifo!Put
    <2> QED BY <2>1, <2>4 DEF Fifo!Next
  <1>2. ASSUME NEW c \in Consumers, Dequeue(c)
        PROVE  Fifo!Next
    <2>1. Fifo!Get(c)
      BY <1>2, DequeueStep DEF Fifo!Get
    <2> QED BY <2>1 DEF Fifo!Next
  <1>3. ASSUME NEW p \in Producers, SignalTerminate(p)
        PROVE  UNCHANGED Fifo!vars
    <2>1. data' = data /\ head' = head /\ tail' = tail /\ got' = got /\ Filled
      BY <1>3 DEF SignalTerminate, ring, QueueInv
    <2>2. Contents' = Contents
      BY <2>1, RingStands
    <2> QED BY <2>1, <2>2 DEF Fifo!vars
  <1>4. ASSUME \A p \in Producers : ~ Enqueue(p) /\ ~ SignalTerminate(p),
               \A c \in Consumers : ~ Dequeue(c)
        PROVE  UNCHANGED Fifo!vars
    <2>1. Contents' = Contents /\ got' = got
      BY <1>4, OthersAreQuiet, QuietKeeps
    <2> QED BY <2>1 DEF Fifo!vars
  <1> QED BY <1>1, <1>2, <1>3, <1>4

\* The ring, its two indices and the slot it leaves free are a channel of
\* Size - 1 values: what is put is handed out once, in order, for every size of
\* the ring and every number of producers and consumers.
THEOREM QueueIsFifo == Spec => ImplementsFifo
  <1>1. Init => Fifo!Init
    <2> SUFFICES ASSUME Init PROVE Fifo!Init
      OBVIOUS
    <2>1. Count = 0
      BY DEF Init, Count
    <2>2. Contents = << >>
      BY <2>1 DEF Contents
    <2> QED BY <2>2 DEF Fifo!Init, Init
  <1>2. Init => QueueInv
    BY QueueInit
  <1>3. QueueInv /\ [Next]_vars => QueueInv'
    BY QueueNext
  <1>4. QueueInv /\ [Next]_vars => [Fifo!Next]_(Fifo!vars)
    BY FifoStep
  <1> QED BY <1>1, <1>2, <1>3, <1>4, PTL DEF Spec, ImplementsFifo, Fifo!Spec

-------------------------------------------------------------------------------
\* Nothing is lost on the way to the consumers.

Handed(v) == \E c \in Consumers : \E i \in 1 .. Len(got[c]) : got[c][i] = v

Waits(v) == \E i \in 1 .. Len(Contents) : Contents[i] = v

\* The loops: how often a thread went round is how many values it put or got.
PutLoops ==
    \A p \in Producers : done[p] <= Puts /\ (pc[p] = "exited" => done[p] = Puts)

GetLoops ==
    \A c \in Consumers : Len(got[c]) = done[c] /\ done[c] <= gets

LoopInv == PutLoops /\ GetLoops

\* A value that was put waits or was handed out.
NothingLost ==
    \A p \in Producers : \A i \in 0 .. Puts - 1 :
        i < done[p] => Waits(<<p, i>>) \/ Handed(<<p, i>>)

\* When the queue was said to have ended, it was empty and all producers gone.
EndIsReal == aborted => Empty /\ end_count = Cardinality(Producers)

DrainInv == QueueInv /\ LoopInv /\ NothingLost /\ EndIsReal

LEMMA DrainInit ==
    ASSUME Init
    PROVE  DrainInv
  <1> USE QueueAssumption
  <1>1. QueueInv
    BY QueueInit
  <1>2. LoopInv
    BY DEF Init, LoopInv, PutLoops, GetLoops, Workers
  <1>3. NothingLost
    BY DEF Init, NothingLost, Workers
  <1>4. EndIsReal
    BY DEF Init, EndIsReal
  <1> QED BY <1>1, <1>2, <1>3, <1>4 DEF DrainInv

LEMMA DrainEnqueue ==
    ASSUME DrainInv, NEW p \in Producers, Enqueue(p)
    PROVE  DrainInv'
  <1> USE QueueAssumption
  <1> DEFINE v == <<p, done[p]>>
  <1>1. QueueInv /\ TypeOK /\ p \in Workers
    BY DEF DrainInv, QueueInv, Workers
  <1>2. /\ done' = [done EXCEPT ![p] = @ + 1] /\ got' = got /\ gets' = gets
        /\ done[p] < Puts /\ pc[p] = "run" /\ ~ aborted'
    BY DEF Enqueue, Running, program
  <1>3. QueueInv' /\ Contents' = Append(Contents, v)
    BY <1>1, EnqueueStep
  <1>4. \A q \in Producers : pc'[q] = "exited" => pc[q] = "exited"
    <2>1. PICK W \in Woken("empty") : pc' = Wake("empty", W)
      BY DEF Enqueue
    <2>2. W \in SUBSET Workers /\ \A t \in W : pc[t] = "empty"
      BY WokenFacts
    <2> QED BY <1>1, <2>1, <2>2, WakeFacts DEF Workers
  <1>5. LoopInv'
    <2>1. PutLoops /\ GetLoops /\ done \in [Workers -> Nat]
      BY <1>1 DEF DrainInv, LoopInv, TypeOK
    <2>2. PutLoops'
      BY <1>1, <1>2, <1>4, <2>1 DEF PutLoops, Workers
    <2>3. GetLoops'
      BY <1>1, <1>2, <2>1 DEF GetLoops, Workers
    <2> QED BY <2>2, <2>3 DEF LoopInv
  <1>6. Contents \in Seq(Values)
    BY <1>1, RingFacts DEF QueueInv, Filled
  <1>7. NothingLost'
    <2> SUFFICES ASSUME NEW q \in Producers, NEW i \in 0 .. Puts - 1, i < done'[q]
                 PROVE  (Waits(<<q, i>>) \/ Handed(<<q, i>>))'
      BY DEF NothingLost
    <2> DEFINE x == <<q, i>>
    <2>1. i < done[q] \/ x = v
      BY <1>1, <1>2 DEF TypeOK, Workers
    <2> HIDE DEF v, x
    <2>2. /\ Len(Contents') = Len(Contents) + 1
          /\ \A j \in 1 .. Len(Contents) : Contents'[j] = Contents[j]
          /\ Contents'[Len(Contents) + 1] = v
          /\ Len(Contents) \in Nat
      BY <1>3, <1>6
    <2>3. Waits(x) \/ Handed(x) \/ x = v
      BY <2>1 DEF DrainInv, NothingLost, x
    <2>4. Waits(x) => Waits(x)'
      BY <2>2 DEF Waits
    <2>5. Handed(x) => Handed(x)'
      BY <1>2 DEF Handed
    <2>6. x = v => Waits(x)'
      BY <2>2 DEF Waits
    <2> QED BY <2>3, <2>4, <2>5, <2>6 DEF x
  <1> QED BY <1>2, <1>3, <1>5, <1>7 DEF DrainInv, EndIsReal

LEMMA DrainDequeue ==
    ASSUME DrainInv, NEW c \in Consumers, Dequeue(c)
    PROVE  DrainInv'
  <1> USE QueueAssumption
  <1>1. QueueInv /\ TypeOK /\ c \in Workers /\ c \notin Producers
    BY DEF DrainInv, QueueInv, Workers
  <1>2. /\ done' = [done EXCEPT ![c] = @ + 1] /\ gets' = gets
        /\ done[c] < gets /\ pc[c] = "run" /\ ~ aborted'
    BY DEF Dequeue, Running, program
  <1>3. /\ QueueInv' /\ Contents # << >> /\ Contents' = Tail(Contents)
        /\ got' = [got EXCEPT ![c] = Append(@, Head(Contents))]
    BY <1>1, DequeueStep
  <1>4. \A q \in Producers : pc'[q] = "exited" => pc[q] = "exited"
    <2>1. PICK W \in Woken("full") : pc' = Wake("full", W)
      BY DEF Dequeue
    <2>2. W \in SUBSET Workers /\ \A t \in W : pc[t] = "full"
      BY WokenFacts
    <2> QED BY <1>1, <2>1, <2>2, WakeFacts DEF Workers
  <1>6. Contents \in Seq(Values)
    BY <1>1, RingFacts DEF QueueInv, Filled
  <1>7. /\ got \in [Consumers -> Seq(Values)] /\ got[c] \in Seq(Values)
        /\ Head(Contents) \in Values
    BY <1>1, <1>3, <1>6 DEF TypeOK
  <1>8. /\ got'[c] = Append(got[c], Head(Contents))
        /\ \A d \in Consumers \ {c} : got'[d] = got[d]
    BY <1>3, <1>7
  <1>9. /\ Len(got'[c]) = Len(got[c]) + 1 /\ Len(got[c]) \in Nat
        /\ \A j \in 1 .. Len(got[c]) : got'[c][j] = got[c][j]
        /\ got'[c][Len(got[c]) + 1] = Head(Contents)
    BY <1>7, <1>8
  <1>5. LoopInv'
    <2>1. gets \in Nat /\ done \in [Workers -> Nat] /\ Consumers \subseteq Workers
          /\ Producers \subseteq Workers
      BY <1>1 DEF TypeOK, Workers
    <2>2. PutLoops /\ GetLoops
      BY DEF DrainInv, LoopInv
    <2>3. GetLoops'
      BY <1>1, <1>2, <1>8, <1>9, <2>1, <2>2 DEF GetLoops
    <2>4. PutLoops'
      <3>1. \A p \in Producers : done'[p] = done[p]
        BY <1>1, <1>2, <2>1
      <3> QED BY <1>4, <2>2, <3>1 DEF PutLoops
    <2> QED BY <2>3, <2>4 DEF LoopInv
  <1>10. NothingLost'
    <2> SUFFICES ASSUME NEW q \in Producers, NEW i \in 0 .. Puts - 1, i < done'[q]
                 PROVE  (Waits(<<q, i>>) \/ Handed(<<q, i>>))'
      BY DEF NothingLost
    <2> DEFINE x == <<q, i>>
    <2>1. i < done[q]
      BY <1>1, <1>2 DEF TypeOK, Workers
    <2> HIDE DEF x
    <2>2. /\ Len(Contents) \in Nat \ {0} /\ Len(Contents') = Len(Contents) - 1
          /\ \A j \in 1 .. Len(Contents) - 1 : Contents'[j] = Contents[j + 1]
          /\ Contents[1] = Head(Contents)
      BY <1>3, <1>6
    <2>3. Waits(x) \/ Handed(x)
      BY <2>1 DEF DrainInv, NothingLost, x
    <2>4. ASSUME Waits(x) PROVE Waits(x)' \/ Handed(x)'
      <3>1. PICK j \in 1 .. Len(Contents) : Contents[j] = x
        BY <2>4 DEF Waits
      <3>2. CASE j = 1
        BY <1>9, <2>2, <3>1, <3>2 DEF Handed
      <3>3. CASE j # 1
        <4>1. j - 1 \in 1 .. Len(Contents) - 1 /\ Contents'[j - 1] = Contents[(j - 1) + 1]
          BY <2>2, <3>3
        <4>2. Contents'[j - 1] = x
          BY <3>1, <4>1
        <4> QED BY <2>2, <4>1, <4>2 DEF Waits
      <3> QED BY <3>2, <3>3
    <2>5. Handed(x) => Handed(x)'
      <3> SUFFICES ASSUME NEW d \in Consumers, NEW j \in 1 .. Len(got[d]), got[d][j] = x
                   PROVE  Handed(x)'
        BY DEF Handed
      <3>1. j \in 1 .. Len(got'[d]) /\ got'[d][j] = x
        BY <1>8, <1>9
      <3> QED BY <3>1 DEF Handed
    <2> QED BY <2>3, <2>4, <2>5 DEF x
  <1> QED BY <1>2, <1>3, <1>5, <1>10 DEF DrainInv, EndIsReal

\* The other steps move no value.
LEMMA DrainStands ==
    ASSUME DrainInv, QueueInv', done' = done, got' = got, gets' = gets,
           Contents' = Contents,
           \A p \in Producers : pc'[p] = "exited" => done[p] = Puts,
           EndIsReal'
    PROVE  DrainInv'
  <1>1. LoopInv'
    BY DEF DrainInv, LoopInv, PutLoops, GetLoops
  <1>2. NothingLost'
    BY DEF DrainInv, NothingLost, Waits, Handed
  <1> QED BY <1>1, <1>2 DEF DrainInv

LEMMA DrainNext ==
    ASSUME DrainInv, [Next]_vars
    PROVE  DrainInv'
  <1>0. QueueInv /\ QueueInv' /\ Filled /\ TypeOK
    BY QueueNext DEF DrainInv, QueueInv
  <1>1. CASE \E p \in Producers : Enqueue(p)
    BY <1>1, DrainEnqueue
  <1>2. ASSUME NEW p \in Producers, SignalTerminate(p)
        PROVE  DrainInv'
    <2>1. /\ data' = data /\ head' = head /\ tail' = tail /\ done' = done /\ got' = got
          /\ gets' = gets /\ ~ aborted' /\ done[p] = Puts
          /\ pc' = [Wake("empty", Broadcast("empty")) EXCEPT ![p] = "exited"]
      BY <1>2 DEF SignalTerminate, Running, ring, program
    <2>2. Contents' = Contents
      BY <1>0, <2>1, RingStands
    <2>3. \A q \in Producers : pc'[q] = "exited" => done[q] = Puts
      <3>1. PutLoops
        BY DEF DrainInv, LoopInv
      <3>2. \A q \in Producers : pc'[q] = "exited" => q = p \/ pc[q] = "exited"
        BY <2>1, <1>0 DEF Wake, Broadcast, Workers, TypeOK
      <3> QED BY <2>1, <3>1, <3>2 DEF PutLoops
    <2> QED BY <1>0, <2>1, <2>2, <2>3, DrainStands DEF EndIsReal
  <1>3. CASE \E c \in Consumers : Dequeue(c)
    BY <1>3, DrainDequeue
  <1>4. CASE /\ \A p \in Producers : ~ Enqueue(p) /\ ~ SignalTerminate(p)
             /\ \A c \in Consumers : ~ Dequeue(c)
    <2>1. QuietStep /\ Contents' = Contents
      BY <1>0, <1>4, OthersAreQuiet, QuietKeeps
    <2>2. EndIsReal'
      BY <2>1 DEF QuietStep, DrainInv, EndIsReal, Empty
    <2>3. \A p \in Producers : pc'[p] = "exited" => done[p] = Puts
      BY <2>1 DEF QuietStep, DrainInv, LoopInv, PutLoops
    <2> QED BY <1>0, <2>1, <2>2, <2>3, DrainStands DEF QuietStep
  <1> QED BY <1>1, <1>2, <1>3, <1>4

\* dequeue says that the queue has ended only when every value that will ever be
\* put was handed out, for every size of the ring and every number of threads.
THEOREM QueueEndsDrained == Spec => []EndsDrained
  <1> USE QueueAssumption
  <1>1. Init => DrainInv
    BY DrainInit
  <1>2. DrainInv /\ [Next]_vars => DrainInv'
    BY DrainNext
  <1>3. DrainInv => EndsDrained
    <2> SUFFICES ASSUME DrainInv, aborted, NEW v \in Values
                 PROVE  \E c \in Consumers, i \in 1 .. gets :
                            i <= Len(got[c]) /\ got[c][i] = v
      BY DEF EndsDrained
    <2>0. PICK p \in Producers, k \in 0 .. Puts - 1 : v = <<p, k>>
      BY DEF Values
    <2>1. TypeOK /\ Empty /\ Cardinality(Ended) = Cardinality(Producers)
      BY DEF DrainInv, QueueInv, EndIsReal, EndIsCounted
    <2>2. Ended = Producers
      <3>1. Ended \subseteq Producers
        BY DEF Ended
      <3> QED BY <2>1, <3>1, FS_Subset
    <2>3. done[p] = Puts
      BY <2>2 DEF Ended, DrainInv, LoopInv, PutLoops
    <2>4. Waits(<<p, k>>) \/ Handed(<<p, k>>)
      BY <2>3 DEF DrainInv, NothingLost
    <2>5. Contents = << >>
      BY <2>1, RingFacts
    <2>6. PICK c \in Consumers : \E i \in 1 .. Len(got[c]) : got[c][i] = v
      BY <2>0, <2>4, <2>5 DEF Waits, Handed
    <2>7. Len(got[c]) \in Nat /\ Len(got[c]) <= gets /\ gets \in Nat
      BY <2>1 DEF DrainInv, LoopInv, GetLoops, TypeOK
    <2> QED BY <2>6, <2>7
  <1> QED BY <1>1, <1>2, <1>3, PTL DEF Spec
===============================================================================
