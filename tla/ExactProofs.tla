------------------------------ MODULE ExactProofs ------------------------------
(***************************************************************************)
(* What the clocks mean.  In every program, no clock is ahead of the       *)
(* threads it speaks of.  In programs that synchronise by creating and     *)
(* joining threads, by mutexes, and by barriers that all threads take part *)
(* in, operator< orders two epochs of a running and of another thread      *)
(* exactly when the program does.                                          *)
(***************************************************************************)
EXTENDS PthreadProofs, FiniteSetTheorems

-----------------------------------------------------------------------------
\* How clocks are compared, with each other and with the program's order.

\* Others may be ahead of a thread's own count of its epochs by one, while it
\* is inside pthread_create and once it has been joined.
Slack(j) == IF pc[j] \in Creating \/ j \in joined THEN 1 ELSE 0

Limit == [j \in Threads |-> vectorClock[j][j] + Slack(j)]

Below(v, b) == \A j \in Threads : v[j] <= b[j]

\* The clock v stands for the set of epochs p.
Represents(v, p) ==
    \A u \in Threads, n \in Nat : <<u, n>> \in p <=> (0 < n /\ n < v[u])

\* If v, a clock of thread i, is in the past of w, a clock of thread j, as far
\* as i's component tells, then j's component tells the same.
Seen(v, i, w, j) == v[i] < w[i] => v[j] < w[j]

\* A thread is joined once, after its end; its final clock is the one it left.
JoinInv ==
    /\ \A c \in joined : pc[c] = "exited"
    /\ \A t \in Threads : pc[t] = "join" =>
        /\ thread[t] \notin joined
        /\ \A u \in Threads \ {t} : pc[u] = "join" => thread[u] # thread[t]
    /\ \A p, c \in Threads : joinVCMap[p][c] # ZeroClock =>
        pc[c] = "exited" /\ joinVCMap[p][c] = vectorClock[c]

-----------------------------------------------------------------------------
\* What the clock operations do to the epochs a clock stands for.

\* A bound on a clock may be raised.
LEMMA BelowTransitive ==
    ASSUME NEW v \in Clock, NEW b \in Clock, NEW d \in Clock, Below(v, b), Below(b, d)
    PROVE  Below(v, d)
  <1> SUFFICES ASSUME NEW j \in Threads PROVE v[j] <= d[j]
    BY DEF Below
  <1>1. v[j] \in Nat /\ b[j] \in Nat /\ d[j] \in Nat
    BY DEF Clock
  <1>2. v[j] <= b[j] /\ b[j] <= d[j]
    BY DEF Below
  <1> QED BY <1>1, <1>2

\* The end of an epoch.
LEMMA AdvanceRepresents ==
    ASSUME NEW v \in Clock, NEW p, NEW t \in Threads, Represents(v, p), v[t] > 0
    PROVE  Represents(advance(v, t), p \cup {<<t, v[t]>>})
  <1> SUFFICES ASSUME NEW u \in Threads, NEW n \in Nat
               PROVE  <<u, n>> \in p \cup {<<t, v[t]>>}
                      <=> (0 < n /\ n < advance(v, t)[u])
    BY DEF Represents
  <1>1. v[t] \in Nat /\ v[u] \in Nat
    BY DEF Clock
  <1>2. <<u, n>> \in p <=> (0 < n /\ n < v[u])
    BY DEF Represents
  <1>3. advance(v, t)[u] = IF u = t THEN v[t] + 1 ELSE v[u]
    BY DEF advance, Clock
  <1> QED BY <1>1, <1>2, <1>3

\* Receiving a clock is receiving the epochs it stands for.
LEMMA ReceiveRepresents ==
    ASSUME NEW v \in Clock, NEW w \in Clock, NEW p, NEW q,
           Represents(v, p), Represents(w, q)
    PROVE  Represents(receiveAction(v, w), p \cup q)
  <1> SUFFICES ASSUME NEW u \in Threads, NEW n \in Nat
               PROVE  <<u, n>> \in p \cup q
                      <=> (0 < n /\ n < receiveAction(v, w)[u])
    BY DEF Represents
  <1>1. v[u] \in Nat /\ w[u] \in Nat
    BY DEF Clock
  <1>2. /\ <<u, n>> \in p <=> (0 < n /\ n < v[u])
        /\ <<u, n>> \in q <=> (0 < n /\ n < w[u])
    BY DEF Represents
  <1>3. receiveAction(v, w)[u] = IF v[u] > w[u] THEN v[u] ELSE w[u]
    BY DEF receiveAction
  <1> QED BY <1>1, <1>2, <1>3

\* A child starts after its creator's current epoch.
LEMMA ChildRepresents ==
    ASSUME NEW v \in Clock, NEW p, NEW t \in Threads, NEW c \in Threads, t # c,
           Represents(v, p), v[t] > 0, v[c] = 0
    PROVE  Represents(ChildClock(v, t, c), p \cup {<<t, v[t]>>})
  <1> SUFFICES ASSUME NEW u \in Threads, NEW n \in Nat
               PROVE  <<u, n>> \in p \cup {<<t, v[t]>>}
                      <=> (0 < n /\ n < ChildClock(v, t, c)[u])
    BY DEF Represents
  <1>1. v[t] \in Nat /\ v[u] \in Nat
    BY DEF Clock
  <1>2. <<u, n>> \in p <=> (0 < n /\ n < v[u])
    BY DEF Represents
  <1>3. ChildClock(v, t, c)[u] = IF u \in {t, c} THEN v[u] + 1 ELSE v[u]
    BY DEF ChildClock
  <1> QED BY <1>1, <1>2, <1>3

\* A join ends the joiner's epoch and receives all epochs of the joined thread.
LEMMA JoinRepresents ==
    ASSUME NEW v \in Clock, NEW w \in Clock, NEW p, NEW q,
           NEW t \in Threads, NEW c \in Threads, t # c,
           Represents(v, p), Represents(w, q),
           w[t] <= v[t], v[c] <= w[c], v[t] > 0, w[c] > 0
    PROVE  Represents(receiveWithIncrement(v, t, w, c),
                      p \cup {<<t, v[t]>>} \cup (q \cup {<<c, w[c]>>}))
  <1> SUFFICES ASSUME NEW u \in Threads, NEW n \in Nat
               PROVE  <<u, n>> \in p \cup {<<t, v[t]>>} \cup (q \cup {<<c, w[c]>>})
                      <=> (0 < n /\ n < receiveWithIncrement(v, t, w, c)[u])
    BY DEF Represents
  <1>1. v[u] \in Nat /\ w[u] \in Nat /\ v[t] \in Nat /\ w[c] \in Nat
    BY DEF Clock
  <1>2. /\ <<u, n>> \in p <=> (0 < n /\ n < v[u])
        /\ <<u, n>> \in q <=> (0 < n /\ n < w[u])
    BY DEF Represents
  <1>3. receiveAction(v, w)[u] = IF v[u] > w[u] THEN v[u] ELSE w[u]
    BY DEF receiveAction
  <1>4. receiveWithIncrement(v, t, w, c)[u]
            = receiveAction(v, w)[u] + IF u \in {t, c} THEN 1 ELSE 0
    BY DEF receiveWithIncrement
  <1>5. CASE u = t
    BY <1>1, <1>2, <1>3, <1>4, <1>5
  <1>6. CASE u = c
    BY <1>1, <1>2, <1>3, <1>4, <1>6
  <1>7. CASE u # t /\ u # c
    BY <1>1, <1>2, <1>3, <1>4, <1>7
  <1> QED BY <1>5, <1>6, <1>7

\* Where the entries of a queue come from when a signature is pushed.
LEMMA PushFrontEntries ==
    ASSUME NEW q \in Seq(SigRaceData), NEW sig \in SigRaceData
    PROVE  /\ 1 \in DOMAIN pushFront(q, sig) /\ pushFront(q, sig)[1] = sig
           /\ \A k \in DOMAIN pushFront(q, sig) :
                k \in Nat /\ (k # 1 => /\ k - 1 \in DOMAIN q
                                       /\ pushFront(q, sig)[k] = q[k - 1])
  <1> DEFINE whole == <<sig>> \o q
             n == IF Len(q) < BLOCK_HISTORY_QUEUE_SIZE
                  THEN Len(q) + 1 ELSE BLOCK_HISTORY_QUEUE_SIZE
  <1>1. whole \in Seq(SigRaceData) /\ Len(whole) = Len(q) + 1
    OBVIOUS
  <1>2. n \in 1 .. Len(whole)
    BY <1>1, QueueSizeAssumption
  <1>3. whole[1] = sig /\ \A k \in 2 .. Len(q) + 1 : whole[k] = q[k - 1]
    OBVIOUS
  <1>4. pushFront(q, sig) = SubSeq(whole, 1, n)
    BY DEF pushFront
  <1> HIDE DEF whole, n
  <1>5. /\ DOMAIN SubSeq(whole, 1, n) = 1 .. n
        /\ \A k \in 1 .. n : SubSeq(whole, 1, n)[k] = whole[k]
    BY <1>1, <1>2
  <1>6. DOMAIN q = 1 .. Len(q) /\ Len(q) \in Nat
    OBVIOUS
  <1> QED BY <1>1, <1>2, <1>3, <1>4, <1>5, <1>6

-----------------------------------------------------------------------------
\* The limit of what others may know of a thread.

\* The limit is a clock.
LEMMA LimitType ==
    ASSUME TypeOK
    PROVE  /\ Limit \in Clock
           /\ \A j \in Threads : Limit[j] = vectorClock[j][j] + Slack(j)
           /\ \A j \in Threads : vectorClock[j][j] \in Nat
  <1>1. \A j \in Threads : vectorClock[j][j] \in Nat
    BY DEF TypeOK, Clock
  <1>2. \A j \in Threads : Slack(j) \in Nat
    BY DEF Slack
  <1>3. \A j \in Threads : vectorClock[j][j] + Slack(j) \in Nat
    BY <1>1, <1>2
  <1> QED BY <1>1, <1>3 DEF Limit, Clock

\* The limit of what others may know of a thread never shrinks.
LEMMA LimitGrows ==
    ASSUME TypeOK, TypeOK', NEW t \in Threads, joined \subseteq joined',
           \A u \in Threads \ {t} : /\ pc[u] \in Creating => pc'[u] \in Creating
                                    /\ vectorClock'[u] = vectorClock[u],
           \/ vectorClock'[t][t] = vectorClock[t][t] + 1
           \/ /\ vectorClock'[t][t] = vectorClock[t][t]
              /\ pc[t] \in Creating => pc'[t] \in Creating
    PROVE  /\ Limit \in Clock /\ Limit' \in Clock /\ Below(Limit, Limit')
           /\ \A j \in Threads : vectorClock'[j][j] <= Limit'[j]
  <1>1. /\ Limit \in Clock
        /\ \A j \in Threads : Limit[j] = vectorClock[j][j] + Slack(j)
        /\ \A j \in Threads : vectorClock[j][j] \in Nat
    BY LimitType
  <1>2. \A j \in Threads : vectorClock'[j][j] \in Nat
    BY DEF TypeOK, Clock
  <1>3. \A j \in Threads : Slack(j) \in {0, 1} /\ Slack(j)' \in {0, 1}
    BY DEF Slack
  <1>4. Limit' = [j \in Threads |-> vectorClock'[j][j] + Slack(j)']
    BY DEF Limit
  <1>5. \A j \in Threads : vectorClock'[j][j] + Slack(j)' \in Nat
    BY <1>2, <1>3
  <1>6. Limit' \in Clock
    BY <1>4, <1>5 DEF Clock
  <1>7. ASSUME NEW j \in Threads PROVE Limit[j] <= Limit'[j]
    <2>1. CASE vectorClock'[j][j] = vectorClock[j][j] + 1
      BY <1>1, <1>2, <1>3, <1>4, <2>1
    <2>2. CASE /\ vectorClock'[j][j] = vectorClock[j][j]
               /\ pc[j] \in Creating => pc'[j] \in Creating
      <3>1. Slack(j) <= Slack(j)'
        BY <2>2 DEF Slack
      <3> QED BY <1>1, <1>2, <1>3, <1>4, <2>2, <3>1
    <2> QED BY <2>1, <2>2
  <1>8. \A j \in Threads : vectorClock'[j][j] <= Limit'[j]
    BY <1>2, <1>3, <1>4
  <1> QED BY <1>1, <1>6, <1>7, <1>8 DEF Below

\* Steps without a join keep the final clocks.
LEMMA JoinKept ==
    ASSUME JoinInv, UNCHANGED <<joined, joinVCMap>>,
           \A u \in Threads :
              /\ pc'[u] = "join" => pc[u] = "join" /\ thread'[u] = thread[u]
              /\ pc[u] = "exited" => pc'[u] = "exited" /\ vectorClock'[u] = vectorClock[u],
           joined \subseteq Threads
    PROVE  JoinInv'
  BY DEF JoinInv

-----------------------------------------------------------------------------
\* What holds in every program: no clock is ahead of what it speaks of.

\* No clock, wherever it is kept, is ahead of what the threads have counted.
BoundInv ==
    /\ \A t \in Threads :
        /\ Below(vectorClock[t], Limit)
        /\ pc[t] \in {"none", "spawned"} => vectorClock[t] = ZeroClock
    /\ \A m \in Mutexes : Below(unlockedThreadMap[m].vectorClock, Limit)
    /\ \A cond \in Conds : Below(notifiedThreadMap[cond].vectorClock, Limit)
    /\ \A b \in Barriers :
        /\ Below(barrierWaitMap[b].vectorClock, Limit)
        /\ Below(barrierWaitMap[b].previousVectorClock, Limit)

AheadInv == BoundInv /\ JoinInv

\* Where the clocks that are kept outside a thread come from in a step of t:
\* a thread leaves its clock, a barrier starts from nothing or merges it.
Handed(t) ==
    /\ \A m \in Mutexes : unlockedThreadMap'[m].vectorClock
            \in {unlockedThreadMap[m].vectorClock, vectorClock'[t]}
    /\ \A cond \in Conds : notifiedThreadMap'[cond].vectorClock
            \in {notifiedThreadMap[cond].vectorClock, vectorClock'[t]}
    /\ \A b \in Barriers :
        LET merged == receiveAction(barrierWaitMap[b].vectorClock, vectorClock'[t]) IN
        /\ barrierWaitMap'[b].vectorClock
            \in {barrierWaitMap[b].vectorClock, ZeroClock, merged}
        /\ barrierWaitMap'[b].previousVectorClock
            \in {barrierWaitMap[b].previousVectorClock, ZeroClock, merged}

\* Only t's clock changes, and no thread but t leaves pthread_create or goes
\* back behind its start.
Alone(t) ==
    /\ \A u \in Threads \ {t} :
        /\ vectorClock'[u] = vectorClock[u]
        /\ pc[u] \in Creating => pc'[u] \in Creating
        /\ pc'[u] \in {"none", "spawned"} => pc[u] \in {"none", "spawned"}
    /\ pc'[t] \in {"none", "spawned"} =>
        pc[t] \in {"none", "spawned"} /\ vectorClock'[t] = vectorClock[t]
    /\ joined \subseteq joined'

\* The larger of two bounded clocks is bounded.
LEMMA ReceiveBelow ==
    ASSUME NEW v \in Clock, NEW w \in Clock, NEW b, Below(v, b), Below(w, b)
    PROVE  Below(receiveAction(v, w), b)
  BY DEF receiveAction, Below

\* A step that starts a new epoch of t, or keeps its count, with a clock that
\* knows of nothing ahead keeps all clocks bounded.
LEMMA BoundsKept ==
    ASSUME TypeOK, TypeOK', BoundInv, NEW t \in Threads, Alone(t), Handed(t),
           \/ vectorClock'[t][t] = vectorClock[t][t] + 1
           \/ /\ vectorClock'[t][t] = vectorClock[t][t]
              /\ pc[t] \in Creating => pc'[t] \in Creating,
           \A u \in Threads \ {t} : \/ vectorClock'[t][u] <= Limit[u]
                                    \/ vectorClock'[t][u] <= Limit'[u]
    PROVE  BoundInv'
  <1>1. /\ Limit \in Clock /\ Limit' \in Clock /\ Below(Limit, Limit')
        /\ \A j \in Threads : vectorClock'[j][j] <= Limit'[j]
    BY LimitGrows DEF Alone
  <1>2. /\ vectorClock \in [Threads -> Clock] /\ vectorClock' \in [Threads -> Clock]
        /\ unlockedThreadMap \in [Mutexes -> ThreadInfo]
        /\ notifiedThreadMap \in [Conds -> ThreadInfo]
        /\ barrierWaitMap \in [Barriers -> BarrierData]
    BY DEF TypeOK
  <1>3. Below(vectorClock'[t], Limit')
    <2>1. ASSUME NEW u \in Threads PROVE vectorClock'[t][u] <= Limit'[u]
      <3>1. /\ vectorClock'[t][u] \in Nat /\ Limit[u] \in Nat /\ Limit'[u] \in Nat
            /\ Limit[u] <= Limit'[u]
        BY <1>1, <1>2 DEF Clock, Below
      <3>2. CASE u = t
        BY <1>1, <3>2
      <3>3. CASE u # t
        BY <3>1, <3>3
      <3> QED BY <3>2, <3>3
    <2> QED BY <2>1 DEF Below
  <1>4. ASSUME NEW v \in Clock, Below(v, Limit) PROVE Below(v, Limit')
    BY <1>1, <1>4, BelowTransitive
  <1>5. ZeroClock \in Clock /\ Below(ZeroClock, Limit')
    BY <1>1 DEF ZeroClock, Clock, Below
  <1>6. ASSUME NEW u \in Threads
        PROVE  /\ Below(vectorClock'[u], Limit')
               /\ pc'[u] \in {"none", "spawned"} => vectorClock'[u] = ZeroClock
    <2>1. CASE u = t
      BY <1>3, <2>1 DEF Alone, BoundInv
    <2>2. CASE u # t
      <3>1. vectorClock'[u] = vectorClock[u] /\ vectorClock[u] \in Clock
        BY <1>2, <2>2 DEF Alone
      <3>2. Below(vectorClock[u], Limit')
        BY <1>4, <3>1 DEF BoundInv
      <3>3. pc'[u] \in {"none", "spawned"} => vectorClock[u] = ZeroClock
        BY <2>2 DEF Alone, BoundInv
      <3> QED BY <3>1, <3>2, <3>3
    <2> QED BY <2>1, <2>2
  <1>7. ASSUME NEW m \in Mutexes PROVE Below(unlockedThreadMap'[m].vectorClock, Limit')
    <2>1. unlockedThreadMap[m].vectorClock \in Clock
      BY <1>2 DEF ThreadInfo
    <2>2. Below(unlockedThreadMap[m].vectorClock, Limit')
      BY <1>4, <2>1 DEF BoundInv
    <2> QED BY <1>3, <2>2 DEF Handed
  <1>8. ASSUME NEW cond \in Conds PROVE Below(notifiedThreadMap'[cond].vectorClock, Limit')
    <2>1. notifiedThreadMap[cond].vectorClock \in Clock
      BY <1>2 DEF ThreadInfo
    <2>2. Below(notifiedThreadMap[cond].vectorClock, Limit')
      BY <1>4, <2>1 DEF BoundInv
    <2> QED BY <1>3, <2>2 DEF Handed
  <1>9. ASSUME NEW b \in Barriers
        PROVE  /\ Below(barrierWaitMap'[b].vectorClock, Limit')
               /\ Below(barrierWaitMap'[b].previousVectorClock, Limit')
    <2>1. /\ barrierWaitMap[b].vectorClock \in Clock
          /\ barrierWaitMap[b].previousVectorClock \in Clock
      BY <1>2 DEF BarrierData
    <2>2. /\ Below(barrierWaitMap[b].vectorClock, Limit')
          /\ Below(barrierWaitMap[b].previousVectorClock, Limit')
      BY <1>4, <2>1 DEF BoundInv
    <2>3. Below(receiveAction(barrierWaitMap[b].vectorClock, vectorClock'[t]), Limit')
      BY <1>2, <1>3, <2>1, <2>2, ReceiveBelow
    <2> QED BY <1>5, <2>2, <2>3 DEF Handed
  <1> QED BY <1>6, <1>7, <1>8, <1>9 DEF BoundInv

\* The steps that leave every clock where it is.
LEMMA StillBound ==
    ASSUME TypeOK, TypeOK', BoundInv, NEW t \in Threads, Alone(t),
           UNCHANGED <<vectorClock, unlockedThreadMap, notifiedThreadMap>>,
           UNCHANGED barrierWaitMap
           \/ \E b \in Barriers, size \in BarrierSizes :
                barrierWaitMap' = [barrierWaitMap EXCEPT ![b] = NewBarrierData(size)],
           pc[t] \in Creating => pc'[t] \in Creating
    PROVE  BoundInv'
  <1>1. Handed(t)
    <2>1. \A b \in Barriers :
            \/ barrierWaitMap'[b] = barrierWaitMap[b]
            \/ \E size \in BarrierSizes : barrierWaitMap'[b] = NewBarrierData(size)
      BY DEF TypeOK
    <2>2. ASSUME NEW b \in Barriers
          PROVE  /\ barrierWaitMap'[b].vectorClock
                        \in {barrierWaitMap[b].vectorClock, ZeroClock}
                 /\ barrierWaitMap'[b].previousVectorClock
                        \in {barrierWaitMap[b].previousVectorClock, ZeroClock}
      <3>1. CASE barrierWaitMap'[b] = barrierWaitMap[b]
        BY <3>1
      <3>2. ASSUME NEW size \in BarrierSizes, barrierWaitMap'[b] = NewBarrierData(size)
            PROVE  /\ barrierWaitMap'[b].vectorClock = ZeroClock
                   /\ barrierWaitMap'[b].previousVectorClock = ZeroClock
        BY <3>2 DEF NewBarrierData
      <3> QED BY <2>1, <3>1, <3>2
    <2> QED BY <2>2 DEF Handed
  <1>2. \A u \in Threads : vectorClock'[t][u] <= Limit[u]
    BY DEF BoundInv, Below
  <1>3. vectorClock'[t][t] = vectorClock[t][t]
    OBVIOUS
  <1> QED BY <1>1, <1>2, <1>3, BoundsKept

\* The steps that start a new epoch of t and receive nothing.
LEMMA AdvanceBound ==
    ASSUME TypeOK, TypeOK', BoundInv, NEW t \in Threads, Alone(t), Handed(t),
           SetClock(t, advance(vectorClock[t], t))
    PROVE  BoundInv'
  <1>1. vectorClock \in [Threads -> Clock] /\ vectorClock[t] \in Clock
    BY DEF TypeOK
  <1>2. /\ vectorClock'[t][t] = vectorClock[t][t] + 1
        /\ \A u \in Threads \ {t} : vectorClock'[t][u] = vectorClock[t][u]
    BY <1>1 DEF SetClock, advance, Clock
  <1>3. \A u \in Threads \ {t} : vectorClock'[t][u] <= Limit[u]
    BY <1>2 DEF BoundInv, Below
  <1> QED BY <1>2, <1>3, BoundsKept

-----------------------------------------------------------------------------
\* Thread creation, joining, start and end.

\* What the proofs of these steps have in common.
Ground ==
    /\ TypeOK /\ TypeOK' /\ BoundInv /\ JoinInv
    /\ FamilyInv /\ LockInv /\ HandshakeInv /\ HandleInv /\ FinalClockInv
    /\ UNCHANGED syncMaps

\* Where nothing outside a thread changes, nothing is handed over.
LEMMA NothingHanded ==
    ASSUME NEW t \in Threads, UNCHANGED syncMaps
    PROVE  Handed(t)
  BY DEF Handed, syncMaps

\* The handlers of pthread_create.
LEMMA CreatingAhead ==
    ASSUME Ground, NEW t \in Threads,
           CreateCall(t) \/ CreateTimeout(t) \/ CreatePublish(t) \/ CreateEpoch(t)
    PROVE  AheadInv'
  <1> USE DEF At, Goto
  <1>0. /\ TypeOK /\ TypeOK' /\ BoundInv /\ JoinInv /\ FamilyInv
        /\ pc \in [Threads -> PcValues] /\ thread \in [Threads -> ThreadIds]
        /\ vectorClock \in [Threads -> Clock] /\ joined \subseteq Threads
        /\ Handed(t) /\ UNCHANGED <<unlockedThreadMap, notifiedThreadMap, barrierWaitMap>>
    BY NothingHanded DEF Ground, TypeOK, syncMaps
  <1>1. UNCHANGED <<joined, joinVCMap>> /\ joined \subseteq joined'
    BY DEF CreateCall, Spawn, CreateTimeout, CreatePublish, Publish, CreateEpoch, program
  <1>2. /\ \A u \in Threads :
            /\ pc'[u] = "join" => pc[u] = "join" /\ thread'[u] = thread[u]
            /\ pc[u] = "exited" => pc'[u] = "exited" /\ vectorClock'[u] = vectorClock[u]
        /\ \A u \in Threads :
            /\ u # t => vectorClock'[u] = vectorClock[u]
            /\ u # t => (pc[u] \in Creating => pc'[u] \in Creating)
            /\ pc'[u] \in {"none", "spawned"} =>
                pc[u] \in {"none", "spawned"} /\ vectorClock'[u] = vectorClock[u]
        /\ ~ CreateEpoch(t) => (pc[t] \in Creating => pc'[t] \in Creating)
    <2>1. CASE CreateCall(t)
      <3>1. /\ pc[t] = "run" /\ nextTid < MaxThreads /\ UNCHANGED vectorClock
            /\ pc' = [pc EXCEPT ![t] = "create", ![nextTid] = "spawned"]
            /\ thread' = [thread EXCEPT ![t] = nextTid]
        BY <2>1 DEF CreateCall, Spawn
      <3>2. nextTid \in Threads /\ nextTid > Newest
        BY <3>1, InstanceAssumption, ThreadCountAssumption DEF Ground, TypeOK, Threads, Newest
      <3>3. pc[nextTid] = "none" /\ t # nextTid
        BY <1>0, <3>1, <3>2 DEF FamilyInv
      <3>4. /\ pc'[t] = "create" /\ pc'[nextTid] = "spawned"
            /\ \A u \in Threads \ {t, nextTid} : pc'[u] = pc[u]
            /\ \A u \in Threads \ {t} : thread'[u] = thread[u]
        BY <1>0, <3>1, <3>2, <3>3
      <3> QED BY <3>1, <3>3, <3>4 DEF Creating
    <2>2. CASE CreateTimeout(t)
      BY <2>2 DEF CreateTimeout, program
    <2>3. CASE CreatePublish(t)
      <3>1. /\ pc[t] = "create" /\ pc' = [pc EXCEPT ![t] = "publish"]
            /\ thread' = thread /\ UNCHANGED vectorClock
        BY <2>3 DEF CreatePublish, Publish, program
      <3> QED BY <1>0, <3>1 DEF Creating
    <2>4. CASE CreateEpoch(t)
      <3>1. /\ pc[t] = "publish" /\ pc' = [pc EXCEPT ![t] = "run"]
            /\ thread' = [thread EXCEPT ![t] = NO_ID]
            /\ SetClock(t, advance(vectorClock[t], t))
        BY <2>4 DEF CreateEpoch
      <3>2. /\ pc'[t] = "run" /\ \A u \in Threads \ {t} : pc'[u] = pc[u]
            /\ \A u \in Threads \ {t} : thread'[u] = thread[u]
            /\ \A u \in Threads \ {t} : vectorClock'[u] = vectorClock[u]
        BY <1>0, <3>1 DEF SetClock
      <3>3. t \in Threads /\ pc[t] # "exited" /\ pc'[t] # "join"
            /\ pc'[t] \notin {"none", "spawned"}
        BY <3>1, <3>2
      <3> QED BY <2>4, <3>2, <3>3
    <2> QED BY <2>1, <2>2, <2>3, <2>4
  <1>3. JoinInv'
    BY <1>0, <1>1, <1>2, JoinKept
  <1>4. Alone(t)
    BY <1>1, <1>2 DEF Alone
  <1>5. CASE CreateEpoch(t)
    <2>1. SetClock(t, advance(vectorClock[t], t))
      BY <1>5 DEF CreateEpoch
    <2> QED BY <1>0, <1>3, <1>4, <2>1, AdvanceBound DEF AheadInv
  <1>6. CASE ~ CreateEpoch(t)
    <2>1. UNCHANGED vectorClock
      BY <1>6 DEF CreateCall, Spawn, CreateTimeout, CreatePublish, Publish
    <2> QED BY <1>0, <1>2, <1>3, <1>4, <1>6, <2>1, StillBound DEF AheadInv
  <1> QED BY <1>5, <1>6

\* A thread starts with the clock of its creator, which is in pthread_create.
LEMMA StartAhead ==
    ASSUME Ground, NEW t \in Threads, ThreadStart(t)
    PROVE  AheadInv'
  <1> USE DEF At, Goto
  <1>0. /\ TypeOK /\ TypeOK' /\ BoundInv /\ JoinInv /\ FamilyInv
        /\ pc \in [Threads -> PcValues] /\ vectorClock \in [Threads -> Clock]
        /\ joined \subseteq Threads /\ parent[t] \in ThreadIds
        /\ Handed(t) /\ UNCHANGED <<unlockedThreadMap, notifiedThreadMap, barrierWaitMap>>
    BY NothingHanded DEF Ground, TypeOK, syncMaps
  <1>1. /\ pc[t] = "spawned" /\ UNCHANGED <<thread, joined, joinVCMap>>
        /\ joined \subseteq joined'
    BY DEF ThreadStart, program
  <1>2. CASE ~ (threadCount + 1 < MAX_THREAD_COUNT)
    <2>1. UNCHANGED <<pc, vectorClock>>
      BY <1>2 DEF ThreadStart
    <2>2. Alone(t)
      BY <1>1, <2>1 DEF Alone
    <2>3. BoundInv'
      BY <1>0, <2>1, <2>2, StillBound
    <2> QED BY <1>0, <1>1, <2>1, <2>3, JoinKept DEF AheadInv
  <1>3. CASE threadCount + 1 < MAX_THREAD_COUNT
    <2>1. pc'[t] = "run" /\ \A u \in Threads \ {t} : pc'[u] = pc[u]
      BY <1>0, <1>3 DEF ThreadStart
    <2>2. /\ vectorClock[t] = ZeroClock /\ vectorClock[t][t] = 0
          /\ Limit \in Clock /\ Limit[t] = 0
      <3>1. Slack(t) = 0
        BY <1>0, <1>1 DEF Slack, Creating, JoinInv
      <3>2. vectorClock[t] = ZeroClock
        BY <1>0, <1>1 DEF BoundInv
      <3> QED BY <1>0, <3>1, <3>2, LimitType DEF ZeroClock
    <2>3. /\ \A u \in Threads \ {t} : vectorClock'[u] = vectorClock[u]
          /\ vectorClock'[t][t] = vectorClock[t][t] + 1
          /\ \A u \in Threads \ {t} : vectorClock'[t][u] <= Limit[u]
      <3>1. CASE parent[t] # NO_ID
        <4> DEFINE p == parent[t]
                   w == ChildClock(vectorClock[p], p, t)
        <4>1. p \in Threads /\ t # 0
          BY <1>0, <3>1 DEF FamilyInv, ThreadIds
        <4>2. pc[p] = "create" /\ p # t
          BY <1>1, <4>1 DEF Ground, HandshakeInv
        <4>3. vectorClock[p] \in Clock /\ vectorClock[p][p] \in Nat
          BY <1>0, <4>1 DEF Clock
        <4>4. vectorClock[p][t] = 0
          <5>1. vectorClock[p][t] <= Limit[t] /\ vectorClock[p][t] \in Nat
            BY <1>0, <4>1, <4>3 DEF BoundInv, Below, Clock
          <5> QED BY <2>2, <5>1
        <4>5. \A u \in Threads : w[u] = IF u \in {p, t} THEN vectorClock[p][u] + 1
                                                      ELSE vectorClock[p][u]
          BY <4>1, <4>3 DEF ChildClock, Clock
        <4>6. Limit[p] = vectorClock[p][p] + 1
          BY <1>0, <4>1, <4>2, LimitType DEF Slack, Creating
        <4>7. \A u \in Threads \ {t} : w[u] <= Limit[u]
          <5>1. \A u \in Threads : vectorClock[p][u] <= Limit[u]
            BY <1>0, <4>1 DEF BoundInv, Below
          <5>2. \A u \in Threads \ {t} : u # p => w[u] = vectorClock[p][u]
            BY <4>5
          <5>3. w[p] <= Limit[p]
            BY <4>1, <4>3, <4>5, <4>6
          <5> QED BY <5>1, <5>2, <5>3
        <4>8. w[t] = vectorClock[t][t] + 1
          BY <2>2, <4>4, <4>5
        <4>9. SetClock(t, w)
          BY <1>3, <3>1 DEF ThreadStart
        <4> HIDE DEF w
        <4> QED BY <1>0, <4>7, <4>8, <4>9 DEF SetClock
      <3>2. CASE parent[t] = NO_ID
        <4>1. SetClock(t, FirstClock(t))
          BY <1>3, <3>2 DEF ThreadStart
        <4>2. \A u \in Threads : FirstClock(t)[u] = IF u = t THEN 1 ELSE 0
          BY DEF FirstClock, ZeroClock
        <4>3. \A u \in Threads \ {t} : FirstClock(t)[u] <= Limit[u]
          BY <2>2, <4>2 DEF Clock
        <4> QED BY <1>0, <2>2, <4>1, <4>2, <4>3 DEF SetClock
      <3> QED BY <3>1, <3>2
    <2>4. Alone(t)
      BY <1>1, <2>1, <2>3 DEF Alone
    <2>5. BoundInv'
      BY <1>0, <2>3, <2>4, BoundsKept
    <2>6. JoinInv'
      BY <1>0, <1>1, <2>1, <2>3, JoinKept
    <2> QED BY <2>5, <2>6 DEF AheadInv
  <1> QED BY <1>2, <1>3

\* A thread leaves its final clock for its creator.
LEMMA FiniJoins ==
    ASSUME TypeOK, JoinInv, NEW t \in Threads, ThreadFini(t)
    PROVE  JoinInv'
  <1>0. /\ pc \in [Threads -> PcValues] /\ parent[t] \in ThreadIds
        /\ joinVCMap \in [Threads -> [Threads -> Clock]]
    BY DEF TypeOK
  <1>1. /\ pc[t] = "run" /\ pc' = [pc EXCEPT ![t] = "exited"]
        /\ UNCHANGED <<vectorClock, thread, joined>>
    BY DEF ThreadFini, At, Goto, program
  <1>2. pc'[t] = "exited" /\ \A u \in Threads \ {t} : pc'[u] = pc[u]
    BY <1>0, <1>1
  <1>3. ASSUME NEW p \in Threads, NEW c \in Threads, joinVCMap'[p][c] # ZeroClock
        PROVE  pc'[c] = "exited" /\ joinVCMap'[p][c] = vectorClock[c]
    <2>1. CASE joinVCMap'[p][c] = joinVCMap[p][c]
      BY <1>2, <1>3, <2>1 DEF JoinInv
    <2>2. CASE joinVCMap'[p][c] # joinVCMap[p][c]
      <3>1. /\ parent[t] \in Threads
            /\ joinVCMap' = [joinVCMap EXCEPT ![parent[t]][t] = vectorClock[t]]
        BY <1>0, <2>2 DEF ThreadFini, ThreadIds
      <3>2. p = parent[t] /\ c = t
        BY <1>0, <2>2, <3>1
      <3> QED BY <1>0, <1>2, <3>1, <3>2
    <2> QED BY <2>1, <2>2
  <1>4. \A c \in joined : pc'[c] = "exited"
    BY <1>1, <1>2 DEF JoinInv, TypeOK
  <1>5. \A u \in Threads : pc'[u] = "join" => pc[u] = "join"
    BY <1>2
  <1> QED BY <1>1, <1>3, <1>4, <1>5 DEF JoinInv

\* pthread_join is called for a thread nobody has joined or is joining.
LEMMA JoinCallJoins ==
    ASSUME TypeOK, JoinInv, NEW t \in Threads, NEW c \in Threads, JoinCall(t, c)
    PROVE  JoinInv'
  <1>0. pc \in [Threads -> PcValues] /\ thread \in [Threads -> ThreadIds]
        /\ joined \subseteq Threads
    BY DEF TypeOK
  <1>1. /\ pc[t] = "run" /\ pc' = [pc EXCEPT ![t] = "join"]
        /\ thread' = [thread EXCEPT ![t] = c]
        /\ c \notin joined /\ \A u \in Threads : pc[u] = "join" => thread[u] # c
        /\ UNCHANGED <<vectorClock, joined, joinVCMap>>
    BY DEF JoinCall, At, Goto
  <1>2. /\ pc'[t] = "join" /\ thread'[t] = c
        /\ \A u \in Threads \ {t} : pc'[u] = pc[u] /\ thread'[u] = thread[u]
    BY <1>0, <1>1
  <1>3. \A u \in Threads : pc[u] = "exited" => pc'[u] = "exited"
    BY <1>1, <1>2
  <1>4. ASSUME NEW u \in Threads, pc'[u] = "join"
        PROVE  /\ thread'[u] \notin joined
               /\ \A v \in Threads \ {u} : pc'[v] = "join" => thread'[v] # thread'[u]
    <2>1. CASE u = t
      BY <1>1, <1>2, <2>1
    <2>2. CASE u # t
      BY <1>1, <1>2, <1>4, <2>2 DEF JoinInv
    <2> QED BY <2>1, <2>2
  <1> QED BY <1>0, <1>1, <1>3, <1>4 DEF JoinInv

\* The step of t that ends the join of c.
JoinEnds(t, c) ==
    /\ pc[t] = "join" /\ pc[c] = "exited" /\ c = thread[t] /\ c \notin joined
    /\ SetClock(t, receiveWithIncrement(vectorClock[t], t, vectorClock[c], c))
    /\ past' = [past EXCEPT ![t] =
                    past[t] \cup {Epoch(t)} \cup (past[c] \cup {Epoch(c)})]
    /\ joined' = joined \cup {c} /\ joined \subseteq joined'
    /\ thread' = [thread EXCEPT ![t] = NO_ID]
    /\ pc' = [pc EXCEPT ![t] = "run"]
    /\ UNCHANGED joinVCMap

\* A join that returns finds the final clock of the thread, or stops the tool.
LEMMA JoinReturnEnds ==
    ASSUME HandleInv, JoinInv, NEW t \in Threads, thread[t] \in Threads, JoinReturn(t)
    PROVE  \/ JoinEnds(t, thread[t])
           \/ UNCHANGED <<pc, vectorClock, past, joined, thread, joinVCMap>>
  <1> DEFINE c == thread[t]
             p == pthreadPinIdMap[c]
  <1>1. pc[t] = "join" /\ pc[c] = "exited" /\ UNCHANGED joinVCMap
    BY DEF JoinReturn, At
  <1>2. CASE ~ (p # NO_ID /\ joinVCMap[t][p] # ZeroClock)
    BY <1>1, <1>2 DEF JoinReturn
  <1>3. CASE p # NO_ID /\ joinVCMap[t][p] # ZeroClock
    <2>1. p = c
      BY <1>3 DEF HandleInv
    <2>2. joinVCMap[t][c] = vectorClock[c] /\ c \notin joined
      BY <1>1, <1>3, <2>1 DEF JoinInv
    <2> QED BY <1>1, <1>3, <2>1, <2>2 DEF JoinReturn, JoinEnds, ExtendPast, Goto
  <1> QED BY <1>2, <1>3

\* The thread that was joined stays the only one of its joiner.
LEMMA JoinEndJoins ==
    ASSUME TypeOK, JoinInv, NEW t \in Threads, NEW c \in Threads, JoinEnds(t, c)
    PROVE  JoinInv'
  <1>0. pc \in [Threads -> PcValues] /\ thread \in [Threads -> ThreadIds]
        /\ vectorClock \in [Threads -> Clock] /\ joined \subseteq Threads
    BY DEF TypeOK
  <1>1. /\ pc'[t] = "run" /\ \A u \in Threads \ {t} : pc'[u] = pc[u]
        /\ \A u \in Threads \ {t} : thread'[u] = thread[u]
        /\ \A u \in Threads \ {t} : vectorClock'[u] = vectorClock[u]
    BY <1>0 DEF JoinEnds, SetClock
  <1>2. \A u \in Threads : pc[u] = "exited" => u # t /\ pc'[u] = "exited"
    BY <1>1 DEF JoinEnds
  <1>3. \A u \in joined' : pc'[u] = "exited"
    BY <1>0, <1>2 DEF JoinInv, JoinEnds
  <1>4. ASSUME NEW u \in Threads, pc'[u] = "join"
        PROVE  /\ thread'[u] \notin joined'
               /\ \A v \in Threads \ {u} : pc'[v] = "join" => thread'[v] # thread'[u]
    <2>1. u # t /\ pc[u] = "join" /\ thread'[u] = thread[u]
      BY <1>1, <1>4
    <2>2. thread[u] \notin joined /\ thread[u] # c
      BY <2>1 DEF JoinInv, JoinEnds
    <2>3. \A v \in Threads \ {u} : pc'[v] = "join" => thread'[v] # thread'[u]
      BY <1>1, <2>1 DEF JoinInv
    <2> QED BY <2>1, <2>2, <2>3 DEF JoinEnds
  <1>5. ASSUME NEW u \in Threads, NEW v \in Threads, joinVCMap'[u][v] # ZeroClock
        PROVE  pc'[v] = "exited" /\ joinVCMap'[u][v] = vectorClock'[v]
    <2>1. pc[v] = "exited" /\ joinVCMap[u][v] = vectorClock[v]
      BY <1>5 DEF JoinInv, JoinEnds
    <2> QED BY <1>1, <1>2, <2>1 DEF JoinEnds
  <1> QED BY <1>3, <1>4, <1>5 DEF JoinInv

\* The joiner receives the final clock of the thread, and counts its last epoch
\* as over.
LEMMA JoinReturnAhead ==
    ASSUME Ground, NEW t \in Threads, thread[t] \in Threads, JoinReturn(t)
    PROVE  AheadInv'
  <1> DEFINE c == thread[t]
  <1>0. /\ TypeOK /\ TypeOK' /\ BoundInv /\ JoinInv /\ HandleInv
        /\ vectorClock \in [Threads -> Clock] /\ pc \in [Threads -> PcValues]
        /\ joined \subseteq Threads
        /\ Handed(t) /\ UNCHANGED <<unlockedThreadMap, notifiedThreadMap, barrierWaitMap>>
    BY NothingHanded DEF Ground, TypeOK, syncMaps
  <1>1. CASE UNCHANGED <<pc, vectorClock, past, joined, thread, joinVCMap>>
    <2>1. Alone(t)
      BY <1>1 DEF Alone
    <2>2. BoundInv'
      BY <1>0, <1>1, <2>1, StillBound
    <2>3. JoinInv'
      BY <1>0, <1>1, JoinKept
    <2> QED BY <2>2, <2>3 DEF AheadInv
  <1>2. CASE JoinEnds(t, c)
    <2> DEFINE w == receiveWithIncrement(vectorClock[t], t, vectorClock[c], c)
    <2>1. /\ pc[t] = "join" /\ pc[c] = "exited" /\ c # t /\ c \notin joined
          /\ SetClock(t, w) /\ joined' = joined \cup {c} /\ joined \subseteq joined'
          /\ pc' = [pc EXCEPT ![t] = "run"]
      BY <1>2 DEF JoinEnds
    <2>2. \A u \in Threads : vectorClock[t][u] \in Nat /\ vectorClock[c][u] \in Nat
      BY <1>0 DEF Clock
    <2>3. Limit[t] = vectorClock[t][t] /\ Limit[c] = vectorClock[c][c]
      <3>1. Slack(t) = 0 /\ Slack(c) = 0
        BY <1>0, <2>1 DEF Slack, Creating, JoinInv
      <3> QED BY <1>0, <2>2, <3>1, LimitType
    <2>4. \A u \in Threads : vectorClock[t][u] <= Limit[u] /\ vectorClock[c][u] <= Limit[u]
      BY <1>0 DEF BoundInv, Below
    <2>5. vectorClock[c][t] <= vectorClock[t][t] /\ vectorClock[t][c] <= vectorClock[c][c]
      BY <2>3, <2>4
    <2>6. \A u \in Threads :
            w[u] = (IF vectorClock[t][u] > vectorClock[c][u]
                    THEN vectorClock[t][u] ELSE vectorClock[c][u])
                   + IF u \in {t, c} THEN 1 ELSE 0
      BY DEF receiveWithIncrement, receiveAction
    <2>7. w[t] = vectorClock[t][t] + 1 /\ w[c] = vectorClock[c][c] + 1
      BY <2>1, <2>2, <2>5, <2>6
    <2>8. /\ pc'[t] = "run" /\ \A u \in Threads \ {t} : pc'[u] = pc[u]
          /\ \A u \in Threads \ {t} : vectorClock'[u] = vectorClock[u]
          /\ vectorClock'[t] = w
      BY <1>0, <2>1 DEF SetClock
    <2>9. Limit'[c] = vectorClock[c][c] + 1
      <3>1. \A j \in Threads : j \in joined' => Limit'[j] = vectorClock'[j][j] + 1
        BY DEF Limit, Slack
      <3> QED BY <2>1, <2>8, <3>1
    <2>10. ASSUME NEW u \in Threads \ {t}
           PROVE  w[u] <= Limit[u] \/ w[u] <= Limit'[u]
      <3>1. CASE u = c
        BY <2>2, <2>7, <2>9, <3>1
      <3>2. CASE u # c
        <4>1. w[u] = vectorClock[t][u] \/ w[u] = vectorClock[c][u]
          BY <2>2, <2>6, <3>2
        <4> QED BY <2>4, <4>1
      <3> QED BY <3>1, <3>2
    <2>11. Alone(t)
      BY <2>1, <2>8 DEF Alone
    <2>12. BoundInv'
      <3> HIDE DEF w, c
      <3> QED BY <1>0, <2>7, <2>8, <2>10, <2>11, BoundsKept
    <2>13. JoinInv'
      BY <1>0, <1>2, JoinEndJoins
    <2> QED BY <2>12, <2>13 DEF AheadInv
  <1> QED BY <1>0, <1>1, <1>2, JoinReturnEnds

\* All handlers of creation, joining, start and end.
LEMMA LifecycleAhead ==
    ASSUME TypeInv, TypeInv', CreationInv, AheadInv, NEW t \in Threads, Lifecycle(t)
    PROVE  AheadInv'
  <1>1. UNCHANGED syncMaps
    BY DEF Lifecycle, ThreadStart, CreateCall, Spawn, CreateTimeout, CreatePublish,
           Publish, CreateEpoch, JoinCall, JoinReturn, ThreadFini, program
  <1>2. Ground
    BY <1>1 DEF Ground, TypeInv, CreationInv, AheadInv
  <1>3. /\ TypeOK /\ TypeOK' /\ BoundInv /\ JoinInv /\ pc \in [Threads -> PcValues]
        /\ UNCHANGED <<unlockedThreadMap, notifiedThreadMap, barrierWaitMap>>
    BY <1>1 DEF TypeInv, AheadInv, TypeOK, syncMaps
  <1>4. ASSUME ThreadFini(t) \/ \E c \in Threads : JoinCall(t, c)
        PROVE  AheadInv'
    <2>1. /\ pc[t] = "run" /\ UNCHANGED vectorClock /\ joined \subseteq joined'
          /\ \E label \in {"exited", "join"} : pc' = [pc EXCEPT ![t] = label]
      BY <1>4 DEF ThreadFini, JoinCall, At, Goto, program
    <2>2. pc'[t] \in {"exited", "join"} /\ \A u \in Threads \ {t} : pc'[u] = pc[u]
      BY <1>3, <2>1
    <2>3. Alone(t) /\ pc[t] \notin Creating
      BY <2>1, <2>2 DEF Alone, Creating
    <2>4. BoundInv'
      BY <1>3, <2>1, <2>3, StillBound
    <2>5. JoinInv'
      BY <1>3, <1>4, FiniJoins, JoinCallJoins
    <2> QED BY <2>4, <2>5 DEF AheadInv
  <1>5. JoinReturn(t) => thread[t] \in Threads
    BY DEF JoinReturn, At, TypeInv, ArgumentsOK
  <1> QED
    BY <1>2, <1>4, <1>5, CreatingAhead, StartAhead, JoinReturnAhead DEF Lifecycle

-----------------------------------------------------------------------------
\* Accesses, mutexes, condition variables and barriers.

\* Where a thread is while it runs or is in one of these calls.
Local ==
    {"run", "lock", "trylock", "condwait", "asleep", "wake", "signal",
     "barrier", "arrived", "released"}

LocalStep(t) ==
    /\ UNCHANGED <<thread, joined, joinVCMap>>
    /\ pc[t] \in Local
    /\ \A u \in Threads : pc'[u] = pc[u] \/ (pc[u] \in Local /\ pc'[u] \in Local)
    /\ \A u \in Threads \ {t} : vectorClock'[u] = vectorClock[u]

\* A local step starts, ends and joins no thread.
LEMMA LocalAlone ==
    ASSUME TypeOK, JoinInv, NEW t \in Threads, LocalStep(t)
    PROVE  Alone(t) /\ JoinInv' /\ pc[t] \notin Creating
  <1>1. Alone(t) /\ pc[t] \notin Creating
    BY DEF LocalStep, Local, Alone, Creating
  <1>2. \A u \in Threads :
          /\ pc'[u] = "join" => pc[u] = "join" /\ thread'[u] = thread[u]
          /\ pc[u] = "exited" => pc'[u] = "exited" /\ vectorClock'[u] = vectorClock[u]
    BY DEF LocalStep, Local
  <1>3. UNCHANGED <<joined, joinVCMap>> /\ joined \subseteq Threads
    BY DEF LocalStep, TypeOK
  <1> QED BY <1>1, <1>2, <1>3, JoinKept

\* Where at most t's label and clock change, and these within what is local.
LEMMA OwnLocal ==
    ASSUME TypeOK, NEW t \in Threads, NEW label \in Local, pc[t] \in Local,
           pc' = pc \/ pc' = [pc EXCEPT ![t] = label],
           UNCHANGED vectorClock \/ \E w \in Clock : SetClock(t, w),
           UNCHANGED <<thread, joined, joinVCMap>>
    PROVE  LocalStep(t)
  <1>1. pc \in [Threads -> PcValues] /\ vectorClock \in [Threads -> Clock]
    BY DEF TypeOK
  <1>2. \A u \in Threads : pc'[u] = pc[u] \/ (pc[u] \in Local /\ pc'[u] \in Local)
    BY <1>1
  <1>3. \A u \in Threads \ {t} : vectorClock'[u] = vectorClock[u]
    BY <1>1 DEF SetClock
  <1> QED BY <1>2, <1>3 DEF LocalStep

\* Memory accesses.
LEMMA AccessAhead ==
    ASSUME TypeInv, TypeInv', AheadInv, NEW t \in Threads, Access(t)
    PROVE  AheadInv'
  <1>1. /\ UNCHANGED <<pc, thread, joined, vectorClock, joinVCMap, unlockedThreadMap,
                       notifiedThreadMap, barrierWaitMap>>
        /\ pc[t] = "run"
    BY DEF Access, Read, Write, At, program, syncMaps
  <1>2. TypeOK /\ TypeOK' /\ BoundInv /\ JoinInv
    BY DEF TypeInv, AheadInv
  <1>3. LocalStep(t)
    BY <1>1, <1>2, OwnLocal DEF Local
  <1>4. Alone(t) /\ JoinInv'
    BY <1>2, <1>3, LocalAlone
  <1> QED BY <1>1, <1>2, <1>4, StillBound DEF AheadInv

\* A lock receives the clock of the last owner, an unlock leaves its own.
LEMMA MutexAhead ==
    ASSUME TypeInv, TypeInv', AheadInv, NEW t \in Threads, MutexStep(t)
    PROVE  AheadInv'
  <1> USE DEF At, Goto
  <1>0. /\ TypeOK /\ TypeOK' /\ BoundInv /\ JoinInv
        /\ vectorClock \in [Threads -> Clock] /\ vectorClock[t] \in Clock
        /\ unlockedThreadMap \in [Mutexes -> ThreadInfo]
        /\ {"run", "lock", "trylock"} \subseteq Local
        /\ advance(vectorClock[t], t) \in Clock
    BY AdvanceGrows DEF TypeInv, AheadInv, TypeOK, Local
  <1>1. CASE \/ \E m \in Mutexes, call \in {"lock", "trylock"} : BeforeLock(t, m, call)
             \/ AfterFailedTryLock(t)
    <2>1. /\ pc[t] \in {"run", "trylock"}
          /\ \E label \in {"run", "lock", "trylock"} : pc' = [pc EXCEPT ![t] = label]
          /\ UNCHANGED <<thread, joined, joinVCMap, vectorClock, unlockedThreadMap,
                         notifiedThreadMap, barrierWaitMap>>
      BY <1>1 DEF BeforeLock, AfterFailedTryLock, program, syncMaps
    <2>2. LocalStep(t)
      BY <1>0, <2>1, OwnLocal
    <2>3. Alone(t) /\ JoinInv' /\ pc[t] \notin Creating
      BY <1>0, <2>2, LocalAlone
    <2> QED BY <1>0, <2>1, <2>3, StillBound DEF AheadInv
  <1>2. CASE AfterLock(t)
    <2> DEFINE m == lockAddr[t]
               info == unlockedThreadMap[m]
               a == advance(vectorClock[t], t)
               w == IF info.tid # NO_ID THEN receiveAction(a, info.vectorClock) ELSE a
    <2>1. /\ m \in Mutexes /\ pc[t] \in {"lock", "trylock"}
          /\ pc' = [pc EXCEPT ![t] = "run"]
          /\ UNCHANGED <<thread, joined, joinVCMap, notifiedThreadMap, barrierWaitMap>>
      BY <1>2 DEF AfterLock, TypeInv, ArgumentsOK
    <2>2. CASE m \in Tracked
      <3>1. /\ SetClock(t, w)
            /\ unlockedThreadMap' = [unlockedThreadMap EXCEPT ![m] =
                                        [info EXCEPT !.tid = NO_ID]]
        BY <1>2, <2>2 DEF AfterLock
      <3>2. info \in ThreadInfo /\ info.vectorClock \in Clock
        BY <1>0, <2>1 DEF ThreadInfo
      <3>3. /\ a \in Clock /\ a[t] = vectorClock[t][t] + 1
            /\ \A u \in Threads \ {t} : a[u] = vectorClock[t][u]
        BY <1>0 DEF advance, Clock
      <3>4. Below(info.vectorClock, Limit) /\ Below(vectorClock[t], Limit)
        BY <1>0, <2>1 DEF BoundInv
      <3>5. Limit[t] = vectorClock[t][t] /\ vectorClock[t][t] \in Nat
        <4>1. Slack(t) = 0
          BY <1>0, <2>1 DEF Slack, Creating, JoinInv
        <4> QED BY <1>0, <4>1, LimitType
      <3>6. \A u \in Threads : receiveAction(a, info.vectorClock)[u]
                = IF a[u] > info.vectorClock[u] THEN a[u] ELSE info.vectorClock[u]
        BY DEF receiveAction
      <3>7. w \in Clock
        BY <3>2, <3>3, ReceiveGrows
      <3>8. w[t] = vectorClock[t][t] + 1
        <4>1. info.vectorClock[t] <= vectorClock[t][t] /\ info.vectorClock[t] \in Nat
          BY <3>2, <3>4, <3>5 DEF Below, Clock
        <4> QED BY <3>3, <3>5, <3>6, <4>1
      <3>9. \A u \in Threads \ {t} : w[u] <= Limit[u]
        BY <3>3, <3>4, <3>6 DEF Below
      <3> HIDE DEF w
      <3>10. LocalStep(t)
        BY <1>0, <2>1, <3>1, <3>7, OwnLocal
      <3>11. Alone(t) /\ JoinInv'
        BY <1>0, <3>10, LocalAlone
      <3>12. Handed(t)
        <4>1. \A x \in Mutexes :
                unlockedThreadMap'[x].vectorClock = unlockedThreadMap[x].vectorClock
          BY <1>0, <2>1, <3>1, <3>2 DEF ThreadInfo
        <4> QED BY <2>1, <4>1 DEF Handed
      <3>13. vectorClock'[t] = w
        BY <1>0, <3>1 DEF SetClock
      <3> QED BY <1>0, <3>8, <3>9, <3>11, <3>12, <3>13, BoundsKept DEF AheadInv
    <2>3. CASE m \notin Tracked
      <3>1. UNCHANGED <<vectorClock, unlockedThreadMap>>
        BY <1>2, <2>3 DEF AfterLock
      <3>2. LocalStep(t)
        BY <1>0, <2>1, <3>1, OwnLocal
      <3>3. Alone(t) /\ JoinInv' /\ pc[t] \notin Creating
        BY <1>0, <3>2, LocalAlone
      <3> QED BY <1>0, <2>1, <3>1, <3>3, StillBound DEF AheadInv
    <2> QED BY <2>2, <2>3
  <1>3. ASSUME NEW m \in Mutexes, BeforeUnlock(t, m)
        PROVE  AheadInv'
    <2>1. /\ pc[t] = "run" /\ pc' = pc
          /\ UNCHANGED <<thread, joined, joinVCMap, notifiedThreadMap, barrierWaitMap>>
      BY <1>3 DEF BeforeUnlock
    <2>2. CASE m \in Tracked
      <3>1. /\ SetClock(t, advance(vectorClock[t], t))
            /\ unlockedThreadMap' = [unlockedThreadMap EXCEPT
                    ![m] = [tid |-> t, vectorClock |-> vectorClock'[t]]]
        BY <1>3, <2>2 DEF BeforeUnlock, LeaveClock
      <3>2. LocalStep(t)
        BY <1>0, <2>1, <3>1, OwnLocal
      <3>3. Alone(t) /\ JoinInv'
        BY <1>0, <3>2, LocalAlone
      <3>4. Handed(t)
        BY <1>0, <2>1, <3>1 DEF Handed
      <3> QED BY <1>0, <3>1, <3>3, <3>4, AdvanceBound DEF AheadInv
    <2>3. CASE m \notin Tracked
      <3>1. UNCHANGED <<vectorClock, unlockedThreadMap>>
        BY <1>3, <2>3 DEF BeforeUnlock
      <3>2. LocalStep(t)
        BY <1>0, <2>1, <3>1, OwnLocal
      <3>3. Alone(t) /\ JoinInv' /\ pc[t] \notin Creating
        BY <1>0, <3>2, LocalAlone
      <3> QED BY <1>0, <2>1, <3>1, <3>3, StillBound DEF AheadInv
    <2> QED BY <2>2, <2>3
  <1> QED BY <1>1, <1>2, <1>3 DEF MutexStep

\* The steps of a thread that receives a clock and goes on with its epoch.
LEMMA ReceiveBound ==
    ASSUME TypeOK, TypeOK', BoundInv, JoinInv, NEW t \in Threads, LocalStep(t),
           NEW x \in Clock, Below(x, Limit), Handed(t),
           SetClock(t, receiveAction(vectorClock[t], x))
    PROVE  AheadInv'
  <1> DEFINE w == receiveAction(vectorClock[t], x)
  <1>1. Alone(t) /\ JoinInv' /\ pc[t] \notin Creating
    BY LocalAlone
  <1>2. vectorClock \in [Threads -> Clock] /\ vectorClock[t] \in Clock
    BY DEF TypeOK
  <1>3. Limit[t] = vectorClock[t][t] /\ vectorClock[t][t] \in Nat /\ x[t] \in Nat
    <2>1. Slack(t) = 0
      BY DEF Slack, Creating, JoinInv, LocalStep, Local
    <2> QED BY <1>2, <2>1, LimitType DEF Clock
  <1>4. \A u \in Threads : w[u] = IF vectorClock[t][u] > x[u] THEN vectorClock[t][u] ELSE x[u]
    BY DEF receiveAction
  <1>5. w[t] = vectorClock[t][t]
    BY <1>3, <1>4 DEF Below
  <1>6. \A u \in Threads : w[u] <= Limit[u]
    BY <1>4 DEF BoundInv, Below
  <1>7. vectorClock'[t] = w
    BY <1>2 DEF SetClock
  <1> HIDE DEF w
  <1> QED BY <1>1, <1>5, <1>6, <1>7, BoundsKept DEF AheadInv

\* A wait leaves the clock with the mutex, a signal with the condition
\* variable, and the thread that wakes receives what it finds there.
LEMMA CondAhead ==
    ASSUME TypeInv, TypeInv', AheadInv, NEW t \in Threads, CondStep(t)
    PROVE  AheadInv'
  <1> USE DEF At, Goto
  <1>0. /\ TypeOK /\ TypeOK' /\ BoundInv /\ JoinInv
        /\ pc \in [Threads -> PcValues]
        /\ vectorClock \in [Threads -> Clock] /\ vectorClock[t] \in Clock
        /\ unlockedThreadMap \in [Mutexes -> ThreadInfo]
        /\ notifiedThreadMap \in [Conds -> ThreadInfo]
        /\ {"run", "condwait", "asleep", "wake", "signal"} \subseteq Local
        /\ advance(vectorClock[t], t) \in Clock
    BY AdvanceGrows DEF TypeInv, AheadInv, TypeOK, Local
  <1>1. ASSUME NEW cond \in Conds, NEW m \in Mutexes, BeforeCondWait(t, cond, m)
        PROVE  AheadInv'
    <2>1. /\ pc[t] = "run" /\ pc' = [pc EXCEPT ![t] = "condwait"]
          /\ UNCHANGED <<thread, joined, joinVCMap, notifiedThreadMap, barrierWaitMap>>
      BY <1>1 DEF BeforeCondWait, program
    <2>2. CASE m \in Tracked
      <3>1. /\ SetClock(t, advance(vectorClock[t], t))
            /\ unlockedThreadMap' = [unlockedThreadMap EXCEPT
                    ![m] = [tid |-> t, vectorClock |-> vectorClock'[t]]]
        BY <1>1, <2>2 DEF BeforeCondWait, LeaveClock
      <3>2. LocalStep(t)
        BY <1>0, <2>1, <3>1, OwnLocal
      <3>3. Alone(t) /\ JoinInv'
        BY <1>0, <3>2, LocalAlone
      <3>4. Handed(t)
        BY <1>0, <2>1, <3>1 DEF Handed
      <3> QED BY <1>0, <3>1, <3>3, <3>4, AdvanceBound DEF AheadInv
    <2>3. CASE m \notin Tracked
      <3>1. UNCHANGED <<vectorClock, unlockedThreadMap>>
        BY <1>1, <2>3 DEF BeforeCondWait
      <3>2. LocalStep(t)
        BY <1>0, <2>1, <3>1, OwnLocal
      <3>3. Alone(t) /\ JoinInv' /\ pc[t] \notin Creating
        BY <1>0, <3>2, LocalAlone
      <3> QED BY <1>0, <2>1, <3>1, <3>3, StillBound DEF AheadInv
    <2> QED BY <2>2, <2>3
  <1>2. CASE CondSleep(t) \/ SpuriousWakeup(t) \/ BeforeCondBroadcast(t)
    <2>1. /\ pc[t] \in {"run", "condwait", "asleep"}
          /\ pc' = pc \/ \E label \in {"asleep", "wake"} : pc' = [pc EXCEPT ![t] = label]
          /\ UNCHANGED <<thread, joined, joinVCMap, vectorClock, unlockedThreadMap,
                         notifiedThreadMap, barrierWaitMap>>
      BY <1>2 DEF CondSleep, SpuriousWakeup, BeforeCondBroadcast, program, syncMaps
    <2>2. LocalStep(t)
      BY <1>0, <2>1, OwnLocal
    <2>3. Alone(t) /\ JoinInv' /\ pc[t] \notin Creating
      BY <1>0, <2>2, LocalAlone
    <2> QED BY <1>0, <2>1, <2>3, StillBound DEF AheadInv
  <1>3. CASE AfterCondWait(t)
    <2> DEFINE x == notifiedThreadMap[condVarAddr[t]].vectorClock
    <2>1. /\ pc[t] = "wake" /\ condVarAddr[t] \in Conds
          /\ UNCHANGED <<thread, joined, joinVCMap, unlockedThreadMap,
                         notifiedThreadMap, barrierWaitMap>>
          /\ pc' = pc \/ pc' = [pc EXCEPT ![t] = "run"]
          /\ UNCHANGED vectorClock \/ SetClock(t, receiveAction(vectorClock[t], x))
      BY <1>3 DEF AfterCondWait, TypeInv, ArgumentsOK, syncMaps
    <2>2. x \in Clock /\ Below(x, Limit)
      BY <1>0, <2>1 DEF ThreadInfo, BoundInv
    <2>3. receiveAction(vectorClock[t], x) \in Clock
      BY <1>0, <2>2, ReceiveGrows
    <2> HIDE DEF x
    <2>4. LocalStep(t)
      BY <1>0, <2>1, <2>3, OwnLocal
    <2>5. CASE UNCHANGED vectorClock
      <3>1. Alone(t) /\ JoinInv' /\ pc[t] \notin Creating
        BY <1>0, <2>4, LocalAlone
      <3> QED BY <1>0, <2>1, <2>5, <3>1, StillBound DEF AheadInv
    <2>6. CASE SetClock(t, receiveAction(vectorClock[t], x))
      <3>1. Handed(t)
        BY <2>1, NothingHanded DEF syncMaps
      <3> QED BY <1>0, <2>2, <2>4, <2>6, <3>1, ReceiveBound
    <2> QED BY <2>1, <2>5, <2>6
  <1>4. ASSUME NEW cond \in Conds, BeforeCondSignal(t, cond)
        PROVE  AheadInv'
    <2>1. /\ pc[t] = "run" /\ pc' = [pc EXCEPT ![t] = "signal"]
          /\ UNCHANGED <<thread, joined, joinVCMap, unlockedThreadMap, barrierWaitMap>>
      BY <1>4 DEF BeforeCondSignal
    <2>2. CASE cond \in Tracked
      <3>1. /\ SetClock(t, advance(vectorClock[t], t))
            /\ notifiedThreadMap' = [notifiedThreadMap EXCEPT
                    ![cond] = [tid |-> t, vectorClock |-> vectorClock'[t]]]
        BY <1>4, <2>2 DEF BeforeCondSignal, Notify
      <3>2. LocalStep(t)
        BY <1>0, <2>1, <3>1, OwnLocal
      <3>3. Alone(t) /\ JoinInv'
        BY <1>0, <3>2, LocalAlone
      <3>4. Handed(t)
        BY <1>0, <2>1, <3>1 DEF Handed
      <3> QED BY <1>0, <3>1, <3>3, <3>4, AdvanceBound DEF AheadInv
    <2>3. CASE cond \notin Tracked
      <3>1. UNCHANGED <<vectorClock, notifiedThreadMap>>
        BY <1>4, <2>3 DEF BeforeCondSignal
      <3>2. LocalStep(t)
        BY <1>0, <2>1, <3>1, OwnLocal
      <3>3. Alone(t) /\ JoinInv' /\ pc[t] \notin Creating
        BY <1>0, <3>2, LocalAlone
      <3> QED BY <1>0, <2>1, <3>1, <3>3, StillBound DEF AheadInv
    <2> QED BY <2>2, <2>3
  <1>5. CASE CondSignal(t)
    <2>1. /\ pc[t] = "signal"
          /\ UNCHANGED <<thread, joined, joinVCMap, vectorClock, unlockedThreadMap,
                         notifiedThreadMap, barrierWaitMap>>
          /\ \/ pc' = [pc EXCEPT ![t] = "run"]
             \/ \E u \in Threads : /\ pc[u] = "asleep"
                                   /\ pc' = [pc EXCEPT ![t] = "run", ![u] = "wake"]
      BY <1>5 DEF CondSignal, Sleepers, syncMaps
    <2>2. \A u \in Threads : pc'[u] = pc[u] \/ (pc[u] \in Local /\ pc'[u] \in Local)
      BY <1>0, <2>1
    <2>3. LocalStep(t)
      BY <1>0, <2>1, <2>2 DEF LocalStep
    <2>4. Alone(t) /\ JoinInv' /\ pc[t] \notin Creating
      BY <1>0, <2>3, LocalAlone
    <2> QED BY <1>0, <2>1, <2>4, StillBound DEF AheadInv
  <1> QED BY <1>1, <1>2, <1>3, <1>4, <1>5 DEF CondStep

\* A thread merges its clock into the barrier's, and receives the merged one.
LEMMA BarrierAhead ==
    ASSUME TypeInv, TypeInv', AheadInv, NEW t \in Threads, BarrierStep(t)
    PROVE  AheadInv'
  <1> USE DEF At, Goto
  <1>0. /\ TypeOK /\ TypeOK' /\ BoundInv /\ JoinInv
        /\ pc \in [Threads -> PcValues]
        /\ vectorClock \in [Threads -> Clock] /\ vectorClock[t] \in Clock
        /\ barrierWaitMap \in [Barriers -> BarrierData]
        /\ {"run", "barrier", "arrived", "released"} \subseteq Local
        /\ advance(vectorClock[t], t) \in Clock
    BY AdvanceGrows DEF TypeInv, AheadInv, TypeOK, Local
  <1>1. ASSUME NEW b \in Barriers, NEW size \in BarrierSizes,
               BeforeBarrierInit(t, b, size)
        PROVE  AheadInv'
    <2>1. /\ pc[t] = "run"
          /\ UNCHANGED <<pc, thread, joined, joinVCMap, vectorClock, unlockedThreadMap,
                         notifiedThreadMap>>
          /\ barrierWaitMap' = [barrierWaitMap EXCEPT ![b] = NewBarrierData(size)]
      BY <1>1 DEF BeforeBarrierInit, program
    <2>2. LocalStep(t)
      BY <1>0, <2>1, OwnLocal
    <2>3. Alone(t) /\ JoinInv' /\ pc[t] \notin Creating
      BY <1>0, <2>2, LocalAlone
    <2> QED BY <1>0, <2>1, <2>3, StillBound DEF AheadInv
  <1>2. ASSUME NEW b \in Barriers, BeforeBarrierWait(t, b)
        PROVE  AheadInv'
    <2>1. /\ pc[t] = "run" /\ pc' = [pc EXCEPT ![t] = "barrier"]
          /\ UNCHANGED <<thread, joined, joinVCMap, unlockedThreadMap, notifiedThreadMap>>
          /\ SetClock(t, advance(vectorClock[t], t))
          /\ barrierWaitMap' = [barrierWaitMap EXCEPT
                    ![b] = EnterBarrier(barrierWaitMap[b], vectorClock'[t])]
      BY <1>2 DEF BeforeBarrierWait, program
    <2>2. LocalStep(t)
      BY <1>0, <2>1, OwnLocal
    <2>3. Alone(t) /\ JoinInv'
      BY <1>0, <2>2, LocalAlone
    <2>4. Handed(t)
      <3>1. \A x \in Barriers : \/ barrierWaitMap'[x] = barrierWaitMap[x]
                               \/ barrierWaitMap'[x]
                                    = EnterBarrier(barrierWaitMap[x], vectorClock'[t])
        BY <1>0, <2>1
      <3>2. ASSUME NEW x \in Barriers,
                   barrierWaitMap'[x] = EnterBarrier(barrierWaitMap[x], vectorClock'[t])
            PROVE  /\ barrierWaitMap'[x].vectorClock
                        \in {ZeroClock, receiveAction(barrierWaitMap[x].vectorClock,
                                                      vectorClock'[t])}
                   /\ barrierWaitMap'[x].previousVectorClock
                        \in {barrierWaitMap[x].previousVectorClock,
                             receiveAction(barrierWaitMap[x].vectorClock,
                                           vectorClock'[t])}
        BY <3>2 DEF EnterBarrier
      <3> QED BY <2>1, <3>1, <3>2 DEF Handed
    <2> QED BY <1>0, <2>1, <2>3, <2>4, AdvanceBound DEF AheadInv
  <1>3. CASE BarrierArrive(t)
    <2> DEFINE here == InBarrier(barrierAddr[t], {"arrived"}) \cup {t}
    <2>1. /\ \A u \in here : pc[u] \in {"barrier", "arrived"}
          /\ pc[t] = "barrier"
          /\ UNCHANGED <<thread, joined, joinVCMap, vectorClock, unlockedThreadMap,
                         notifiedThreadMap, barrierWaitMap>>
      BY <1>3 DEF BarrierArrive, InBarrier, program, syncMaps
    <2>2. \/ pc' = [u \in Threads |-> IF u \in here THEN "released" ELSE pc[u]]
          \/ pc' = [pc EXCEPT ![t] = "arrived"]
      BY <1>3 DEF BarrierArrive
    <2> HIDE DEF here
    <2>3. \A u \in Threads : pc'[u] = pc[u] \/ (pc[u] \in Local /\ pc'[u] \in Local)
      BY <1>0, <2>1, <2>2
    <2>4. LocalStep(t)
      BY <1>0, <2>1, <2>3 DEF LocalStep
    <2>5. Alone(t) /\ JoinInv' /\ pc[t] \notin Creating
      BY <1>0, <2>4, LocalAlone
    <2> QED BY <1>0, <2>1, <2>5, StillBound DEF AheadInv
  <1>4. CASE AfterBarrierWait(t)
    <2> DEFINE x == barrierWaitMap[barrierAddr[t]].previousVectorClock
    <2>1. /\ pc[t] = "released" /\ barrierAddr[t] \in Barriers
          /\ UNCHANGED <<thread, joined, joinVCMap, syncMaps>>
          /\ pc' = [pc EXCEPT ![t] = "run"]
          /\ SetClock(t, receiveAction(vectorClock[t], x))
      BY <1>4 DEF AfterBarrierWait, TypeInv, ArgumentsOK, program
    <2>2. x \in Clock /\ Below(x, Limit)
      BY <1>0, <2>1 DEF BarrierData, BoundInv
    <2>3. receiveAction(vectorClock[t], x) \in Clock
      BY <1>0, <2>2, ReceiveGrows
    <2> HIDE DEF x
    <2>4. LocalStep(t)
      BY <1>0, <2>1, <2>3, OwnLocal
    <2>5. Handed(t)
      BY <2>1, NothingHanded
    <2> QED BY <1>0, <2>1, <2>2, <2>4, <2>5, ReceiveBound
  <1> QED BY <1>1, <1>2, <1>3, <1>4 DEF BarrierStep

-----------------------------------------------------------------------------
\* No clock is ahead of what the threads have counted, in any program.
THEOREM AheadCorrect == Spec => []AheadInv
  <1>1. Init => AheadInv
    <2> SUFFICES ASSUME Init PROVE AheadInv
      OBVIOUS
    <2>1. /\ \A t \in Threads : vectorClock[t] = ZeroClock /\ pc[t] # "join"
          /\ \A p, c \in Threads : joinVCMap[p][c] = ZeroClock
          /\ \A m \in Mutexes : unlockedThreadMap[m].vectorClock = ZeroClock
          /\ \A cond \in Conds : notifiedThreadMap[cond].vectorClock = ZeroClock
          /\ \A b \in Barriers :
                /\ barrierWaitMap[b].vectorClock = ZeroClock
                /\ barrierWaitMap[b].previousVectorClock = ZeroClock
          /\ joined = {}
      BY DEF Init, NoThreadInfo, NewBarrierData
    <2>2. \A u \in Threads : ZeroClock[u] = 0
      BY DEF ZeroClock
    <2>3. Below(ZeroClock, Limit)
      <3>1. \A u \in Threads : Slack(u) \in {0, 1}
        BY DEF Slack
      <3>2. \A u \in Threads : Limit[u] = Slack(u)
        BY <2>1, <2>2, <3>1 DEF Limit
      <3> QED BY <2>2, <3>1, <3>2 DEF Below
    <2>4. BoundInv
      BY <2>1, <2>3 DEF BoundInv
    <2>5. JoinInv
      BY <2>1 DEF JoinInv
    <2> QED BY <2>4, <2>5 DEF AheadInv
  <1>2. TypeInv /\ TypeInv' /\ CreationInv /\ AheadInv /\ [Next]_vars => AheadInv'
    <2> SUFFICES ASSUME TypeInv, TypeInv', CreationInv, AheadInv, [Next]_vars
                 PROVE  AheadInv'
      OBVIOUS
    <2>1. ASSUME NEW t \in Threads,
                 \/ Lifecycle(t) \/ Access(t) \/ MutexStep(t)
                 \/ CondStep(t) \/ BarrierStep(t)
          PROVE  AheadInv'
      BY <2>1, LifecycleAhead, AccessAhead, MutexAhead, CondAhead, BarrierAhead
    <2>2. CASE UNCHANGED vars
      <3>1. UNCHANGED <<pc, thread, joined, vectorClock, joinVCMap, unlockedThreadMap,
                        notifiedThreadMap, barrierWaitMap>>
        BY <2>2 DEF vars, program, syncMaps
      <3>2. \A j \in Threads : Slack(j)' = Slack(j)
        BY <3>1 DEF Slack
      <3>3. Limit' = Limit
        BY <3>1, <3>2 DEF Limit
      <3> QED BY <3>1, <3>3 DEF AheadInv, BoundInv, JoinInv
    <2> QED BY <2>1, <2>2 DEF Next
  <1> QED BY <1>1, <1>2, TypeCorrect, CreationCorrect, PTL DEF Spec

\* No clock is ever ahead of the thread it speaks of by more than an epoch that
\* is being ended in pthread_create or has been joined, in any program: by
\* whatever calls its threads synchronise.
THEOREM NobodyKnowsTheFuture == Spec => []NoFutureKnowledge
  <1>1. TypeInv /\ AheadInv => NoFutureKnowledge
    <2> SUFFICES ASSUME TypeInv, AheadInv, NEW t \in Threads, NEW u \in Threads
                 PROVE  vectorClock[t][u] <= vectorClock[u][u]
                            + (IF pc[u] \in {"create", "publish"}
                                  \/ u \in joined THEN 1 ELSE 0)
      BY DEF NoFutureKnowledge
    <2>1. Limit[u] = vectorClock[u][u] + Slack(u)
      BY LimitType DEF TypeInv
    <2>2. vectorClock[t][u] <= Limit[u]
      BY DEF AheadInv, BoundInv, Below
    <2> QED BY <2>1, <2>2 DEF Slack, Creating
  <1> QED BY <1>1, TypeCorrect, AheadCorrect, PTL

-----------------------------------------------------------------------------
\* Barriers that every thread of the program takes part in.

\* With more threads than places, one that libpthread counts in another
\* generation than the handlers would be missed.
FullBarriers ==
    Barriers # {} => "eager_reinit" \notin Env /\ \A n \in BarrierSizes : n >= MaxThreads

\* The threads whose handler has counted them and that libpthread has not let
\* through.
Inside(b) == InBarrier(b, {"barrier", "arrived"})

\* waiterCount goes back to 0 when the last thread comes, and before any of
\* them has left.  Until then their clocks are in the barrier's vectorClock, and
\* from then on in previousVectorClock.
GatherAt(b) ==
    LET d == barrierWaitMap[b] IN
    /\ d.barrierSize = 0 \/ d.barrierSize >= MaxThreads
    /\ d.waiterCount = IF Cardinality(Inside(b)) = d.barrierSize
                       THEN 0 ELSE Cardinality(Inside(b))
    /\ \A t \in Inside(b) :
          Below(vectorClock[t], IF d.waiterCount = 0 THEN d.previousVectorClock
                                                     ELSE d.vectorClock)

GatherInv == \A b \in Barriers : GatherAt(b)

AtBarrier == {"barrier", "arrived", "released"}

\* Nothing of a barrier changes.
GatherFrame ==
    /\ UNCHANGED <<barrierWaitMap, barrierAddr, pend>>
    /\ \A u \in Threads : (pc[u] \in AtBarrier \/ pc'[u] \in AtBarrier) =>
          pc'[u] = pc[u] /\ vectorClock'[u] = vectorClock[u]

LEMMA GatherFramePreserves ==
    ASSUME GatherInv, GatherFrame PROVE GatherInv'
  <1>1. \A b \in Barriers : Inside(b)' = Inside(b)
    BY DEF Inside, InBarrier, GatherFrame, AtBarrier
  <1>2. /\ barrierWaitMap' = barrierWaitMap
        /\ \A b \in Barriers : \A t \in Inside(b) : vectorClock'[t] = vectorClock[t]
    BY DEF Inside, InBarrier, GatherFrame, AtBarrier
  <1> QED BY <1>1, <1>2 DEF GatherInv, GatherAt

LEMMA ReceiveAbove ==
    ASSUME NEW v \in Clock, NEW w \in Clock
    PROVE  /\ receiveAction(v, w) \in Clock
           /\ Below(v, receiveAction(v, w)) /\ Below(w, receiveAction(v, w))
  BY DEF receiveAction, Clock, Below

\* Creating, joining and locking leave the barriers, and who is in one, alone.
LEMMA AwayFromBarriers ==
    ASSUME TypeInv, CreationInv, NEW t \in Threads,
           Lifecycle(t) \/ Access(t) \/ MutexStep(t)
    PROVE  GatherFrame
  <1> USE DEF At, Goto, SetClock, program, addresses, syncMaps, ghosts
  <1>0. pc \in [Threads -> PcValues] /\ vectorClock \in [Threads -> Clock]
    BY DEF TypeInv, TypeOK
  <1>1. ASSUME UNCHANGED <<barrierWaitMap, barrierAddr, pend>>, pc[t] \notin AtBarrier,
               \/ UNCHANGED pc
               \/ \E l \in PcValues \ AtBarrier : pc' = [pc EXCEPT ![t] = l],
               \/ UNCHANGED vectorClock
               \/ \E w : vectorClock' = [vectorClock EXCEPT ![t] = w]
        PROVE  GatherFrame
    <2>1. \A u \in Threads \ {t} : pc'[u] = pc[u] /\ vectorClock'[u] = vectorClock[u]
      BY <1>0, <1>1
    <2>2. pc'[t] \notin AtBarrier
      BY <1>0, <1>1
    <2> QED BY <1>1, <2>1, <2>2 DEF GatherFrame
  <1>2. PcValues \ AtBarrier = {"none", "spawned", "run", "create", "publish", "join", "lock",
                                "trylock", "condwait", "asleep", "wake", "signal", "exited"}
    BY DEF PcValues, AtBarrier
  <1>3. \A l \in {"spawned", "run", "create", "publish", "join", "lock", "trylock"} :
           l \notin AtBarrier
    BY DEF AtBarrier
  <1>4. CASE ThreadStart(t)
    BY <1>1, <1>2, <1>3, <1>4 DEF ThreadStart
  <1>5. CASE CreateCall(t)
    <2>1. /\ nextTid \in Nat /\ nextTid < MaxThreads /\ MaxThreads <= MAX_THREAD_COUNT
          /\ MaxThreads \in Nat
      BY <1>5, InstanceAssumption, ThreadCountAssumption
      DEF CreateCall, Spawn, TypeInv, TypeOK
    <2>2. nextTid \in Threads /\ nextTid > Newest
      BY <2>1, ThreadCountAssumption DEF Threads, Newest
    <2>3. pc[nextTid] = "none" /\ pc[t] = "run"
      BY <1>5, <2>2 DEF CreationInv, FamilyInv, CreateCall, Spawn
    <2>4. /\ pc' = [pc EXCEPT ![t] = "create", ![nextTid] = "spawned"]
          /\ UNCHANGED <<vectorClock, barrierWaitMap, barrierAddr, pend>>
      BY <1>5 DEF CreateCall, Spawn
    <2> QED BY <1>0, <2>2, <2>3, <2>4 DEF GatherFrame, AtBarrier
  <1>6. CASE CreateTimeout(t) \/ CreatePublish(t) \/ \E c \in Threads : JoinCall(t, c)
    BY <1>1, <1>2, <1>3, <1>6 DEF CreateTimeout, CreatePublish, Publish, JoinCall
  <1>7. CASE CreateEpoch(t) \/ ThreadFini(t)
    BY <1>1, <1>2, <1>3, <1>7 DEF CreateEpoch, ThreadFini
  <1>8. CASE JoinReturn(t)
    <2>1. /\ pc[t] = "join" /\ UNCHANGED <<barrierWaitMap, barrierAddr, pend>>
      BY <1>8, Zenon DEF JoinReturn
    <2>2. \/ UNCHANGED <<pc, vectorClock>>
          \/ /\ pc' = [pc EXCEPT ![t] = "run"]
             /\ \E w : vectorClock' = [vectorClock EXCEPT ![t] = w]
      BY <1>8 DEF JoinReturn
    <2> QED BY <1>1, <1>2, <1>3, <2>1, <2>2
  <1>9. CASE Access(t)
    BY <1>1, <1>3, <1>9 DEF Access, Read, Write
  <1>10. CASE AfterFailedTryLock(t) \/ \E m \in Mutexes, call \in {"lock", "trylock"} :
                                           BeforeLock(t, m, call)
    BY <1>1, <1>2, <1>3, <1>10 DEF AfterFailedTryLock, BeforeLock
  <1>11. CASE AfterLock(t)
    <2>1. /\ pc[t] \in {"lock", "trylock"} /\ pc' = [pc EXCEPT ![t] = "run"]
          /\ UNCHANGED <<barrierWaitMap, barrierAddr, pend>>
      BY <1>11 DEF AfterLock
    <2>2. UNCHANGED vectorClock \/ \E w : vectorClock' = [vectorClock EXCEPT ![t] = w]
      BY <1>11 DEF AfterLock
    <2> QED BY <1>1, <1>2, <1>3, <2>1, <2>2
  <1>12. CASE \E m \in Mutexes : BeforeUnlock(t, m)
    <2>1. /\ pc[t] = "run" /\ UNCHANGED <<pc, barrierWaitMap, barrierAddr, pend>>
      BY <1>12 DEF BeforeUnlock
    <2>2. UNCHANGED vectorClock \/ \E w : vectorClock' = [vectorClock EXCEPT ![t] = w]
      BY <1>12 DEF BeforeUnlock, LeaveClock
    <2> QED BY <1>1, <1>3, <2>1, <2>2
  <1> QED BY <1>4, <1>5, <1>6, <1>7, <1>8, <1>9, <1>10, <1>11, <1>12
          DEF Lifecycle, MutexStep

\* The threads in a barrier are threads of the program.
LEMMA InsideFinite ==
    ASSUME TypeInv, CreationInv, NEW S \in SUBSET Threads,
           \A u \in S : pc[u] # "none"
    PROVE  /\ IsFiniteSet(S) /\ Cardinality(S) \in Nat
           /\ Cardinality(S) <= MaxThreads
           /\ Cardinality(S) = MaxThreads =>
                 \A u \in Threads : pc[u] # "none" => u \in S
  <1> DEFINE live == 0 .. MaxThreads - 1
  <1>1. MaxThreads \in Nat \ {0}
    BY InstanceAssumption
  <1>2. \A u \in Threads : pc[u] # "none" => u \in live
    BY <1>1 DEF TypeInv, TypeOK, CreationInv, FamilyInv, Newest, Threads
  <1>3. IsFiniteSet(live) /\ Cardinality(live) = MaxThreads
    BY <1>1, FS_Interval
  <1>4. S \subseteq live
    BY <1>2
  <1> HIDE DEF live
  <1>5. /\ IsFiniteSet(S) /\ Cardinality(S) <= Cardinality(live)
        /\ Cardinality(live) = Cardinality(S) => live = S
    BY <1>3, <1>4, FS_Subset
  <1>6. Cardinality(S) \in Nat
    BY <1>5, FS_CardinalityType
  <1> QED BY <1>2, <1>3, <1>5, <1>6

\* A step of t at barrier b leaves the other barriers alone.
LEMMA OtherBarriers ==
    ASSUME GatherInv, NEW t \in Threads, NEW b \in Barriers, GatherAt(b)',
           \A x \in Barriers \ {b} :
              /\ barrierWaitMap'[x] = barrierWaitMap[x] /\ Inside(x)' = Inside(x)
              /\ \A u \in Inside(x) : vectorClock'[u] = vectorClock[u]
    PROVE  GatherInv'
  <1>1. \A x \in Barriers \ {b} : GatherAt(x)'
    BY DEF GatherInv, GatherAt
  <1>2. \A x \in Barriers : GatherAt(x)'
    BY <1>1
  <1> QED BY <1>2 DEF GatherInv

LEMMA InitGathers ==
    ASSUME TypeInv, GatherInv, FullBarriers,
           NEW t \in Threads, NEW b \in Barriers, NEW size \in BarrierSizes,
           BeforeBarrierInit(t, b, size)
    PROVE  GatherInv'
  <1>0. barrierWaitMap \in [Barriers -> BarrierData]
    BY DEF TypeInv, TypeOK
  <1>1. /\ Inside(b) = {}
        /\ barrierWaitMap' = [barrierWaitMap EXCEPT ![b] = NewBarrierData(size)]
        /\ UNCHANGED <<pc, barrierAddr, vectorClock>>
    BY DEF BeforeBarrierInit, Inside, addresses
  <1>2. \A x \in Barriers : Inside(x)' = Inside(x)
    BY <1>1 DEF Inside, InBarrier
  <1>3. size \in Nat \ {0} /\ size >= MaxThreads
    BY InstanceAssumption DEF FullBarriers
  <1>4. GatherAt(b)'
    <2>1. barrierWaitMap'[b] = NewBarrierData(size)
      BY <1>0, <1>1
    <2>2. Inside(b)' = {}
      BY <1>1, <1>2
    <2>3. Cardinality({}) = 0
      BY FS_EmptySet
    <2> QED BY <1>3, <2>1, <2>2, <2>3 DEF GatherAt, NewBarrierData
  <1> QED BY <1>0, <1>1, <1>2, <1>4, OtherBarriers

\* The thread that completes the count of a barrier finds nobody there who has
\* still to read the clock of the generation before.
LEMMA EnterGathers ==
    ASSUME TypeInv, CreationInv, GatherInv, NEW t \in Threads, NEW b \in Barriers,
           BeforeBarrierWait(t, b)
    PROVE  /\ GatherInv'
           /\ \/ InBarrier(b, {"released"}) = {}
              \/ barrierWaitMap'[b].previousVectorClock
                    = barrierWaitMap[b].previousVectorClock
  <1> DEFINE d == barrierWaitMap[b]
             v == vectorClock'[t]
             merged == receiveAction(d.vectorClock, v)
             W == Inside(b)
             last == d.waiterCount + 1 = d.barrierSize
  <1>0. /\ pc \in [Threads -> PcValues] /\ vectorClock \in [Threads -> Clock]
        /\ barrierAddr \in [Threads -> Barriers \cup {NULL}]
        /\ barrierWaitMap \in [Barriers -> BarrierData]
    BY DEF TypeInv, TypeOK
  <1>1. /\ pc[t] = "run" /\ pc' = [pc EXCEPT ![t] = "barrier"]
        /\ barrierAddr' = [barrierAddr EXCEPT ![t] = b]
        /\ vectorClock' = [vectorClock EXCEPT ![t] = advance(vectorClock[t], t)]
        /\ barrierWaitMap' = [barrierWaitMap EXCEPT ![b] = EnterBarrier(d, v)]
        /\ d.barrierSize # 0
    BY DEF BeforeBarrierWait, At, Goto, SetClock
  <1>2. /\ d \in BarrierData /\ v \in Clock /\ d.vectorClock \in Clock
        /\ d.previousVectorClock \in Clock /\ d.barrierSize \in Nat /\ d.waiterCount \in Nat
    BY <1>0, <1>1 DEF BarrierData, advance, Clock
  <1>3. /\ merged \in Clock /\ Below(d.vectorClock, merged) /\ Below(v, merged)
    BY <1>2, ReceiveAbove
  <1>4. /\ t \notin W /\ Inside(b)' = W \cup {t}
        /\ \A x \in Barriers \ {b} : Inside(x)' = Inside(x)
    BY <1>0, <1>1 DEF Inside, InBarrier
  <1>5. /\ W \in SUBSET Threads /\ W \cup {t} \in SUBSET Threads
        /\ \A u \in W \cup {t} : pc[u] # "none"
    BY <1>1 DEF Inside, InBarrier
  <1>6. /\ d.barrierSize >= MaxThreads
        /\ d.waiterCount = IF Cardinality(W) = d.barrierSize THEN 0 ELSE Cardinality(W)
        /\ \A u \in W : Below(vectorClock[u], IF d.waiterCount = 0
                                              THEN d.previousVectorClock ELSE d.vectorClock)
    BY <1>1 DEF GatherInv, GatherAt
  <1>7. /\ IsFiniteSet(W) /\ Cardinality(W) \in Nat
        /\ Cardinality(W \cup {t}) = Cardinality(W) + 1
        /\ Cardinality(W \cup {t}) <= MaxThreads
        /\ Cardinality(W \cup {t}) = MaxThreads =>
              \A u \in Threads : pc[u] # "none" => u \in W \cup {t}
    BY <1>4, <1>5, InsideFinite, FS_AddElement
  <1>8. MaxThreads \in Nat
    BY InstanceAssumption
  <1>9. d.waiterCount = Cardinality(W)
    BY <1>2, <1>6, <1>7, <1>8
  <1>10. /\ barrierWaitMap'[b].vectorClock = IF last THEN ZeroClock ELSE merged
         /\ barrierWaitMap'[b].previousVectorClock =
                IF last THEN merged ELSE d.previousVectorClock
         /\ barrierWaitMap'[b].barrierSize = d.barrierSize
         /\ barrierWaitMap'[b].waiterCount = IF last THEN 0 ELSE d.waiterCount + 1
    BY <1>0, <1>1 DEF EnterBarrier
  <1>11. \A u \in W : Below(vectorClock[u], merged) /\ vectorClock'[u] = vectorClock[u]
    <2> SUFFICES ASSUME NEW u \in W
                 PROVE  Below(vectorClock[u], merged) /\ vectorClock'[u] = vectorClock[u]
      OBVIOUS
    <2>1. u \in Threads /\ u # t
      BY <1>4, <1>5
    <2>2. d.waiterCount # 0
      BY <1>7, <1>9, FS_EmptySet
    <2>3. vectorClock[u] \in Clock /\ Below(vectorClock[u], d.vectorClock)
      BY <1>0, <1>6, <2>1, <2>2
    <2>4. Below(vectorClock[u], merged)
      BY <1>2, <1>3, <2>3, BelowTransitive
    <2> QED BY <1>0, <1>1, <2>1, <2>4
  <1>12. \A u \in W \cup {t} : Below(vectorClock'[u], merged)
    BY <1>3, <1>11
  <1>13. last => InBarrier(b, {"released"}) = {}
    <2> SUFFICES ASSUME last, NEW u \in InBarrier(b, {"released"}) PROVE FALSE
      OBVIOUS
    <2>1. u \in Threads /\ pc[u] = "released"
      BY DEF InBarrier
    <2>2. Cardinality(W \cup {t}) = MaxThreads
      BY <1>2, <1>6, <1>7, <1>8, <1>9
    <2>3. u \in W \cup {t}
      BY <1>7, <2>1, <2>2
    <2> QED BY <1>1, <2>1, <2>3 DEF Inside, InBarrier
  <1>14. GatherAt(b)'
    <2> HIDE DEF merged, v, W
    <2>1. CASE last
      <3>1. /\ Cardinality(W \cup {t}) = d.barrierSize
            /\ barrierWaitMap'[b].waiterCount = 0
            /\ barrierWaitMap'[b].previousVectorClock = merged
        BY <1>7, <1>9, <1>10, <2>1
      <3> QED BY <1>4, <1>6, <1>10, <1>12, <2>1, <3>1 DEF GatherAt
    <2>2. CASE ~ last
      <3>1. /\ Cardinality(W \cup {t}) # d.barrierSize
            /\ barrierWaitMap'[b].waiterCount = Cardinality(W \cup {t})
            /\ barrierWaitMap'[b].waiterCount # 0
            /\ barrierWaitMap'[b].previousVectorClock = d.previousVectorClock
            /\ barrierWaitMap'[b].vectorClock = merged
        BY <1>2, <1>7, <1>9, <1>10, <2>2
      <3> QED BY <1>1, <1>4, <1>6, <1>10, <1>12, <2>2, <3>1 DEF GatherAt
    <2> QED BY <2>1, <2>2
  <1>15. \A x \in Barriers \ {b} : \A u \in Inside(x) : vectorClock'[u] = vectorClock[u]
    BY <1>0, <1>1 DEF Inside, InBarrier
  <1>16. \A x \in Barriers \ {b} : barrierWaitMap'[x] = barrierWaitMap[x]
    BY <1>0, <1>1
  <1>17. GatherInv'
    BY <1>4, <1>14, <1>15, <1>16, OtherBarriers
  <1> QED BY <1>10, <1>13, <1>17

\* libpthread lets the threads through when all of them are there, and then the
\* handlers have gathered all their clocks.
LEMMA AllArrived ==
    ASSUME TypeInv, CreationInv, GatherInv, NEW t \in Threads, BarrierArrive(t),
           NEW here, here = InBarrier(barrierAddr[t], {"arrived"}) \cup {t},
           Cardinality(here) = barrierWaitMap[barrierAddr[t]].barrierSize
    PROVE  /\ barrierAddr[t] \in Barriers
           /\ here = Inside(barrierAddr[t]) /\ Cardinality(here) # 0
           /\ barrierWaitMap[barrierAddr[t]].waiterCount = 0
           /\ barrierWaitMap[barrierAddr[t]].barrierSize >= MaxThreads
           /\ \A u \in here :
                 Below(vectorClock[u], barrierWaitMap[barrierAddr[t]].previousVectorClock)
           /\ \A u \in Threads : pc[u] # "none" => u \in here
  <1>1. barrierWaitMap \in [Barriers -> BarrierData]
    BY DEF TypeInv, TypeOK
  <1>2. pc[t] = "barrier"
    BY DEF BarrierArrive, At
  <1>3. PICK b \in Barriers : b = barrierAddr[t]
    BY <1>2 DEF TypeInv, ArgumentsOK
  <1> DEFINE d == barrierWaitMap[b]
  <1>4. /\ here \subseteq Inside(b) /\ Inside(b) \in SUBSET Threads
        /\ \A u \in Inside(b) : pc[u] # "none"
    BY <1>2, <1>3 DEF Inside, InBarrier
  <1>5. d.barrierSize \in Nat /\ MaxThreads \in Nat
    BY <1>1, <1>3, InstanceAssumption DEF BarrierData
  <1>6. /\ IsFiniteSet(Inside(b)) /\ Cardinality(Inside(b)) \in Nat
        /\ Cardinality(Inside(b)) <= MaxThreads
        /\ Cardinality(Inside(b)) = MaxThreads =>
              \A u \in Threads : pc[u] # "none" => u \in Inside(b)
    BY <1>4, InsideFinite
  <1>7. /\ IsFiniteSet(here) /\ Cardinality(here) \in Nat /\ Cardinality(here) # 0
        /\ Cardinality(here) <= Cardinality(Inside(b))
        /\ Cardinality(Inside(b)) = Cardinality(here) => Inside(b) = here
    <2>1. here # {}
      OBVIOUS
    <2> QED BY <1>4, <1>6, <2>1, FS_Subset, FS_CardinalityType, FS_EmptySet
  <1>8. Cardinality(here) = d.barrierSize
    BY <1>3
  <1>9. /\ d.barrierSize = 0 \/ d.barrierSize >= MaxThreads
        /\ d.waiterCount = IF Cardinality(Inside(b)) = d.barrierSize
                           THEN 0 ELSE Cardinality(Inside(b))
        /\ \A u \in Inside(b) : Below(vectorClock[u], IF d.waiterCount = 0
                                         THEN d.previousVectorClock ELSE d.vectorClock)
    BY DEF GatherInv, GatherAt
  <1>10. /\ d.barrierSize >= MaxThreads /\ Cardinality(Inside(b)) = d.barrierSize
         /\ Cardinality(Inside(b)) = MaxThreads
    BY <1>5, <1>6, <1>7, <1>8, <1>9
  <1> QED BY <1>3, <1>6, <1>7, <1>8, <1>9, <1>10

LEMMA ArriveGathers ==
    ASSUME TypeInv, CreationInv, GatherInv, NEW t \in Threads, BarrierArrive(t)
    PROVE  GatherInv'
  <1>0. pc \in [Threads -> PcValues]
    BY DEF TypeInv, TypeOK
  <1>1. pc[t] = "barrier" /\ UNCHANGED <<barrierAddr, vectorClock, barrierWaitMap>>
    BY DEF BarrierArrive, At, addresses, syncMaps
  <1> DEFINE b == barrierAddr[t]
             d == barrierWaitMap[b]
             here == InBarrier(b, {"arrived"}) \cup {t}
  <1>2. CASE Cardinality(here) = d.barrierSize
    <2>1. pc' = [u \in Threads |-> IF u \in here THEN "released" ELSE pc[u]]
      BY <1>2 DEF BarrierArrive
    <2>2. /\ b \in Barriers /\ here = Inside(b) /\ d.barrierSize # 0
          /\ d.waiterCount = 0 /\ d.barrierSize >= MaxThreads
      BY <1>2, AllArrived
    <2>3. Inside(b)' = {}
      BY <1>1, <2>1, <2>2 DEF Inside, InBarrier
    <2>4. GatherAt(b)'
      <3>1. Cardinality({}) = 0
        BY FS_EmptySet
      <3> QED BY <1>1, <2>2, <2>3, <3>1 DEF GatherAt
    <2>5. \A u \in here : barrierAddr[u] = b
      BY <2>2 DEF Inside, InBarrier
    <2>6. \A x \in Barriers \ {b} : Inside(x)' = Inside(x)
      BY <1>1, <2>1, <2>5 DEF Inside, InBarrier
    <2> QED BY <1>1, <2>2, <2>4, <2>6, OtherBarriers
  <1>3. CASE Cardinality(here) # d.barrierSize
    <2>1. pc' = [pc EXCEPT ![t] = "arrived"]
      BY <1>3 DEF BarrierArrive, Goto
    <2>2. \A x \in Barriers : Inside(x)' = Inside(x)
      BY <1>0, <1>1, <2>1 DEF Inside, InBarrier
    <2> QED BY <1>1, <2>2 DEF GatherInv, GatherAt
  <1> QED BY <1>2, <1>3

LEMMA LeaveGathers ==
    ASSUME TypeInv, GatherInv, NEW t \in Threads, AfterBarrierWait(t)
    PROVE  GatherInv'
  <1>0. pc \in [Threads -> PcValues] /\ vectorClock \in [Threads -> Clock]
    BY DEF TypeInv, TypeOK
  <1>1. /\ pc[t] = "released" /\ pc' = [pc EXCEPT ![t] = "run"]
        /\ UNCHANGED <<barrierAddr, barrierWaitMap>>
        /\ \E w : vectorClock' = [vectorClock EXCEPT ![t] = w]
    BY DEF AfterBarrierWait, At, Goto, SetClock, addresses, syncMaps
  <1>2. \A x \in Barriers :
           Inside(x)' = Inside(x) /\ \A u \in Inside(x) : vectorClock'[u] = vectorClock[u]
    BY <1>0, <1>1 DEF Inside, InBarrier
  <1> QED BY <1>1, <1>2 DEF GatherInv, GatherAt

\* Without condition variables, the only call of theirs a program can make is
\* the broadcast that stops the tool.
LEMMA OnlyBroadcast ==
    ASSUME TypeInv, Conds = {}, NEW t \in Threads, CondStep(t)
    PROVE  BeforeCondBroadcast(t)
  <1>1. pc[t] \notin {"condwait", "asleep", "wake", "signal"}
    BY DEF TypeInv, ArgumentsOK
  <1> QED BY <1>1 DEF CondStep, CondSleep, SpuriousWakeup, AfterCondWait, CondSignal, At

\* The handlers count the threads that wait in a barrier, and hold the clocks of
\* all of them.
THEOREM GatherCorrect ==
    ASSUME Conds = {}, FullBarriers
    PROVE  Spec => []GatherInv
  <1>1. Init => GatherInv
    <2> SUFFICES ASSUME Init PROVE GatherInv
      OBVIOUS
    <2>1. \A b \in Barriers : Inside(b) = {}
      BY DEF Init, Inside, InBarrier
    <2>2. \A b \in Barriers : barrierWaitMap[b] = NewBarrierData(0)
      BY DEF Init
    <2>3. Cardinality({}) = 0
      BY FS_EmptySet
    <2> QED BY <2>1, <2>2, <2>3 DEF GatherInv, GatherAt, NewBarrierData
  <1>2. TypeInv /\ CreationInv /\ GatherInv /\ [Next]_vars => GatherInv'
    <2> SUFFICES ASSUME TypeInv, CreationInv, GatherInv, [Next]_vars PROVE GatherInv'
      OBVIOUS
    <2>1. ASSUME NEW t \in Threads, Lifecycle(t) \/ Access(t) \/ MutexStep(t)
          PROVE  GatherInv'
      BY <2>1, AwayFromBarriers, GatherFramePreserves
    <2>2. ASSUME NEW t \in Threads, BarrierStep(t) PROVE GatherInv'
      BY <2>2, InitGathers, EnterGathers, ArriveGathers, LeaveGathers DEF BarrierStep
    <2>3. ASSUME \/ UNCHANGED vars \/ \E t \in Threads : CondStep(t) PROVE GatherInv'
      <3>1. CASE UNCHANGED vars
        BY <3>1, GatherFramePreserves
        DEF GatherFrame, vars, program, addresses, syncMaps, ghosts
      <3>2. ASSUME NEW t \in Threads, CondStep(t) PROVE GatherInv'
        <4>1. BeforeCondBroadcast(t)
          BY <3>2, OnlyBroadcast
        <4> QED BY <4>1, GatherFramePreserves
                DEF BeforeCondBroadcast, GatherFrame, program, addresses, syncMaps, ghosts
      <3> QED BY <2>3, <3>1, <3>2
    <2> QED BY <2>1, <2>2, <2>3 DEF Next
  <1> QED BY <1>1, <1>2, TypeCorrect, CreationCorrect, PTL DEF Spec

-----------------------------------------------------------------------------
\* Exactness: the inductive invariant, in named parts.

Entered == {"barrier", "arrived"}

\* What others may know of a thread: not the end of the epoch with which it
\* came to a barrier, until it is let through.
Known == [j \in Threads |-> IF pc[j] \in Entered THEN vectorClock[j][j] - 1 ELSE Limit[j]]

\* Below, but for thread i's own component.
Others(v, i, b) == \A j \in Threads \ {i} : v[j] <= b[j]

ClockInv ==
    \A t \in Threads :
        /\ Others(vectorClock[t], t, Known)
        /\ Represents(vectorClock[t], past[t])
        /\ \A u \in Threads \ {t} : Seen(vectorClock[u], u, vectorClock[t], t)

QueueInv ==
    \A u \in Threads : \A e \in Entries(u) :
        /\ e.tid = u /\ e.ts[u] > 0
        /\ Others(e.ts, u, Known) /\ Represents(e.ts, e.past)
        /\ \A t \in Threads \ {u} : Seen(e.ts, u, vectorClock[t], t)

\* A free mutex carries the clock of its last owner, or nobody has had it.
MutexInv ==
    \A m \in Mutexes :
        /\ Below(unlockedThreadMap[m].vectorClock, Known)
        /\ m \notin Tracked =>
            unlockedThreadMap[m].tid = NO_ID /\ mutexPast[m] = {}
        /\ owner[m] = NO_ID =>
            \/ /\ unlockedThreadMap[m].tid # NO_ID
               /\ Represents(unlockedThreadMap[m].vectorClock, mutexPast[m])
            \/ unlockedThreadMap[m].tid = NO_ID /\ mutexPast[m] = {}

\* The clock that the barrier of t holds for the threads that leave it.
Left(t) == barrierWaitMap[barrierAddr[t]].previousVectorClock

\* A thread that was let through is about to receive the epochs of all that it
\* met, and nothing newer; an epoch that it will then see as over had seen no
\* more of it than the epoch with which it came.
ReleasedInv ==
    \A t \in Threads : pc[t] = "released" =>
        /\ Represents(Left(t), pend[t]) /\ Below(Left(t), Known)
        /\ \A u \in Threads : Left(t)[u] <= vectorClock[u][u]
        /\ \A u \in Threads \ {t} : \A e \in Entries(u) :
              e.ts[u] < Left(t)[u] => e.ts[t] < vectorClock[t][t]

ExactInv == AheadInv /\ ClockInv /\ QueueInv /\ MutexInv /\ ReleasedInv

-----------------------------------------------------------------------------
\* What may be known of a thread.

LEMMA KnownType ==
    ASSUME TypeOK, FinalClockInv
    PROVE  /\ Limit \in Clock /\ Known \in Clock /\ Below(Known, Limit)
           /\ \A j \in Threads :
                 /\ pc[j] \notin Entered => Known[j] = vectorClock[j][j] + Slack(j)
                 /\ pc[j] \in Entered => Known[j] = vectorClock[j][j] - 1
                 /\ vectorClock[j][j] \in Nat
  <1>1. /\ Limit \in Clock
        /\ \A j \in Threads : /\ Limit[j] = vectorClock[j][j] + Slack(j)
                              /\ Limit[j] \in Nat
                              /\ vectorClock[j][j] \in Nat
                              /\ Slack(j) \in {0, 1}
    BY LimitType DEF Clock, Slack
  <1>2. \A j \in Threads : pc[j] \in Entered => vectorClock[j][j] > 0
    BY DEF FinalClockInv, Entered
  <1>3. \A j \in Threads :
           /\ pc[j] \notin Entered => Known[j] = Limit[j]
           /\ pc[j] \in Entered => Known[j] = vectorClock[j][j] - 1
    BY DEF Known
  <1>4. \A j \in Threads : Known[j] \in Nat /\ Known[j] <= Limit[j]
    BY <1>1, <1>2, <1>3
  <1>5. Known \in Clock
    BY <1>4 DEF Known, Clock
  <1> QED BY <1>1, <1>3, <1>4, <1>5 DEF Below

LEMMA OthersTransitive ==
    ASSUME NEW v \in Clock, NEW b \in Clock, NEW d \in Clock, NEW i,
           Others(v, i, b), Below(b, d)
    PROVE  Others(v, i, d)
  <1> SUFFICES ASSUME NEW j \in Threads \ {i} PROVE v[j] <= d[j]
    BY DEF Others
  <1>1. v[j] \in Nat /\ b[j] \in Nat /\ d[j] \in Nat
    BY DEF Clock
  <1>2. v[j] <= b[j] /\ b[j] <= d[j]
    BY DEF Others, Below
  <1> QED BY <1>1, <1>2

\* What may be known of a thread never shrinks.  A thread that comes to a
\* barrier begins an epoch there, of which nothing may be known yet.
LEMMA KnownGrows ==
    ASSUME TypeOK, TypeOK', FinalClockInv, FinalClockInv', NEW t \in Threads,
           joined \subseteq joined',
           \A u \in Threads \ {t} : /\ pc[u] \in Creating => pc'[u] \in Creating
                                    /\ pc'[u] \in Entered => pc[u] \in Entered
                                    /\ vectorClock'[u] = vectorClock[u],
           \/ /\ vectorClock'[t][t] = vectorClock[t][t] + 1
              /\ pc'[t] \in Entered => pc[t] \notin Entered /\ Slack(t) = 0
           \/ /\ vectorClock'[t][t] = vectorClock[t][t]
              /\ pc[t] \in Creating => pc'[t] \in Creating
              /\ pc'[t] \in Entered => pc[t] \in Entered
    PROVE  Known \in Clock /\ Known' \in Clock /\ Below(Known, Known')
  <1>1. /\ Limit \in Clock /\ Known \in Clock /\ Below(Known, Limit)
        /\ \A j \in Threads :
              /\ pc[j] \notin Entered => Known[j] = vectorClock[j][j] + Slack(j)
              /\ pc[j] \in Entered => Known[j] = vectorClock[j][j] - 1
              /\ vectorClock[j][j] \in Nat
    BY KnownType
  <1>2. /\ Limit' \in Clock /\ Known' \in Clock
        /\ \A j \in Threads :
              /\ pc'[j] \notin Entered => Known'[j] = vectorClock'[j][j] + Slack(j)'
              /\ pc'[j] \in Entered => Known'[j] = vectorClock'[j][j] - 1
    <2>1. \A j \in Threads : vectorClock'[j][j] \in Nat /\ Slack(j)' \in {0, 1}
      BY DEF TypeOK, Clock, Slack
    <2>2. Limit' = [j \in Threads |-> vectorClock'[j][j] + Slack(j)']
      BY DEF Limit
    <2>3. \A j \in Threads :
             vectorClock'[j][j] + Slack(j)' \in Nat /\ Limit'[j] = vectorClock'[j][j] + Slack(j)'
      BY <2>1, <2>2
    <2>4. \A j \in Threads : pc'[j] \in Entered => vectorClock'[j][j] > 0
      BY DEF FinalClockInv, Entered
    <2>5. Known' = [j \in Threads |-> IF pc'[j] \in Entered THEN vectorClock'[j][j] - 1
                                                         ELSE Limit'[j]]
      BY DEF Known
    <2>6. \A j \in Threads :
             /\ pc'[j] \notin Entered => Known'[j] = Limit'[j]
             /\ pc'[j] \in Entered => Known'[j] = vectorClock'[j][j] - 1
      BY <2>5
    <2>7. \A j \in Threads : Known'[j] \in Nat
      BY <2>1, <2>3, <2>4, <2>6
    <2> QED BY <2>2, <2>3, <2>5, <2>6, <2>7 DEF Clock
  <1>3. Below(Limit, Limit')
    BY LimitGrows
  <1>4. \A j \in Threads : /\ Limit[j] = vectorClock[j][j] + Slack(j)
                           /\ Limit[j] \in Nat /\ Known[j] \in Nat
                           /\ Limit'[j] \in Nat /\ Known[j] <= Limit[j]
                           /\ Limit[j] <= Limit'[j]
    BY <1>1, <1>2, <1>3, LimitType DEF Below, Clock
  <1>5. \A j \in Threads : Limit'[j] = vectorClock'[j][j] + Slack(j)'
    BY DEF Limit
  <1>6. ASSUME NEW j \in Threads PROVE Known[j] <= Known'[j]
    <2>1. CASE pc'[j] \notin Entered
      BY <1>2, <1>4, <1>5, <2>1
    <2>2. CASE pc'[j] \in Entered /\ pc[j] \in Entered /\ vectorClock'[j][j] = vectorClock[j][j]
      BY <1>1, <1>2, <2>2
    <2>3. CASE /\ pc'[j] \in Entered /\ pc[j] \notin Entered /\ Slack(j) = 0
               /\ vectorClock'[j][j] = vectorClock[j][j] + 1
      BY <1>1, <1>2, <2>3
    <2> QED BY <2>1, <2>2, <2>3
  <1> QED BY <1>1, <1>2, <1>6 DEF Below

-----------------------------------------------------------------------------
\* What a step of thread t may do to clocks and queues: its clock becomes w,
\* standing for the epochs q; its epoch may be handed to the module.

MayHandOver(t) ==
    UNCHANGED blockHistoryQueues \/ (vectorClock[t][t] > 0 /\ addSignature(t))

\* The clocks of thread u that t's clock is compared with.
Stamps(u) == {vectorClock[u]} \cup {e.ts : e \in Entries(u)}

ClockStep(t, w, q) ==
    /\ vectorClock' = [vectorClock EXCEPT ![t] = w]
    /\ past' = [past EXCEPT ![t] = q]
    /\ MayHandOver(t)
    /\ Represents(w, q)
    /\ Below(Known, Known') /\ Others(w, t, Known')
    /\ \A u \in Threads \ {t} : \A v \in Stamps(u) :
        Seen(v, u, vectorClock[t], t) => Seen(v, u, w, t)
    /\ w = vectorClock[t] \/ Known[t] <= w[t]
    /\ vectorClock[t][t] <= w[t]

\* A new entry is the epoch that was handed over.
LEMMA NewEntries ==
    ASSUME TypeOK, TypeOK', NEW t \in Threads, MayHandOver(t),
           NEW u \in Threads, NEW e \in Entries(u)'
    PROVE  /\ e \in SigRaceData
           /\ \/ e \in Entries(u)
              \/ u = t /\ vectorClock[t][t] > 0 /\ e = CurrentSig(t)
  <1>0. blockHistoryQueues \in [Threads -> Seq(SigRaceData)]
    BY DEF TypeOK
  <1>1. PICK k \in DOMAIN blockHistoryQueues'[u] : e = blockHistoryQueues'[u][k]
    BY DEF Entries
  <1>2. e \in SigRaceData
    BY <1>1 DEF TypeOK
  <1>3. CASE blockHistoryQueues'[u] = blockHistoryQueues[u]
    BY <1>1, <1>2, <1>3 DEF Entries
  <1>4. CASE blockHistoryQueues'[u] # blockHistoryQueues[u]
    <2>1. /\ vectorClock[t][t] > 0
          /\ blockHistoryQueues' = [blockHistoryQueues EXCEPT
                ![t] = pushFront(blockHistoryQueues[t], CurrentSig(t))]
      BY <1>4 DEF MayHandOver, addSignature
    <2>2. u = t
      BY <1>0, <1>4, <2>1
    <2>3. blockHistoryQueues'[t] = pushFront(blockHistoryQueues[t], CurrentSig(t))
      BY <1>0, <2>1
    <2>4. CurrentSig(t) \in SigRaceData /\ blockHistoryQueues[t] \in Seq(SigRaceData)
      BY <1>0, CurrentSigType
    <2>5. \/ k = 1 /\ e = CurrentSig(t)
          \/ k - 1 \in DOMAIN blockHistoryQueues[t]
             /\ e = blockHistoryQueues[t][k - 1]
      BY <1>1, <2>2, <2>3, <2>4, PushFrontEntries
    <2> QED BY <1>2, <2>1, <2>2, <2>5 DEF Entries
  <1> QED BY <1>3, <1>4

\* A step of the form ClockStep keeps clocks and queues exact.
LEMMA StepKeeps ==
    ASSUME TypeOK, TypeOK', ClockInv, QueueInv, NEW t \in Threads,
           NEW w \in Clock, NEW q, ClockStep(t, w, q),
           Known \in Clock, Known' \in Clock
    PROVE  ClockInv' /\ QueueInv'
  <1>0. /\ vectorClock \in [Threads -> Clock]
        /\ past \in [Threads -> SUBSET Epochs]
        /\ Below(Known, Known')
    BY DEF TypeOK, ClockStep
  <1>2. vectorClock'[t] = w /\ \A u \in Threads \ {t} : vectorClock'[u] = vectorClock[u]
    BY <1>0 DEF ClockStep
  <1>3. past'[t] = q /\ \A u \in Threads \ {t} : past'[u] = past[u]
    BY <1>0 DEF ClockStep
  <1>4. \A u \in Threads : /\ vectorClock[u] \in Clock
                           /\ Others(vectorClock[u], u, Known)
                           /\ Represents(vectorClock[u], past[u])
    BY <1>0 DEF ClockInv
  <1>5. ASSUME NEW v \in Clock, NEW i, Others(v, i, Known) PROVE Others(v, i, Known')
    BY <1>0, <1>5, OthersTransitive
  <1>6. ASSUME NEW u \in Threads, NEW v \in Stamps(u),
               NEW x \in Threads \ {u}, Seen(v, u, vectorClock[x], x)
        PROVE  Seen(v, u, vectorClock'[x], x)
    <2>1. CASE x = t
      BY <1>2, <1>6, <2>1 DEF ClockStep
    <2>2. CASE x # t
      BY <1>2, <1>6, <2>2
    <2> QED BY <2>1, <2>2
  <1>7. ClockInv'
    <2>1. ASSUME NEW u \in Threads
          PROVE  /\ Others(vectorClock'[u], u, Known')
                 /\ Represents(vectorClock'[u], past'[u])
      <3>1. CASE u = t
        BY <1>2, <1>3, <3>1 DEF ClockStep
      <3>2. CASE u # t
        BY <1>2, <1>3, <1>4, <1>5, <3>2
      <3> QED BY <3>1, <3>2
    <2>2. ASSUME NEW x \in Threads, NEW u \in Threads \ {x}
          PROVE  Seen(vectorClock'[u], u, vectorClock'[x], x)
      <3>0. Seen(vectorClock[u], u, vectorClock[x], x) /\ vectorClock[u] \in Stamps(u)
        BY DEF ClockInv, Stamps
      <3>1. CASE u # t
        BY <1>2, <1>6, <3>0, <3>1
      <3>2. CASE u = t
        <4>1. vectorClock'[x] = vectorClock[x]
          BY <1>2, <3>2
        <4>2. CASE w = vectorClock[t]
          BY <1>2, <3>0, <3>2, <4>1, <4>2
        <4>3. CASE Known[t] <= w[t]
          <5>1. vectorClock[x][t] <= Known[t]
            BY <1>4, <3>2 DEF Others
          <5>2. vectorClock[x][t] \in Nat /\ Known[t] \in Nat /\ w[t] \in Nat
            BY <1>0 DEF Clock
          <5> QED BY <1>2, <3>2, <4>1, <4>3, <5>1, <5>2 DEF Seen
        <4> QED BY <4>2, <4>3 DEF ClockStep
      <3> QED BY <3>1, <3>2
    <2> QED BY <2>1, <2>2 DEF ClockInv
  <1>8. QueueInv'
    <2>1. ASSUME NEW u \in Threads, NEW e \in SigRaceData,
                 \/ e \in Entries(u)
                 \/ u = t /\ vectorClock[t][t] > 0 /\ e = CurrentSig(t)
          PROVE  /\ e.tid = u /\ e.ts[u] > 0
                 /\ Others(e.ts, u, Known') /\ Represents(e.ts, e.past)
                 /\ \A x \in Threads \ {u} : Seen(e.ts, u, vectorClock'[x], x)
      <3>1. /\ e.tid = u /\ e.ts[u] > 0 /\ e.ts \in Clock /\ e.ts \in Stamps(u)
            /\ Others(e.ts, u, Known) /\ Represents(e.ts, e.past)
            /\ \A x \in Threads \ {u} : Seen(e.ts, u, vectorClock[x], x)
        <4>1. CASE e \in Entries(u)
          BY <4>1 DEF QueueInv, SigRaceData, Stamps
        <4>2. CASE u = t /\ vectorClock[t][t] > 0 /\ e = CurrentSig(t)
          <5>1. e.tid = t /\ e.ts = vectorClock[t] /\ e.past = past[t]
            BY <4>2 DEF CurrentSig
          <5> QED BY <1>4, <4>2, <5>1 DEF ClockInv, Stamps
        <4> QED BY <2>1, <4>1, <4>2
      <3> QED BY <1>5, <1>6, <3>1
    <2>2. ASSUME NEW u \in Threads, NEW e \in Entries(u)'
          PROVE  /\ e \in SigRaceData
                 /\ \/ e \in Entries(u)
                    \/ u = t /\ vectorClock[t][t] > 0 /\ e = CurrentSig(t)
      BY NewEntries DEF ClockStep
    <2> QED BY <2>1, <2>2 DEF QueueInv
  <1> QED BY <1>7, <1>8

\* Nothing changes for a thread that was let through and has not left yet.
ReleasedFrame ==
    \A x \in Threads : pc'[x] = "released" =>
        /\ pc[x] = "released" /\ Left(x)' = Left(x) /\ pend'[x] = pend[x]
        /\ vectorClock'[x] = vectorClock[x]

\* The epochs that end meanwhile are newer than what it is about to receive.
LEMMA ReleasedKept ==
    ASSUME TypeInv, TypeInv', ReleasedInv, ReleasedFrame, NEW t \in Threads,
           NEW w \in Clock, NEW q, ClockStep(t, w, q), Known \in Clock, Known' \in Clock
    PROVE  ReleasedInv'
  <1> SUFFICES ASSUME NEW x \in Threads, pc'[x] = "released"
               PROVE  /\ Represents(Left(x)', pend'[x]) /\ Below(Left(x)', Known')
                      /\ \A u \in Threads : Left(x)'[u] <= vectorClock'[u][u]
                      /\ \A u \in Threads \ {x} : \A e \in Entries(u)' :
                            e.ts[u] < Left(x)'[u] => e.ts[x] < vectorClock'[x][x]
    BY DEF ReleasedInv
  <1>0. /\ TypeOK /\ TypeOK' /\ vectorClock \in [Threads -> Clock]
        /\ barrierWaitMap \in [Barriers -> BarrierData]
    BY DEF TypeInv, TypeOK
  <1>1. /\ pc[x] = "released" /\ Left(x)' = Left(x) /\ pend'[x] = pend[x]
        /\ vectorClock'[x] = vectorClock[x]
    BY DEF ReleasedFrame
  <1> DEFINE P == Left(x)
  <1>2. /\ Represents(P, pend[x]) /\ Below(P, Known)
        /\ \A u \in Threads : P[u] <= vectorClock[u][u]
        /\ \A u \in Threads \ {x} : \A e \in Entries(u) :
              e.ts[u] < P[u] => e.ts[x] < vectorClock[x][x]
    BY <1>1 DEF ReleasedInv
  <1>3. P \in Clock
    BY <1>0, <1>1 DEF TypeInv, ArgumentsOK, Left, BarrierData
  <1> HIDE DEF P
  <1>4. \A u \in Threads : /\ P[u] \in Nat /\ vectorClock[u][u] \in Nat
                           /\ vectorClock'[u][u] \in Nat
                           /\ vectorClock[u][u] <= vectorClock'[u][u]
    <2>1. \A u \in Threads : P[u] \in Nat /\ vectorClock[u][u] \in Nat
      BY <1>0, <1>3 DEF Clock
    <2>2. \A u \in Threads : vectorClock'[u][u] \in Nat
      BY <1>0 DEF TypeOK, Clock
    <2>3. \A u \in Threads : vectorClock'[u] = IF u = t THEN w ELSE vectorClock[u]
      BY <1>0 DEF ClockStep
    <2> QED BY <2>1, <2>2, <2>3 DEF ClockStep
  <1>5. Below(P, Known')
    BY <1>2, <1>3, BelowTransitive DEF ClockStep
  <1>6. \A u \in Threads : P[u] <= vectorClock'[u][u]
    BY <1>2, <1>4
  <1>7. ASSUME NEW u \in Threads \ {x}, NEW e \in Entries(u)', e.ts[u] < P[u]
        PROVE  e.ts[x] < vectorClock'[x][x]
    <2>1. \/ e \in Entries(u)
          \/ e = CurrentSig(u)
      BY <1>0, NewEntries DEF ClockStep
    <2>2. CASE e = CurrentSig(u)
      <3>1. e.ts = vectorClock[u]
        BY <2>2 DEF CurrentSig
      <3> QED BY <1>2, <1>4, <1>7, <3>1
    <2> QED BY <1>1, <1>2, <1>7, <2>1, <2>2
  <1> QED BY <1>1, <1>2, <1>5, <1>6, <1>7 DEF P

\* A step that changes no clock.
LEMMA StandingStep ==
    ASSUME TypeInv, TypeInv', FinalClockInv, FinalClockInv', ExactInv, NEW t \in Threads,
           UNCHANGED <<vectorClock, past>>, joined \subseteq joined', MayHandOver(t),
           \A u \in Threads : /\ pc[u] \in Creating => pc'[u] \in Creating
                              /\ pc'[u] \in Entered => pc[u] \in Entered
    PROVE  /\ ClockInv' /\ QueueInv' /\ (ReleasedFrame => ReleasedInv')
           /\ Known \in Clock /\ Known' \in Clock /\ Below(Known, Known')
  <1>0. /\ TypeOK /\ TypeOK' /\ ClockInv /\ QueueInv /\ ReleasedInv
        /\ vectorClock \in [Threads -> Clock] /\ vectorClock[t] \in Clock
        /\ past \in [Threads -> SUBSET Epochs]
    BY DEF TypeInv, TypeOK, ExactInv
  <1>1. Known \in Clock /\ Known' \in Clock /\ Below(Known, Known')
    BY <1>0, KnownGrows
  <1>2. Others(vectorClock[t], t, Known')
    BY <1>0, <1>1, OthersTransitive DEF ClockInv
  <1>3. /\ vectorClock' = [vectorClock EXCEPT ![t] = vectorClock[t]]
        /\ past' = [past EXCEPT ![t] = past[t]]
    BY <1>0
  <1>4. vectorClock[t][t] <= vectorClock[t][t]
    BY <1>0 DEF Clock
  <1>5. Represents(vectorClock[t], past[t])
    BY <1>0 DEF ClockInv
  <1>6. ClockStep(t, vectorClock[t], past[t])
    BY <1>1, <1>2, <1>3, <1>4, <1>5 DEF ClockStep
  <1> QED BY <1>0, <1>1, <1>6, StepKeeps, ReleasedKept

\* A step that starts a new epoch of t with clock w.
LEMMA MovingStep ==
    ASSUME TypeInv, TypeInv', FinalClockInv, FinalClockInv', ExactInv, NEW t \in Threads,
           NEW w \in Clock, NEW q,
           SetClock(t, w), past' = [past EXCEPT ![t] = q],
           joined \subseteq joined', MayHandOver(t),
           Represents(w, q), w[t] = vectorClock[t][t] + 1,
           Slack(t) = 0 \/ w = advance(vectorClock[t], t),
           \A u \in Threads \ {t} :
              /\ pc[u] \in Creating => pc'[u] \in Creating
              /\ pc'[u] \in Entered => pc[u] \in Entered
              /\ w[u] <= Known[u] \/ w[u] <= Known'[u],
           pc[t] \notin Entered, pc'[t] \in Entered => Slack(t) = 0,
           ReleasedFrame
    PROVE  /\ ClockInv' /\ QueueInv' /\ ReleasedInv'
           /\ vectorClock'[t] = w /\ past'[t] = q
           /\ Known \in Clock /\ Known' \in Clock /\ Below(Known, Known')
           /\ pc'[t] \notin Entered => Below(w, Known')
  <1>0. /\ TypeOK /\ TypeOK' /\ ClockInv /\ QueueInv /\ ReleasedInv
        /\ vectorClock \in [Threads -> Clock] /\ vectorClock[t] \in Clock
        /\ past \in [Threads -> SUBSET Epochs]
        /\ \A u \in Threads : blockHistoryQueues[u] \in Seq(SigRaceData)
    BY DEF TypeInv, TypeOK, ExactInv
  <1>1. /\ vectorClock' = [vectorClock EXCEPT ![t] = w] /\ vectorClock'[t] = w
        /\ \A u \in Threads \ {t} : vectorClock'[u] = vectorClock[u]
    BY <1>0 DEF SetClock
  <1>2. Known \in Clock /\ Known' \in Clock /\ Below(Known, Known')
    BY <1>0, <1>1, KnownGrows
  <1>3. Others(w, t, Known')
    <2>1. \A j \in Threads : w[j] \in Nat /\ Known[j] \in Nat /\ Known'[j] \in Nat
                             /\ Known[j] <= Known'[j]
      BY <1>2 DEF Clock, Below
    <2>2. ASSUME NEW j \in Threads \ {t} PROVE w[j] <= Known'[j]
      BY <2>1
    <2> QED BY <2>2 DEF Others
  <1>4. /\ Known[t] = vectorClock[t][t] + Slack(t) /\ vectorClock[t][t] \in Nat
        /\ Slack(t) \in {0, 1} /\ w[t] \in Nat
    BY <1>0, KnownType DEF Slack
  <1>5. Known[t] <= w[t] /\ vectorClock[t][t] <= w[t]
    BY <1>4
  <1>6. ASSUME NEW u \in Threads \ {t}, NEW v \in Stamps(u), Seen(v, u, vectorClock[t], t)
        PROVE  Seen(v, u, w, t)
    <2>1. v[t] <= Known[t] /\ v[t] \in Nat
      <3>1. CASE v = vectorClock[u]
        BY <1>0, <3>1 DEF ClockInv, Others, Clock
      <3>2. ASSUME NEW e \in Entries(u), v = e.ts PROVE v[t] <= Known[t] /\ v[t] \in Nat
        <4>1. e \in SigRaceData
          BY <1>0 DEF Entries
        <4> QED BY <1>0, <3>2, <4>1 DEF QueueInv, Others, SigRaceData, Clock
      <3> QED BY <3>1, <3>2 DEF Stamps
    <2>2. CASE Slack(t) = 0
      BY <1>4, <2>1, <2>2 DEF Seen
    <2>3. CASE w = advance(vectorClock[t], t)
      <3>1. w[u] = vectorClock[t][u]
        BY <1>0, <2>3 DEF advance, Clock
      <3> QED BY <1>4, <1>6, <2>1, <3>1 DEF Seen
    <2> QED BY <2>2, <2>3
  <1>7. ClockStep(t, w, q)
    BY <1>1, <1>2, <1>3, <1>5, <1>6 DEF ClockStep
  <1>8. past'[t] = q
    BY <1>0
  <1>9. pc'[t] \notin Entered => Below(w, Known')
    <2>1. CASE pc'[t] \notin Entered
      <3>1. Known'[t] = w[t] + Slack(t)' /\ Slack(t)' \in {0, 1}
        <4>1. Known'[t] = Limit'[t]
          BY <2>1 DEF Known
        <4> QED BY <1>1, <4>1 DEF Limit, Slack
      <3>2. w[t] <= Known'[t]
        BY <1>4, <3>1
      <3> QED BY <1>3, <3>2 DEF Others, Below
    <2> QED BY <2>1
  <1> QED BY <1>0, <1>1, <1>2, <1>7, <1>8, <1>9, StepKeeps, ReleasedKept

\* Steps without a mutex keep what the mutexes carry.
LEMMA MutexKept ==
    ASSUME TypeOK, MutexInv, UNCHANGED <<owner, unlockedThreadMap, mutexPast>>,
           Known \in Clock, Known' \in Clock, Below(Known, Known')
    PROVE  MutexInv'
  <1>1. ASSUME NEW m \in Mutexes
        PROVE  Below(unlockedThreadMap[m].vectorClock, Known')
    <2>1. unlockedThreadMap[m].vectorClock \in Clock
      BY DEF TypeOK, ThreadInfo
    <2> QED BY <2>1, BelowTransitive DEF MutexInv
  <1> QED BY <1>1 DEF MutexInv

-----------------------------------------------------------------------------
\* The steps, one by one.

\* What their proofs have in common.
Frame ==
    /\ TypeInv /\ TypeInv' /\ CreationInv /\ CreationInv' /\ ExactInv /\ AheadInv'
    /\ GatherFrame

LEMMA FrameFacts ==
    ASSUME Frame
    PROVE  /\ TypeInv /\ TypeInv' /\ FinalClockInv /\ FinalClockInv' /\ ExactInv
           /\ TypeOK /\ ClockInv /\ MutexInv /\ JoinInv /\ AheadInv'
           /\ FamilyInv /\ HandshakeInv /\ HandleInv
           /\ ReleasedFrame
           /\ \A u \in Threads : pc'[u] \in Entered => pc[u] \in Entered
           /\ pc \in [Threads -> PcValues] /\ vectorClock \in [Threads -> Clock]
           /\ past \in [Threads -> SUBSET Epochs] /\ joined \subseteq Threads
           /\ \A j \in Threads : pc[j] \notin Entered =>
                 Known[j] = vectorClock[j][j] + Slack(j)
           /\ \A j \in Threads : vectorClock[j][j] \in Nat
  <1>1. /\ TypeInv /\ TypeInv' /\ FinalClockInv /\ FinalClockInv' /\ ExactInv
        /\ ClockInv /\ MutexInv /\ JoinInv /\ AheadInv'
        /\ FamilyInv /\ HandshakeInv /\ HandleInv
    BY DEF Frame, CreationInv, ExactInv, AheadInv
  <1>2. /\ TypeOK /\ pc \in [Threads -> PcValues] /\ vectorClock \in [Threads -> Clock]
        /\ past \in [Threads -> SUBSET Epochs] /\ joined \subseteq Threads
    BY <1>1 DEF TypeInv, TypeOK
  <1>3. ReleasedFrame
    BY DEF Frame, GatherFrame, AtBarrier, ReleasedFrame, Left
  <1>4. \A u \in Threads : pc'[u] \in Entered => pc[u] \in Entered
    BY DEF Frame, GatherFrame, AtBarrier, Entered
  <1> QED BY <1>1, <1>2, <1>3, <1>4, KnownType

\* A step that ends no epoch and leaves the mutexes alone.
LEMMA QuietExact ==
    ASSUME Frame, NEW t \in Threads, UNCHANGED <<vectorClock, past>>,
           joined \subseteq joined', MayHandOver(t),
           UNCHANGED <<owner, unlockedThreadMap, mutexPast>>,
           \A u \in Threads : pc[u] \in Creating => pc'[u] \in Creating
    PROVE  ExactInv'
  <1>0. /\ TypeInv /\ TypeInv' /\ FinalClockInv /\ FinalClockInv' /\ ExactInv
        /\ TypeOK /\ MutexInv /\ AheadInv' /\ ReleasedFrame
        /\ \A u \in Threads : pc'[u] \in Entered => pc[u] \in Entered
    BY FrameFacts
  <1>1. /\ ClockInv' /\ QueueInv' /\ ReleasedInv'
        /\ Known \in Clock /\ Known' \in Clock /\ Below(Known, Known')
    BY <1>0, StandingStep
  <1>2. MutexInv'
    BY <1>0, <1>1, MutexKept
  <1> QED BY <1>0, <1>1, <1>2 DEF ExactInv

\* Memory accesses change no clock.
LEMMA AccessExact ==
    ASSUME Frame, NEW t \in Threads, Access(t)
    PROVE  ExactInv'
  BY QuietExact DEF Access, Read, Write, program, syncMaps, rdm, ghosts, MayHandOver

\* A lock receives the epochs of the last owner, an unlock leaves its own.
LEMMA LockExact ==
    ASSUME Frame, NEW t \in Threads, AfterLock(t)
    PROVE  ExactInv'
  <1> DEFINE m == lockAddr[t]
             info == unlockedThreadMap[m]
             a == advance(vectorClock[t], t)
             w == IF info.tid # NO_ID THEN receiveAction(a, info.vectorClock) ELSE a
             q == past[t] \cup {Epoch(t)} \cup mutexPast[m]
  <1>0. /\ TypeInv /\ TypeInv' /\ FinalClockInv /\ FinalClockInv' /\ ExactInv
        /\ TypeOK /\ ClockInv /\ MutexInv /\ JoinInv /\ AheadInv' /\ ReleasedFrame
        /\ \A u \in Threads : pc'[u] \in Entered => pc[u] \in Entered
        /\ pc \in [Threads -> PcValues] /\ vectorClock \in [Threads -> Clock]
        /\ vectorClock[t] \in Clock /\ joined \subseteq Threads
    BY FrameFacts
  <1>1. /\ m \in Mutexes /\ pc[t] \in {"lock", "trylock"} /\ owner[m] = NO_ID
        /\ pc' = [pc EXCEPT ![t] = "run"] /\ owner' = [owner EXCEPT ![m] = t]
        /\ joined' = joined /\ joined \subseteq joined' /\ UNCHANGED mutexPast
        /\ owner \in [Mutexes -> ThreadIds]
        /\ unlockedThreadMap \in [Mutexes -> ThreadInfo]
        /\ t # NO_ID
    BY <1>0 DEF AfterLock, At, Goto, TypeInv, ArgumentsOK, TypeOK, Threads, NO_ID
  <1>2. /\ pc[t] \notin Entered /\ pc'[t] \notin Entered
        /\ \A u \in Threads : pc[u] \in Creating => pc'[u] \in Creating
    BY <1>0, <1>1 DEF Creating, Entered
  <1>3. Slack(t) = 0 /\ vectorClock[t][t] > 0
    BY <1>0, <1>1 DEF Slack, JoinInv, Creating, FinalClockInv
  <1>4. CASE m \in Tracked
    <2>1. /\ SetClock(t, w) /\ past' = [past EXCEPT ![t] = q] /\ addSignature(t)
          /\ unlockedThreadMap' = [unlockedThreadMap EXCEPT ![m] =
                                      [info EXCEPT !.tid = NO_ID]]
      BY <1>4 DEF AfterLock, EndEpoch, ExtendPast
    <2>2. info \in ThreadInfo /\ info.vectorClock \in Clock
      BY <1>1 DEF ThreadInfo
    <2>3. a \in Clock /\ a[t] = vectorClock[t][t] + 1
          /\ \A u \in Threads \ {t} : a[u] = vectorClock[t][u]
      BY <1>0 DEF advance, Clock
    <2>4. Represents(a, past[t] \cup {Epoch(t)})
      BY <1>0, <1>3, AdvanceRepresents DEF ClockInv, Epoch
    <2>5. Below(info.vectorClock, Known) /\ Others(vectorClock[t], t, Known)
      BY <1>0, <1>1 DEF MutexInv, ClockInv
    <2>6. Known[t] = vectorClock[t][t] /\ vectorClock[t][t] \in Nat
      BY <1>0, <1>2, <1>3, KnownType
    <2>7. /\ w \in Clock /\ w[t] = vectorClock[t][t] + 1
          /\ \A u \in Threads \ {t} : w[u] <= Known[u]
          /\ Represents(w, q)
      <3>1. CASE info.tid # NO_ID
        <4>1. /\ w = receiveAction(a, info.vectorClock)
              /\ Represents(info.vectorClock, mutexPast[m])
          BY <1>0, <1>1, <3>1 DEF MutexInv
        <4>2. w \in Clock
          BY <2>2, <2>3, <4>1, ReceiveGrows
        <4>3. \A u \in Threads : w[u] = IF a[u] > info.vectorClock[u]
                                        THEN a[u] ELSE info.vectorClock[u]
          BY <4>1 DEF receiveAction
        <4>4. info.vectorClock[t] <= vectorClock[t][t] /\ info.vectorClock[t] \in Nat
          BY <2>2, <2>5, <2>6 DEF Below, Clock
        <4>5. w[t] = vectorClock[t][t] + 1
          BY <2>3, <2>6, <4>3, <4>4
        <4>6. \A u \in Threads \ {t} : w[u] <= Known[u]
          BY <2>3, <2>5, <4>3 DEF Below, Others
        <4>7. Represents(w, q)
          BY <2>2, <2>3, <2>4, <4>1, ReceiveRepresents
        <4> QED BY <4>2, <4>5, <4>6, <4>7
      <3>2. CASE info.tid = NO_ID
        <4>1. w = a /\ mutexPast[m] = {}
          BY <1>0, <1>1, <3>2 DEF MutexInv
        <4>2. q = past[t] \cup {Epoch(t)}
          BY <4>1
        <4> QED BY <2>3, <2>4, <2>5, <4>1, <4>2 DEF Others
      <3> QED BY <3>1, <3>2
    <2>8. MayHandOver(t)
      BY <1>3, <2>1 DEF MayHandOver
    <2> HIDE DEF w, q, a
    <2>9. /\ ClockInv' /\ QueueInv' /\ ReleasedInv'
          /\ Known \in Clock /\ Known' \in Clock /\ Below(Known, Known')
      BY <1>0, <1>1, <1>2, <1>3, <2>1, <2>7, <2>8, MovingStep
    <2>10. ASSUME NEW x \in Mutexes
           PROVE  /\ Below(unlockedThreadMap'[x].vectorClock, Known')
                  /\ x \notin Tracked =>
                       unlockedThreadMap'[x].tid = NO_ID /\ mutexPast[x] = {}
                  /\ owner'[x] = NO_ID =>
                       \/ /\ unlockedThreadMap'[x].tid # NO_ID
                          /\ Represents(unlockedThreadMap'[x].vectorClock, mutexPast[x])
                       \/ unlockedThreadMap'[x].tid = NO_ID /\ mutexPast[x] = {}
      <3>1. /\ unlockedThreadMap[x].vectorClock \in Clock
            /\ Below(unlockedThreadMap[x].vectorClock, Known)
        BY <1>0, <1>1 DEF ThreadInfo, MutexInv
      <3>2. unlockedThreadMap'[x].vectorClock = unlockedThreadMap[x].vectorClock
        BY <1>1, <2>1, <2>2 DEF ThreadInfo
      <3>3. Below(unlockedThreadMap'[x].vectorClock, Known')
        BY <2>9, <3>1, <3>2, BelowTransitive
      <3>4. CASE x = m
        <4>1. owner'[x] = t
          BY <1>1, <3>4
        <4> QED BY <1>1, <1>4, <3>3, <3>4, <4>1
      <3>5. CASE x # m
        <4>1. owner'[x] = owner[x] /\ unlockedThreadMap'[x] = unlockedThreadMap[x]
          BY <1>1, <2>1, <3>5
        <4> QED BY <1>0, <3>3, <4>1 DEF MutexInv
      <3> QED BY <3>4, <3>5
    <2>11. MutexInv'
      BY <1>1, <2>10 DEF MutexInv
    <2> QED BY <1>0, <2>9, <2>11 DEF ExactInv
  <1>5. CASE m \notin Tracked
    <2>1. /\ UNCHANGED <<vectorClock, past, blockHistoryQueues, unlockedThreadMap>>
          /\ MayHandOver(t)
      BY <1>5 DEF AfterLock, rdm, MayHandOver
    <2>2. /\ ClockInv' /\ QueueInv' /\ ReleasedInv'
          /\ Known \in Clock /\ Known' \in Clock /\ Below(Known, Known')
      BY <1>0, <1>1, <1>2, <2>1, StandingStep
    <2>3. MutexInv'
      <3>1. \A x \in Mutexes : owner'[x] = NO_ID => owner[x] = NO_ID
        BY <1>1
      <3>2. ASSUME NEW x \in Mutexes
            PROVE  Below(unlockedThreadMap[x].vectorClock, Known')
        BY <1>0, <1>1, <2>2, BelowTransitive DEF ThreadInfo, MutexInv
      <3> QED BY <1>0, <1>1, <2>1, <3>1, <3>2 DEF MutexInv
    <2> QED BY <1>0, <2>2, <2>3 DEF ExactInv
  <1> QED BY <1>4, <1>5

LEMMA UnlockExact ==
    ASSUME Frame, NEW t \in Threads, NEW m \in Mutexes, BeforeUnlock(t, m)
    PROVE  ExactInv'
  <1>0. /\ TypeInv /\ TypeInv' /\ FinalClockInv /\ FinalClockInv' /\ ExactInv
        /\ TypeOK /\ ClockInv /\ MutexInv /\ JoinInv /\ AheadInv' /\ ReleasedFrame
        /\ \A u \in Threads : pc'[u] \in Entered => pc[u] \in Entered
        /\ pc \in [Threads -> PcValues] /\ vectorClock \in [Threads -> Clock]
        /\ vectorClock[t] \in Clock /\ joined \subseteq Threads
    BY FrameFacts
  <1>1. /\ pc[t] = "run" /\ owner[m] = t /\ pc' = pc
        /\ owner' = [owner EXCEPT ![m] = NO_ID]
        /\ joined' = joined /\ joined \subseteq joined'
        /\ owner \in [Mutexes -> ThreadIds]
        /\ unlockedThreadMap \in [Mutexes -> ThreadInfo]
        /\ mutexPast \in [Mutexes -> SUBSET Epochs]
        /\ t # NO_ID
    BY <1>0 DEF BeforeUnlock, At, TypeOK, Threads, NO_ID
  <1>2. /\ pc[t] \notin Entered /\ pc'[t] \notin Entered
        /\ \A u \in Threads : pc[u] \in Creating => pc'[u] \in Creating
    BY <1>0, <1>1 DEF Entered
  <1>3. Slack(t) = 0 /\ vectorClock[t][t] > 0
    BY <1>0, <1>1 DEF Slack, JoinInv, Creating, FinalClockInv
  <1>4. CASE m \in Tracked
    <2> DEFINE w == advance(vectorClock[t], t)
               q == past[t] \cup {Epoch(t)}
    <2>1. /\ SetClock(t, w) /\ past' = [past EXCEPT ![t] = q] /\ addSignature(t)
          /\ unlockedThreadMap' = [unlockedThreadMap EXCEPT
                  ![m] = [tid |-> t, vectorClock |-> vectorClock'[t]]]
          /\ mutexPast' = [mutexPast EXCEPT ![m] = past'[t]]
      BY <1>4 DEF BeforeUnlock, LeaveClock, EndEpoch, ExtendPast
    <2>2. /\ w \in Clock /\ w[t] = vectorClock[t][t] + 1
          /\ \A u \in Threads \ {t} : w[u] = vectorClock[t][u]
      BY <1>0 DEF advance, Clock
    <2>3. Represents(w, q)
      BY <1>0, <1>3, AdvanceRepresents DEF ClockInv, Epoch
    <2>4. \A u \in Threads \ {t} : w[u] <= Known[u]
      BY <1>0, <2>2 DEF ClockInv, Others
    <2>5. MayHandOver(t)
      BY <1>3, <2>1 DEF MayHandOver
    <2> HIDE DEF w, q
    <2>6. /\ ClockInv' /\ QueueInv' /\ ReleasedInv' /\ vectorClock'[t] = w /\ past'[t] = q
          /\ Known \in Clock /\ Known' \in Clock /\ Below(Known, Known')
          /\ Below(w, Known')
      <3>1. \A u \in Threads \ {t} :
               /\ pc[u] \in Creating => pc'[u] \in Creating
               /\ pc'[u] \in Entered => pc[u] \in Entered
               /\ w[u] <= Known[u] \/ w[u] <= Known'[u]
        BY <1>0, <1>2, <2>4
      <3>2. /\ SetClock(t, w) /\ past' = [past EXCEPT ![t] = q]
            /\ joined \subseteq joined' /\ Slack(t) = 0
            /\ pc[t] \notin Entered /\ pc'[t] \notin Entered
        BY <1>1, <1>2, <1>3, <2>1
      <3> QED BY <1>0, <2>2, <2>3, <2>5, <3>1, <3>2, MovingStep
    <2>7. ASSUME NEW x \in Mutexes
          PROVE  /\ Below(unlockedThreadMap'[x].vectorClock, Known')
                 /\ x \notin Tracked =>
                      unlockedThreadMap'[x].tid = NO_ID /\ mutexPast'[x] = {}
                 /\ owner'[x] = NO_ID =>
                      \/ /\ unlockedThreadMap'[x].tid # NO_ID
                         /\ Represents(unlockedThreadMap'[x].vectorClock, mutexPast'[x])
                      \/ unlockedThreadMap'[x].tid = NO_ID /\ mutexPast'[x] = {}
      <3>1. CASE x = m
        <4>1. /\ unlockedThreadMap'[x] = [tid |-> t, vectorClock |-> w]
              /\ mutexPast'[x] = q
          BY <1>1, <2>1, <2>6, <3>1
        <4> QED BY <1>1, <1>4, <2>3, <2>6, <3>1, <4>1
      <3>2. CASE x # m
        <4>1. /\ owner'[x] = owner[x] /\ unlockedThreadMap'[x] = unlockedThreadMap[x]
              /\ mutexPast'[x] = mutexPast[x]
          BY <1>1, <2>1, <3>2
        <4>2. /\ unlockedThreadMap[x].vectorClock \in Clock
              /\ Below(unlockedThreadMap[x].vectorClock, Known)
          BY <1>0, <1>1 DEF ThreadInfo, MutexInv
        <4>3. Below(unlockedThreadMap'[x].vectorClock, Known')
          BY <2>6, <4>1, <4>2, BelowTransitive
        <4> QED BY <1>0, <4>1, <4>3 DEF MutexInv
      <3> QED BY <3>1, <3>2
    <2>8. MutexInv'
      BY <2>7 DEF MutexInv
    <2> QED BY <1>0, <2>6, <2>8 DEF ExactInv
  <1>5. CASE m \notin Tracked
    <2>1. /\ UNCHANGED <<vectorClock, past, blockHistoryQueues, unlockedThreadMap, mutexPast>>
          /\ MayHandOver(t)
      BY <1>5 DEF BeforeUnlock, rdm, MayHandOver
    <2>2. /\ ClockInv' /\ QueueInv' /\ ReleasedInv'
          /\ Known \in Clock /\ Known' \in Clock /\ Below(Known, Known')
      BY <1>0, <1>1, <1>2, <2>1, StandingStep
    <2>3. MutexInv'
      <3>1. ASSUME NEW x \in Mutexes
            PROVE  Below(unlockedThreadMap[x].vectorClock, Known')
        BY <1>0, <1>1, <2>2, BelowTransitive DEF ThreadInfo, MutexInv
      <3>2. \A x \in Mutexes : owner'[x] = NO_ID => (owner[x] = NO_ID \/ x = m)
        BY <1>1
      <3> QED BY <1>0, <1>5, <2>1, <3>1, <3>2 DEF MutexInv
    <2> QED BY <1>0, <2>2, <2>3 DEF ExactInv
  <1> QED BY <1>4, <1>5

LEMMA MutexStepExact ==
    ASSUME Frame, NEW t \in Threads, MutexStep(t)
    PROVE  ExactInv'
  <1>1. CASE AfterFailedTryLock(t) \/ \E m \in Mutexes, call \in {"lock", "trylock"} :
                                          BeforeLock(t, m, call)
    <2>1. /\ UNCHANGED <<vectorClock, past, blockHistoryQueues, owner, unlockedThreadMap,
                         mutexPast>>
          /\ joined' = joined
          /\ pc[t] \in {"run", "trylock"}
          /\ \E l \in {"run", "lock", "trylock"} : pc' = [pc EXCEPT ![t] = l]
      BY <1>1 DEF AfterFailedTryLock, BeforeLock, At, Goto, program, syncMaps, rdm, ghosts
    <2>2. \A u \in Threads : pc[u] \in Creating => pc'[u] \in Creating
      BY <2>1, FrameFacts DEF Creating
    <2> QED BY <2>1, <2>2, QuietExact DEF MayHandOver
  <1> QED BY <1>1, LockExact, UnlockExact DEF MutexStep

-----------------------------------------------------------------------------
\* Thread creation, joining, start and end.

\* The handlers of pthread_create that change no clock.
LEMMA CreatingExact ==
    ASSUME Frame, NEW t \in Threads,
           CreateCall(t) \/ CreateTimeout(t) \/ CreatePublish(t)
    PROVE  ExactInv'
  <1> USE DEF At, Goto
  <1>0. /\ TypeOK /\ FamilyInv /\ pc \in [Threads -> PcValues]
    BY FrameFacts
  <1>1. /\ UNCHANGED <<vectorClock, past, blockHistoryQueues, owner, unlockedThreadMap,
                       mutexPast>>
        /\ joined \subseteq joined'
    BY DEF CreateCall, Spawn, CreateTimeout, CreatePublish, Publish,
           rdm, ghosts, program, syncMaps
  <1>2. \A u \in Threads : pc[u] \in Creating => pc'[u] \in Creating
    <2>1. CASE CreateCall(t)
      <3>1. /\ pc[t] = "run" /\ nextTid < MaxThreads
            /\ pc' = [pc EXCEPT ![t] = "create", ![nextTid] = "spawned"]
        BY <2>1 DEF CreateCall, Spawn
      <3>2. nextTid \in Threads /\ nextTid > Newest
        BY <1>0, <3>1, InstanceAssumption, ThreadCountAssumption DEF TypeOK, Threads, Newest
      <3>3. pc[nextTid] = "none" /\ t # nextTid
        BY <1>0, <3>1, <3>2 DEF FamilyInv
      <3>4. \A u \in Threads \ {t, nextTid} : pc'[u] = pc[u]
        BY <1>0, <3>1, <3>2, <3>3
      <3> QED BY <3>1, <3>3, <3>4 DEF Creating
    <2>2. CASE CreateTimeout(t)
      BY <2>2 DEF CreateTimeout
    <2>3. CASE CreatePublish(t)
      BY <1>0, <2>3 DEF CreatePublish, Publish, Creating
    <2> QED BY <2>1, <2>2, <2>3
  <1> QED BY <1>1, <1>2, QuietExact DEF MayHandOver

\* The creator's epoch ends when its child has started.
LEMMA EpochExact ==
    ASSUME Frame, NEW t \in Threads, CreateEpoch(t)
    PROVE  ExactInv'
  <1> DEFINE w == advance(vectorClock[t], t)
             q == past[t] \cup {Epoch(t)}
  <1>0. /\ TypeInv /\ TypeInv' /\ FinalClockInv /\ FinalClockInv' /\ ExactInv
        /\ TypeOK /\ ClockInv /\ MutexInv /\ AheadInv' /\ ReleasedFrame
        /\ \A u \in Threads : pc'[u] \in Entered => pc[u] \in Entered
        /\ pc \in [Threads -> PcValues] /\ vectorClock \in [Threads -> Clock]
        /\ vectorClock[t] \in Clock
    BY FrameFacts
  <1>1. /\ pc[t] = "publish" /\ pc' = [pc EXCEPT ![t] = "run"]
        /\ SetClock(t, w) /\ past' = [past EXCEPT ![t] = q] /\ addSignature(t)
        /\ joined' = joined /\ UNCHANGED <<owner, unlockedThreadMap, mutexPast>>
    BY DEF CreateEpoch, EndEpoch, ExtendPast, At, Goto, syncMaps
  <1>2. pc'[t] = "run" /\ \A u \in Threads \ {t} : pc'[u] = pc[u]
    BY <1>0, <1>1
  <1>3. vectorClock[t][t] > 0
    BY <1>0, <1>1 DEF FinalClockInv
  <1>4. /\ w \in Clock /\ w[t] = vectorClock[t][t] + 1
        /\ \A u \in Threads \ {t} : w[u] = vectorClock[t][u]
    BY <1>0 DEF advance, Clock
  <1>5. Represents(w, q)
    BY <1>0, <1>3, AdvanceRepresents DEF ClockInv, Epoch
  <1>6. MayHandOver(t)
    BY <1>1, <1>3 DEF MayHandOver
  <1>7. /\ ClockInv' /\ QueueInv' /\ ReleasedInv'
        /\ Known \in Clock /\ Known' \in Clock /\ Below(Known, Known')
    <2>1. w = advance(vectorClock[t], t)
      OBVIOUS
    <2> HIDE DEF w, q
    <2>2. \A u \in Threads \ {t} :
             /\ pc[u] \in Creating => pc'[u] \in Creating
             /\ pc'[u] \in Entered => pc[u] \in Entered
             /\ w[u] <= Known[u] \/ w[u] <= Known'[u]
      BY <1>0, <1>2, <1>4 DEF ClockInv, Others
    <2>3. /\ SetClock(t, w) /\ past' = [past EXCEPT ![t] = q]
          /\ joined \subseteq joined'
          /\ pc[t] \notin Entered /\ pc'[t] \notin Entered
      BY <1>1, <1>2 DEF Entered
    <2> QED BY <1>0, <1>4, <1>5, <1>6, <2>1, <2>2, <2>3, MovingStep
  <1>8. MutexInv'
    BY <1>0, <1>1, <1>7, MutexKept
  <1> QED BY <1>0, <1>7, <1>8 DEF ExactInv

\* A thread starts with the clock of its creator, whose epoch goes on.
LEMMA StartExact ==
    ASSUME Frame, NEW t \in Threads, ThreadStart(t)
    PROVE  ExactInv'
  <1> USE DEF At, Goto
  <1>0. /\ TypeInv /\ TypeInv' /\ FinalClockInv /\ FinalClockInv' /\ ExactInv
        /\ TypeOK /\ ClockInv /\ MutexInv /\ JoinInv /\ AheadInv' /\ ReleasedFrame
        /\ \A u \in Threads : pc'[u] \in Entered => pc[u] \in Entered
        /\ pc \in [Threads -> PcValues] /\ vectorClock \in [Threads -> Clock]
        /\ past \in [Threads -> SUBSET Epochs]
        /\ vectorClock[t] \in Clock /\ FamilyInv /\ HandshakeInv
        /\ \A j \in Threads : pc[j] \notin Entered =>
              Known[j] = vectorClock[j][j] + Slack(j)
        /\ Known \in Clock
    BY FrameFacts, KnownType
  <1>1. /\ pc[t] = "spawned"
        /\ joined' = joined
        /\ UNCHANGED <<blockHistoryQueues, owner, unlockedThreadMap, mutexPast>>
        /\ parent[t] \in ThreadIds
    BY <1>0 DEF ThreadStart, program, syncMaps, TypeOK
  <1>2. CASE ~ (threadCount + 1 < MAX_THREAD_COUNT)
    <2>1. UNCHANGED <<pc, vectorClock, past>>
      BY <1>2 DEF ThreadStart
    <2> QED BY <1>1, <2>1, QuietExact DEF MayHandOver
  <1>3. CASE threadCount + 1 < MAX_THREAD_COUNT
    <2>1. pc' = [pc EXCEPT ![t] = "run"]
      BY <1>3 DEF ThreadStart
    <2>2. pc'[t] = "run" /\ \A u \in Threads \ {t} : pc'[u] = pc[u]
      BY <1>0, <2>1
    <2>3. /\ Slack(t) = 0 /\ vectorClock[t] = ZeroClock
          /\ vectorClock[t][t] = 0 /\ Known[t] = 0
      <3>1. Slack(t) = 0
        BY <1>0, <1>1 DEF Slack, Creating, JoinInv
      <3>2. vectorClock[t] = ZeroClock
        BY <1>0, <1>1 DEF ExactInv, AheadInv, BoundInv
      <3>3. vectorClock[t][t] = 0
        BY <3>2 DEF ZeroClock
      <3> QED BY <1>0, <1>1, <3>1, <3>2, <3>3 DEF Entered
    <2>5. \E w \in Clock, q \in SUBSET Epochs :
            /\ SetClock(t, w) /\ past' = [past EXCEPT ![t] = q]
            /\ Represents(w, q) /\ w[t] = vectorClock[t][t] + 1
            /\ \A u \in Threads \ {t} : w[u] <= Known[u]
      <3>1. CASE parent[t] # NO_ID
        <4> DEFINE p == parent[t]
                   w == ChildClock(vectorClock[p], p, t)
                   q == past[p] \cup {Epoch(p)}
        <4>1. p \in Threads /\ t # 0
          BY <1>0, <1>1, <3>1 DEF FamilyInv, ThreadIds
        <4>2. pc[p] = "create" /\ p # t
          BY <1>0, <1>1, <4>1 DEF HandshakeInv
        <4>3. /\ vectorClock[p] \in Clock /\ vectorClock[p][p] \in Nat
              /\ vectorClock[p][p] > 0 /\ past[p] \in SUBSET Epochs
          BY <1>0, <4>1, <4>2 DEF FinalClockInv, Clock
        <4>4. vectorClock[p][t] = 0
          <5>1. vectorClock[p][t] <= Known[t] /\ vectorClock[p][t] \in Nat
            BY <1>0, <4>1, <4>2, <4>3 DEF ClockInv, Others, Clock
          <5> QED BY <2>3, <5>1
        <4>5. /\ w \in Clock
              /\ \A u \in Threads : w[u] = IF u \in {p, t} THEN vectorClock[p][u] + 1
                                                       ELSE vectorClock[p][u]
          BY <4>1, <4>3 DEF ChildClock, Clock
        <4>6. Represents(vectorClock[p], past[p])
          BY <1>0, <4>1 DEF ClockInv
        <4>7. Represents(w, q)
          BY <4>1, <4>2, <4>3, <4>4, <4>6, ChildRepresents DEF Epoch
        <4>8. Known[p] = vectorClock[p][p] + 1
          BY <1>0, <4>1, <4>2 DEF Slack, Creating, Entered
        <4>9. \A u \in Threads \ {t} : w[u] <= Known[u]
          <5>1. \A u \in Threads \ {p} : vectorClock[p][u] <= Known[u]
            BY <1>0, <4>1 DEF ClockInv, Others
          <5>2. \A u \in Threads \ {t} : u # p => w[u] = vectorClock[p][u]
            BY <4>5
          <5>3. w[p] = vectorClock[p][p] + 1
            BY <4>1, <4>5
          <5>4. w[p] <= Known[p]
            BY <4>3, <4>8, <5>3
          <5> QED BY <5>1, <5>2, <5>4
        <4>10. w[t] = vectorClock[t][t] + 1
          BY <2>3, <4>4, <4>5
        <4>11. SetClock(t, w) /\ past' = [past EXCEPT ![t] = q]
          BY <1>3, <3>1 DEF ThreadStart
        <4>12. q \in SUBSET Epochs
          BY <4>1, <4>3 DEF Epoch, Epochs
        <4> HIDE DEF w, q
        <4> QED BY <4>5, <4>7, <4>9, <4>10, <4>11, <4>12
      <3>2. CASE parent[t] = NO_ID
        <4>1. SetClock(t, FirstClock(t)) /\ past' = [past EXCEPT ![t] = past[t]]
          BY <1>0, <1>3, <3>2 DEF ThreadStart
        <4>2. \A u \in Threads : FirstClock(t)[u] = IF u = t THEN 1 ELSE 0
          BY DEF FirstClock, ZeroClock
        <4>3. FirstClock(t) \in Clock
          BY DEF FirstClock, ZeroClock, Clock
        <4>4. Represents(FirstClock(t), past[t])
          <5>1. Represents(ZeroClock, past[t])
            BY <1>0, <2>3 DEF ClockInv
          <5>2. ASSUME NEW u \in Threads, NEW n \in Nat
                PROVE  <<u, n>> \in past[t] <=> (0 < n /\ n < FirstClock(t)[u])
            <6>1. <<u, n>> \in past[t] <=> (0 < n /\ n < ZeroClock[u])
              BY <5>1 DEF Represents
            <6>2. ZeroClock[u] = 0 /\ FirstClock(t)[u] \in {0, 1}
              BY <4>2 DEF ZeroClock
            <6> QED BY <6>1, <6>2
          <5> QED BY <5>2 DEF Represents
        <4>5. \A u \in Threads \ {t} : FirstClock(t)[u] <= Known[u]
          BY <1>0, <4>2 DEF Clock
        <4>6. FirstClock(t)[t] = vectorClock[t][t] + 1 /\ past[t] \in SUBSET Epochs
          BY <1>0, <2>3, <4>2
        <4> QED BY <4>1, <4>3, <4>4, <4>5, <4>6
      <3> QED BY <3>1, <3>2
    <2>6. PICK w \in Clock, q \in SUBSET Epochs :
            /\ SetClock(t, w) /\ past' = [past EXCEPT ![t] = q]
            /\ Represents(w, q) /\ w[t] = vectorClock[t][t] + 1
            /\ \A u \in Threads \ {t} : w[u] <= Known[u]
      BY <2>5
    <2>7. /\ ClockInv' /\ QueueInv' /\ ReleasedInv'
          /\ Known \in Clock /\ Known' \in Clock /\ Below(Known, Known')
      <3>1. \A u \in Threads \ {t} :
               /\ pc[u] \in Creating => pc'[u] \in Creating
               /\ pc'[u] \in Entered => pc[u] \in Entered
               /\ w[u] <= Known[u] \/ w[u] <= Known'[u]
        BY <1>0, <2>2, <2>6
      <3>2. /\ joined \subseteq joined' /\ MayHandOver(t)
            /\ pc[t] \notin Entered /\ pc'[t] \notin Entered
        BY <1>1, <2>2 DEF Entered, MayHandOver
      <3> QED BY <1>0, <2>3, <2>6, <3>1, <3>2, MovingStep
    <2>8. MutexInv'
      BY <1>0, <1>1, <2>7, MutexKept
    <2> QED BY <1>0, <2>7, <2>8 DEF ExactInv
  <1> QED BY <1>2, <1>3

\* A thread leaves its final clock for its creator.
LEMMA FiniExact ==
    ASSUME Frame, NEW t \in Threads, ThreadFini(t)
    PROVE  ExactInv'
  <1>0. FinalClockInv /\ pc \in [Threads -> PcValues]
    BY FrameFacts
  <1>1. /\ pc[t] = "run" /\ pc' = [pc EXCEPT ![t] = "exited"] /\ addSignature(t)
        /\ UNCHANGED <<vectorClock, past, owner, unlockedThreadMap, mutexPast>>
        /\ joined \subseteq joined'
    BY DEF ThreadFini, At, Goto, program, syncMaps, ghosts
  <1>2. MayHandOver(t)
    BY <1>0, <1>1 DEF MayHandOver, FinalClockInv
  <1>3. \A u \in Threads : pc[u] \in Creating => pc'[u] \in Creating
    BY <1>0, <1>1 DEF Creating
  <1> QED BY <1>1, <1>2, <1>3, QuietExact

LEMMA JoinCallExact ==
    ASSUME Frame, NEW t \in Threads, NEW c \in Threads, JoinCall(t, c)
    PROVE  ExactInv'
  <1>0. pc \in [Threads -> PcValues]
    BY FrameFacts
  <1>1. /\ pc[t] = "run" /\ pc' = [pc EXCEPT ![t] = "join"]
        /\ UNCHANGED <<vectorClock, past, blockHistoryQueues, owner, unlockedThreadMap,
                       mutexPast>>
        /\ joined \subseteq joined'
    BY DEF JoinCall, At, Goto, rdm, ghosts, syncMaps
  <1>2. \A u \in Threads : pc[u] \in Creating => pc'[u] \in Creating
    BY <1>0, <1>1 DEF Creating
  <1> QED BY <1>1, <1>2, QuietExact DEF MayHandOver

\* The joiner receives the final clock of the thread, and counts its last epoch
\* as over.
LEMMA JoinReturnExact ==
    ASSUME Frame, NEW t \in Threads, thread[t] \in Threads, JoinReturn(t)
    PROVE  ExactInv'
  <1>0. /\ TypeInv /\ TypeInv' /\ FinalClockInv /\ FinalClockInv' /\ ExactInv
        /\ TypeOK /\ ClockInv /\ MutexInv /\ JoinInv /\ AheadInv' /\ ReleasedFrame
        /\ \A u \in Threads : pc'[u] \in Entered => pc[u] \in Entered
        /\ pc \in [Threads -> PcValues] /\ vectorClock \in [Threads -> Clock]
        /\ vectorClock[t] \in Clock /\ joined \subseteq Threads
        /\ past \in [Threads -> SUBSET Epochs] /\ HandleInv
        /\ \A j \in Threads : pc[j] \notin Entered =>
              Known[j] = vectorClock[j][j] + Slack(j)
    BY FrameFacts
  <1> DEFINE c == thread[t]
             p == pthreadPinIdMap[c]
  <1>1. /\ pc[t] = "join" /\ pc[c] = "exited" /\ c # t /\ addSignature(t)
        /\ UNCHANGED <<owner, unlockedThreadMap, mutexPast>>
    BY DEF JoinReturn, EndEpoch, At, syncMaps
  <1>2. vectorClock[t][t] > 0 /\ vectorClock[c][c] > 0
    BY <1>0, <1>1 DEF FinalClockInv
  <1>5. MayHandOver(t)
    BY <1>1, <1>2 DEF MayHandOver
  <1>3. CASE ~ (p # NO_ID /\ joinVCMap[t][p] # ZeroClock)
    <2>1. UNCHANGED <<pc, vectorClock, past>> /\ joined \subseteq joined'
      BY <1>3 DEF JoinReturn
    <2> QED BY <1>1, <1>5, <2>1, QuietExact
  <1>4. CASE p # NO_ID /\ joinVCMap[t][p] # ZeroClock
    <2>1. p = c
      BY <1>0, <1>4 DEF HandleInv
    <2>2. joinVCMap[t][c] = vectorClock[c] /\ c \notin joined
      BY <1>0, <1>1, <1>4, <2>1 DEF JoinInv
    <2> DEFINE w == receiveWithIncrement(vectorClock[t], t, vectorClock[c], c)
               q == past[t] \cup {Epoch(t)} \cup (past[c] \cup {Epoch(c)})
    <2>3. /\ SetClock(t, w) /\ past' = [past EXCEPT ![t] = q]
          /\ joined' = joined \cup {c} /\ joined \subseteq joined'
          /\ pc' = [pc EXCEPT ![t] = "run"]
      BY <1>4, <2>1, <2>2 DEF JoinReturn, ExtendPast, Goto
    <2>4. /\ vectorClock[c] \in Clock
          /\ \A u \in Threads : /\ vectorClock[t][u] \in Nat /\ vectorClock[c][u] \in Nat
                                /\ vectorClock[u][u] \in Nat
      BY <1>0 DEF Clock
    <2>5. /\ Slack(t) = 0
          /\ Known[t] = vectorClock[t][t] /\ Known[c] = vectorClock[c][c]
      <3>1. Slack(t) = 0 /\ Slack(c) = 0
        BY <1>0, <1>1, <2>2 DEF Slack, Creating, JoinInv
      <3>2. pc[t] \notin Entered /\ pc[c] \notin Entered
        BY <1>1 DEF Entered
      <3> QED BY <1>0, <2>4, <3>1, <3>2
    <2>6. /\ \A u \in Threads \ {t} : vectorClock[t][u] <= Known[u]
          /\ \A u \in Threads \ {c} : vectorClock[c][u] <= Known[u]
      BY <1>0 DEF ClockInv, Others
    <2>7. vectorClock[c][t] <= vectorClock[t][t] /\ vectorClock[t][c] <= vectorClock[c][c]
      BY <1>1, <2>5, <2>6
    <2>8. \A u \in Threads :
            w[u] = (IF vectorClock[t][u] > vectorClock[c][u]
                    THEN vectorClock[t][u] ELSE vectorClock[c][u])
                   + IF u \in {t, c} THEN 1 ELSE 0
      BY DEF receiveWithIncrement, receiveAction
    <2>9. w \in Clock
      BY <1>0, <2>4, JoinGrows
    <2>10. w[t] = vectorClock[t][t] + 1
      BY <2>4, <2>7, <2>8
    <2>11. Represents(w, q)
      <3>1. Represents(vectorClock[t], past[t]) /\ Represents(vectorClock[c], past[c])
        BY <1>0 DEF ClockInv
      <3> QED BY <1>0, <1>1, <1>2, <2>4, <2>7, <3>1, JoinRepresents DEF Epoch
    <2>12. /\ pc'[t] = "run" /\ \A u \in Threads \ {t} : pc'[u] = pc[u]
           /\ \A u \in Threads \ {t} : vectorClock'[u] = vectorClock[u]
      BY <1>0, <2>3 DEF SetClock
    <2>13. Known'[c] = vectorClock[c][c] + 1
      <3>1. \A j \in Threads : j \in joined' /\ pc'[j] \notin Entered =>
                                  Known'[j] = vectorClock'[j][j] + 1
        BY DEF Known, Limit, Slack
      <3>2. pc'[c] \notin Entered
        BY <1>1, <2>12 DEF Entered
      <3> QED BY <1>1, <2>3, <2>12, <3>1, <3>2
    <2>14. ASSUME NEW u \in Threads \ {t}
           PROVE  w[u] <= Known[u] \/ w[u] <= Known'[u]
      <3>1. CASE u = c
        <4>1. w[c] = vectorClock[c][c] + 1
          BY <1>1, <2>4, <2>7, <2>8
        <4> QED BY <2>4, <2>13, <3>1, <4>1
      <3>2. CASE u # c
        <4>1. w[u] = vectorClock[t][u] \/ w[u] = vectorClock[c][u]
          BY <2>4, <2>8, <3>2
        <4> QED BY <2>6, <3>2, <4>1
      <3> QED BY <3>1, <3>2
    <2>15. /\ ClockInv' /\ QueueInv' /\ ReleasedInv'
           /\ Known \in Clock /\ Known' \in Clock /\ Below(Known, Known')
      <3> HIDE DEF w, q, c
      <3>1. \A u \in Threads \ {t} :
               /\ pc[u] \in Creating => pc'[u] \in Creating
               /\ pc'[u] \in Entered => pc[u] \in Entered
               /\ w[u] <= Known[u] \/ w[u] <= Known'[u]
        BY <1>0, <2>12, <2>14
      <3>2. pc[t] \notin Entered /\ pc'[t] \notin Entered
        BY <1>1, <2>12 DEF Entered
      <3> QED BY <1>0, <1>5, <2>3, <2>5, <2>9, <2>10, <2>11, <3>1, <3>2, MovingStep
    <2>16. MutexInv'
      BY <1>0, <1>1, <2>15, MutexKept
    <2> QED BY <1>0, <2>15, <2>16 DEF ExactInv
  <1> QED BY <1>3, <1>4

\* All handlers of creation, joining, start and end.
LEMMA LifecycleExact ==
    ASSUME Frame, NEW t \in Threads, Lifecycle(t)
    PROVE  ExactInv'
  <1>1. JoinReturn(t) => thread[t] \in Threads
    BY FrameFacts DEF JoinReturn, At, TypeInv, ArgumentsOK
  <1> QED
    BY <1>1, CreatingExact, EpochExact, StartExact, FiniExact, JoinCallExact,
       JoinReturnExact
    DEF Lifecycle

-----------------------------------------------------------------------------
\* Barriers.

\* What the proofs of their steps have in common.
BarrierFrame ==
    /\ TypeInv /\ TypeInv' /\ CreationInv /\ CreationInv' /\ ExactInv /\ AheadInv'
    /\ GatherInv

LEMMA BarrierFacts ==
    ASSUME BarrierFrame
    PROVE  /\ TypeInv /\ TypeInv' /\ FinalClockInv /\ FinalClockInv' /\ ExactInv
           /\ TypeOK /\ ClockInv /\ MutexInv /\ JoinInv /\ AheadInv' /\ ReleasedInv
           /\ CreationInv /\ GatherInv /\ BoundInv
           /\ pc \in [Threads -> PcValues] /\ vectorClock \in [Threads -> Clock]
           /\ past \in [Threads -> SUBSET Epochs] /\ joined \subseteq Threads
           /\ pend \in [Threads -> SUBSET Epochs]
           /\ barrierAddr \in [Threads -> Barriers \cup {NULL}]
           /\ barrierWaitMap \in [Barriers -> BarrierData]
           /\ Known \in Clock
           /\ \A j \in Threads :
                 /\ pc[j] \notin Entered => Known[j] = vectorClock[j][j] + Slack(j)
                 /\ pc[j] \in Entered => Known[j] = vectorClock[j][j] - 1
                 /\ vectorClock[j][j] \in Nat
           /\ \A j \in Threads : pc[j] = "released" => barrierAddr[j] \in Barriers
  <1>1. /\ TypeInv /\ TypeInv' /\ FinalClockInv /\ FinalClockInv' /\ ExactInv
        /\ ClockInv /\ MutexInv /\ JoinInv /\ AheadInv' /\ ReleasedInv
        /\ CreationInv /\ GatherInv /\ BoundInv
    BY DEF BarrierFrame, CreationInv, ExactInv, AheadInv
  <1>2. /\ TypeOK /\ pc \in [Threads -> PcValues] /\ vectorClock \in [Threads -> Clock]
        /\ past \in [Threads -> SUBSET Epochs] /\ joined \subseteq Threads
        /\ pend \in [Threads -> SUBSET Epochs]
        /\ barrierAddr \in [Threads -> Barriers \cup {NULL}]
        /\ barrierWaitMap \in [Barriers -> BarrierData]
    BY <1>1 DEF TypeInv, TypeOK
  <1>3. \A j \in Threads : pc[j] = "released" => barrierAddr[j] \in Barriers
    BY <1>1 DEF TypeInv, ArgumentsOK
  <1> QED BY <1>1, <1>2, <1>3, KnownType

\* Nobody who was let through is still to read the clock of a barrier that is
\* set up again.
LEMMA InitExact ==
    ASSUME BarrierFrame, FullBarriers, NEW t \in Threads, NEW b \in Barriers,
           NEW size \in BarrierSizes, BeforeBarrierInit(t, b, size)
    PROVE  ExactInv'
  <1>0. /\ TypeInv /\ TypeInv' /\ FinalClockInv /\ FinalClockInv' /\ ExactInv
        /\ TypeOK /\ MutexInv /\ AheadInv'
        /\ barrierWaitMap \in [Barriers -> BarrierData]
        /\ \A j \in Threads : pc[j] = "released" => barrierAddr[j] \in Barriers
    BY BarrierFacts
  <1>1. /\ InBarrier(b, {"released"}) = {}
        /\ barrierWaitMap' = [barrierWaitMap EXCEPT ![b] = NewBarrierData(size)]
        /\ UNCHANGED <<pc, vectorClock, past, pend, barrierAddr, blockHistoryQueues,
                       owner, unlockedThreadMap, mutexPast>>
        /\ joined \subseteq joined'
    BY DEF BeforeBarrierInit, FullBarriers, program, addresses, rdm, ghosts
  <1>2. ReleasedFrame
    <2> SUFFICES ASSUME NEW x \in Threads, pc'[x] = "released" PROVE Left(x)' = Left(x)
      BY <1>1 DEF ReleasedFrame
    <2>1. barrierAddr[x] \in Barriers /\ barrierAddr[x] # b
      BY <1>0, <1>1 DEF InBarrier
    <2> QED BY <1>0, <1>1, <2>1 DEF Left
  <1>3. MayHandOver(t)
    BY <1>1 DEF MayHandOver
  <1>4. /\ ClockInv' /\ QueueInv' /\ ReleasedInv'
        /\ Known \in Clock /\ Known' \in Clock /\ Below(Known, Known')
    BY <1>0, <1>1, <1>2, <1>3, StandingStep
  <1>5. MutexInv'
    BY <1>0, <1>1, <1>4, MutexKept
  <1> QED BY <1>0, <1>4, <1>5 DEF ExactInv

\* A thread comes to a barrier: its epoch ends, and of the next one nothing may
\* be known until it is let through.
LEMMA EnterExact ==
    ASSUME BarrierFrame, NEW t \in Threads, NEW b \in Barriers, BeforeBarrierWait(t, b)
    PROVE  ExactInv'
  <1> DEFINE w == advance(vectorClock[t], t)
             q == past[t] \cup {Epoch(t)}
  <1>0. /\ TypeInv /\ TypeInv' /\ FinalClockInv /\ FinalClockInv' /\ ExactInv
        /\ TypeOK /\ ClockInv /\ MutexInv /\ JoinInv /\ AheadInv'
        /\ CreationInv /\ GatherInv
        /\ pc \in [Threads -> PcValues] /\ vectorClock \in [Threads -> Clock]
        /\ vectorClock[t] \in Clock
        /\ barrierAddr \in [Threads -> Barriers \cup {NULL}]
        /\ barrierWaitMap \in [Barriers -> BarrierData]
        /\ \A j \in Threads : pc[j] = "released" => barrierAddr[j] \in Barriers
    BY BarrierFacts
  <1>1. /\ pc[t] = "run" /\ pc' = [pc EXCEPT ![t] = "barrier"]
        /\ SetClock(t, w) /\ past' = [past EXCEPT ![t] = q] /\ addSignature(t)
        /\ vectorClock' = [vectorClock EXCEPT ![t] = w]
        /\ barrierAddr' = [barrierAddr EXCEPT ![t] = b]
        /\ \E d : barrierWaitMap' = [barrierWaitMap EXCEPT ![b] = d]
        /\ pend' = pend
        /\ joined' = joined /\ UNCHANGED <<owner, unlockedThreadMap, mutexPast>>
    BY DEF BeforeBarrierWait, EndEpoch, ExtendPast, At, Goto, SetClock, program
  <1>2. pc'[t] = "barrier" /\ \A u \in Threads \ {t} : pc'[u] = pc[u]
    BY <1>0, <1>1
  <1>3. vectorClock[t][t] > 0 /\ Slack(t) = 0
    BY <1>0, <1>1 DEF FinalClockInv, Slack, Creating, JoinInv
  <1>4. /\ w \in Clock /\ w[t] = vectorClock[t][t] + 1
        /\ \A u \in Threads \ {t} : w[u] = vectorClock[t][u]
    BY <1>0 DEF advance, Clock
  <1>5. Represents(w, q)
    BY <1>0, <1>3, AdvanceRepresents DEF ClockInv, Epoch
  <1>6. MayHandOver(t)
    BY <1>1, <1>3 DEF MayHandOver
  <1>7. ReleasedFrame
    <2> HIDE DEF w, q
    <2> SUFFICES ASSUME NEW x \in Threads, pc'[x] = "released"
                 PROVE  /\ pc[x] = "released" /\ Left(x)' = Left(x)
                        /\ vectorClock'[x] = vectorClock[x]
      BY <1>1 DEF ReleasedFrame
    <2>1. /\ x # t /\ pc[x] = "released" /\ vectorClock'[x] = vectorClock[x]
          /\ barrierAddr'[x] = barrierAddr[x] /\ barrierAddr[x] \in Barriers
      BY <1>0, <1>1, <1>2
    <2>2. \/ InBarrier(b, {"released"}) = {}
          \/ barrierWaitMap'[b].previousVectorClock
                = barrierWaitMap[b].previousVectorClock
      BY <1>0, EnterGathers
    <2>3. CASE barrierAddr[x] = b
      <3>1. x \in InBarrier(b, {"released"})
        BY <2>1, <2>3 DEF InBarrier
      <3> QED BY <2>1, <2>2, <2>3, <3>1 DEF Left
    <2>4. CASE barrierAddr[x] # b
      <3>1. barrierWaitMap'[barrierAddr[x]] = barrierWaitMap[barrierAddr[x]]
        BY <1>0, <1>1, <2>1, <2>4
      <3> QED BY <2>1, <3>1 DEF Left
    <2> QED BY <2>3, <2>4
  <1>8. /\ ClockInv' /\ QueueInv' /\ ReleasedInv'
        /\ Known \in Clock /\ Known' \in Clock /\ Below(Known, Known')
    <2> HIDE DEF w, q
    <2>2. \A u \in Threads \ {t} :
             /\ pc[u] \in Creating => pc'[u] \in Creating
             /\ pc'[u] \in Entered => pc[u] \in Entered
             /\ w[u] <= Known[u] \/ w[u] <= Known'[u]
      BY <1>0, <1>2, <1>4 DEF ClockInv, Others
    <2>3. /\ SetClock(t, w) /\ past' = [past EXCEPT ![t] = q]
          /\ joined \subseteq joined' /\ pc[t] \notin Entered
      BY <1>1 DEF Entered
    <2> QED BY <1>0, <1>3, <1>4, <1>5, <1>6, <1>7, <2>2, <2>3, MovingStep
  <1>9. MutexInv'
    BY <1>0, <1>1, <1>8, MutexKept
  <1> QED BY <1>0, <1>8, <1>9 DEF ExactInv

\* The clock that the last thread leaves stands for the epochs of all that are
\* let through: each of them is the only one who knows its own.
LEMMA ReleaseIsExact ==
    ASSUME BarrierFrame, NEW t \in Threads, BarrierArrive(t),
           NEW here, here = InBarrier(barrierAddr[t], {"arrived"}) \cup {t},
           Cardinality(here) = barrierWaitMap[barrierAddr[t]].barrierSize,
           Known' \in Clock
    PROVE  ReleasedInv'
  <1>0. /\ TypeInv /\ CreationInv /\ GatherInv /\ ExactInv /\ TypeOK
        /\ ClockInv /\ JoinInv /\ BoundInv
        /\ pc \in [Threads -> PcValues] /\ vectorClock \in [Threads -> Clock]
        /\ \A j \in Threads :
              /\ pc[j] \in Entered => Known[j] = vectorClock[j][j] - 1
              /\ vectorClock[j][j] \in Nat
        /\ barrierWaitMap \in [Barriers -> BarrierData]
    BY BarrierFacts
  <1> DEFINE b == barrierAddr[t]
             P == barrierWaitMap[b].previousVectorClock
             gone == UNION {past[v] : v \in here}
  <1>1. /\ pc' = [u \in Threads |-> IF u \in here THEN "released" ELSE pc[u]]
        /\ pend' = [u \in Threads |-> IF u \in here THEN gone ELSE pend[u]]
        /\ UNCHANGED <<barrierAddr, barrierWaitMap, vectorClock, past, blockHistoryQueues>>
    BY DEF BarrierArrive, addresses, syncMaps, rdm
  <1>2. /\ b \in Barriers /\ here = Inside(b)
        /\ \A u \in here : Below(vectorClock[u], P)
        /\ \A u \in Threads : pc[u] # "none" => u \in here
    BY <1>0, AllArrived
  <1>3. \A u \in here : u \in Threads /\ barrierAddr[u] = b /\ pc[u] \in Entered
    BY <1>2 DEF Inside, InBarrier, Entered
  <1>4. P \in Clock
    BY <1>0, <1>2 DEF BarrierData
  <1> HIDE DEF P, b, gone
  <1>5. ASSUME NEW u \in Threads
        PROVE  /\ P[u] = vectorClock[u][u] /\ P[u] \in Nat /\ vectorClock[u][u] \in Nat
               /\ u \notin here => P[u] = 0
    <2>1. P[u] \in Nat /\ vectorClock[u][u] \in Nat
      BY <1>0, <1>4 DEF Clock
    <2>2. pc[u] \in {"none", "barrier", "arrived"}
      BY <1>2, <1>3 DEF Entered
    <2>3. Slack(u) = 0
      BY <1>0, <2>2 DEF Slack, Creating, JoinInv
    <2>4. P[u] <= vectorClock[u][u]
      <3>1. P[u] <= Limit[u]
        BY <1>0, <1>2 DEF BoundInv, Below, P
      <3>2. Limit[u] = vectorClock[u][u] + Slack(u)
        BY <1>0, LimitType
      <3> QED BY <2>1, <2>3, <3>1, <3>2
    <2>5. CASE u \in here
      <3>1. vectorClock[u][u] <= P[u]
        BY <1>2, <2>5 DEF Below
      <3> QED BY <2>1, <2>4, <2>5, <3>1
    <2>6. CASE u \notin here
      <3>1. pc[u] = "none"
        BY <1>2, <2>6
      <3>2. vectorClock[u][u] = 0
        BY <1>0, <3>1 DEF BoundInv, ZeroClock
      <3> QED BY <2>1, <2>4, <3>2
    <2> QED BY <2>5, <2>6
  <1>6. Represents(P, gone)
    <2> SUFFICES ASSUME NEW u \in Threads, NEW n \in Nat
                 PROVE  <<u, n>> \in gone <=> (0 < n /\ n < P[u])
      BY DEF Represents
    <2>1. ASSUME NEW v \in here, <<u, n>> \in past[v] PROVE 0 < n /\ n < P[u]
      <3>1. v \in Threads /\ vectorClock[v][u] \in Nat /\ vectorClock[v][u] <= P[u]
        BY <1>0, <1>2, <1>3 DEF Clock, Below
      <3>2. 0 < n /\ n < vectorClock[v][u]
        BY <1>0, <2>1, <3>1 DEF ClockInv, Represents
      <3> QED BY <1>5, <3>1, <3>2
    <2>2. ASSUME 0 < n /\ n < P[u] PROVE u \in here /\ <<u, n>> \in past[u]
      <3>1. u \in here /\ n < vectorClock[u][u]
        BY <1>5, <2>2
      <3> QED BY <1>0, <2>2, <3>1 DEF ClockInv, Represents
    <2> QED BY <2>1, <2>2 DEF gone
  <1>7. Below(P, Known')
    <2> SUFFICES ASSUME NEW u \in Threads PROVE P[u] <= Known'[u]
      BY DEF Below
    <2>1. CASE u \in here
      <3>1. pc'[u] \notin Entered
        BY <1>1, <2>1 DEF Entered
      <3>2. Known'[u] = vectorClock'[u][u] + Slack(u)' /\ Slack(u)' \in {0, 1}
        BY <3>1 DEF Known, Limit, Slack
      <3> QED BY <1>1, <1>5, <3>2
    <2>2. CASE u \notin here
      BY <1>5, <2>2 DEF Clock
    <2> QED BY <2>1, <2>2
  <1>8. ASSUME NEW x \in Threads, pc'[x] = "released"
        PROVE  x \in here /\ Left(x)' = P /\ pend'[x] = gone
    <2>1. x \in here
      BY <1>1, <1>2, <1>8
    <2> QED BY <1>1, <1>3, <2>1 DEF Left, P
  <1>9. ASSUME NEW x \in here, NEW u \in Threads \ {x}, NEW e \in Entries(u)
        PROVE  e.ts[x] < vectorClock[x][x]
    <2>1. e \in SigRaceData
      BY <1>0 DEF Entries, TypeOK
    <2>2. e.ts[x] <= Known[x] /\ e.ts[x] \in Nat
      BY <1>0, <1>3, <2>1 DEF ExactInv, QueueInv, Others, SigRaceData, Clock
    <2> QED BY <1>0, <1>3, <2>2
  <1>10. \A u \in Threads : Entries(u)' = Entries(u)
    BY <1>1 DEF Entries
  <1>11. \A u \in Threads : P[u] <= vectorClock'[u][u]
    BY <1>1, <1>5
  <1> QED BY <1>1, <1>6, <1>7, <1>8, <1>9, <1>10, <1>11 DEF ReleasedInv

LEMMA ArriveExact ==
    ASSUME BarrierFrame, NEW t \in Threads, BarrierArrive(t)
    PROVE  ExactInv'
  <1>0. /\ TypeInv /\ TypeInv' /\ FinalClockInv /\ FinalClockInv' /\ ExactInv
        /\ TypeOK /\ MutexInv /\ AheadInv' /\ CreationInv /\ GatherInv
        /\ pc \in [Threads -> PcValues]
    BY BarrierFacts
  <1> DEFINE here == InBarrier(barrierAddr[t], {"arrived"}) \cup {t}
  <1>1. /\ pc[t] = "barrier" /\ joined \subseteq joined'
        /\ UNCHANGED <<barrierAddr, barrierWaitMap, vectorClock, past, blockHistoryQueues,
                       owner, unlockedThreadMap, mutexPast>>
    BY DEF BarrierArrive, At, program, addresses, syncMaps, rdm
  <1>2. MayHandOver(t)
    BY <1>1 DEF MayHandOver
  <1>3. /\ \A u \in Threads : /\ pc[u] \in Creating => pc'[u] \in Creating
                              /\ pc'[u] \in Entered => pc[u] \in Entered
        /\ \/ Cardinality(here) = barrierWaitMap[barrierAddr[t]].barrierSize
           \/ ReleasedFrame
    <2>1. CASE Cardinality(here) = barrierWaitMap[barrierAddr[t]].barrierSize
      <3>1. pc' = [u \in Threads |-> IF u \in here THEN "released" ELSE pc[u]]
        BY <2>1 DEF BarrierArrive
      <3>2. \A u \in here : pc[u] \in Entered
        BY <1>1 DEF InBarrier, Entered
      <3> QED BY <2>1, <3>1, <3>2 DEF Creating, Entered
    <2>2. CASE Cardinality(here) # barrierWaitMap[barrierAddr[t]].barrierSize
      <3>1. pc' = [pc EXCEPT ![t] = "arrived"] /\ pend' = pend
        BY <2>2 DEF BarrierArrive, Goto
      <3>2. \A u \in Threads : u # t => pc'[u] = pc[u]
        BY <1>0, <3>1
      <3>3. pc'[t] = "arrived"
        BY <1>0, <3>1
      <3>4. ReleasedFrame
        BY <1>1, <3>1, <3>2, <3>3 DEF ReleasedFrame, Left
      <3> QED BY <1>1, <3>2, <3>3, <3>4 DEF Creating, Entered
    <2> QED BY <2>1, <2>2
  <1>4. /\ ClockInv' /\ QueueInv' /\ (ReleasedFrame => ReleasedInv')
        /\ Known \in Clock /\ Known' \in Clock /\ Below(Known, Known')
    BY <1>0, <1>1, <1>2, <1>3, StandingStep
  <1>5. ReleasedInv'
    BY <1>3, <1>4, ReleaseIsExact
  <1>6. MutexInv'
    BY <1>0, <1>1, <1>4, MutexKept
  <1> QED BY <1>0, <1>4, <1>5, <1>6 DEF ExactInv

\* A thread that leaves receives the epochs of all that it met.
LEMMA LeaveExact ==
    ASSUME BarrierFrame, NEW t \in Threads, AfterBarrierWait(t)
    PROVE  ExactInv'
  <1> DEFINE P == Left(t)
             w == receiveAction(vectorClock[t], P)
             q == past[t] \cup pend[t]
  <1>0. /\ TypeInv /\ TypeInv' /\ FinalClockInv /\ FinalClockInv' /\ ExactInv
        /\ TypeOK /\ ClockInv /\ MutexInv /\ JoinInv /\ AheadInv' /\ ReleasedInv
        /\ pc \in [Threads -> PcValues] /\ vectorClock \in [Threads -> Clock]
        /\ vectorClock[t] \in Clock
        /\ past \in [Threads -> SUBSET Epochs] /\ pend \in [Threads -> SUBSET Epochs]
        /\ barrierWaitMap \in [Barriers -> BarrierData]
        /\ Known \in Clock
        /\ \A j \in Threads :
              /\ pc[j] \notin Entered => Known[j] = vectorClock[j][j] + Slack(j)
              /\ vectorClock[j][j] \in Nat
        /\ \A j \in Threads : pc[j] = "released" => barrierAddr[j] \in Barriers
    BY BarrierFacts
  <1>1. /\ pc[t] = "released" /\ pc' = [pc EXCEPT ![t] = "run"]
        /\ vectorClock' = [vectorClock EXCEPT ![t] = w]
        /\ past' = [past EXCEPT ![t] = q] /\ pend' = [pend EXCEPT ![t] = {}]
        /\ UNCHANGED <<barrierAddr, barrierWaitMap, blockHistoryQueues, joined,
                       owner, unlockedThreadMap, mutexPast>>
    BY DEF AfterBarrierWait, At, Goto, SetClock, Left, program, addresses, syncMaps, rdm
  <1>2. /\ pc'[t] = "run" /\ \A u \in Threads \ {t} :
              pc'[u] = pc[u] /\ vectorClock'[u] = vectorClock[u] /\ pend'[u] = pend[u]
        /\ vectorClock'[t] = w
    BY <1>0, <1>1
  <1>3. Slack(t) = 0 /\ Known[t] = vectorClock[t][t]
    <2>1. Slack(t) = 0
      BY <1>0, <1>1 DEF Slack, Creating, JoinInv
    <2> QED BY <1>0, <1>1, <2>1 DEF Entered
  <1>4. P \in Clock
    BY <1>0, <1>1 DEF Left, BarrierData
  <1>5. /\ Represents(P, pend[t]) /\ Below(P, Known)
        /\ \A u \in Threads : P[u] <= vectorClock[u][u]
        /\ \A u \in Threads \ {t} : \A e \in Entries(u) :
              e.ts[u] < P[u] => e.ts[t] < vectorClock[t][t]
    BY <1>0, <1>1 DEF ReleasedInv
  <1> HIDE DEF P
  <1>6. /\ w \in Clock
        /\ \A u \in Threads : /\ w[u] = IF vectorClock[t][u] > P[u]
                                        THEN vectorClock[t][u] ELSE P[u]
                              /\ vectorClock[t][u] \in Nat /\ P[u] \in Nat
    <2>1. w \in Clock
      BY <1>0, <1>4, ReceiveGrows
    <2> QED BY <1>0, <1>4, <2>1 DEF receiveAction, Clock
  <1>7. w[t] = vectorClock[t][t]
    BY <1>5, <1>6
  <1>8. Represents(w, q)
    BY <1>0, <1>4, <1>5, ReceiveRepresents DEF ClockInv
  <1> HIDE DEF w, q
  <1>9. Known \in Clock /\ Known' \in Clock /\ Below(Known, Known')
    <2>1. TypeOK' /\ joined \subseteq joined' /\ pc[t] \notin Creating
          /\ pc'[t] \notin Entered
      BY <1>0, <1>1, <1>2 DEF TypeInv, Creating, Entered
    <2>2. vectorClock'[t][t] = vectorClock[t][t]
      BY <1>2, <1>7
    <2>3. \A u \in Threads \ {t} : /\ pc[u] \in Creating => pc'[u] \in Creating
                                   /\ pc'[u] \in Entered => pc[u] \in Entered
                                   /\ vectorClock'[u] = vectorClock[u]
      BY <1>2
    <2> QED BY <1>0, <2>1, <2>2, <2>3, KnownGrows
  <1>10. Others(w, t, Known')
    <2>1. ASSUME NEW u \in Threads \ {t} PROVE w[u] <= Known'[u]
      <3>1. vectorClock[t][u] <= Known[u] /\ P[u] <= Known[u]
        BY <1>0, <1>5 DEF ClockInv, Others, Below
      <3>2. Known[u] <= Known'[u] /\ Known[u] \in Nat /\ Known'[u] \in Nat
        BY <1>9 DEF Below, Clock
      <3> QED BY <1>6, <3>1, <3>2
    <2> QED BY <2>1 DEF Others
  <1>11. ASSUME NEW u \in Threads \ {t}, NEW v \in Stamps(u), Seen(v, u, vectorClock[t], t)
         PROVE  Seen(v, u, w, t)
    <2> SUFFICES ASSUME v[u] < w[u] PROVE v[t] < vectorClock[t][t]
      BY <1>7 DEF Seen
    <2>1. CASE v[u] < vectorClock[t][u]
      BY <1>11, <2>1 DEF Seen
    <2>2. CASE v[u] < P[u]
      <3>1. v # vectorClock[u]
        BY <1>0, <1>5, <1>6, <2>2
      <3>2. PICK e \in Entries(u) : v = e.ts
        BY <3>1 DEF Stamps
      <3> QED BY <1>5, <2>2, <3>2
    <2> QED BY <1>6, <2>1, <2>2
  <1>12. ClockStep(t, w, q)
    <2>1. MayHandOver(t)
      BY <1>1 DEF MayHandOver
    <2>2. Known[t] <= w[t] /\ vectorClock[t][t] <= w[t]
      BY <1>0, <1>3, <1>7
    <2> QED BY <1>1, <1>8, <1>9, <1>10, <1>11, <2>1, <2>2 DEF ClockStep
  <1>13. ReleasedFrame
    <2>1. \A x \in Threads : pc'[x] = "released" => x # t
      BY <1>2
    <2> QED BY <1>1, <1>2, <2>1 DEF ReleasedFrame, Left
  <1>14. ClockInv' /\ QueueInv' /\ ReleasedInv'
    BY <1>0, <1>6, <1>9, <1>12, <1>13, StepKeeps, ReleasedKept DEF TypeInv, ExactInv
  <1>15. MutexInv'
    BY <1>0, <1>1, <1>9, MutexKept
  <1> QED BY <1>0, <1>14, <1>15 DEF ExactInv

LEMMA BarrierExact ==
    ASSUME BarrierFrame, FullBarriers, NEW t \in Threads, BarrierStep(t)
    PROVE  ExactInv'
  BY InitExact, EnterExact, ArriveExact, LeaveExact DEF BarrierStep

-----------------------------------------------------------------------------
\* ExactInv is an invariant of every program that synchronises by creation,
\* joining, mutexes, and barriers that all its threads take part in.
THEOREM ExactCorrect ==
    ASSUME Conds = {}, FullBarriers
    PROVE  Spec => []ExactInv
  <1>1. Init /\ AheadInv => ExactInv
    <2> SUFFICES ASSUME Init, AheadInv PROVE ExactInv
      OBVIOUS
    <2>1. /\ \A t \in Threads : /\ vectorClock[t] = ZeroClock /\ past[t] = {}
                                /\ pc[t] \notin Entered /\ pc[t] # "released"
                                /\ Entries(t) = {}
          /\ \A m \in Mutexes : /\ unlockedThreadMap[m] = NoThreadInfo
                                /\ mutexPast[m] = {}
      BY DEF Init, Entries, Entered
    <2>2. \A u \in Threads : ZeroClock[u] = 0
      BY DEF ZeroClock
    <2>3. \A u \in Threads : 0 <= Known[u]
      <3>1. \A u \in Threads : Slack(u) \in {0, 1}
        BY DEF Slack
      <3>2. \A u \in Threads : Known[u] = 0 + Slack(u)
        BY <2>1, <2>2 DEF Limit, Known
      <3> QED BY <3>1, <3>2
    <2>4. Represents(ZeroClock, {})
      BY <2>2 DEF Represents
    <2>5. ClockInv
      BY <2>1, <2>2, <2>3, <2>4 DEF ClockInv, Seen, Others
    <2>6. QueueInv
      BY <2>1 DEF QueueInv
    <2>7. MutexInv
      BY <2>1, <2>2, <2>3 DEF MutexInv, NoThreadInfo, Below
    <2>8. ReleasedInv
      BY <2>1 DEF ReleasedInv
    <2> QED BY <2>5, <2>6, <2>7, <2>8 DEF ExactInv
  <1>2. /\ TypeInv /\ TypeInv' /\ CreationInv /\ CreationInv' /\ AheadInv' /\ GatherInv
        /\ ExactInv /\ [Next]_vars
        => ExactInv'
    <2> SUFFICES ASSUME TypeInv, TypeInv', CreationInv, CreationInv', AheadInv', GatherInv,
                        ExactInv, [Next]_vars
                 PROVE  ExactInv'
      OBVIOUS
    <2>1. ASSUME NEW t \in Threads, Lifecycle(t) \/ Access(t) \/ MutexStep(t)
          PROVE  ExactInv'
      <3>1. Frame
        BY <2>1, AwayFromBarriers DEF Frame
      <3> QED BY <2>1, <3>1, LifecycleExact, AccessExact, MutexStepExact
    <2>2. ASSUME NEW t \in Threads, BarrierStep(t) PROVE ExactInv'
      BY <2>2, BarrierExact DEF BarrierFrame
    <2>3. ASSUME NEW t \in Threads, CondStep(t) PROVE ExactInv'
      <3>1. BeforeCondBroadcast(t)
        BY <2>3, OnlyBroadcast
      <3>2. Frame
        BY <3>1 DEF Frame, BeforeCondBroadcast, GatherFrame, program, addresses, syncMaps,
                    ghosts
      <3> QED BY <3>1, <3>2, QuietExact
              DEF BeforeCondBroadcast, program, syncMaps, rdm, ghosts, MayHandOver
    <2>4. CASE UNCHANGED vars
      <3>1. UNCHANGED <<pc, owner, joined, vectorClock, unlockedThreadMap, mutexPast, past,
                        blockHistoryQueues, barrierAddr, barrierWaitMap, pend>>
        BY <2>4 DEF vars, program, addresses, syncMaps, rdm, ghosts
      <3>2. \A j \in Threads : Slack(j)' = Slack(j)
        BY <3>1 DEF Slack
      <3>3. Known' = Known
        BY <3>1, <3>2 DEF Limit, Known
      <3>4. \A u \in Threads : Entries(u)' = Entries(u) /\ Left(u)' = Left(u)
        BY <3>1 DEF Entries, Left
      <3>5. ClockInv' /\ QueueInv' /\ MutexInv'
        BY <3>1, <3>3, <3>4 DEF ExactInv, ClockInv, QueueInv, MutexInv
      <3>6. ReleasedInv'
        BY <3>1, <3>3, <3>4 DEF ExactInv, ReleasedInv
      <3> QED BY <3>5, <3>6 DEF ExactInv
    <2> QED BY <2>1, <2>2, <2>3, <2>4 DEF Next
  <1> QED
    BY <1>1, <1>2, TypeCorrect, CreationCorrect, AheadCorrect, GatherCorrect, PTL DEF Spec

\* What the module compares with the epoch of a running thread.
LEMMA ComparableFacts ==
    ASSUME TypeInv, CreationInv, ExactInv, NEW t \in Running,
           NEW u \in Threads \ {t}, NEW e \in Comparable(u)
    PROVE  /\ t \in Threads /\ vectorClock[t] \in Clock /\ e.ts \in Clock
           /\ e.tid = u /\ e.ts[u] > 0
           /\ e.ts[t] <= vectorClock[t][t]
           /\ vectorClock[t][t] > 0
           /\ Represents(vectorClock[t], past[t]) /\ Represents(e.ts, e.past)
           /\ Seen(e.ts, u, vectorClock[t], t)
  <1>0. /\ TypeOK /\ ClockInv /\ QueueInv /\ JoinInv /\ FinalClockInv
        /\ vectorClock \in [Threads -> Clock]
        /\ blockHistoryQueues \in [Threads -> Seq(SigRaceData)]
    BY DEF TypeInv, CreationInv, ExactInv, AheadInv, TypeOK
  <1>1. t \in Threads /\ pc[t] = "run" /\ vectorClock[t] \in Clock
    BY <1>0 DEF Running
  <1>2. vectorClock[t][t] > 0 /\ Represents(vectorClock[t], past[t])
    BY <1>0, <1>1 DEF FinalClockInv, ClockInv
  <1>3. Known[t] = vectorClock[t][t] /\ u # t
    <2>1. Slack(t) = 0
      BY <1>0, <1>1 DEF Slack, Creating, JoinInv
    <2> QED BY <1>0, <1>1, <2>1, KnownType DEF Entered
  <1>4. CASE e \in Entries(u)
    <2>1. e.ts \in Clock
      <3>1. PICK k \in DOMAIN blockHistoryQueues[u] : e = blockHistoryQueues[u][k]
        BY <1>4 DEF Entries
      <3>2. blockHistoryQueues[u] \in Seq(SigRaceData)
        BY <1>0
      <3>3. e \in SigRaceData
        BY <3>1, <3>2
      <3> QED BY <3>3 DEF SigRaceData
    <2> QED BY <1>0, <1>1, <1>2, <1>3, <1>4, <2>1 DEF QueueInv, Others
  <1>5. CASE u \in Running /\ e = CurrentSig(u)
    <2>1. e.tid = u /\ e.ts = vectorClock[u] /\ e.past = past[u]
      BY <1>5 DEF CurrentSig
    <2> QED BY <1>0, <1>1, <1>2, <1>3, <1>5, <2>1
            DEF ClockInv, Others, FinalClockInv, Running
  <1> QED BY <1>4, <1>5 DEF Comparable

\* No false order.
THEOREM NoFalseOrder ==
    ASSUME Conds = {}, FullBarriers
    PROVE  Spec => []ConcurrencyIsSeen
  <1>1. TypeInv /\ CreationInv /\ ExactInv => ConcurrencyIsSeen
    <2> SUFFICES ASSUME TypeInv, CreationInv, ExactInv, NEW t \in Running,
                        NEW u \in Threads \ {t}, NEW e \in Comparable(u)
                 PROVE  /\ happensBefore(CurrentSig(t), e) => Precedes(CurrentSig(t), e)
                        /\ happensBefore(e, CurrentSig(t)) => Precedes(e, CurrentSig(t))
      BY DEF ConcurrencyIsSeen
    <2> DEFINE s == CurrentSig(t)
    <2>1. s.tid = t /\ s.ts = vectorClock[t] /\ s.past = past[t]
      BY DEF CurrentSig
    <2>2. /\ t \in Threads /\ vectorClock[t] \in Clock /\ e.ts \in Clock
          /\ e.tid = u /\ e.ts[u] > 0
          /\ e.ts[t] <= vectorClock[t][t]
          /\ Represents(vectorClock[t], past[t])
      BY ComparableFacts
    <2> HIDE DEF s
    <2>3. e.ts[t] \in Nat /\ e.ts[u] \in Nat /\ vectorClock[t][t] \in Nat
          /\ vectorClock[t][u] \in Nat
      BY <2>2 DEF Clock
    <2>4. ~ happensBefore(s, e)
      BY <2>1, <2>2, <2>3 DEF happensBefore, Less
    <2>5. ASSUME happensBefore(e, s) PROVE Precedes(e, s)
      <3>1. e.ts[u] < vectorClock[t][u]
        BY <2>1, <2>2, <2>5 DEF happensBefore, Less
      <3>2. <<u, e.ts[u]>> \in past[t]
        BY <2>2, <2>3, <3>1 DEF Represents
      <3> QED BY <2>1, <2>2, <3>2 DEF Precedes
    <2> QED BY <2>4, <2>5 DEF s
  <1> QED BY <1>1, TypeCorrect, CreationCorrect, ExactCorrect, PTL

\* No false race.
THEOREM NoFalseRace ==
    ASSUME Conds = {}, FullBarriers
    PROVE  Spec => []OrderIsSeen
  <1>1. TypeInv /\ CreationInv /\ ExactInv => OrderIsSeen
    <2> SUFFICES ASSUME TypeInv, CreationInv, ExactInv, NEW t \in Running,
                        NEW u \in Threads \ {t}, NEW e \in Comparable(u),
                        isConcurrent(CurrentSig(t), e)
                 PROVE  Unordered(CurrentSig(t), e)
      BY DEF OrderIsSeen
    <2> DEFINE s == CurrentSig(t)
    <2>1. s.tid = t /\ s.ts = vectorClock[t] /\ s.past = past[t]
      BY DEF CurrentSig
    <2>2. /\ t \in Threads /\ vectorClock[t] \in Clock /\ e.ts \in Clock
          /\ e.tid = u /\ e.ts[u] > 0
          /\ e.ts[t] <= vectorClock[t][t] /\ vectorClock[t][t] > 0
          /\ Represents(vectorClock[t], past[t]) /\ Represents(e.ts, e.past)
          /\ Seen(e.ts, u, vectorClock[t], t)
      BY ComparableFacts
    <2>3. ~ happensBefore(e, s)
      BY DEF isConcurrent
    <2> HIDE DEF s
    <2>4. e.ts[t] \in Nat /\ e.ts[u] \in Nat /\ vectorClock[t][t] \in Nat
          /\ vectorClock[t][u] \in Nat
      BY <2>2 DEF Clock
    <2>5. ~ Precedes(s, e)
      <3>1. <<t, vectorClock[t][t]>> \in e.past => vectorClock[t][t] < e.ts[t]
        BY <2>2, <2>4 DEF Represents
      <3> QED BY <2>1, <2>2, <2>4, <3>1 DEF Precedes
    <2>6. ~ Precedes(e, s)
      <3>1. <<u, e.ts[u]>> \in past[t] => e.ts[u] < vectorClock[t][u]
        BY <2>2, <2>4 DEF Represents
      <3>2. ~ (e.ts[u] < vectorClock[t][u] /\ e.ts[t] < vectorClock[t][t])
        BY <2>1, <2>2, <2>3 DEF happensBefore, Less
      <3> QED BY <2>1, <2>2, <3>1, <3>2 DEF Precedes, Seen
    <2> QED BY <2>5, <2>6 DEF s, Unordered
  <1> QED BY <1>1, TypeCorrect, CreationCorrect, ExactCorrect, PTL

-----------------------------------------------------------------------------
\* The order of the queues.

\* A queue holds its thread's epochs newest first, each once.
SortedInv ==
    \A u \in Threads : \A k \in DOMAIN blockHistoryQueues[u] :
        /\ blockHistoryQueues[u][k].ts[u] <= vectorClock[u][u]
        /\ (pc[u] # "exited" /\ failed = "none")
           => blockHistoryQueues[u][k].ts[u] < vectorClock[u][u]
        /\ \A j \in DOMAIN blockHistoryQueues[u] :
            k < j => blockHistoryQueues[u][j].ts[u] < blockHistoryQueues[u][k].ts[u]

\* A thread hands an epoch over once: its clock moves on, or it ends, or the
\* tool does.
HandsOver(t) ==
    \/ UNCHANGED blockHistoryQueues
    \/ /\ addSignature(t) /\ pc[t] # "exited"
       /\ \/ vectorClock'[t][t] > vectorClock[t][t]
          \/ pc'[t] = "exited" \/ failed' # "none"

\* No step takes a thread back from its end, or its clock.
GoesOn ==
    /\ failed = "none"
    /\ \A u \in Threads : /\ pc[u] = "exited" => pc'[u] = "exited"
                          /\ vectorClock'[u][u] >= vectorClock[u][u]

\* The newest epoch goes to the front, where it belongs.
LEMMA SortedKept ==
    ASSUME TypeOK, TypeOK', SortedInv, GoesOn, NEW t \in Threads, HandsOver(t)
    PROVE  SortedInv'
  <1> DEFINE B(u) == blockHistoryQueues[u]
  <1>0. /\ blockHistoryQueues \in [Threads -> Seq(SigRaceData)]
        /\ \A u \in Threads : vectorClock[u][u] \in Nat /\ vectorClock'[u][u] \in Nat
    BY DEF TypeOK, Clock
  <1>1. \A u \in Threads : \A k \in DOMAIN B(u) : B(u)[k].ts[u] \in Nat
    <2> SUFFICES ASSUME NEW u \in Threads, NEW k \in DOMAIN B(u)
                 PROVE  B(u)[k].ts[u] \in Nat
      OBVIOUS
    <2>1. B(u) \in Seq(SigRaceData)
      BY <1>0
    <2>2. B(u)[k] \in SigRaceData
      BY <2>1
    <2> QED BY <2>2 DEF SigRaceData, Clock
  <1>2. ASSUME NEW u \in Threads, blockHistoryQueues'[u] = blockHistoryQueues[u],
               NEW k \in DOMAIN B(u)
        PROVE  /\ B(u)[k].ts[u] <= vectorClock'[u][u]
               /\ (pc'[u] # "exited" /\ failed' = "none") => B(u)[k].ts[u] < vectorClock'[u][u]
               /\ \A j \in DOMAIN B(u) : k < j => B(u)[j].ts[u] < B(u)[k].ts[u]
    <2>1. /\ B(u)[k].ts[u] <= vectorClock[u][u]
          /\ (pc[u] # "exited" /\ failed = "none") => B(u)[k].ts[u] < vectorClock[u][u]
          /\ \A j \in DOMAIN B(u) : k < j => B(u)[j].ts[u] < B(u)[k].ts[u]
      BY DEF SortedInv
    <2>2. /\ pc[u] = "exited" => pc'[u] = "exited"
          /\ vectorClock'[u][u] >= vectorClock[u][u] /\ failed = "none"
      BY DEF GoesOn
    <2>3. vectorClock[u][u] \in Nat /\ vectorClock'[u][u] \in Nat /\ B(u)[k].ts[u] \in Nat
      BY <1>0, <1>1
    <2> QED BY <2>1, <2>2, <2>3
  <1>3. CASE UNCHANGED blockHistoryQueues
    BY <1>2, <1>3 DEF SortedInv
  <1>4. CASE ~ UNCHANGED blockHistoryQueues
    <2> DEFINE sig == CurrentSig(t)
               new == pushFront(blockHistoryQueues[t], sig)
    <2>1. blockHistoryQueues' = [blockHistoryQueues EXCEPT ![t] = new]
      BY <1>4 DEF HandsOver, addSignature
    <2>2. blockHistoryQueues'[t] = new
          /\ \A u \in Threads \ {t} : blockHistoryQueues'[u] = blockHistoryQueues[u]
      BY <1>0, <2>1
    <2>3. sig \in SigRaceData /\ sig.ts = vectorClock[t]
      BY DEF CurrentSig, SigRaceData, TypeOK
    <2> HIDE DEF sig
    <2>4. /\ 1 \in DOMAIN new /\ new[1] = sig
          /\ \A k \in DOMAIN new :
               k \in Nat /\ (k # 1 => /\ k - 1 \in DOMAIN B(t)
                                      /\ new[k] = B(t)[k - 1])
      BY <1>0, <2>3, PushFrontEntries
    <2>5. \A k \in DOMAIN B(t) : /\ k \in Nat /\ k > 0
                                 /\ B(t)[k].ts[t] \in Nat
                                 /\ B(t)[k].ts[t] < vectorClock[t][t]
      <3>1. pc[t] # "exited" /\ failed = "none"
        BY <1>4 DEF HandsOver, GoesOn
      <3>2. blockHistoryQueues[t] \in Seq(SigRaceData)
        BY <1>0
      <3>3. \A k \in DOMAIN B(t) : k \in Nat /\ k > 0
        BY <3>2
      <3> QED BY <1>1, <3>1, <3>3 DEF SortedInv
    <2>6. \A k, j \in DOMAIN B(t) : k < j => B(t)[j].ts[t] < B(t)[k].ts[t]
      BY DEF SortedInv
    <2>7. /\ vectorClock[t][t] <= vectorClock'[t][t]
          /\ (pc'[t] # "exited" /\ failed' = "none") => vectorClock[t][t] < vectorClock'[t][t]
          /\ vectorClock[t][t] \in Nat /\ vectorClock'[t][t] \in Nat
      BY <1>0, <1>4 DEF HandsOver, GoesOn
    <2> HIDE DEF new, B
    <2>8. ASSUME NEW k \in DOMAIN new
          PROVE  /\ new[k].ts[t] \in Nat /\ new[k].ts[t] <= vectorClock[t][t]
                 /\ k # 1 => new[k].ts[t] < vectorClock[t][t]
      <3>1. CASE k = 1
        BY <2>3, <2>4, <2>7, <3>1
      <3>2. CASE k # 1
        BY <2>4, <2>5, <2>7, <3>2
      <3> QED BY <3>1, <3>2
    <2>9. ASSUME NEW k \in DOMAIN new, NEW j \in DOMAIN new, k < j
          PROVE  new[j].ts[t] < new[k].ts[t]
      <3>0. k \in Nat /\ j \in Nat
        BY <2>4
      <3>1. j # 1 /\ j - 1 \in DOMAIN B(t) /\ new[j] = B(t)[j - 1]
        <4>1. k # 1 => k - 1 > 0
          BY <2>4, <2>5
        <4>2. j # 1
          BY <2>9, <3>0, <4>1
        <4> QED BY <2>4, <4>2
      <3>2. CASE k = 1
        BY <2>3, <2>4, <2>8, <3>1, <3>2
      <3>3. CASE k # 1
        <4>1. k - 1 \in DOMAIN B(t) /\ new[k] = B(t)[k - 1] /\ k - 1 < j - 1
          BY <2>4, <2>9, <3>0, <3>3
        <4> QED BY <2>6, <3>1, <4>1
      <3> QED BY <3>2, <3>3
    <2>10. ASSUME NEW k \in DOMAIN new
           PROVE  /\ new[k].ts[t] <= vectorClock'[t][t]
                  /\ (pc'[t] # "exited" /\ failed' = "none")
                     => new[k].ts[t] < vectorClock'[t][t]
      BY <2>7, <2>8
    <2>11. ASSUME NEW u \in Threads, NEW k \in DOMAIN blockHistoryQueues'[u]
           PROVE  /\ blockHistoryQueues'[u][k].ts[u] <= vectorClock'[u][u]
                  /\ (pc'[u] # "exited" /\ failed' = "none")
                     => blockHistoryQueues'[u][k].ts[u] < vectorClock'[u][u]
                  /\ \A j \in DOMAIN blockHistoryQueues'[u] : k < j =>
                       blockHistoryQueues'[u][j].ts[u] < blockHistoryQueues'[u][k].ts[u]
      <3>1. CASE u = t
        BY <2>2, <2>9, <2>10, <3>1
      <3>2. CASE u # t
        BY <1>2, <2>2, <3>2 DEF B
      <3> QED BY <3>1, <3>2
    <2> QED BY <2>11 DEF SortedInv
  <1> QED BY <1>3, <1>4

\* Replacing the clock by one that is ahead.
LEMMA ClockAhead ==
    ASSUME TypeOK, NEW t \in Threads, NEW w \in Clock, SetClock(t, w),
           w[t] > vectorClock[t][t]
    PROVE  vectorClock'[t][t] > vectorClock[t][t]
  BY DEF TypeOK, SetClock

\* Every step hands over at most the epoch of the thread that makes it.
LEMMA StepsHandOver ==
    ASSUME TypeInv, NEW t \in Threads,
           \/ Lifecycle(t) \/ Access(t) \/ MutexStep(t)
           \/ CondStep(t) \/ BarrierStep(t)
    PROVE  HandsOver(t)
  <1> USE DEF At, Goto
  <1>0. /\ TypeOK /\ vectorClock[t] \in Clock /\ vectorClock[t][t] \in Nat
        /\ pc \in [Threads -> PcValues]
        /\ advance(vectorClock[t], t) \in Clock
        /\ advance(vectorClock[t], t)[t] > vectorClock[t][t]
    <2>1. TypeOK /\ vectorClock[t] \in Clock /\ pc \in [Threads -> PcValues]
      BY DEF TypeInv, TypeOK
    <2>2. vectorClock[t][t] \in Nat
      BY <2>1 DEF Clock
    <2> QED BY <2>1, <2>2, AdvanceGrows
  <1>1. ASSUME addSignature(t), pc[t] # "exited", SetClock(t, advance(vectorClock[t], t))
        PROVE  HandsOver(t)
    BY <1>0, <1>1, ClockAhead DEF HandsOver
  <1>2. CASE Lifecycle(t)
    <2>1. CASE ThreadStart(t) \/ CreateCall(t) \/ CreateTimeout(t) \/ CreatePublish(t)
               \/ \E c \in Threads : JoinCall(t, c)
      BY <2>1 DEF ThreadStart, CreateCall, Spawn, CreateTimeout, CreatePublish, Publish,
                  JoinCall, rdm, HandsOver
    <2>2. CASE CreateEpoch(t)
      BY <1>1, <2>2 DEF CreateEpoch, EndEpoch
    <2>3. CASE ThreadFini(t)
      <3>1. addSignature(t) /\ pc[t] = "run" /\ pc' = [pc EXCEPT ![t] = "exited"]
        BY <2>3 DEF ThreadFini
      <3> QED BY <1>0, <3>1 DEF HandsOver
    <2>4. CASE JoinReturn(t)
      <3> DEFINE c == pthreadPinIdMap[thread[t]]
                 found == c # NO_ID /\ joinVCMap[t][c] # ZeroClock
                 w == receiveWithIncrement(vectorClock[t], t, joinVCMap[t][c], c)
      <3>1. addSignature(t) /\ pc[t] = "join" /\ thread[t] \in Threads
        BY <2>4 DEF JoinReturn, EndEpoch, TypeInv, ArgumentsOK
      <3>2. CASE found
        <4>1. SetClock(t, w) /\ c \in ThreadIds /\ c # NO_ID
          BY <2>4, <3>1, <3>2 DEF JoinReturn, TypeInv, TypeOK
        <4>2. c \in Threads /\ joinVCMap[t][c] \in Clock
          BY <1>0, <4>1 DEF TypeOK, ThreadIds
        <4> HIDE DEF c
        <4>3. receiveAction(vectorClock[t], joinVCMap[t][c])[t] >= vectorClock[t][t]
              /\ receiveAction(vectorClock[t], joinVCMap[t][c]) \in Clock
          BY <1>0, <4>2, ReceiveGrows
        <4>4. w[t] = receiveAction(vectorClock[t], joinVCMap[t][c])[t] + 1
          BY DEF receiveWithIncrement
        <4>a. w \in Clock
          BY <1>0, <4>2, JoinGrows
        <4>5. receiveAction(vectorClock[t], joinVCMap[t][c])[t] \in Nat
          BY <4>3 DEF Clock
        <4>6. w[t] > vectorClock[t][t]
          BY <1>0, <4>3, <4>4, <4>5
        <4> HIDE DEF w
        <4> QED BY <1>0, <3>1, <4>1, <4>a, <4>6, ClockAhead DEF HandsOver
      <3>3. CASE ~ found
        BY <2>4, <3>1, <3>3 DEF JoinReturn, HandsOver
      <3> QED BY <3>2, <3>3
    <2> QED BY <1>2, <2>1, <2>2, <2>3, <2>4 DEF Lifecycle
  <1>3. CASE Access(t)
    BY <1>3 DEF Access, Read, Write, rdm, HandsOver
  <1>4. CASE MutexStep(t)
    <2>1. CASE AfterFailedTryLock(t) \/ \E m \in Mutexes, call \in {"lock", "trylock"} :
                                            BeforeLock(t, m, call)
      BY <2>1 DEF AfterFailedTryLock, BeforeLock, rdm, HandsOver
    <2>2. ASSUME NEW m \in Mutexes, BeforeUnlock(t, m) PROVE HandsOver(t)
      <3>1. CASE m \in Tracked
        BY <1>1, <2>2, <3>1 DEF BeforeUnlock, LeaveClock, EndEpoch
      <3>2. CASE m \notin Tracked
        BY <2>2, <3>2 DEF BeforeUnlock, rdm, HandsOver
      <3> QED BY <3>1, <3>2
    <2>3. CASE AfterLock(t)
      <3> DEFINE m == lockAddr[t]
                 a == advance(vectorClock[t], t)
                 x == receiveAction(a, unlockedThreadMap[m].vectorClock)
                 w == IF unlockedThreadMap[m].tid # NO_ID THEN x ELSE a
      <3>1. CASE m \in Tracked
        <4>1. addSignature(t) /\ SetClock(t, w) /\ pc[t] # "exited" /\ m \in Mutexes
          BY <2>3, <3>1 DEF AfterLock, EndEpoch, TypeInv, ArgumentsOK
        <4>2. unlockedThreadMap[m].vectorClock \in Clock
          BY <1>0, <4>1 DEF TypeOK, ThreadInfo
        <4>3. x \in Clock /\ x[t] >= a[t]
          BY <1>0, <4>2, ReceiveGrows
        <4>4. x[t] \in Nat /\ a[t] \in Nat
          BY <1>0, <4>3 DEF Clock
        <4>5. w = x \/ w = a
          OBVIOUS
        <4>6. w \in Clock /\ w[t] > vectorClock[t][t]
          <5> HIDE DEF w, x
          <5> QED BY <1>0, <4>3, <4>4, <4>5
        <4> HIDE DEF w
        <4> QED BY <1>0, <4>1, <4>6, ClockAhead DEF HandsOver
      <3>2. CASE m \notin Tracked
        BY <2>3, <3>2 DEF AfterLock, rdm, HandsOver
      <3> QED BY <3>1, <3>2
    <2> QED BY <1>4, <2>1, <2>2, <2>3 DEF MutexStep
  <1>5. CASE CondStep(t)
    <2>1. CASE CondSleep(t) \/ SpuriousWakeup(t) \/ AfterCondWait(t) \/ CondSignal(t)
               \/ BeforeCondBroadcast(t)
      BY <2>1 DEF CondSleep, SpuriousWakeup, AfterCondWait, CondSignal,
                  BeforeCondBroadcast, rdm, HandsOver
    <2>2. ASSUME NEW cond \in Conds, NEW m \in Mutexes, BeforeCondWait(t, cond, m)
          PROVE  HandsOver(t)
      <3>1. CASE m \in Tracked
        BY <1>1, <2>2, <3>1 DEF BeforeCondWait, LeaveClock, EndEpoch
      <3>2. CASE m \notin Tracked
        BY <2>2, <3>2 DEF BeforeCondWait, rdm, HandsOver
      <3> QED BY <3>1, <3>2
    <2>3. ASSUME NEW cond \in Conds, BeforeCondSignal(t, cond) PROVE HandsOver(t)
      <3>1. CASE cond \in Tracked
        BY <1>1, <2>3, <3>1 DEF BeforeCondSignal, Notify, EndEpoch
      <3>2. CASE cond \notin Tracked
        BY <2>3, <3>2 DEF BeforeCondSignal, rdm, HandsOver
      <3> QED BY <3>1, <3>2
    <2> QED BY <1>5, <2>1, <2>2, <2>3 DEF CondStep
  <1>6. CASE BarrierStep(t)
    <2>1. CASE \/ \E b \in Barriers, size \in BarrierSizes : BeforeBarrierInit(t, b, size)
               \/ BarrierArrive(t) \/ AfterBarrierWait(t)
      BY <2>1 DEF BeforeBarrierInit, BarrierArrive, AfterBarrierWait, rdm, HandsOver
    <2>2. CASE \E b \in Barriers : BeforeBarrierWait(t, b)
      BY <1>1, <2>2 DEF BeforeBarrierWait, EndEpoch
    <2> QED BY <1>6, <2>1, <2>2 DEF BarrierStep
  <1> QED BY <1>2, <1>3, <1>4, <1>5, <1>6

\* No step lowers a thread's count of its own epochs: a thread that starts has
\* none yet.
LEMMA StepsGoOn ==
    ASSUME TypeInv, TypeInv', CreationInv, AheadInv, NEW t \in Threads,
           \/ Lifecycle(t) \/ Access(t) \/ MutexStep(t)
           \/ CondStep(t) \/ BarrierStep(t)
    PROVE  GoesOn
  <1> USE DEF At, Goto
  <1>0. /\ TypeOK /\ FamilyInv /\ pc \in [Threads -> PcValues]
        /\ vectorClock \in [Threads -> Clock] /\ vectorClock[t] \in Clock
    BY DEF TypeInv, TypeOK, CreationInv
  <1>1. failed = "none"
    BY DEF Lifecycle, Access, MutexStep, CondStep, BarrierStep,
           ThreadStart, CreateCall, Spawn, CreateTimeout, CreatePublish, Publish,
           CreateEpoch, JoinCall, JoinReturn, ThreadFini, Read, Write, BeforeLock,
           AfterLock, AfterFailedTryLock, BeforeUnlock, BeforeCondWait, CondSleep,
           SpuriousWakeup, AfterCondWait, BeforeCondSignal, CondSignal,
           BeforeCondBroadcast, BeforeBarrierInit, BeforeBarrierWait, BarrierArrive,
           AfterBarrierWait
  <1>2. QuietStep => GoesOn
    BY <1>1 DEF QuietStep, GoesOn, Elsewhere
  <1>3. CASE CreateTimeout(t) \/ JoinReturn(t) \/ \E c \in Threads : JoinCall(t, c)
    BY <1>2, <1>3, JoinQuiet
  <1>4. CASE ThreadStart(t)
    <2>1. /\ pc[t] = "spawned"
          /\ \/ UNCHANGED <<pc, vectorClock>>
             \/ /\ pc' = [pc EXCEPT ![t] = "run"]
                /\ \E w : SetClock(t, w)
      BY <1>4 DEF ThreadStart
    <2>2. CASE UNCHANGED <<pc, vectorClock>>
      BY <1>0, <1>1, <2>2, KeptClockGrows DEF GoesOn
    <2>3. CASE pc' = [pc EXCEPT ![t] = "run"] /\ \E w : SetClock(t, w)
      <3>1. \A u \in Threads : pc[u] = "exited" => pc'[u] = "exited"
        BY <1>0, <2>1, <2>3
      <3>2. \A u \in Threads \ {t} : vectorClock'[u] = vectorClock[u]
        BY <1>0, <2>3 DEF SetClock
      <3>3. \A u \in Threads : vectorClock[u][u] \in Nat
        BY <1>0, Basics
      <3>4. vectorClock'[t][t] >= vectorClock[t][t]
        <4>1. vectorClock[t][t] = 0
          BY <2>1 DEF AheadInv, BoundInv, ZeroClock
        <4>2. vectorClock'[t][t] \in Nat
          BY DEF TypeInv, TypeOK, Clock
        <4> QED BY <4>1, <4>2
      <3> QED BY <1>1, <3>1, <3>2, <3>3, <3>4 DEF GoesOn
    <2> QED BY <2>1, <2>2, <2>3
  <1>5. CASE CreateCall(t)
    <2>1. /\ pc[t] = "run" /\ UNCHANGED vectorClock
          /\ nextTid < MaxThreads
          /\ pc' = [pc EXCEPT ![t] = "create", ![nextTid] = "spawned"]
      BY <1>5 DEF CreateCall, Spawn
    <2>2. nextTid \in Threads /\ nextTid > Newest
      BY <1>0, <2>1, InstanceAssumption, ThreadCountAssumption DEF TypeOK, Threads, Newest
    <2>3. pc[nextTid] = "none"
      BY <1>0, <2>2 DEF FamilyInv
    <2>4. \A u \in Threads : pc[u] = "exited" => pc'[u] = "exited"
      BY <1>0, <2>1, <2>2, <2>3
    <2> QED BY <1>0, <1>1, <2>1, <2>4, KeptClockGrows DEF GoesOn
  <1>6. CASE CreatePublish(t)
    <2>1. /\ pc[t] = "create" /\ UNCHANGED vectorClock
          /\ pc' = [pc EXCEPT ![t] = "publish"]
      BY <1>6 DEF CreatePublish, Publish
    <2>2. \A u \in Threads : pc[u] = "exited" => pc'[u] = "exited"
      BY <1>0, <2>1
    <2> QED BY <1>0, <1>1, <2>1, <2>2, KeptClockGrows DEF GoesOn
  <1>7. CASE CreateEpoch(t)
    <2>1. /\ pc[t] = "publish" /\ SetClock(t, advance(vectorClock[t], t))
          /\ pc' = [pc EXCEPT ![t] = "run"]
      BY <1>7 DEF CreateEpoch
    <2>2. \A u \in Threads : pc[u] = "exited" => pc'[u] = "exited"
      BY <1>0, <2>1
    <2>3. \A u \in Threads : vectorClock'[u][u] >= vectorClock[u][u]
      BY <1>0, <2>1, AdvanceGrows, SetClockGrows
    <2> QED BY <1>1, <2>2, <2>3 DEF GoesOn
  <1>8. CASE ThreadFini(t)
    <2>1. UNCHANGED vectorClock /\ pc' = [pc EXCEPT ![t] = "exited"]
      BY <1>8 DEF ThreadFini
    <2>2. \A u \in Threads : pc[u] = "exited" => pc'[u] = "exited"
      BY <1>0, <2>1
    <2> QED BY <1>0, <1>1, <2>1, <2>2, KeptClockGrows DEF GoesOn
  <1>9. CASE Lifecycle(t)
    BY <1>3, <1>4, <1>5, <1>6, <1>7, <1>8, <1>9 DEF Lifecycle
  <1> QED BY <1>2, <1>9, AccessQuiet, MutexQuiet, CondQuiet, BarrierQuiet

\* The queues are sorted.
THEOREM SortedCorrect == Spec => []SortedInv
  <1>1. Init => SortedInv
    BY DEF Init, SortedInv
  <1>2. TypeInv /\ TypeInv' /\ CreationInv /\ AheadInv /\ SortedInv /\ [Next]_vars
        => SortedInv'
    <2> SUFFICES ASSUME TypeInv, TypeInv', CreationInv, AheadInv, SortedInv, [Next]_vars
                 PROVE  SortedInv'
      OBVIOUS
    <2>1. ASSUME NEW t \in Threads,
                 \/ Lifecycle(t) \/ Access(t) \/ MutexStep(t)
                 \/ CondStep(t) \/ BarrierStep(t)
          PROVE  SortedInv'
      <3>1. TypeOK /\ TypeOK'
        BY DEF TypeInv
      <3>2. GoesOn /\ HandsOver(t)
        BY <2>1, StepsGoOn, StepsHandOver
      <3> QED BY <3>1, <3>2, SortedKept
    <2>2. CASE UNCHANGED vars
      BY <2>2 DEF vars, rdm, SortedInv
    <2> QED BY <2>1, <2>2 DEF Next
  <1> QED BY <1>1, <1>2, TypeCorrect, CreationCorrect, AheadCorrect, PTL DEF Spec

\* The scan may leave a queue at the first entry that is not concurrent with
\* the epoch of a running thread: all entries behind it precede that epoch.
THEOREM LeavingTheQueueIsSafe ==
    ASSUME Conds = {}, FullBarriers
    PROVE  Spec => []BreakIsSafe
  <1>1. TypeInv /\ CreationInv /\ ExactInv /\ SortedInv => BreakIsSafe
    <2> SUFFICES ASSUME TypeInv, CreationInv, ExactInv, SortedInv, NEW t \in Running,
                        NEW u \in Threads \ {t},
                        NEW k \in DOMAIN blockHistoryQueues[u],
                        NEW j \in DOMAIN blockHistoryQueues[u], k < j,
                        ~ isConcurrent(CurrentSig(t), blockHistoryQueues[u][k])
                 PROVE  Precedes(blockHistoryQueues[u][j], CurrentSig(t))
      BY DEF BreakIsSafe
    <2> DEFINE e == blockHistoryQueues[u][k]
               f == blockHistoryQueues[u][j]
               s == CurrentSig(t)
    <2>1. e \in Comparable(u) /\ f \in Comparable(u)
      BY DEF Comparable, Entries
    <2>2. s.tid = t /\ s.ts = vectorClock[t] /\ s.past = past[t]
      BY DEF CurrentSig
    <2>3. f.ts[u] < e.ts[u]
      BY DEF SortedInv
    <2>4. happensBefore(s, e) \/ happensBefore(e, s)
      BY DEF isConcurrent
    <2> HIDE DEF e, f, s
    <2>5. /\ t \in Threads /\ vectorClock[t] \in Clock /\ e.ts \in Clock /\ f.ts \in Clock
          /\ e.tid = u /\ f.tid = u /\ f.ts[u] > 0
          /\ e.ts[t] <= vectorClock[t][t]
          /\ Represents(vectorClock[t], past[t])
      BY <2>1, ComparableFacts
    <2>6. /\ e.ts[u] \in Nat /\ f.ts[u] \in Nat /\ e.ts[t] \in Nat
          /\ vectorClock[t][t] \in Nat /\ vectorClock[t][u] \in Nat
      BY <2>5 DEF Clock
    <2>7. ~ happensBefore(s, e)
      BY <2>2, <2>5, <2>6 DEF happensBefore, Less
    <2>8. e.ts[u] < vectorClock[t][u]
      BY <2>2, <2>4, <2>5, <2>7 DEF happensBefore, Less
    <2>9. f.ts[u] < vectorClock[t][u]
      BY <2>3, <2>6, <2>8
    <2>10. <<u, f.ts[u]>> \in past[t]
      BY <2>5, <2>6, <2>9 DEF Represents
    <2>11. Precedes(f, s)
      BY <2>2, <2>5, <2>10 DEF Precedes
    <2> QED BY <2>11 DEF f, s
  <1> QED BY <1>1, TypeCorrect, CreationCorrect, ExactCorrect, SortedCorrect, PTL


\* A thread that leaves a barrier finds the clocks of all that it met there, also
\* when others have begun the next generation, or are inside mutexes, creations
\* and joins.
THEOREM BarrierGathersAll ==
    ASSUME Conds = {}, FullBarriers
    PROVE  Spec => []BarrierClockIsComplete
  <1>1. TypeInv /\ ExactInv => BarrierClockIsComplete
    <2> SUFFICES ASSUME TypeInv, ExactInv, NEW t \in Threads, pc[t] = "released",
                        NEW e \in pend[t]
                 PROVE  e[2] < barrierWaitMap[barrierAddr[t]].previousVectorClock[e[1]]
      BY DEF BarrierClockIsComplete
    <2>1. Represents(Left(t), pend[t])
      BY DEF ExactInv, ReleasedInv
    <2>2. PICK u \in Threads, n \in Nat : e = <<u, n>>
      BY DEF TypeInv, TypeOK, Epochs
    <2>3. n < Left(t)[u]
      BY <2>1, <2>2 DEF Represents
    <2> QED BY <2>2, <2>3 DEF Left
  <1> QED BY <1>1, TypeCorrect, ExactCorrect, PTL
====
