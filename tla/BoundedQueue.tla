----------------------------- MODULE BoundedQueue -----------------------------
(***************************************************************************)
(* The bounded queue of pin-replay/queue.c and the program around it, with *)
(* which the record and replay tools are tried out.                        *)
(*                                                                         *)
(* All of the queue is read and written between pthread_mutex_lock and     *)
(* pthread_mutex_unlock or pthread_cond_wait, so a critical section is one *)
(* step.  A thread in pthread_cond_wait is woken by a signal, by a         *)
(* broadcast, or for no reason; it then takes the mutex again and repeats  *)
(* its test, which is the step it would take if it had just arrived.       *)
(***************************************************************************)
EXTENDS Integers, Sequences, FiniteSets

CONSTANTS Producers, Consumers,   \* the threads main creates
          Puts,                   \* how often a producer goes round its loop
          Gets,                   \* how often a consumer may go round its
          Size                    \* size of the ring

ASSUME QueueAssumption ==
    /\ IsFiniteSet(Producers) /\ IsFiniteSet(Consumers)
    /\ Producers \cap Consumers = {}
    /\ Puts \in Nat /\ Gets \subseteq Nat
    /\ Size \in Nat \ {0, 1}

VARIABLES data, head, tail, end_count,   \* struct queue
          pc,       \* where a thread is: "run", or waiting for "empty" or "full"
          done,     \* done[t]: how many times thread t went round its loop
          gets,     \* the consumers' loop length in this program
          got,      \* got[c]: what consumer c printed
          started,  \* the threads main has created
          aborted   \* assert(result == 0) failed

ring == <<data, head, tail>>
program == <<gets, started>>
vars == <<data, head, tail, end_count, pc, done, got, program, aborted>>

Workers == Producers \cup Consumers

Slots == 0 .. Size - 1

\* What producer p puts the i-th time.
Values == Producers \X (0 .. Puts - 1)

Nothing == <<>>   \* what malloc leaves in data

TypeOK ==
    /\ data \in [Slots -> Values \cup {Nothing}]
    /\ head \in Slots /\ tail \in Slots
    /\ end_count \in 0 .. Cardinality(Producers)
    /\ pc \in [Workers -> {"run", "empty", "full", "exited"}]
    /\ done \in [Workers -> Nat]
    /\ gets \in Gets
    /\ got \in [Consumers -> Seq(Values)]
    /\ started \in SUBSET Workers
    /\ aborted \in BOOLEAN

\* queue_init.
Init ==
    /\ data = [i \in Slots |-> Nothing]
    /\ head = 0 /\ tail = 0 /\ end_count = 0
    /\ pc = [t \in Workers |-> "run"]
    /\ done = [t \in Workers |-> 0]
    /\ gets \in Gets
    /\ got = [c \in Consumers |-> << >>]
    /\ started = {}
    /\ aborted = FALSE

\* Mutation: an index that is not wrapped around.
NextSlotUnwrapped(i) == i + 1

NextSlot(i) == IF i + 1 = Size THEN 0 ELSE i + 1

\* Mutation: all slots of the ring are used.
FullAtSize == head = tail /\ data[head] # Nothing

Full == head = (tail - 1 + Size) % Size

Empty == tail = head

\* The threads that pthread_cond_signal(cond) may wake: one of those that wait.
Woken(cond) ==
    LET waiting == {t \in Workers : pc[t] = cond}
    IN  IF waiting = {} THEN {{}} ELSE {{t} : t \in waiting}

Wake(cond, W) == [t \in Workers |-> IF t \in W THEN "run" ELSE pc[t]]

Broadcast(cond) == {t \in Workers : pc[t] = cond}

Running(t) == t \in started /\ pc[t] = "run" /\ ~ aborted

\* Mutation: an item is announced to nobody.
EnqueueSilently(p) ==
    /\ Running(p) /\ done[p] < Puts
    /\ ~ Full
    /\ data' = [data EXCEPT ![head] = <<p, done[p]>>]
    /\ head' = NextSlot(head)
    /\ done' = [done EXCEPT ![p] = @ + 1]
    /\ UNCHANGED <<tail, end_count, pc, got, program, aborted>>

\* enqueue, from pthread_mutex_lock to where it waits or is done.
Enqueue(p) ==
    /\ Running(p) /\ done[p] < Puts
    /\ ~ Full
    /\ data' = [data EXCEPT ![head] = <<p, done[p]>>]
    /\ head' = NextSlot(head)
    /\ done' = [done EXCEPT ![p] = @ + 1]
    /\ \E W \in Woken("empty") : pc' = Wake("empty", W)
    /\ UNCHANGED <<tail, end_count, got, program, aborted>>

WaitUntilNotFull(p) ==
    /\ Running(p) /\ done[p] < Puts
    /\ Full
    /\ pc' = [pc EXCEPT ![p] = "full"]
    /\ UNCHANGED <<ring, end_count, done, got, program, aborted>>

\* queue_signal_terminate, the last thing a producer does.
SignalTerminate(p) ==
    /\ Running(p) /\ done[p] = Puts
    /\ end_count' = end_count + 1
    /\ pc' = [Wake("empty", Broadcast("empty")) EXCEPT ![p] = "exited"]
    /\ UNCHANGED <<ring, done, got, program, aborted>>

\* dequeue; after the last one the consumer exits.
WaitUntilNotEmpty(c) ==
    /\ Running(c) /\ done[c] < gets
    /\ Empty /\ end_count < Cardinality(Producers)
    /\ pc' = [pc EXCEPT ![c] = "empty"]
    /\ UNCHANGED <<ring, end_count, done, got, program, aborted>>

\* Mutation: the queue counts as terminated as soon as it is empty.
DequeueTerminatedEarly(c) ==
    /\ Running(c) /\ done[c] < gets
    /\ Empty
    /\ pc' = Wake("empty", Broadcast("empty"))
    /\ aborted' = TRUE
    /\ UNCHANGED <<ring, end_count, done, got, program>>

\* The result is -1, on which consumer() asserts.
DequeueTerminated(c) ==
    /\ Running(c) /\ done[c] < gets
    /\ Empty /\ end_count = Cardinality(Producers)
    /\ pc' = Wake("empty", Broadcast("empty"))
    /\ aborted' = TRUE
    /\ UNCHANGED <<ring, end_count, done, got, program>>

Dequeue(c) ==
    /\ Running(c) /\ done[c] < gets
    /\ ~ Empty
    /\ got' = [got EXCEPT ![c] = Append(@, data[tail])]
    /\ tail' = NextSlot(tail)
    /\ done' = [done EXCEPT ![c] = @ + 1]
    /\ \E W \in Woken("full") : pc' = Wake("full", W)
    /\ UNCHANGED <<data, head, end_count, program, aborted>>

ConsumerExit(c) ==
    /\ Running(c) /\ done[c] = gets
    /\ pc' = [pc EXCEPT ![c] = "exited"]
    /\ UNCHANGED <<ring, end_count, done, got, program, aborted>>

\* main creates the consumers, then the producers.
Create(t) ==
    /\ t \notin started /\ ~ aborted
    /\ t \in Producers => Consumers \subseteq started
    /\ started' = started \cup {t}
    /\ UNCHANGED <<ring, end_count, pc, done, gets, got, aborted>>

\* pthread_cond_wait may return without a signal.
SpuriousWakeup(t) ==
    /\ pc[t] \in {"empty", "full"} /\ ~ aborted
    /\ pc' = [pc EXCEPT ![t] = "run"]
    /\ UNCHANGED <<ring, end_count, done, got, program, aborted>>

Produce(p) == Enqueue(p) \/ WaitUntilNotFull(p) \/ SignalTerminate(p)

Consume(c) ==
    \/ WaitUntilNotEmpty(c) \/ DequeueTerminated(c) \/ Dequeue(c) \/ ConsumerExit(c)

Finished == \A t \in Workers : pc[t] = "exited"

\* The joins of main have returned, or the assertion has ended the program.
Return == (Finished \/ aborted) /\ UNCHANGED vars

Next ==
    \/ \E p \in Producers : Produce(p)
    \/ \E c \in Consumers : Consume(c)
    \/ \E t \in Workers : Create(t) \/ SpuriousWakeup(t)
    \/ Return

\* A thread that has the mutex to itself goes on; nobody has to be woken
\* without a signal.
Fairness ==
    /\ \A p \in Producers : WF_vars(Produce(p))
    /\ \A c \in Consumers : WF_vars(Consume(c))
    /\ \A t \in Workers : WF_vars(Create(t))

Spec == Init /\ [][Next]_vars /\ Fairness

-------------------------------------------------------------------------------
\* dequeue says that the queue has ended only when every value that will ever be
\* put has been handed out, also with several producers ending one by one.  So
\* with as many gets as puts the assertion of consumer() that it did not end
\* never fails.
EndsDrained ==
    aborted => \A v \in Values : \E c \in Consumers, i \in 1 .. gets :
                   i <= Len(got[c]) /\ got[c][i] = v

\* No wake-up is lost: no thread waits for ever, whoever is signalled.
Terminates == <>(Finished \/ aborted)

\* The values in the ring, from tail to head.
Count == IF head >= tail THEN head - tail ELSE head - tail + Size

Contents == [i \in 1 .. Count |-> data[(tail + i - 1) % Size]]

Fifo == INSTANCE FifoChannel WITH
    Receivers <- Consumers, Capacity <- Size - 1,
    waiting <- Contents, received <- got

\* The ring, its indices and the one slot it leaves free make a queue of
\* Size - 1: nothing is lost, doubled, overwritten or overtaken.
ImplementsFifo == Fifo!Spec
===============================================================================
