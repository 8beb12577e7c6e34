---------------------------- MODULE SigraceModules ----------------------------
(***************************************************************************)
(* The data types of pin/SigraceModules.h: the signature of an epoch, and  *)
(* the race detection module that compares a new signature with the last   *)
(* BLOCK_HISTORY_QUEUE_SIZE signatures of every other thread.              *)
(*                                                                         *)
(* The build defines SET_OVERRIDE (pin/MyFlags.h), so a Bloom filter is    *)
(* the exact set of the addresses added to it since it was cleared.        *)
(*                                                                         *)
(* The field "past" of a signature is not in the code: it is the set of    *)
(* epochs that happen before it in the instrumented program, against which *)
(* the clocks are judged.  An epoch is named by its thread and by the      *)
(* value the thread's own clock component has while it lasts.              *)
(***************************************************************************)
EXTENDS VectorClock, Sequences

CONSTANTS
    Addrs,                      \* shared data addresses
    BLOCK_HISTORY_QUEUE_SIZE    \* signatures kept for each thread

ASSUME QueueSizeAssumption == BLOCK_HISTORY_QUEUE_SIZE \in Nat \ {0}

Epochs == Threads \X Nat

SigRaceData ==
    [tid : Threads, ts : Clock, r : SUBSET Addrs, w : SUBSET Addrs,
     past : SUBSET Epochs]

hasInCommon(filter, other) == filter \cap other # {}

\* Mutation: the write filter is not looked at.
isDirtyRead(sig) == sig.r # {}

isDirty(sig) == sig.r # {} \/ sig.w # {}

happensBefore(sig, other) == Less(sig.ts, sig.tid, other.ts, other.tid)

isConcurrent(sig, other) ==
    ~ happensBefore(sig, other) /\ ~ happensBefore(other, sig)

\* Mutation: two writes are not compared.
ConflictWithoutWrites(sig, other) ==
    IF hasInCommon(sig.r, other.w) THEN "r-w"
    ELSE IF hasInCommon(sig.w, other.r) THEN "w-r"
    ELSE "none"

\* The kind of conflict the scan reports for two signatures, tested in this
\* order.
Conflict(sig, other) ==
    IF hasInCommon(sig.r, other.w) THEN "r-w"
    ELSE IF hasInCommon(sig.w, other.r) THEN "w-r"
    ELSE IF hasInCommon(sig.w, other.w) THEN "w-w"
    ELSE "none"

Races == [tid : Threads, other : Threads, kind : {"r-w", "w-r", "w-w"}]

\* Mutation: push_back, and the newest one dropped.
pushBack(queue, sig) ==
    SubSeq(Append(queue, sig), 1,
           IF Len(queue) < BLOCK_HISTORY_QUEUE_SIZE
           THEN Len(queue) + 1 ELSE BLOCK_HISTORY_QUEUE_SIZE)

\* A queue is a sequence, newest signature first; the oldest one is dropped
\* when the queue is over its limit.
pushFront(queue, sig) ==
    SubSeq(<<sig>> \o queue, 1,
           IF Len(queue) < BLOCK_HISTORY_QUEUE_SIZE
           THEN Len(queue) + 1 ELSE BLOCK_HISTORY_QUEUE_SIZE)

\* Mutation: order is not looked at.
ScannedAll(queue, sig) == DOMAIN queue

\* The entries of a queue the scan looks at: it leaves the queue at the first
\* entry that is not concurrent with the new signature.
Scanned(queue, sig) ==
    {k \in DOMAIN queue : \A j \in 1 .. k : isConcurrent(sig, queue[j])}

Hits(queues, sig) ==
    {h \in Threads \X (1 .. BLOCK_HISTORY_QUEUE_SIZE) :
        /\ h[1] # sig.tid
        /\ h[2] \in Scanned(queues[h[1]], sig)
        /\ Conflict(sig, queues[h[1]][h[2]]) # "none"}

\* The scan visits the queues by thread id and ends at the first hit (the
\* label OUTER_FOR is behind both loops): at most one race is reported.
ScanReport(queues, sig) ==
    {[tid |-> sig.tid, other |-> h[1],
      kind |-> Conflict(sig, queues[h[1]][h[2]])] :
        h \in {g \in Hits(queues, sig) :
                  \A i \in Hits(queues, sig) :
                      g[1] < i[1] \/ (g[1] = i[1] /\ g[2] <= i[2])}}
===============================================================================
