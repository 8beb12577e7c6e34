----------------------------- MODULE VectorClock -----------------------------
(***************************************************************************)
(* The clock algebra of pin/VectorClock.cpp.  A clock is the array vc of   *)
(* UINT32; the field threadId that each C++ clock carries is passed next   *)
(* to the array where an operation reads it.                               *)
(*                                                                         *)
(* Components are natural numbers: the specifications that use this module *)
(* bound them (MaxClock) below 2^32, so that no increment wraps around.    *)
(***************************************************************************)
EXTENDS Integers

CONSTANT MAX_THREAD_COUNT   \* = VectorClock::totalProcessCount

ASSUME ThreadCountAssumption == MAX_THREAD_COUNT \in Nat \ {0}

Threads == 0 .. MAX_THREAD_COUNT - 1

Clock == [Threads -> Nat]

\* VectorClock(): the clock of no thread, all zero.
ZeroClock == [t \in Threads |-> 0]

\* VectorClock(int): the clock of a thread without a parent.
FirstClock(t) == [ZeroClock EXCEPT ![t] = 1]

\* VectorClock(VectorClock&, int): the clock of a new thread, not its parent.
ChildClock(vc, parent, child) ==
    [t \in Threads |-> IF t \in {parent, child} THEN vc[t] + 1 ELSE vc[t]]

\* Mutation: the wrong direction.
advanceBack(vc, t) == [vc EXCEPT ![t] = @ - 1]

advance(vc, t) == [vc EXCEPT ![t] = @ + 1]

receiveAction(vc, received) ==
    [t \in Threads |-> IF vc[t] > received[t] THEN vc[t] ELSE received[t]]

\* The clock of thread t receives that of another thread, from.
receiveWithIncrement(vc, t, received, from) ==
    [u \in Threads |-> receiveAction(vc, received)[u]
                       + IF u \in {t, from} THEN 1 ELSE 0]

\* operator<, for a clock l of thread lt and a clock r of thread rt.  Only the
\* components of the two threads are compared, and both must be smaller.
Less(l, lt, r, rt) ==
    IF lt = rt THEN l[lt] < r[rt]
               ELSE l[lt] < r[lt] /\ l[rt] < r[rt]
===============================================================================
