------------------------------ MODULE FifoChannel ------------------------------
(***************************************************************************)
(* What a bounded queue between threads promises: every value goes to one  *)
(* receiver, once, in the order in which the values were put, and no more  *)
(* than Capacity of them wait.                                             *)
(***************************************************************************)
EXTENDS Integers, Sequences

CONSTANTS Receivers, Values, Capacity

VARIABLES waiting,   \* the values put and not yet received
          received   \* received[r]: what receiver r got

vars == <<waiting, received>>

Init ==
    /\ waiting = << >>
    /\ received = [r \in Receivers |-> << >>]

Put(v) ==
    /\ Len(waiting) < Capacity
    /\ waiting' = Append(waiting, v)
    /\ UNCHANGED received

Get(r) ==
    /\ waiting # << >>
    /\ waiting' = Tail(waiting)
    /\ received' = [received EXCEPT ![r] = Append(@, Head(waiting))]

Next == (\E v \in Values : Put(v)) \/ (\E r \in Receivers : Get(r))

Spec == Init /\ [][Next]_vars
===============================================================================
