----------------------------- MODULE RecentBlocks -----------------------------
(***************************************************************************)
(* What a cache promises about which blocks it keeps: each set holds the   *)
(* blocks used last, at most capacity of them, and a block is in one of    *)
(* its homes only.                                                         *)
(***************************************************************************)
EXTENDS Integers, SequencesExt

CONSTANTS Blocks, Homes

VARIABLES order,      \* order[h]: the blocks of set h, the last used first
          last,       \* the block used or dropped last
          capacity,   \* of a set
          homes       \* homes[b]: the sets block b may be in

vars == <<order, last, capacity, homes>>

Init ==
    /\ order = [h \in Homes |-> << >>]
    /\ last \notin Blocks
    /\ capacity \in Nat \ {0}
    /\ homes \in [Blocks -> (SUBSET Homes) \ {{}}]

Without(seq, b) == SelectSeq(seq, LAMBDA c : c # b)

Used(seq, b) == <<b>> \o Without(seq, b)

Places(b) == {h \in Homes : Contains(order[h], b)}

Use(b) ==
    \E h \in Places(b) : order' = [order EXCEPT ![h] = Used(@, b)]

Bring(b) ==
    /\ Places(b) = {}
    /\ \E h \in homes[b] :
          order' = [order EXCEPT ![h] =
                        IF Len(@) = capacity THEN Used(Front(@), b) ELSE Used(@, b)]

Drop(b) ==
    \E h \in Places(b) : order' = [order EXCEPT ![h] = Without(@, b)]

Next ==
    /\ \E b \in Blocks : (Use(b) \/ Bring(b) \/ Drop(b)) /\ last' = b
    /\ UNCHANGED <<capacity, homes>>

Spec == Init /\ [][Next]_vars
===============================================================================
