------------------------------- MODULE Coherence -------------------------------
(***************************************************************************)
(* What a coherent set of caches promises, whatever its lines are kept in: *)
(* a block is modified in one cache only, and then nowhere else; reading   *)
(* takes the modified copy down to a shared one; a cache that needs room   *)
(* drops at most one other block.                                          *)
(***************************************************************************)
CONSTANTS CPUs, Blocks

VARIABLE copy   \* copy[p][b]: the state in which cache p holds block b

Init == copy = [p \in CPUs |-> [b \in Blocks |-> "I"]]

\* Cache p gets block b in state st and drops the blocks in out; the other
\* caches keep b in the state left(their state).
Take(p, b, st, out, left(_)) ==
    copy' = [q \in CPUs |-> [c \in Blocks |->
                IF q = p THEN IF c = b THEN st
                              ELSE IF c \in out THEN "I" ELSE copy[p][c]
                ELSE IF c = b THEN left(copy[q][c]) ELSE copy[q][c]]]

\* At most one other block is dropped, and none when the block was there.
Dropped(p, b) ==
    IF copy[p][b] # "I" THEN {{}} ELSE {{}} \cup {{c} : c \in Blocks \ {b}}

Downgraded(st) == IF st = "M" THEN "S" ELSE st

Removed(st) == "I"

Read(p, b) ==
    IF copy[p][b] # "I"
    THEN UNCHANGED copy
    ELSE \E out \in Dropped(p, b) : Take(p, b, "S", out, Downgraded)

Write(p, b) ==
    \E out \in Dropped(p, b) : Take(p, b, "M", out, Removed)

Next == \E p \in CPUs, b \in Blocks : Read(p, b) \/ Write(p, b)

Spec == Init /\ [][Next]_copy
===============================================================================
