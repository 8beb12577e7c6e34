------------------------------ MODULE CacheAssoc ------------------------------
(***************************************************************************)
(* A set of the set-associative cache of CacheCore.cpp, in the only        *)
(* instantiation the simulator makes, CacheGeneric<MSI_SMPCacheState>.     *)
(*                                                                         *)
(* A line is its tag and its state.  The lines of a set are kept in the    *)
(* order of the pointers in content[]: way 1 is theSet[0], the line that   *)
(* was found or filled last.                                               *)
(*                                                                         *)
(* isLocked is false for every line (MSI_SMPCacheState.h), so the branches *)
(* for locked lines are not taken.                                         *)
(***************************************************************************)
EXTENDS Integers

CONSTANTS Assoc, Sets

\* "TODO : assoc and sets must be a power of 2": then tag & maskSets is a
\* remainder, and the sets do not overlap in content[].
ASSUME GeometryAssumption ==
    /\ Assoc \in Nat \ {0} /\ \E k \in 0 .. Assoc : Assoc = 2 ^ k
    /\ Sets \in Nat \ {0} /\ \E k \in 0 .. Sets : Sets = 2 ^ k

Ways == 1 .. Assoc
SetIds == 0 .. Sets - 1

MSI_MODIFIED == "M"
MSI_SHARED == "S"
MSI_INVALID == "I"

MSIState_t == {MSI_MODIFIED, MSI_SHARED, MSI_INVALID}

Line == [tag : Nat, state : MSIState_t]

\* Mutation: "no tag" is a value of its own.
InvalidatedToNoTag(line) == [tag |-> -1, state |-> MSI_INVALID]

\* invalidate() also clears the tag: an invalid line has the tag of address 0.
Invalidated(line) == [tag |-> 0, state |-> MSI_INVALID]

isValid(line) == line.state # MSI_INVALID

EmptySet == [w \in Ways |-> [tag |-> 0, state |-> MSI_INVALID]]

calcSet4Tag(tag) == tag % Sets

Hits(s, tag) == {w \in Ways : s[w].tag = tag}

Least(W) == CHOOSE w \in W : \A v \in W : w <= v

Greatest(W) == CHOOSE w \in W : \A v \in W : v <= w

\* Way w becomes the first, the ways in front of it move back by one.
MoveToFront(s, w) ==
    [v \in Ways |-> IF v = 1 THEN s[w] ELSE IF v <= w THEN s[v - 1] ELSE s[v]]

\* Mutation: a line that was found stays where it is.
findLineInPlace(s, tag) == s

\* Mutation: the line is copied to the front, not moved.
findLineCopied(s, tag) ==
    IF Hits(s, tag) # {} THEN [s EXCEPT ![1] = s[Least(Hits(s, tag))]] ELSE s

\* What findLinePrivate leaves behind; the line it returns, if there is one
\* with this tag, is then in way 1.
findLine(s, tag) ==
    IF Hits(s, tag) # {} THEN MoveToFront(s, Least(Hits(s, tag))) ELSE s

InvalidWays(s) == {w \in Ways : ~ isValid(s[w])}

\* Mutation: the line in front is taken although others are empty.
victimFirst(s) == 1

\* lineFree of findLine2Replace, "youngest invalid possible" and otherwise the
\* oldest line.
victim(s) ==
    IF InvalidWays(s) # {} THEN Least(InvalidWays(s)) ELSE Assoc

\* findLine2Replace: the order of the lines it leaves behind, and the way of
\* the line it returns.  A line that has the tag already is not moved.
findLine2Replace(s, tag) ==
    IF Hits(s, tag) # {}
    THEN [lines |-> s,
          way |-> IF s[1].tag = tag THEN 1 ELSE Greatest(Hits(s, tag))]
    ELSE [lines |-> MoveToFront(s, victim(s)), way |-> 1]

\* SMPCache::fillLine.
fillLine(s, tag, state) ==
    [findLine2Replace(s, tag).lines EXCEPT
        ![findLine2Replace(s, tag).way] = [tag |-> tag, state |-> state]]
===============================================================================
