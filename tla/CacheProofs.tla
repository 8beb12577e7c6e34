------------------------------ MODULE CacheProofs ------------------------------
(***************************************************************************)
(* The caches of MultiCacheSim are coherent, and the driver that compares  *)
(* two simulators changes nothing, for every number of caches, sets, ways, *)
(* threads and blocks.                                                     *)
(*                                                                         *)
(* The blocks exclude block 0: invalidate() leaves tag 0 behind, and a     *)
(* look up of block 0 finds invalid lines.                                 *)
(***************************************************************************)
EXTENDS CacheDriver, WellFoundedInduction, TLAPS

-------------------------------------------------------------------------------
\* The least of a set of numbers.

LEMMA LeastExists ==
    ASSUME NEW W \in SUBSET Nat, W # {}
    PROVE  Least(W) \in W /\ \A v \in W : Least(W) <= v
  <1> DEFINE R == OpToRel(<, Nat)
  <1>1. PICK w \in W : \A v \in W : ~ (<<v, w>> \in R)
    BY NatLessThanWellFounded, WFMin
  <1>2. \A u, v \in Nat : u < v => <<u, v>> \in R
    BY Zenon DEF OpToRel
  <1> HIDE DEF R
  <1>3. \A v \in W : ~ (v < w)
    BY <1>1, <1>2, Zenon
  <1>4. \A v \in W : w <= v
    BY <1>3
  <1> QED BY <1>4 DEF Least

LEMMA WaysFacts == Assoc \in Nat \ {0} /\ 1 \in Ways /\ Ways \subseteq Nat
  BY GeometryAssumption DEF Ways

LEMMA SetOfTag ==
    ASSUME NEW tag \in Nat
    PROVE  calcSet4Tag(tag) \in SetIds
  BY GeometryAssumption DEF calcSet4Tag, SetIds

LEMMA CPUOfTid ==
    ASSUME NEW tid \in Tids
    PROVE  tidToCPUId(tid) \in CPUs
  BY CachesAssumption DEF tidToCPUId, CPUs

-------------------------------------------------------------------------------
\* One set of a cache.

\* An invalid line has tag 0 and no other line has; a block is in one line.
SetOK(s) ==
    /\ s \in [Ways -> Line]
    /\ \A w \in Ways : s[w].state = MSI_INVALID <=> s[w].tag = 0
    /\ \A v, w \in Ways : s[v].tag = s[w].tag /\ s[v].tag # 0 => v = w

NonZero == Nat \ {0}

\* What the look up finds is the one line that has the tag.
LEMMA HitIsUnique ==
    ASSUME NEW s, SetOK(s), NEW tag \in NonZero, NEW w \in Ways, s[w].tag = tag
    PROVE  /\ Hits(s, tag) = {w} /\ Least(Hits(s, tag)) = w
           /\ StateOf(s, tag) = s[w].state
           /\ StateOf(s, tag) # MSI_INVALID
  <1>1. Hits(s, tag) = {w}
    BY DEF Hits, SetOK, NonZero
  <1>2. Least({w}) = w
    BY WaysFacts DEF Least
  <1>3. s[w].state # MSI_INVALID
    BY DEF SetOK, NonZero
  <1> QED BY <1>1, <1>2, <1>3 DEF StateOf

\* A block that is in no line is in state MSI_INVALID.
LEMMA NoHit ==
    ASSUME NEW s, NEW tag, \A w \in Ways : s[w].tag # tag
    PROVE  Hits(s, tag) = {} /\ StateOf(s, tag) = MSI_INVALID
  BY DEF Hits, StateOf

\* A block is in a line exactly if its state is not MSI_INVALID.
LEMMA InALine ==
    ASSUME NEW s, SetOK(s), NEW tag \in NonZero
    PROVE  StateOf(s, tag) # MSI_INVALID <=> \E w \in Ways : s[w].tag = tag
  BY HitIsUnique, NoHit

\* The states of a set are determined by its lines, in any order.
LEMMA SameLines ==
    ASSUME NEW s, SetOK(s), NEW r, SetOK(r), NEW tag \in NonZero,
           \A w \in Ways : s[w].tag = tag => \E v \in Ways : r[v] = s[w],
           \A v \in Ways : r[v].tag = tag => \E w \in Ways : s[w] = r[v]
    PROVE  StateOf(r, tag) = StateOf(s, tag)
  <1>1. CASE \E w \in Ways : s[w].tag = tag
    <2>1. PICK w \in Ways : s[w].tag = tag
      BY <1>1
    <2>2. PICK v \in Ways : r[v] = s[w]
      BY <2>1
    <2> QED BY <2>1, <2>2, HitIsUnique
  <1>2. CASE \A w \in Ways : s[w].tag # tag
    <2>1. \A v \in Ways : r[v].tag # tag
      BY <1>2
    <2> QED BY <1>2, <2>1, NoHit
  <1> QED BY <1>1, <1>2

\* Moving to the front loses no line and doubles none.
From(w, v) == IF v = 1 THEN w ELSE IF v <= w THEN v - 1 ELSE v

Moved(s, w, r) ==
    /\ r \in [Ways -> Line]
    /\ r[1] = s[w]
    /\ \A v \in Ways : From(w, v) \in Ways /\ r[v] = s[From(w, v)]
    /\ \A u, v \in Ways : From(w, u) = From(w, v) => u = v
    /\ \A u \in Ways : \E v \in Ways : From(w, v) = u

LEMMA MovedLines ==
    ASSUME NEW s \in [Ways -> Line], NEW w \in Ways
    PROVE  Moved(s, w, MoveToFront(s, w))
  <1>1. Assoc \in Nat \ {0} /\ w \in 1 .. Assoc
    BY WaysFacts DEF Ways
  <1>2. \A v \in 1 .. Assoc : From(w, v) \in 1 .. Assoc
    BY <1>1 DEF From
  <1>3. \A u, v \in 1 .. Assoc : From(w, u) = From(w, v) => u = v
    BY <1>1 DEF From
  <1>4. \A u \in 1 .. Assoc : \E v \in 1 .. Assoc : From(w, v) = u
    <2> SUFFICES ASSUME NEW u \in 1 .. Assoc
                 PROVE  \E v \in 1 .. Assoc : From(w, v) = u
      OBVIOUS
    <2> DEFINE v == IF u = w THEN 1 ELSE IF u < w THEN u + 1 ELSE u
    <2>1. v \in 1 .. Assoc /\ From(w, v) = u
      BY <1>1 DEF From
    <2> QED BY <2>1
  <1>5. \A v \in Ways : MoveToFront(s, w)[v] = s[From(w, v)]
    BY <1>1 DEF MoveToFront, From, Ways
  <1>6. MoveToFront(s, w) \in [Ways -> Line]
    <2>1. \A v \in Ways : (IF v = 1 THEN s[w] ELSE IF v <= w THEN s[v - 1] ELSE s[v])
                            = s[From(w, v)]
      BY DEF From
    <2>2. \A v \in Ways : s[From(w, v)] \in Line
      BY <1>2 DEF Ways
    <2> QED BY <2>1, <2>2 DEF MoveToFront
  <1>7. MoveToFront(s, w)[1] = s[w]
    BY <1>5, WaysFacts DEF From
  <1> QED BY <1>2, <1>3, <1>4, <1>5, <1>6, <1>7 DEF Ways, Moved

\* findLine moves the line it finds to the front and changes no state.
LEMMA FindKeeps ==
    ASSUME NEW s, SetOK(s), NEW tag \in NonZero
    PROVE  /\ SetOK(findLine(s, tag))
           /\ \A c \in NonZero : StateOf(findLine(s, tag), c) = StateOf(s, c)
           /\ StateOf(s, tag) # MSI_INVALID =>
                /\ findLine(s, tag)[1].tag = tag
                /\ \E w \in Ways : findLine(s, tag) = MoveToFront(s, w) /\ s[w].tag = tag
           /\ StateOf(s, tag) = MSI_INVALID =>
                findLine(s, tag) = s /\ Hits(s, tag) = {}
           /\ s[1].tag = tag => findLine(s, tag) = s
  <1>1. CASE \A w \in Ways : s[w].tag # tag
    <2>1. Hits(s, tag) = {} /\ StateOf(s, tag) = MSI_INVALID
      BY <1>1, NoHit
    <2>2. findLine(s, tag) = s
      BY <2>1 DEF findLine
    <2> QED BY <2>1, <2>2
  <1>2. CASE \E w \in Ways : s[w].tag = tag
    <2>1. PICK w \in Ways : s[w].tag = tag
      BY <1>2
    <2>2. Hits(s, tag) = {w} /\ Least(Hits(s, tag)) = w /\ StateOf(s, tag) # MSI_INVALID
      BY <2>1, HitIsUnique
    <2> DEFINE r == MoveToFront(s, w)
    <2>3. findLine(s, tag) = r
      BY <2>2 DEF findLine
    <2>4. s \in [Ways -> Line]
      BY DEF SetOK
    <2>5. Moved(s, w, r)
      BY <2>4, MovedLines
    <2> HIDE DEF r
    <2> USE DEF Moved
    <2>6. SetOK(r)
      <3>1. \A v \in Ways : r[v].state = MSI_INVALID <=> r[v].tag = 0
        BY <2>5 DEF SetOK
      <3>2. ASSUME NEW u \in Ways, NEW v \in Ways, r[u].tag = r[v].tag, r[u].tag # 0
            PROVE  u = v
        <4>1. From(w, u) = From(w, v)
          BY <2>5, <3>2 DEF SetOK
        <4> QED BY <2>5, <4>1
      <3> QED BY <2>5, <3>1, <3>2 DEF SetOK
    <2>7. \A c \in NonZero : StateOf(r, c) = StateOf(s, c)
      <3>1. \A u \in Ways : \E v \in Ways : r[v] = s[u]
        BY <2>5
      <3>2. \A v \in Ways : \E u \in Ways : s[u] = r[v]
        BY <2>5
      <3> QED BY <2>6, <3>1, <3>2, SameLines
    <2>8. s[1].tag = tag => r = s
      <3> SUFFICES ASSUME s[1].tag = tag PROVE r = s
        OBVIOUS
      <3>1. w = 1
        BY <2>1, WaysFacts DEF SetOK, NonZero
      <3>2. \A v \in Ways : From(1, v) = v
        BY WaysFacts DEF From, Ways
      <3>3. \A v \in Ways : r[v] = s[v]
        BY <2>5, <3>1, <3>2
      <3> QED BY <2>4, <2>5, <3>3
    <2> QED BY <2>1, <2>2, <2>3, <2>5, <2>6, <2>7, <2>8 DEF r
  <1> QED BY <1>1, <1>2

\* What the set r is when the line in way 1 of s, which has the tag, becomes
\* another line with this tag or an invalid one.
LEMMA FrontChanged ==
    ASSUME NEW s, SetOK(s), NEW r \in [Ways -> Line],
           \A v \in Ways \ {1} : r[v] = s[v],
           r[1].state = MSI_INVALID <=> r[1].tag = 0,
           r[1].tag # 0 => \A v \in Ways \ {1} : s[v].tag # r[1].tag
    PROVE  /\ SetOK(r)
           /\ r[1].tag # 0 => StateOf(r, r[1].tag) = r[1].state
           /\ s[1].tag \in NonZero /\ s[1].tag # r[1].tag =>
                  StateOf(r, s[1].tag) = MSI_INVALID
           /\ \A c \in NonZero : c # r[1].tag /\ c # s[1].tag =>
                  StateOf(r, c) = StateOf(s, c)
  <1>1. 1 \in Ways
    BY WaysFacts
  <1>2. SetOK(r)
    BY <1>1 DEF SetOK
  <1>3. r[1].tag # 0 => StateOf(r, r[1].tag) = r[1].state
    <2>1. r[1].tag \in Nat
      BY <1>1 DEF Line
    <2> QED BY <1>1, <1>2, <2>1, HitIsUnique DEF NonZero
  <1>4. s[1].tag \in NonZero /\ s[1].tag # r[1].tag => StateOf(r, s[1].tag) = MSI_INVALID
    <2> SUFFICES ASSUME s[1].tag \in NonZero, s[1].tag # r[1].tag
                 PROVE  \A v \in Ways : r[v].tag # s[1].tag
      BY NoHit
    <2> QED BY <1>1 DEF SetOK, NonZero
  <1>5. ASSUME NEW c \in NonZero, c # r[1].tag, c # s[1].tag
        PROVE  StateOf(r, c) = StateOf(s, c)
    <2>1. \A w \in Ways : s[w].tag = c => \E v \in Ways : r[v] = s[w]
      BY <1>5
    <2>2. \A v \in Ways : r[v].tag = c => \E w \in Ways : s[w] = r[v]
      BY <1>5
    <2> QED BY <1>2, <2>1, <2>2, SameLines
  <1> QED BY <1>2, <1>3, <1>4, <1>5

\* The set r has the block in state st and everything else as s has it.
Becomes(s, r, tag, st) ==
    /\ SetOK(r)
    /\ StateOf(r, tag) = st
    /\ \A c \in NonZero \ {tag} : StateOf(r, c) = StateOf(s, c)

LEMMA FoundState ==
    ASSUME NEW s, SetOK(s), NEW tag \in NonZero
    PROVE  Becomes(s, findLine(s, tag), tag, StateOf(s, tag))
  BY FindKeeps DEF Becomes

\* changeStateTo, after the look up.
LEMMA ChangedState ==
    ASSUME NEW s, SetOK(s), NEW tag \in NonZero, StateOf(s, tag) # MSI_INVALID,
           NEW st \in {MSI_MODIFIED, MSI_SHARED}
    PROVE  /\ Becomes(s, changeStateTo(findLine(s, tag), st), tag, st)
           /\ changeStateTo(findLine(s, tag), st)[1].tag = tag
  <1> DEFINE f == findLine(s, tag)
             r == changeStateTo(f, st)
  <1>1. SetOK(f) /\ f[1].tag = tag /\ 1 \in Ways
        /\ \A c \in NonZero : StateOf(f, c) = StateOf(s, c)
    BY FindKeeps, WaysFacts
  <1> HIDE DEF f
  <1>2. f \in [Ways -> Line] /\ f[1] \in Line
    BY <1>1 DEF SetOK
  <1>3. st \in MSIState_t /\ st # MSI_INVALID
    BY DEF MSIState_t, MSI_MODIFIED, MSI_SHARED, MSI_INVALID
  <1>4. [f[1] EXCEPT !.state = st] \in Line /\ [f[1] EXCEPT !.state = st].tag = tag
        /\ [f[1] EXCEPT !.state = st].state = st
    BY <1>1, <1>2, <1>3 DEF Line
  <1>5. /\ r \in [Ways -> Line] /\ r[1] = [f[1] EXCEPT !.state = st]
        /\ \A v \in Ways \ {1} : r[v] = f[v]
    BY <1>1, <1>2, <1>4 DEF changeStateTo
  <1> HIDE DEF r
  <1>6. r[1].tag = tag /\ r[1].state = st
    BY <1>4, <1>5
  <1>7. \A v \in Ways \ {1} : f[v].tag # tag
    BY <1>1 DEF SetOK, NonZero
  <1>8. tag # 0
    BY DEF NonZero
  <1>9. /\ SetOK(r) /\ StateOf(r, tag) = st
        /\ \A c \in NonZero : c # tag => StateOf(r, c) = StateOf(f, c)
    <2>1. r \in [Ways -> Line] /\ \A v \in Ways \ {1} : r[v] = f[v]
      BY <1>5
    <2> QED BY <1>1, <1>3, <1>6, <1>7, <1>8, <2>1, FrontChanged
  <1> QED BY <1>1, <1>6, <1>9 DEF Becomes, r, f

\* invalidate, after the look up.
LEMMA InvalidatedState ==
    ASSUME NEW s, SetOK(s), NEW tag \in NonZero, StateOf(s, tag) # MSI_INVALID
    PROVE  Becomes(s, [findLine(s, tag) EXCEPT ![1] = Invalidated(@)], tag, MSI_INVALID)
  <1> DEFINE f == findLine(s, tag)
             r == [f EXCEPT ![1] = Invalidated(@)]
  <1>1. SetOK(f) /\ f[1].tag = tag /\ 1 \in Ways
        /\ \A c \in NonZero : StateOf(f, c) = StateOf(s, c)
    BY FindKeeps, WaysFacts
  <1> HIDE DEF f
  <1>2. f \in [Ways -> Line]
    BY <1>1 DEF SetOK
  <1>3. /\ Invalidated(f[1]) \in Line /\ Invalidated(f[1]).tag = 0
        /\ Invalidated(f[1]).state = MSI_INVALID
    BY DEF Invalidated, Line, MSIState_t
  <1>4. /\ r \in [Ways -> Line] /\ r[1] = Invalidated(f[1])
        /\ \A v \in Ways \ {1} : r[v] = f[v]
    BY <1>1, <1>2, <1>3
  <1> HIDE DEF r
  <1>5. r[1].tag = 0 /\ r[1].state = MSI_INVALID /\ tag # 0
    BY <1>3, <1>4 DEF NonZero
  <1>6. /\ SetOK(r) /\ StateOf(r, tag) = MSI_INVALID
        /\ \A c \in NonZero : c # 0 /\ c # tag => StateOf(r, c) = StateOf(f, c)
    BY <1>1, <1>4, <1>5, FrontChanged
  <1> QED BY <1>1, <1>6 DEF Becomes, NonZero, r, f

\* The line that is replaced is an empty one, if there is one.
LEMMA VictimIsSpare ==
    ASSUME NEW s \in [Ways -> Line]
    PROVE  victim(s) \in Ways /\ (InvalidWays(s) # {} => s[victim(s)].state = MSI_INVALID)
  <1>1. CASE InvalidWays(s) = {}
    BY <1>1, WaysFacts DEF victim, Ways
  <1>2. CASE InvalidWays(s) # {}
    <2>1. InvalidWays(s) \in SUBSET Nat
      BY WaysFacts DEF InvalidWays
    <2>2. Least(InvalidWays(s)) \in InvalidWays(s)
      BY <1>2, <2>1, LeastExists
    <2> QED BY <1>2, <2>2 DEF victim, InvalidWays, isValid
  <1> QED BY <1>1, <1>2

\* The block in line `out` is given up for the missing block, which comes to the
\* front; if the line was a valid one, there was no other.
Fills(s, r, tag, st, out) ==
    /\ SetOK(r) /\ r[1].tag = tag
    /\ out \in Ways /\ (InvalidWays(s) # {} => s[out].tag = 0)
    /\ StateOf(r, tag) = st
    /\ \A c \in NonZero \ {tag} :
          StateOf(r, c) = IF c = s[out].tag THEN MSI_INVALID ELSE StateOf(s, c)

LEMMA FilledState ==
    ASSUME NEW s, SetOK(s), NEW tag \in NonZero, StateOf(s, tag) = MSI_INVALID,
           NEW st \in {MSI_MODIFIED, MSI_SHARED}
    PROVE  \E out \in Ways : Fills(s, fillLine(findLine(s, tag), tag, st), tag, st, out)
  <1> DEFINE w == victim(s)
             f == MoveToFront(s, w)
             line == [tag |-> tag, state |-> st]
             r == [f EXCEPT ![1] = line]
  <1>1. findLine(s, tag) = s /\ Hits(s, tag) = {} /\ s \in [Ways -> Line] /\ 1 \in Ways
    BY FindKeeps, WaysFacts DEF SetOK
  <1>2. w \in Ways /\ (InvalidWays(s) # {} => s[w].tag = 0)
    BY <1>1, VictimIsSpare DEF SetOK
  <1>3. Moved(s, w, f)
    BY <1>1, <1>2, MovedLines
  <1>4. fillLine(findLine(s, tag), tag, st) = r
    BY <1>1 DEF fillLine, findLine2Replace
  <1> HIDE DEF w, f
  <1>5. SetOK(f)
    <2> USE DEF Moved
    <2>1. \A v \in Ways : f[v].state = MSI_INVALID <=> f[v].tag = 0
      BY <1>3 DEF SetOK
    <2>2. ASSUME NEW u \in Ways, NEW v \in Ways, f[u].tag = f[v].tag, f[u].tag # 0
          PROVE  u = v
      <3>1. From(w, u) = From(w, v)
        BY <1>3, <2>2 DEF SetOK
      <3> QED BY <1>3, <3>1
    <2> QED BY <1>3, <2>1, <2>2 DEF SetOK
  <1>6. \A c \in NonZero : StateOf(f, c) = StateOf(s, c)
    <2>1. \A u \in Ways : \E v \in Ways : f[v] = s[u]
      BY <1>3 DEF Moved
    <2>2. \A v \in Ways : \E u \in Ways : s[u] = f[v]
      BY <1>3 DEF Moved
    <2> QED BY <1>5, <2>1, <2>2, SameLines
  <1>7. \A v \in Ways : f[v].tag # tag
    BY <1>1, <1>3 DEF Moved, Hits
  <1>8. f \in [Ways -> Line] /\ f[1] = s[w]
    BY <1>3 DEF Moved
  <1>9. line \in Line /\ line.tag = tag /\ line.state = st /\ tag # 0 /\ st # MSI_INVALID
    BY DEF Line, MSIState_t, MSI_MODIFIED, MSI_SHARED, MSI_INVALID, NonZero
  <1> HIDE DEF line
  <1>10. /\ r \in [Ways -> Line] /\ r[1] = line
         /\ \A v \in Ways \ {1} : r[v] = f[v]
    BY <1>1, <1>8, <1>9
  <1> HIDE DEF r
  <1>11. /\ SetOK(r) /\ StateOf(r, tag) = st
         /\ s[w].tag \in NonZero => StateOf(r, s[w].tag) = MSI_INVALID
         /\ \A c \in NonZero : c # tag /\ c # s[w].tag => StateOf(r, c) = StateOf(f, c)
    <2>1. r[1].tag = tag /\ r[1].state = st /\ s[w].tag # tag
      BY <1>1, <1>7, <1>8, <1>9, <1>10
    <2> QED BY <1>5, <1>7, <1>8, <1>9, <1>10, <2>1, FrontChanged
  <1>12. Fills(s, r, tag, st, w)
    BY <1>2, <1>6, <1>9, <1>10, <1>11 DEF Fills
  <1> QED BY <1>2, <1>4, <1>12

-------------------------------------------------------------------------------
\* All caches.

\* The state in which cache p has the block.
St(p, tag) == StateOf(theSet(p, tag), tag)

SetsOK ==
    /\ content \in [CPUs -> [SetIds -> [Ways -> Line]]]
    /\ \A p \in CPUs, i \in SetIds : SetOK(content[p][i])

\* A modified block is in no other cache.
Exclusive ==
    \A p, q \in CPUs : \A tag \in Tags :
        St(p, tag) = MSI_MODIFIED /\ p # q => St(q, tag) = MSI_INVALID

CacheInv == SetsOK /\ Exclusive /\ counted \in [cpu : CPUs, what : SUBSET Counters]

LEMMA TagFacts ==
    ASSUME 0 \notin Tags, NEW tag \in Tags
    PROVE  tag \in Nat /\ tag \in NonZero /\ calcSet4Tag(tag) \in SetIds
  BY CachesAssumption, SetOfTag DEF NonZero

LEMMA TheSetOK ==
    ASSUME SetsOK, 0 \notin Tags, NEW p \in CPUs, NEW tag \in Tags
    PROVE  SetOK(theSet(p, tag)) /\ St(p, tag) \in MSIState_t
  <1>1. SetOK(theSet(p, tag))
    BY TagFacts DEF SetsOK, theSet
  <1>2. St(p, tag) \in MSIState_t
    <2>1. CASE \E w \in Ways : theSet(p, tag)[w].tag = tag
      <3>1. PICK w \in Ways : theSet(p, tag)[w].tag = tag
        BY <2>1
      <3>2. St(p, tag) = theSet(p, tag)[w].state
        BY <1>1, <3>1, HitIsUnique, TagFacts DEF St
      <3>3. theSet(p, tag)[w] \in Line
        BY <1>1 DEF SetOK
      <3> QED BY <3>2, <3>3 DEF Line
    <2>2. CASE \A w \in Ways : theSet(p, tag)[w].tag # tag
      BY <2>2, NoHit DEF St, MSIState_t
    <2> QED BY <2>1, <2>2
  <1> QED BY <1>1, <1>2

\* What an access to block b by cache p does: b is there in state st and in
\* front, the other caches have b in the states left[q], and cache p has lost at
\* most block e, for which it had no empty line.
Accessed(p, b, st, left) ==
    /\ SetsOK'
    /\ St(p, b)' = st
    /\ theSet(p, b)'[1].tag = b
    /\ \A q \in CPUs \ {p} : St(q, b)' = left[q]
    /\ \A q \in CPUs \ {p} : \A c \in Tags \ {b} : St(q, c)' = St(q, c)
    /\ \E e \in Nat :
          /\ St(p, b) # MSI_INVALID => e = 0
          /\ e # 0 => InvalidWays(theSet(p, b)) = {} /\ calcSet4Tag(e) = calcSet4Tag(b)
          /\ \A c \in Tags \ {b} : St(p, c)' = IF c = e THEN MSI_INVALID ELSE St(p, c)

\* The sets after an update.
LEMMA UpdatedSets ==
    ASSUME SetsOK, 0 \notin Tags, NEW b \in Tags, NEW new, Update(b, new),
           \A q \in CPUs : SetOK(new[q])
    PROVE  /\ SetsOK'
           /\ \A q \in CPUs : \A c \in Tags :
                 theSet(q, c)' = IF calcSet4Tag(c) = calcSet4Tag(b) THEN new[q]
                                 ELSE theSet(q, c)
  <1> DEFINE i == calcSet4Tag(b)
  <1>1. i \in SetIds /\ \A c \in Tags : calcSet4Tag(c) \in SetIds
    BY TagFacts
  <1>2. content' = [q \in CPUs |-> [content[q] EXCEPT ![i] = new[q]]]
    BY DEF Update
  <1>3. content \in [CPUs -> [SetIds -> [Ways -> Line]]]
    BY DEF SetsOK
  <1> HIDE DEF i
  <1>4. \A q \in CPUs : \A j \in SetIds :
           content'[q][j] = IF j = i THEN new[q] ELSE content[q][j]
    BY <1>1, <1>2, <1>3
  <1>5. \A q \in CPUs : new[q] \in [Ways -> Line]
    BY DEF SetOK
  <1>6. content' \in [CPUs -> [SetIds -> [Ways -> Line]]]
    BY <1>1, <1>2, <1>3, <1>5
  <1>7. SetsOK'
    BY <1>4, <1>6 DEF SetsOK
  <1>8. \A q \in CPUs : \A c \in Tags :
           theSet(q, c)' = IF calcSet4Tag(c) = i THEN new[q] ELSE theSet(q, c)
    BY <1>1, <1>4 DEF theSet
  <1> QED BY <1>7, <1>8 DEF i

\* Cache q has b in state st, and everything else as before.
Has(q, b, st) == St(q, b)' = st /\ \A c \in Tags \ {b} : St(q, c)' = St(q, c)

LEMMA OtherStates ==
    ASSUME SetsOK, 0 \notin Tags, NEW b \in Tags, NEW new, Update(b, new),
           \A q \in CPUs : SetOK(new[q]),
           NEW q \in CPUs, NEW st, Becomes(theSet(q, b), new[q], b, st)
    PROVE  Has(q, b, st)
  <1>1. \A c \in Tags :
           theSet(q, c)' = IF calcSet4Tag(c) = calcSet4Tag(b) THEN new[q]
                           ELSE theSet(q, c)
    BY UpdatedSets
  <1>2. St(q, b)' = st
    BY <1>1 DEF St, Becomes
  <1>3. ASSUME NEW c \in Tags \ {b} PROVE St(q, c)' = St(q, c)
    <2>1. CASE calcSet4Tag(c) # calcSet4Tag(b)
      BY <1>1, <2>1 DEF St
    <2>2. CASE calcSet4Tag(c) = calcSet4Tag(b)
      <3>1. theSet(q, c) = theSet(q, b) /\ theSet(q, c)' = new[q]
        BY <1>1, <2>2 DEF theSet
      <3>2. StateOf(new[q], c) = StateOf(theSet(q, b), c)
        BY TagFacts DEF Becomes
      <3> QED BY <3>1, <3>2 DEF St
    <2> QED BY <2>1, <2>2
  <1> QED BY <1>2, <1>3 DEF Has

\* An access that finds its block in cache p.
LEMMA HitAccess ==
    ASSUME SetsOK, 0 \notin Tags, NEW p \in CPUs, NEW b \in Tags, NEW st, NEW left,
           NEW new, Update(b, new),
           Becomes(theSet(p, b), new[p], b, st), new[p][1].tag = b,
           \A q \in CPUs \ {p} : Becomes(theSet(q, b), new[q], b, left[q])
    PROVE  Accessed(p, b, st, left)
  <1>1. \A q \in CPUs : SetOK(new[q])
    BY DEF Becomes
  <1>2. SetsOK' /\ theSet(p, b)' = new[p]
    BY <1>1, UpdatedSets
  <1>3. Has(p, b, st)
    BY <1>1, OtherStates
  <1>4. \A q \in CPUs \ {p} : Has(q, b, left[q])
    BY <1>1, OtherStates
  <1>5. \A c \in Tags : c # 0
    OBVIOUS
  <1>6. \E e \in Nat :
          /\ St(p, b) # MSI_INVALID => e = 0
          /\ e # 0 => InvalidWays(theSet(p, b)) = {} /\ calcSet4Tag(e) = calcSet4Tag(b)
          /\ \A c \in Tags \ {b} : St(p, c)' = IF c = e THEN MSI_INVALID ELSE St(p, c)
    <2> WITNESS 0 \in Nat
    <2> QED BY <1>3, <1>5 DEF Has
  <1> QED BY <1>2, <1>3, <1>4, <1>6 DEF Accessed, Has

\* An access that has to make room for its block in cache p.
LEMMA MissAccess ==
    ASSUME SetsOK, 0 \notin Tags, NEW p \in CPUs, NEW b \in Tags, NEW st, NEW left,
           NEW new, Update(b, new), St(p, b) = MSI_INVALID,
           NEW out \in Ways, Fills(theSet(p, b), new[p], b, st, out),
           \A q \in CPUs \ {p} : Becomes(theSet(q, b), new[q], b, left[q])
    PROVE  Accessed(p, b, st, left)
  <1>1. \A q \in CPUs : SetOK(new[q])
    BY DEF Becomes, Fills
  <1>2. /\ SetsOK'
        /\ \A c \in Tags :
              theSet(p, c)' = IF calcSet4Tag(c) = calcSet4Tag(b) THEN new[p]
                              ELSE theSet(p, c)
    BY <1>1, UpdatedSets
  <1>3. \A q \in CPUs \ {p} : Has(q, b, left[q])
    BY <1>1, OtherStates
  <1>4. theSet(p, b)' = new[p] /\ St(p, b)' = st /\ new[p][1].tag = b
    BY <1>2 DEF Fills, St
  <1> DEFINE t == theSet(p, b)[out].tag
             e == IF calcSet4Tag(t) = calcSet4Tag(b) THEN t ELSE 0
  <1>5. SetOK(theSet(p, b))
    BY TheSetOK
  <1>6. t \in Nat
    BY <1>5 DEF SetOK, Line
  <1>7. e # 0 => InvalidWays(theSet(p, b)) = {} /\ calcSet4Tag(e) = calcSet4Tag(b)
    BY DEF Fills
  <1>8. ASSUME NEW c \in Tags \ {b}
        PROVE  St(p, c)' = IF c = e THEN MSI_INVALID ELSE St(p, c)
    <2>0. c # 0 /\ c \in NonZero
      BY TagFacts
    <2>1. CASE calcSet4Tag(c) # calcSet4Tag(b)
      <3>1. c # e
        BY <2>0, <2>1
      <3>2. St(p, c)' = St(p, c)
        BY <1>2, <2>1 DEF St
      <3> QED BY <3>1, <3>2
    <2>2. CASE calcSet4Tag(c) = calcSet4Tag(b)
      <3>1. theSet(p, c) = theSet(p, b) /\ theSet(p, c)' = new[p]
        BY <1>2, <2>2 DEF theSet
      <3>2. StateOf(new[p], c) = IF c = t THEN MSI_INVALID ELSE StateOf(theSet(p, b), c)
        BY <2>0 DEF Fills
      <3>3. c = t <=> c = e
        BY <2>0, <2>2
      <3> QED BY <3>1, <3>2, <3>3 DEF St
    <2> QED BY <2>1, <2>2
  <1>9. \E x \in Nat :
          /\ St(p, b) # MSI_INVALID => x = 0
          /\ x # 0 => InvalidWays(theSet(p, b)) = {} /\ calcSet4Tag(x) = calcSet4Tag(b)
          /\ \A c \in Tags \ {b} : St(p, c)' = IF c = x THEN MSI_INVALID ELSE St(p, c)
    <2>1. e \in Nat
      BY <1>6
    <2> HIDE DEF e
    <2> WITNESS e \in Nat
    <2> QED BY <1>7, <1>8
  <1> QED BY <1>2, <1>3, <1>4, <1>9 DEF Accessed, Has

-------------------------------------------------------------------------------
\* What each case of readLine and writeLine does.

\* The states in which the other caches are left.
LeftAlone(tag) == [q \in CPUs |-> St(q, tag)]

LeftByRead(tag) ==
    [q \in CPUs |-> IF St(q, tag) = MSI_MODIFIED THEN MSI_SHARED ELSE St(q, tag)]

LeftByWrite == [q \in CPUs |-> MSI_INVALID]

\* A look up in cache p alone, as an update of all of them.
LEMMA LookUp ==
    ASSUME SetsOK, 0 \notin Tags, NEW p \in CPUs, NEW b \in Tags,
           St(p, b) # MSI_INVALID,
           content' = [content EXCEPT ![p][calcSet4Tag(b)] = findLine(@, b)]
    PROVE  /\ Accessed(p, b, St(p, b), LeftAlone(b))
           /\ theSet(p, b)[1].tag = b => content' = content
  <1> DEFINE i == calcSet4Tag(b)
             new == [q \in CPUs |-> IF q = p THEN findLine(theSet(p, b), b) ELSE theSet(q, b)]
  <1>1. i \in SetIds /\ b \in NonZero
    BY TagFacts
  <1>2. content \in [CPUs -> [SetIds -> [Ways -> Line]]]
    BY DEF SetsOK
  <1>3. \A q \in CPUs : SetOK(theSet(q, b))
    BY TheSetOK
  <1>4. Becomes(theSet(p, b), new[p], b, St(p, b)) /\ new[p][1].tag = b
    BY <1>1, <1>3, FoundState, FindKeeps DEF St
  <1>5. \A q \in CPUs \ {p} : Becomes(theSet(q, b), new[q], b, LeftAlone(b)[q])
    BY <1>3 DEF Becomes, LeftAlone, St
  <1>6. content' = [q \in CPUs |-> [content[q] EXCEPT ![i] = new[q]]]
    BY <1>1, <1>2 DEF theSet
  <1>7. Accessed(p, b, St(p, b), LeftAlone(b))
    <2>1. Update(b, new)
      BY <1>6 DEF Update
    <2> HIDE DEF new
    <2> QED BY <1>4, <1>5, <2>1, HitAccess
  <1>8. ASSUME theSet(p, b)[1].tag = b PROVE content' = content
    <2>1. findLine(content[p][i], b) = content[p][i]
      BY <1>1, <1>3, <1>8, FindKeeps DEF theSet
    <2> QED BY <1>1, <1>2, <2>1
  <1> QED BY <1>7, <1>8

\* What the snoops of a read leave in another cache: if one has the block
\* modified, it is the only one that has it, hence the first that is found.
LEMMA ReadSnoop ==
    ASSUME SetsOK, Exclusive, 0 \notin Tags, NEW p \in CPUs, NEW b \in Tags,
           NEW q \in CPUs \ {p}
    PROVE  Becomes(theSet(q, b), readRemoteAction(p, q, b), b, LeftByRead(b)[q])
  <1> DEFINE found == findLine(theSet(q, b), b)
             first == Least(Providers(p, b))
  <1>1. SetOK(theSet(q, b)) /\ b \in NonZero
    BY TheSetOK, TagFacts
  <1>2. Providers(p, b) = {r \in CPUs \ {p} : St(r, b) # MSI_INVALID}
    BY DEF Providers, St
  <1>3. Providers(p, b) # {} => first \in Providers(p, b) /\ \A r \in Providers(p, b) : first <= r
    <2>1. Providers(p, b) \in SUBSET Nat
      BY CachesAssumption DEF Providers, CPUs
    <2> QED BY <2>1, LeastExists
  <1>4. Becomes(theSet(q, b), found, b, St(q, b))
    BY <1>1, FoundState DEF St
  <1>5. q \in Nat
    BY CachesAssumption DEF CPUs
  <1>6. /\ LeftByRead(b)[q] = IF St(q, b) = MSI_MODIFIED THEN MSI_SHARED ELSE St(q, b)
        /\ MSI_MODIFIED # MSI_INVALID /\ MSI_SHARED # MSI_INVALID
    BY DEF LeftByRead, MSI_MODIFIED, MSI_SHARED, MSI_INVALID
  <1> HIDE DEF found, first
  <1>7. CASE Providers(p, b) = {}
    <2>1. readRemoteAction(p, q, b) = found
      BY <1>7 DEF readRemoteAction, found
    <2>2. St(q, b) = MSI_INVALID
      BY <1>2, <1>7
    <2> QED BY <1>4, <1>6, <2>1, <2>2
  <1>8. CASE Providers(p, b) # {} /\ q = first
    <2>1. readRemoteAction(p, q, b) = changeStateTo(found, MSI_SHARED)
      <3>1. ~ (q < first)
        BY <1>5, <1>8
      <3> QED BY <1>8, <3>1 DEF readRemoteAction, found, first
    <2>2. St(q, b) # MSI_INVALID
      BY <1>2, <1>3, <1>8
    <2>3. Becomes(theSet(q, b), changeStateTo(found, MSI_SHARED), b, MSI_SHARED)
      BY <1>1, <2>2, ChangedState DEF St, found
    <2>4. St(q, b) \in MSIState_t
      BY TheSetOK
    <2>5. LeftByRead(b)[q] = MSI_SHARED
      BY <1>6, <2>2, <2>4 DEF MSIState_t
    <2> QED BY <2>1, <2>3, <2>5
  <1>9. CASE Providers(p, b) # {} /\ q # first /\ q < first
    <2>1. readRemoteAction(p, q, b) = found
      BY <1>9 DEF readRemoteAction, found, first
    <2>2. first \in Nat
      BY <1>3, <1>9, CachesAssumption DEF CPUs, Providers
    <2>3. q \notin Providers(p, b)
      BY <1>3, <1>5, <1>9, <2>2
    <2>4. St(q, b) = MSI_INVALID
      BY <1>2, <2>3
    <2> QED BY <1>4, <1>6, <2>1, <2>4
  <1>10. CASE Providers(p, b) # {} /\ q # first /\ ~ (q < first)
    <2>1. readRemoteAction(p, q, b) = theSet(q, b)
      BY <1>10 DEF readRemoteAction, first
    <2>2. first \in CPUs /\ St(first, b) # MSI_INVALID
      BY <1>2, <1>3, <1>10
    <2>3. St(q, b) # MSI_MODIFIED
      BY <1>10, <2>2 DEF Exclusive
    <2>4. Becomes(theSet(q, b), theSet(q, b), b, St(q, b))
      BY <1>1 DEF Becomes, St
    <2> QED BY <1>6, <2>1, <2>3, <2>4
  <1> QED BY <1>7, <1>8, <1>9, <1>10

\* The snoops of a write leave no copy.
LEMMA WriteSnoop ==
    ASSUME SetsOK, 0 \notin Tags, NEW p \in CPUs, NEW b \in Tags, NEW q \in CPUs \ {p}
    PROVE  Becomes(theSet(q, b), writeRemoteAction(p, q, b), b, LeftByWrite[q])
  <1>1. SetOK(theSet(q, b)) /\ b \in NonZero /\ LeftByWrite[q] = MSI_INVALID
    BY TheSetOK, TagFacts DEF LeftByWrite
  <1>2. CASE StateOf(theSet(q, b), b) # MSI_INVALID
    BY <1>1, <1>2, InvalidatedState DEF writeRemoteAction
  <1>3. CASE StateOf(theSet(q, b), b) = MSI_INVALID
    <2>1. writeRemoteAction(p, q, b) = findLine(theSet(q, b), b)
      BY <1>3 DEF writeRemoteAction
    <2> QED BY <1>1, <1>3, <2>1, FoundState
  <1> QED BY <1>2, <1>3

LEMMA ReadMissEffect ==
    ASSUME SetsOK, Exclusive, 0 \notin Tags, NEW p \in CPUs, NEW b \in Tags, ReadMiss(p, b)
    PROVE  Accessed(p, b, MSI_SHARED, LeftByRead(b))
  <1> DEFINE new == [q \in CPUs |->
                       IF q = p THEN fillLine(findLine(theSet(p, b), b), b, MSI_SHARED)
                       ELSE readRemoteAction(p, q, b)]
  <1>1. Update(b, new) /\ St(p, b) = MSI_INVALID
    BY DEF ReadMiss, St
  <1>2. SetOK(theSet(p, b)) /\ b \in NonZero
    BY TheSetOK, TagFacts
  <1>3. PICK out \in Ways : Fills(theSet(p, b), new[p], b, MSI_SHARED, out)
    BY <1>1, <1>2, FilledState DEF St
  <1>4. \A q \in CPUs \ {p} : Becomes(theSet(q, b), new[q], b, LeftByRead(b)[q])
    BY ReadSnoop
  <1> HIDE DEF new
  <1> QED BY <1>1, <1>3, <1>4, MissAccess

LEMMA WriteMissEffect ==
    ASSUME SetsOK, 0 \notin Tags, NEW p \in CPUs, NEW b \in Tags, WriteMiss(p, b)
    PROVE  Accessed(p, b, MSI_MODIFIED, LeftByWrite)
  <1> DEFINE new == [q \in CPUs |->
                       IF q = p THEN fillLine(findLine(theSet(p, b), b), b, MSI_MODIFIED)
                       ELSE writeRemoteAction(p, q, b)]
  <1>1. Update(b, new) /\ St(p, b) = MSI_INVALID
    BY DEF WriteMiss, St
  <1>2. SetOK(theSet(p, b)) /\ b \in NonZero
    BY TheSetOK, TagFacts
  <1>3. PICK out \in Ways : Fills(theSet(p, b), new[p], b, MSI_MODIFIED, out)
    BY <1>1, <1>2, FilledState DEF St
  <1>4. \A q \in CPUs \ {p} : Becomes(theSet(q, b), new[q], b, LeftByWrite[q])
    BY WriteSnoop
  <1> HIDE DEF new
  <1> QED BY <1>1, <1>3, <1>4, MissAccess

LEMMA WriteOnSharedEffect ==
    ASSUME SetsOK, 0 \notin Tags, NEW p \in CPUs, NEW b \in Tags, WriteOnShared(p, b)
    PROVE  Accessed(p, b, MSI_MODIFIED, LeftByWrite)
  <1> DEFINE new == [q \in CPUs |->
                       IF q = p
                       THEN changeStateTo(findLine(theSet(p, b), b), MSI_MODIFIED)
                       ELSE writeRemoteAction(p, q, b)]
  <1>1. Update(b, new) /\ StateOf(theSet(p, b), b) # MSI_INVALID
    BY DEF WriteOnShared, MSI_SHARED, MSI_INVALID
  <1>2. SetOK(theSet(p, b)) /\ b \in NonZero
    BY TheSetOK, TagFacts
  <1>3. Becomes(theSet(p, b), new[p], b, MSI_MODIFIED) /\ new[p][1].tag = b
    BY <1>1, <1>2, ChangedState
  <1>4. \A q \in CPUs \ {p} : Becomes(theSet(q, b), new[q], b, LeftByWrite[q])
    BY WriteSnoop
  <1> HIDE DEF new
  <1> QED BY <1>1, <1>3, <1>4, HitAccess

\* A write that hits finds no other copy to invalidate.
LEMMA WriteHitEffect ==
    ASSUME SetsOK, Exclusive, 0 \notin Tags, NEW p \in CPUs, NEW b \in Tags, WriteHit(p, b)
    PROVE  Accessed(p, b, MSI_MODIFIED, LeftByWrite)
  <1>1. St(p, b) = MSI_MODIFIED /\ St(p, b) # MSI_INVALID
    BY DEF WriteHit, St, MSI_MODIFIED, MSI_INVALID
  <1>2. Accessed(p, b, St(p, b), LeftAlone(b))
    BY <1>1, LookUp DEF WriteHit
  <1>3. \A q \in CPUs \ {p} : LeftAlone(b)[q] = LeftByWrite[q]
    BY <1>1 DEF Exclusive, LeftAlone, LeftByWrite
  <1> QED BY <1>1, <1>2, <1>3 DEF Accessed

LEMMA ReadHitEffect ==
    ASSUME SetsOK, 0 \notin Tags, NEW p \in CPUs, NEW b \in Tags, ReadHit(p, b)
    PROVE  Accessed(p, b, St(p, b), LeftAlone(b)) /\ St(p, b) # MSI_INVALID
  BY LookUp DEF ReadHit, St

-------------------------------------------------------------------------------
\* The invariant.

LEMMA CacheInit ==
    ASSUME Init
    PROVE  CacheInv
  <1> DEFINE empty == [tag |-> 0, state |-> MSI_INVALID]
  <1>1. empty \in Line /\ empty.tag = 0 /\ empty.state = MSI_INVALID
    BY DEF Line, MSIState_t
  <1> HIDE DEF empty
  <1>2. EmptySet = [w \in Ways |-> empty]
    BY DEF EmptySet, empty
  <1>3. SetOK(EmptySet)
    BY <1>1, <1>2 DEF SetOK
  <1>4. \A p \in CPUs, i \in SetIds : content[p][i] = EmptySet
    BY DEF Init
  <1>5. SetsOK
    <2>1. EmptySet \in [Ways -> Line]
      BY <1>3 DEF SetOK
    <2>2. content \in [CPUs -> [SetIds -> [Ways -> Line]]]
      BY <2>1 DEF Init
    <2> QED BY <1>3, <1>4, <2>2 DEF SetsOK
  <1>6. Exclusive
    <2> SUFFICES ASSUME NEW p \in CPUs, NEW tag \in Tags
                 PROVE  St(p, tag) # MSI_MODIFIED
      BY DEF Exclusive
    <2>1. theSet(p, tag) = EmptySet
      BY <1>4, CachesAssumption, SetOfTag DEF theSet
    <2>2. \A w \in Ways : EmptySet[w].state = MSI_INVALID
      BY <1>1, <1>2
    <2>3. CASE Hits(EmptySet, tag) = {}
      BY <2>1, <2>3 DEF St, StateOf, MSI_MODIFIED, MSI_INVALID
    <2>4. CASE Hits(EmptySet, tag) # {}
      <3>1. Hits(EmptySet, tag) \in SUBSET Ways /\ Hits(EmptySet, tag) \in SUBSET Nat
        BY WaysFacts DEF Hits
      <3>2. Least(Hits(EmptySet, tag)) \in Ways
        BY <2>4, <3>1, LeastExists
      <3> QED BY <2>1, <2>2, <2>4, <3>2 DEF St, StateOf, MSI_MODIFIED, MSI_INVALID
    <2> QED BY <2>3, <2>4
  <1>7. counted \in [cpu : CPUs, what : SUBSET Counters]
    BY CachesAssumption DEF Init, CPUs
  <1> QED BY <1>5, <1>6, <1>7 DEF CacheInv

\* The accesses, each with its effect.
ReadHitDone(p, b) ==
    ReadHit(p, b) /\ St(p, b) # MSI_INVALID /\ Accessed(p, b, St(p, b), LeftAlone(b))

ReadMissDone(p, b) ==
    ReadMiss(p, b) /\ St(p, b) = MSI_INVALID /\ Accessed(p, b, MSI_SHARED, LeftByRead(b))

WriteDone(p, b) ==
    /\ WriteMiss(p, b) \/ WriteOnShared(p, b) \/ WriteHit(p, b)
    /\ Accessed(p, b, MSI_MODIFIED, LeftByWrite)

LEMMA EffectsOf ==
    ASSUME CacheInv, 0 \notin Tags, NEW tid \in Tids, NEW b \in Tags,
           readLine(tid, b) \/ writeLine(tid, b)
    PROVE  \/ ReadHitDone(tidToCPUId(tid), b)
           \/ ReadMissDone(tidToCPUId(tid), b)
           \/ WriteDone(tidToCPUId(tid), b)
  <1> DEFINE p == tidToCPUId(tid)
  <1>2. p \in CPUs /\ SetsOK /\ Exclusive
    BY CPUOfTid DEF CacheInv
  <1>3. ReadHit(p, b) \/ ReadMiss(p, b) \/ WriteMiss(p, b) \/ WriteOnShared(p, b)
        \/ WriteHit(p, b)
    BY DEF readLine, writeLine
  <1> HIDE DEF p
  <1>4. CASE ReadHit(p, b)
    BY <1>2, <1>4, ReadHitEffect DEF ReadHitDone, p
  <1>5. CASE ReadMiss(p, b)
    BY <1>2, <1>5, ReadMissEffect DEF ReadMissDone, ReadMiss, St, p
  <1>6. CASE WriteMiss(p, b)
    BY <1>2, <1>6, WriteMissEffect DEF WriteDone, p
  <1>7. CASE WriteOnShared(p, b)
    BY <1>2, <1>7, WriteOnSharedEffect DEF WriteDone, p
  <1>8. CASE WriteHit(p, b)
    BY <1>2, <1>8, WriteHitEffect DEF WriteDone, p
  <1> QED BY <1>3, <1>4, <1>5, <1>6, <1>7, <1>8

LEMMA Effects ==
    ASSUME CacheInv, 0 \notin Tags, Next
    PROVE  \E p \in CPUs, b \in Tags :
               ReadHitDone(p, b) \/ ReadMissDone(p, b) \/ WriteDone(p, b)
  <1>1. PICK tid \in Tids, b \in Tags : readLine(tid, b) \/ writeLine(tid, b)
    BY DEF Next
  <1>2. tidToCPUId(tid) \in CPUs
    BY CPUOfTid
  <1> QED BY <1>1, <1>2, EffectsOf

\* No access leaves a second copy of a modified block.
LEMMA StaysExclusive ==
    ASSUME Exclusive, 0 \notin Tags, NEW p \in CPUs, NEW b \in Tags, NEW st, NEW left,
           Accessed(p, b, st, left),
           \A q \in CPUs \ {p} : left[q] # MSI_MODIFIED,
           st = MSI_MODIFIED => \A q \in CPUs \ {p} : left[q] = MSI_INVALID
    PROVE  Exclusive'
  <1> SUFFICES ASSUME NEW q \in CPUs, NEW r \in CPUs, NEW c \in Tags,
                      St(q, c)' = MSI_MODIFIED, q # r
               PROVE  St(r, c)' = MSI_INVALID
    BY DEF Exclusive
  <1>1. CASE c = b
    BY <1>1 DEF Accessed
  <1>2. CASE c # b
    <2>1. \A x \in CPUs : St(x, c)' = St(x, c) \/ St(x, c)' = MSI_INVALID
      BY <1>2 DEF Accessed
    <2>2. St(q, c) = MSI_MODIFIED
      BY <2>1 DEF MSI_MODIFIED, MSI_INVALID
    <2> QED BY <2>1, <2>2 DEF Exclusive
  <1> QED BY <1>1, <1>2

LEMMA ServiceType ==
    ASSUME SetsOK, 0 \notin Tags, NEW p \in CPUs, NEW b \in Tags
    PROVE  /\ RemoteReadService(p, b) \in MSIState_t
           /\ Providers(p, b) # {} =>
                 /\ Least(Providers(p, b)) \in Providers(p, b)
                 /\ RemoteReadService(p, b) = St(Least(Providers(p, b)), b)
  <1>1. Providers(p, b) \in SUBSET Nat /\ Providers(p, b) \subseteq CPUs
    BY CachesAssumption DEF Providers, CPUs
  <1>2. CASE Providers(p, b) = {}
    BY <1>2 DEF RemoteReadService, MSIState_t
  <1>3. CASE Providers(p, b) # {}
    <2>1. Least(Providers(p, b)) \in Providers(p, b)
      BY <1>1, <1>3, LeastExists
    <2> QED BY <1>1, <1>3, <2>1, TheSetOK DEF RemoteReadService, St
  <1> QED BY <1>2, <1>3

LEMMA CacheNext ==
    ASSUME CacheInv, 0 \notin Tags, [Next]_vars
    PROVE  CacheInv'
  <1>1. CASE UNCHANGED vars
    BY <1>1 DEF vars, CacheInv, SetsOK, Exclusive, St, theSet
  <1>2. CASE Next
    <2>1. PICK p \in CPUs, b \in Tags :
             ReadHitDone(p, b) \/ ReadMissDone(p, b) \/ WriteDone(p, b)
      BY <1>2, Effects
    <2>2. SetsOK /\ Exclusive
      BY DEF CacheInv
    <2>3. CASE ReadHitDone(p, b)
      <3>1. \A q \in CPUs \ {p} : LeftAlone(b)[q] # MSI_MODIFIED
        BY <2>2, <2>3 DEF ReadHitDone, Exclusive, LeftAlone
      <3>2. St(p, b) = MSI_MODIFIED => \A q \in CPUs \ {p} : LeftAlone(b)[q] = MSI_INVALID
        BY <2>2 DEF Exclusive, LeftAlone
      <3>3. Exclusive' /\ SetsOK'
        BY <2>2, <2>3, <3>1, <3>2, StaysExclusive DEF ReadHitDone, Accessed
      <3>4. counted' \in [cpu : CPUs, what : SUBSET Counters]
        BY <2>3 DEF ReadHitDone, ReadHit, Counters
      <3> QED BY <3>3, <3>4 DEF CacheInv
    <2>4. CASE ReadMissDone(p, b)
      <3>1. \A q \in CPUs \ {p} : LeftByRead(b)[q] # MSI_MODIFIED
        BY DEF LeftByRead, MSI_MODIFIED, MSI_SHARED
      <3>2. MSI_SHARED # MSI_MODIFIED
        BY DEF MSI_MODIFIED, MSI_SHARED
      <3>3. Exclusive' /\ SetsOK'
        BY <2>2, <2>4, <3>1, <3>2, StaysExclusive DEF ReadMissDone, Accessed
      <3>4. counted' \in [cpu : CPUs, what : SUBSET Counters]
        <4>1. RemoteReadService(p, b) \in MSIState_t
          BY <2>2, ServiceType
        <4>2. \A onInvalid \in BOOLEAN : \A rrs \in MSIState_t :
                 ReadMissCounters(onInvalid, rrs) \subseteq Counters
          BY DEF ReadMissCounters, Counters, MSIState_t, MSI_MODIFIED, MSI_SHARED, MSI_INVALID
        <4> DEFINE what == ReadMissCounters(Hits(theSet(p, b), b) # {}, RemoteReadService(p, b))
        <4>3. what \subseteq Counters
          BY <4>1, <4>2
        <4>4. counted' = [cpu |-> p, what |-> what]
          BY <2>4 DEF ReadMissDone, ReadMiss
        <4> HIDE DEF what
        <4> QED BY <4>3, <4>4
      <3> QED BY <3>3, <3>4 DEF CacheInv
    <2>5. CASE WriteDone(p, b)
      <3>1. \A q \in CPUs \ {p} : LeftByWrite[q] = MSI_INVALID /\ MSI_INVALID # MSI_MODIFIED
        BY DEF LeftByWrite, MSI_MODIFIED, MSI_INVALID
      <3>2. Exclusive' /\ SetsOK'
        BY <2>2, <2>5, <3>1, StaysExclusive DEF WriteDone, Accessed
      <3>3. counted' \in [cpu : CPUs, what : SUBSET Counters]
        BY <2>5 DEF WriteDone, WriteMiss, WriteOnShared, WriteHit, Counters
      <3> QED BY <3>2, <3>3 DEF CacheInv
    <2> QED BY <2>1, <2>3, <2>4, <2>5
  <1> QED BY <1>1, <1>2

LEMMA CacheInvariant ==
    ASSUME 0 \notin Tags
    PROVE  Spec => []CacheInv
  <1>1. Init => CacheInv
    BY CacheInit
  <1>2. CacheInv /\ [Next]_vars => CacheInv'
    BY CacheNext
  <1> QED BY <1>1, <1>2, PTL DEF Spec

-------------------------------------------------------------------------------
\* What follows for the lines.

LEMMA CopiesAreStates ==
    ASSUME SetsOK, 0 \notin Tags, NEW p \in CPUs, NEW tag \in Tags
    PROVE  /\ Copies(p, tag) # {} <=> St(p, tag) # MSI_INVALID
           /\ \A v \in Copies(p, tag) : theSet(p, tag)[v].state = St(p, tag)
           /\ \A v, w \in Copies(p, tag) : v = w
  <1>1. SetOK(theSet(p, tag)) /\ tag \in NonZero
    BY TheSetOK, TagFacts
  <1>2. \A v \in Copies(p, tag) : v \in Ways /\ theSet(p, tag)[v].tag = tag
    BY DEF Copies
  <1>3. \A v \in Copies(p, tag) : theSet(p, tag)[v].state = St(p, tag) /\ St(p, tag) # MSI_INVALID
    BY <1>1, <1>2, HitIsUnique DEF St
  <1>4. \A v, w \in Copies(p, tag) : v = w
    BY <1>1, <1>2 DEF SetOK, NonZero
  <1>5. ASSUME St(p, tag) # MSI_INVALID PROVE Copies(p, tag) # {}
    <2>1. PICK w \in Ways : theSet(p, tag)[w].tag = tag
      BY <1>1, <1>5, InALine DEF St
    <2>2. theSet(p, tag)[w].state # MSI_INVALID
      BY <1>1, <2>1 DEF SetOK, NonZero
    <2> QED BY <2>1, <2>2 DEF Copies, isValid
  <1> QED BY <1>3, <1>4, <1>5

LEMMA CopiesAreStatesNext ==
    ASSUME 0 \notin Tags
    PROVE  SetsOK' => \A p \in CPUs, tag \in Tags :
               Copies(p, tag)' # {} <=> St(p, tag)' # MSI_INVALID
  <1> DEFINE P == SetsOK => \A p \in CPUs, tag \in Tags :
                    Copies(p, tag) # {} <=> St(p, tag) # MSI_INVALID
  <1>1. P
    BY CopiesAreStates
  <1>2. P'
    BY <1>1, PTL
  <1> QED BY <1>2

\* The content of the caches and the counters keep their types.
THEOREM CacheTypes ==
    ASSUME 0 \notin Tags
    PROVE  Spec => []TypeOK
  <1>1. CacheInv => TypeOK
    BY DEF CacheInv, SetsOK, TypeOK
  <1> QED BY <1>1, CacheInvariant, PTL

\* A modified block is in no other line of any cache, whatever the number of
\* caches, sets and ways.
THEOREM OneWriter ==
    ASSUME 0 \notin Tags
    PROVE  Spec => []SingleWriter
  <1>1. CacheInv => SingleWriter
    <2> SUFFICES ASSUME CacheInv, NEW p \in CPUs, NEW q \in CPUs, NEW tag \in Tags,
                        NEW v \in Copies(p, tag), NEW w \in Copies(q, tag),
                        theSet(p, tag)[v].state = MSI_MODIFIED
                 PROVE  p = q /\ v = w
      BY DEF SingleWriter
    <2>1. SetsOK /\ Exclusive
      BY DEF CacheInv
    <2>2. St(p, tag) = MSI_MODIFIED /\ St(q, tag) # MSI_INVALID
      BY <2>1, CopiesAreStates
    <2>3. p = q
      BY <2>1, <2>2 DEF Exclusive
    <2> QED BY <2>1, <2>3, CopiesAreStates
  <1> QED BY <1>1, CacheInvariant, PTL

\* findLine, findLine2Replace and the snoops keep a block in one line of a cache.
THEOREM OneLine ==
    ASSUME 0 \notin Tags
    PROVE  Spec => []OneLinePerBlock
  <1>1. CacheInv => OneLinePerBlock
    BY CopiesAreStates DEF CacheInv, OneLinePerBlock
  <1> QED BY <1>1, CacheInvariant, PTL

\* The replacement throws no block out while the set has an empty line.
THEOREM EvictsWhenFull ==
    ASSUME 0 \notin Tags
    PROVE  Spec => EvictsOnlyWhenFull
  <1> DEFINE A == \A p \in CPUs, tag \in Tags :
                     /\ Copies(p, tag) # {}
                     /\ counted'.cpu = p
                     /\ Copies(p, tag)' = {}
                     => \A w \in Ways : isValid(theSet(p, tag)[w])
  <1>1. CacheInv /\ CacheInv' /\ [Next]_vars => [A]_vars
    <2> SUFFICES ASSUME CacheInv, Next, NEW p \in CPUs, NEW tag \in Tags,
                        Copies(p, tag) # {}, counted'.cpu = p, Copies(p, tag)' = {}
                 PROVE  \A w \in Ways : isValid(theSet(p, tag)[w])
      OBVIOUS
    <2>1. SetsOK
      BY DEF CacheInv
    <2>2. PICK r \in CPUs, b \in Tags :
             ReadHitDone(r, b) \/ ReadMissDone(r, b) \/ WriteDone(r, b)
      BY Effects
    <2>3. r = p
      BY <2>2 DEF ReadHitDone, ReadMissDone, WriteDone, ReadHit, ReadMiss, WriteMiss,
                  WriteOnShared, WriteHit
    <2>4. PICK st, left : Accessed(p, b, st, left) /\ st # MSI_INVALID
      BY <2>2, <2>3 DEF ReadHitDone, ReadMissDone, WriteDone, MSI_SHARED, MSI_MODIFIED, MSI_INVALID
    <2>5. SetsOK'
      BY <2>4 DEF Accessed
    <2>6. St(p, tag) # MSI_INVALID /\ St(p, tag)' = MSI_INVALID
      BY <2>1, <2>5, CopiesAreStates, CopiesAreStatesNext
    <2>7. tag # b
      BY <2>4, <2>6 DEF Accessed
    <2>8. PICK e \in Nat :
             /\ e # 0 => InvalidWays(theSet(p, b)) = {} /\ calcSet4Tag(e) = calcSet4Tag(b)
             /\ \A c \in Tags \ {b} : St(p, c)' = IF c = e THEN MSI_INVALID ELSE St(p, c)
      BY <2>4 DEF Accessed
    <2>9. tag = e /\ e # 0
      BY <2>6, <2>7, <2>8
    <2>10. theSet(p, tag) = theSet(p, b)
      BY <2>8, <2>9 DEF theSet
    <2> QED BY <2>8, <2>9, <2>10 DEF InvalidWays
  <1> QED BY <1>1, CacheInvariant, PTL DEF Spec, EvictsOnlyWhenFull

\* A read miss is counted as serviced by a modified line exactly when some cache
\* had the block modified: the snoop that comes first finds it, because no other
\* cache can have a copy.
THEOREM OwnerServices ==
    ASSUME 0 \notin Tags
    PROVE  Spec => ServicedByTheOwner
  <1> DEFINE A == \A p \in CPUs, tag \in Tags :
                     MissedRead(p, tag) =>
                        ("numReadMissesServicedByModified" \in counted'.what
                         <=> ModifiedSomewhere(tag))
  <1>1. CacheInv /\ CacheInv' /\ [Next]_vars => [A]_vars
    <2> SUFFICES ASSUME CacheInv, Next, NEW p \in CPUs, NEW tag \in Tags,
                        MissedRead(p, tag)
                 PROVE  "numReadMissesServicedByModified" \in counted'.what
                            <=> ModifiedSomewhere(tag)
      OBVIOUS
    <2>1. SetsOK /\ Exclusive
      BY DEF CacheInv
    <2>2. PICK r \in CPUs, b \in Tags :
             ReadHitDone(r, b) \/ ReadMissDone(r, b) \/ WriteDone(r, b)
      BY Effects
    <2>3. ReadMissDone(r, b)
      BY <2>2 DEF MissedRead, ReadHitDone, WriteDone, ReadHit, WriteMiss,
                  WriteOnShared, WriteHit
    <2> DEFINE rrs == RemoteReadService(p, tag)
               onInvalid == Hits(theSet(p, tag), tag) # {}
    <2>4. r = p
      BY <2>3 DEF ReadMissDone, ReadMiss, MissedRead
    <2>5. SetsOK' /\ Accessed(p, b, MSI_SHARED, LeftByRead(b))
      BY <2>3, <2>4 DEF ReadMissDone, Accessed
    <2>6. St(p, tag) = MSI_INVALID /\ St(p, tag)' # MSI_INVALID
      BY <2>1, <2>5, CopiesAreStates, CopiesAreStatesNext DEF MissedRead
    <2>7. tag = b
      BY <2>5, <2>6 DEF Accessed
    <2>8. counted'.what = ReadMissCounters(onInvalid, rrs)
      BY <2>3, <2>4, <2>7 DEF ReadMissDone, ReadMiss
    <2>9. rrs \in MSIState_t
      BY <2>1, ServiceType
    <2>10. "numReadMissesServicedByModified" \in counted'.what <=> rrs = MSI_MODIFIED
      <3> HIDE DEF rrs, onInvalid
      <3> QED BY <2>8, <2>9 DEF ReadMissCounters, MSIState_t, MSI_MODIFIED, MSI_SHARED, MSI_INVALID
    <2>11. ModifiedSomewhere(tag) <=> \E q \in CPUs : St(q, tag) = MSI_MODIFIED
      <3>1. ASSUME ModifiedSomewhere(tag) PROVE \E q \in CPUs : St(q, tag) = MSI_MODIFIED
        BY <2>1, <3>1, CopiesAreStates DEF ModifiedSomewhere
      <3>2. ASSUME NEW q \in CPUs, St(q, tag) = MSI_MODIFIED PROVE ModifiedSomewhere(tag)
        <4>1. PICK v : v \in Copies(q, tag)
          BY <2>1, <3>2, CopiesAreStates DEF MSI_MODIFIED, MSI_INVALID
        <4> QED BY <2>1, <3>2, <4>1, CopiesAreStates DEF ModifiedSomewhere
      <3> QED BY <3>1, <3>2
    <2>12. Providers(p, tag) = {q \in CPUs \ {p} : St(q, tag) # MSI_INVALID}
      BY DEF Providers, St
    <2>13. rrs = MSI_MODIFIED <=> \E q \in CPUs : St(q, tag) = MSI_MODIFIED
      <3>1. ASSUME rrs = MSI_MODIFIED PROVE \E q \in CPUs : St(q, tag) = MSI_MODIFIED
        <4>1. Providers(p, tag) # {}
          BY <3>1 DEF RemoteReadService, MSI_MODIFIED, MSI_INVALID
        <4> QED BY <2>1, <2>12, <3>1, <4>1, ServiceType
      <3>2. ASSUME NEW q \in CPUs, St(q, tag) = MSI_MODIFIED PROVE rrs = MSI_MODIFIED
        <4>1. q # p /\ q \in Providers(p, tag)
          BY <2>6, <2>12, <3>2 DEF MSI_MODIFIED, MSI_INVALID
        <4>2. Least(Providers(p, tag)) \in Providers(p, tag)
              /\ rrs = St(Least(Providers(p, tag)), tag)
          BY <2>1, <4>1, ServiceType
        <4>3. Least(Providers(p, tag)) = q
          BY <2>1, <2>12, <3>2, <4>2 DEF Exclusive
        <4> QED BY <3>2, <4>2, <4>3
      <3> QED BY <3>1, <3>2
    <2> QED BY <2>10, <2>11, <2>13
  <1> QED BY <1>1, CacheInvariant, PTL DEF Spec, ServicedByTheOwner

-------------------------------------------------------------------------------
\* The refinement.

\* A miss of block b in cache p is the step of the abstract caches that drops
\* the block e.
LEMMA TakeStep ==
    ASSUME 0 \notin Tags, NEW p \in CPUs, NEW b \in Tags, NEW st, NEW left,
           Accessed(p, b, st, left)
    PROVE  \E out \in Coherent!Dropped(p, b) :
              copyOf' = [q \in CPUs |-> [c \in Tags |->
                  IF q = p THEN IF c = b THEN st
                                ELSE IF c \in out THEN "I" ELSE copyOf[p][c]
                  ELSE IF c = b THEN left[q] ELSE copyOf[q][c]]]
  <1>1. PICK e \in Nat :
           /\ St(p, b) # MSI_INVALID => e = 0
           /\ \A c \in Tags \ {b} : St(p, c)' = IF c = e THEN MSI_INVALID ELSE St(p, c)
    BY DEF Accessed
  <1> DEFINE out == IF e \in Tags \ {b} THEN {e} ELSE {}
  <1>2. copyOf[p][b] = St(p, b) /\ MSI_INVALID = "I"
    BY DEF copyOf, St, MSI_INVALID
  <1>3. out \in Coherent!Dropped(p, b)
    BY <1>1, <1>2 DEF Coherent!Dropped
  <1>4. /\ copyOf = [q \in CPUs |-> [c \in Tags |-> St(q, c)]]
        /\ copyOf' = [q \in CPUs |-> [c \in Tags |-> St(q, c)']]
    BY DEF copyOf, St
  <1>5. \A q \in CPUs : \A c \in Tags :
           St(q, c)' = IF q = p THEN IF c = b THEN st
                                     ELSE IF c \in out THEN "I" ELSE copyOf[p][c]
                       ELSE IF c = b THEN left[q] ELSE copyOf[q][c]
    <2> SUFFICES ASSUME NEW q \in CPUs, NEW c \in Tags
                 PROVE  St(q, c)' = IF q = p THEN IF c = b THEN st
                                                  ELSE IF c \in out THEN "I" ELSE copyOf[p][c]
                                    ELSE IF c = b THEN left[q] ELSE copyOf[q][c]
      OBVIOUS
    <2>1. copyOf[q][c] = St(q, c)
      BY <1>4
    <2>2. CASE q = p
      BY <1>1, <1>2, <2>1, <2>2 DEF Accessed
    <2>3. CASE q # p
      BY <2>1, <2>3 DEF Accessed
    <2> QED BY <2>2, <2>3
  <1> HIDE DEF out
  <1>6. copyOf' = [q \in CPUs |-> [c \in Tags |->
                  IF q = p THEN IF c = b THEN st
                                ELSE IF c \in out THEN "I" ELSE copyOf[p][c]
                  ELSE IF c = b THEN left[q] ELSE copyOf[q][c]]]
    BY <1>4, <1>5
  <1> QED BY <1>3, <1>6

LEMMA CoherenceStep ==
    ASSUME CacheInv, 0 \notin Tags, [Next]_vars
    PROVE  [Coherent!Next]_copyOf
  <1>1. CASE UNCHANGED vars
    BY <1>1 DEF vars, copyOf, theSet
  <1>2. CASE Next
    <2>1. PICK p \in CPUs, b \in Tags :
             ReadHitDone(p, b) \/ ReadMissDone(p, b) \/ WriteDone(p, b)
      BY <1>2, Effects
    <2>2. \A q \in CPUs : \A c \in Tags : copyOf[q][c] = St(q, c)
      BY DEF copyOf, St
    <2>3. CASE ReadHitDone(p, b)
      <3>1. \A q \in CPUs : \A c \in Tags : St(q, c)' = St(q, c)
        <4> SUFFICES ASSUME NEW q \in CPUs, NEW c \in Tags PROVE St(q, c)' = St(q, c)
          OBVIOUS
        <4>1. Accessed(p, b, St(p, b), LeftAlone(b)) /\ St(p, b) # MSI_INVALID
          BY <2>3 DEF ReadHitDone
        <4>2. CASE q = p /\ c # b
          <5>1. PICK e \in Nat :
                   /\ St(p, b) # MSI_INVALID => e = 0
                   /\ \A d \in Tags \ {b} : St(p, d)' = IF d = e THEN MSI_INVALID ELSE St(p, d)
            BY <4>1 DEF Accessed
          <5>2. e = 0 /\ c # e
            BY <4>1, <5>1
          <5> QED BY <4>2, <5>1, <5>2
        <4>3. CASE q # p \/ c = b
          BY <4>1, <4>3 DEF Accessed, LeftAlone
        <4> QED BY <4>2, <4>3
      <3>2. copyOf' = copyOf
        <4>1. /\ copyOf = [q \in CPUs |-> [c \in Tags |-> St(q, c)]]
              /\ copyOf' = [q \in CPUs |-> [c \in Tags |-> St(q, c)']]
          BY DEF copyOf, St
        <4> QED BY <3>1, <4>1
      <3> QED BY <3>2
    <2>4. CASE ReadMissDone(p, b)
      <3>1. PICK out \in Coherent!Dropped(p, b) :
              copyOf' = [q \in CPUs |-> [c \in Tags |->
                  IF q = p THEN IF c = b THEN MSI_SHARED
                                ELSE IF c \in out THEN "I" ELSE copyOf[p][c]
                  ELSE IF c = b THEN LeftByRead(b)[q] ELSE copyOf[q][c]]]
        BY <2>4, TakeStep DEF ReadMissDone
      <3>2. \A q \in CPUs : LeftByRead(b)[q] = Coherent!Downgraded(copyOf[q][b])
        BY <2>2 DEF LeftByRead, Coherent!Downgraded, MSI_MODIFIED, MSI_SHARED
      <3>3. copyOf[p][b] = "I"
        BY <2>2, <2>4 DEF ReadMissDone, MSI_INVALID
      <3>4. Coherent!Take(p, b, "S", out, Coherent!Downgraded)
        BY <3>1, <3>2 DEF Coherent!Take, MSI_SHARED
      <3> QED BY <3>3, <3>4 DEF Coherent!Next, Coherent!Read
    <2>5. CASE WriteDone(p, b)
      <3>1. PICK out \in Coherent!Dropped(p, b) :
              copyOf' = [q \in CPUs |-> [c \in Tags |->
                  IF q = p THEN IF c = b THEN MSI_MODIFIED
                                ELSE IF c \in out THEN "I" ELSE copyOf[p][c]
                  ELSE IF c = b THEN LeftByWrite[q] ELSE copyOf[q][c]]]
        BY <2>5, TakeStep DEF WriteDone
      <3>2. \A q \in CPUs : LeftByWrite[q] = Coherent!Removed(copyOf[q][b])
        BY DEF LeftByWrite, Coherent!Removed, MSI_INVALID
      <3>3. Coherent!Take(p, b, "M", out, Coherent!Removed)
        BY <3>1, <3>2 DEF Coherent!Take, MSI_MODIFIED
      <3> QED BY <3>3 DEF Coherent!Next, Coherent!Write
    <2> QED BY <2>1, <2>3, <2>4, <2>5
  <1> QED BY <1>1, <1>2

\* Lines, ways and the order in which lines are replaced put aside, the caches
\* are coherent ones.
THEOREM CachesAreCoherent ==
    ASSUME 0 \notin Tags
    PROVE  Spec => ImplementsCoherence
  <1>1. Init => Coherent!Init
    <2> SUFFICES ASSUME Init PROVE Coherent!Init
      OBVIOUS
    <2>1. ASSUME NEW p \in CPUs, NEW tag \in Tags PROVE StateOf(theSet(p, tag), tag) = "I"
      <3>1. theSet(p, tag) = EmptySet /\ tag # 0
        BY TagFacts DEF Init, theSet
      <3>2. \A w \in Ways : EmptySet[w].tag # tag
        BY <3>1 DEF EmptySet
      <3> QED BY <3>1, <3>2, NoHit DEF MSI_INVALID
    <2> QED BY <2>1 DEF Coherent!Init, copyOf
  <1>2. CacheInv /\ [Next]_vars => [Coherent!Next]_copyOf
    BY CoherenceStep
  <1> QED BY <1>1, <1>2, CacheInvariant, PTL DEF Spec, ImplementsCoherence, Coherent!Spec

-------------------------------------------------------------------------------
\* The driver.  The reference is the same protocol on caches of its own.

LEMMA ReferenceSets ==
    ASSUME ref = content
    PROVE  /\ \A p, tag : Reference!theSet(p, tag) = theSet(p, tag)
           /\ \A s, tag : Reference!StateOf(s, tag) = StateOf(s, tag)
           /\ \A s, tag : Reference!findLine(s, tag) = findLine(s, tag)
           /\ \A s, tag : Reference!Hits(s, tag) = Hits(s, tag)
           /\ \A W : Reference!Least(W) = Least(W)
           /\ \A tag : Reference!calcSet4Tag(tag) = calcSet4Tag(tag)
           /\ \A tid : Reference!tidToCPUId(tid) = tidToCPUId(tid)
           /\ Reference!CPUs = CPUs /\ Reference!Ways = Ways
           /\ Reference!MSI_INVALID = MSI_INVALID
           /\ Reference!MSI_SHARED = MSI_SHARED
           /\ Reference!MSI_MODIFIED = MSI_MODIFIED
  BY DEF Reference!theSet, theSet, Reference!StateOf, StateOf, Reference!findLine,
         findLine, Reference!calcSet4Tag, calcSet4Tag, Reference!Hits, Hits,
         Reference!Least, Least, Reference!MoveToFront, MoveToFront,
         Reference!Ways, Ways, Reference!MSI_INVALID, MSI_INVALID,
         Reference!MSI_SHARED, MSI_SHARED, Reference!MSI_MODIFIED, MSI_MODIFIED,
         Reference!tidToCPUId, tidToCPUId, Reference!CPUs, CPUs

LEMMA ReferenceFills ==
    ASSUME NEW s, NEW tag, NEW st
    PROVE  /\ Reference!fillLine(s, tag, st) = fillLine(s, tag, st)
           /\ Reference!changeStateTo(s, st) = changeStateTo(s, st)
           /\ Reference!Invalidated(s) = Invalidated(s)
  BY DEF Reference!fillLine, fillLine, Reference!findLine2Replace, findLine2Replace,
         Reference!Hits, Hits, Reference!Greatest, Greatest, Reference!MoveToFront,
         MoveToFront, Reference!victim, victim, Reference!InvalidWays, InvalidWays,
         Reference!isValid, isValid, Reference!Least, Least, Reference!Ways, Ways,
         Reference!MSI_INVALID, MSI_INVALID, Reference!changeStateTo, changeStateTo,
         Reference!Invalidated, Invalidated

LEMMA ReferenceSnoops ==
    ASSUME ref = content, NEW p, NEW q, NEW tag
    PROVE  /\ Reference!readRemoteAction(p, q, tag) = readRemoteAction(p, q, tag)
           /\ Reference!writeRemoteAction(p, q, tag) = writeRemoteAction(p, q, tag)
           /\ Reference!RemoteReadService(p, tag) = RemoteReadService(p, tag)
  <1>1. Reference!Providers(p, tag) = Providers(p, tag)
    BY ReferenceSets DEF Reference!Providers, Providers
  <1>2. Reference!readRemoteAction(p, q, tag) = readRemoteAction(p, q, tag)
    BY <1>1, ReferenceSets, ReferenceFills DEF Reference!readRemoteAction, readRemoteAction
  <1>3. Reference!writeRemoteAction(p, q, tag) = writeRemoteAction(p, q, tag)
    BY ReferenceSets, ReferenceFills DEF Reference!writeRemoteAction, writeRemoteAction
  <1>4. Reference!RemoteReadService(p, tag) = RemoteReadService(p, tag)
    BY <1>1, ReferenceSets DEF Reference!RemoteReadService, RemoteReadService
  <1> QED BY <1>2, <1>3, <1>4

\* From equal caches the two simulators come to equal caches.
Alike == ref' = content' /\ refCounted' = counted'

LEMMA HitsAlike ==
    ASSUME ref = content, NEW p, NEW b
    PROVE  /\ Reference!ReadHit(p, b) /\ ReadHit(p, b) => Alike
           /\ Reference!WriteHit(p, b) /\ WriteHit(p, b) => Alike
  BY ReferenceSets DEF Reference!ReadHit, ReadHit, Reference!WriteHit, WriteHit, Alike

LEMMA SameUpdate ==
    ASSUME ref = content, NEW b, NEW old, NEW new,
           \A q \in CPUs : old[q] = new[q],
           Reference!Update(b, old), Update(b, new)
    PROVE  ref' = content'
  <1>1. ref' = [q \in CPUs |-> [content[q] EXCEPT ![calcSet4Tag(b)] = old[q]]]
    BY ReferenceSets DEF Reference!Update
  <1>2. content' = [q \in CPUs |-> [content[q] EXCEPT ![calcSet4Tag(b)] = new[q]]]
    BY DEF Update
  <1> QED BY <1>1, <1>2

LEMMA SameCounters ==
    ASSUME NEW onInvalid, NEW rrs
    PROVE  Reference!ReadMissCounters(onInvalid, rrs) = ReadMissCounters(onInvalid, rrs)
  BY DEF Reference!ReadMissCounters, ReadMissCounters, Reference!MSI_INVALID, MSI_INVALID,
         Reference!MSI_SHARED, MSI_SHARED, Reference!MSI_MODIFIED, MSI_MODIFIED

LEMMA MissesAlike ==
    ASSUME ref = content, NEW p, NEW b
    PROVE  /\ Reference!ReadMiss(p, b) /\ ReadMiss(p, b) => Alike
           /\ Reference!WriteMiss(p, b) /\ WriteMiss(p, b) => Alike
           /\ Reference!WriteOnShared(p, b) /\ WriteOnShared(p, b) => Alike
  <1>s. /\ Reference!theSet(p, b) = theSet(p, b)
        /\ Reference!findLine(theSet(p, b), b) = findLine(theSet(p, b), b)
        /\ Reference!Hits(theSet(p, b), b) = Hits(theSet(p, b), b)
        /\ Reference!CPUs = CPUs
        /\ Reference!MSI_SHARED = MSI_SHARED
        /\ Reference!MSI_MODIFIED = MSI_MODIFIED
    BY ReferenceSets
  <1>f. ASSUME NEW s, NEW st
        PROVE  /\ Reference!fillLine(s, b, st) = fillLine(s, b, st)
               /\ Reference!changeStateTo(s, st) = changeStateTo(s, st)
    BY ReferenceFills
  <1>r. ASSUME NEW q
        PROVE  /\ Reference!readRemoteAction(p, q, b) = readRemoteAction(p, q, b)
               /\ Reference!writeRemoteAction(p, q, b) = writeRemoteAction(p, q, b)
    BY ReferenceSnoops
  <1>1. ASSUME Reference!ReadMiss(p, b), ReadMiss(p, b) PROVE Alike
    <2> DEFINE old == [q \in CPUs |->
                  IF q = p THEN Reference!fillLine(findLine(theSet(p, b), b), b, MSI_SHARED)
                  ELSE Reference!readRemoteAction(p, q, b)]
               new == [q \in CPUs |->
                  IF q = p THEN fillLine(findLine(theSet(p, b), b), b, MSI_SHARED)
                  ELSE readRemoteAction(p, q, b)]
    <2>1. Reference!Update(b, old) /\ Update(b, new)
      BY <1>1, <1>s, Zenon DEF Reference!ReadMiss, ReadMiss
    <2>2. \A q \in CPUs : old[q] = new[q]
      BY <1>f, <1>r, Zenon
    <2>3. ref' = content'
      <3> HIDE DEF old, new
      <3> QED BY <2>1, <2>2, SameUpdate
    <2>4. Reference!RemoteReadService(p, b) = RemoteReadService(p, b)
      BY ReferenceSnoops
    <2> DEFINE onInvalid == Hits(theSet(p, b), b) # {}
               rrs == RemoteReadService(p, b)
    <2>5. /\ refCounted' = [cpu |-> p, what |-> Reference!ReadMissCounters(onInvalid, rrs)]
          /\ counted' = [cpu |-> p, what |-> ReadMissCounters(onInvalid, rrs)]
      BY <1>1, <1>s, <2>4, Zenon DEF Reference!ReadMiss, ReadMiss
    <2>6. Reference!ReadMissCounters(onInvalid, rrs) = ReadMissCounters(onInvalid, rrs)
      <3> HIDE DEF onInvalid, rrs
      <3> QED BY SameCounters
    <2>7. refCounted' = counted'
      <3> HIDE DEF onInvalid, rrs
      <3> QED BY <2>5, <2>6, Zenon
    <2> QED BY <2>3, <2>7 DEF Alike
  <1>2. ASSUME Reference!WriteMiss(p, b), WriteMiss(p, b) PROVE Alike
    <2> DEFINE old == [q \in CPUs |->
                  IF q = p THEN Reference!fillLine(findLine(theSet(p, b), b), b, MSI_MODIFIED)
                  ELSE Reference!writeRemoteAction(p, q, b)]
               new == [q \in CPUs |->
                  IF q = p THEN fillLine(findLine(theSet(p, b), b), b, MSI_MODIFIED)
                  ELSE writeRemoteAction(p, q, b)]
    <2>1. Reference!Update(b, old) /\ Update(b, new)
      BY <1>2, <1>s, Zenon DEF Reference!WriteMiss, WriteMiss
    <2>2. \A q \in CPUs : old[q] = new[q]
      BY <1>f, <1>r, Zenon
    <2>3. ref' = content'
      <3> HIDE DEF old, new
      <3> QED BY <2>1, <2>2, SameUpdate
    <2>4. refCounted' = counted'
      BY <1>2, <1>s, Zenon DEF Reference!WriteMiss, WriteMiss
    <2> QED BY <2>3, <2>4 DEF Alike
  <1>3. ASSUME Reference!WriteOnShared(p, b), WriteOnShared(p, b) PROVE Alike
    <2> DEFINE old == [q \in CPUs |->
                  IF q = p
                  THEN Reference!changeStateTo(findLine(theSet(p, b), b), MSI_MODIFIED)
                  ELSE Reference!writeRemoteAction(p, q, b)]
               new == [q \in CPUs |->
                  IF q = p THEN changeStateTo(findLine(theSet(p, b), b), MSI_MODIFIED)
                  ELSE writeRemoteAction(p, q, b)]
    <2>1. Reference!Update(b, old) /\ Update(b, new)
      BY <1>3, <1>s, Zenon DEF Reference!WriteOnShared, WriteOnShared
    <2>2. \A q \in CPUs : old[q] = new[q]
      BY <1>f, <1>r, Zenon
    <2>3. ref' = content'
      <3> HIDE DEF old, new
      <3> QED BY <2>1, <2>2, SameUpdate
    <2>4. refCounted' = counted'
      BY <1>3, Zenon DEF Reference!WriteOnShared, WriteOnShared
    <2> QED BY <2>3, <2>4 DEF Alike
  <1> QED BY <1>1, <1>2, <1>3

\* The two take the same branch, since they find the block in the same state.
LEMMA AccessesAlike ==
    ASSUME ref = content, NEW tid, NEW b
    PROVE  /\ Read(tid, b) => Alike
           /\ Write(tid, b) => Alike
  <1> DEFINE p == tidToCPUId(tid)
             st == StateOf(theSet(p, b), b)
  <1>1. /\ Reference!tidToCPUId(tid) = p
        /\ Reference!StateOf(Reference!theSet(p, b), b) = st
        /\ Reference!MSI_INVALID = MSI_INVALID
        /\ Reference!MSI_SHARED = MSI_SHARED
        /\ Reference!MSI_MODIFIED = MSI_MODIFIED
    BY ReferenceSets
  <1> HIDE DEF p
  <1>2. /\ ReadHit(p, b) \/ Reference!ReadHit(p, b) => st # MSI_INVALID
        /\ ReadMiss(p, b) \/ Reference!ReadMiss(p, b) => st = MSI_INVALID
        /\ WriteMiss(p, b) \/ Reference!WriteMiss(p, b) => st = MSI_INVALID
        /\ WriteOnShared(p, b) \/ Reference!WriteOnShared(p, b) => st = MSI_SHARED
        /\ WriteHit(p, b) \/ Reference!WriteHit(p, b) => st = MSI_MODIFIED
    BY <1>1, Zenon DEF ReadHit, Reference!ReadHit, ReadMiss, Reference!ReadMiss,
         WriteMiss, Reference!WriteMiss, WriteOnShared, Reference!WriteOnShared,
         WriteHit, Reference!WriteHit
  <1> HIDE DEF st
  <1>3. MSI_INVALID # MSI_SHARED /\ MSI_INVALID # MSI_MODIFIED /\ MSI_SHARED # MSI_MODIFIED
    BY DEF MSI_INVALID, MSI_SHARED, MSI_MODIFIED
  <1>4. Read(tid, b) => Alike
    <2>1. Read(tid, b) => /\ Reference!ReadHit(p, b) \/ Reference!ReadMiss(p, b)
                          /\ ReadHit(p, b) \/ ReadMiss(p, b)
      BY <1>1 DEF Read, Reference!readLine, readLine, p
    <2> QED BY <1>2, <2>1, HitsAlike, MissesAlike
  <1>5. Write(tid, b) => Alike
    <2>1. Write(tid, b) =>
             /\ \/ Reference!WriteMiss(p, b) \/ Reference!WriteOnShared(p, b)
                \/ Reference!WriteHit(p, b)
             /\ WriteMiss(p, b) \/ WriteOnShared(p, b) \/ WriteHit(p, b)
      BY <1>1 DEF Write, Reference!writeLine, writeLine, p
    <2> QED BY <1>2, <1>3, <2>1, HitsAlike, MissesAlike
  <1> QED BY <1>4, <1>5

\* Whoever holds the lock has its block in front in its CPU's cache, where the
\* access has put it.
InFront ==
    globalLock # Free =>
        theSet(tidToCPUId(globalLock.tid), globalLock.tag)[1].tag = globalLock.tag

DriverInv ==
    /\ CacheInv
    /\ ref = content /\ refCounted = counted
    /\ globalLock \in {Free} \cup Access
    /\ InFront
    /\ status = "running"

\* What the comparison finds.
LEMMA ComparisonQuiet ==
    ASSUME DriverInv, 0 \notin Tags, CompareAndRelease
    PROVE  UNCHANGED <<ref, refCounted, content, counted, status>>
  <1>1. CASE StopOnError \/ PrintOnError
    <2> DEFINE tid == globalLock.tid
               b == globalLock.tag
               p == tidToCPUId(tid)
               i == calcSet4Tag(b)
    <2>1. globalLock \in Access
      BY DEF DriverInv, CompareAndRelease
    <2>2. tid \in Tids /\ b \in Tags
      BY <2>1 DEF Access
    <2>3. p \in CPUs /\ i \in SetIds /\ b \in NonZero
      BY <2>2, CPUOfTid, TagFacts
    <2>4. SetOK(content[p][i])
      BY <2>3 DEF DriverInv, CacheInv, SetsOK
    <2>5. content[p][i][1].tag = b
      BY DEF DriverInv, InFront, CompareAndRelease, theSet
    <2>6. Compared(tid, b) /\ UNCHANGED <<refCounted, counted>>
      BY <1>1 DEF CompareAndRelease
    <2>7. content \in [CPUs -> [SetIds -> [Ways -> Line]]]
      BY DEF DriverInv, CacheInv, SetsOK
    <2>8. Looked(content, tid, b) = [content EXCEPT ![p][i] = findLine(@, b)]
      BY DEF Looked
    <2>9. getStateAsInt(ref, tid, b) = getStateAsInt(content, tid, b)
      BY DEF DriverInv
    <2>10. IsCached(content, tid, b) /\ IsCached(ref, tid, b)
      BY <2>5, WaysFacts DEF IsCached, SetOf, Hits, DriverInv
    <2>11. ref' = Looked(content, tid, b) /\ content' = Looked(content, tid, b)
           /\ status' = status
      BY <2>6, <2>9, <2>10 DEF Compared, DriverInv
    <2> HIDE DEF tid, b, p, i
    <2>12. findLine(content[p][i], b) = content[p][i]
      BY <2>3, <2>4, <2>5, FindKeeps
    <2>13. Looked(content, tid, b) = content
      BY <2>3, <2>7, <2>8, <2>12
    <2> QED BY <2>6, <2>11, <2>13 DEF DriverInv
  <1>2. CASE ~ (StopOnError \/ PrintOnError)
    BY <1>2 DEF CompareAndRelease
  <1> QED BY <1>1, <1>2

LEMMA AccessStep ==
    ASSUME DriverInv, 0 \notin Tags, NEW tid \in Tids, NEW b \in Tags, NEW ins,
           InstrumentedAccess(tid, b, ins)
    PROVE  Next /\ DriverInv'
  <1>1. Read(tid, b) \/ Write(tid, b)
    BY DEF InstrumentedAccess
  <1>2. readLine(tid, b) \/ writeLine(tid, b)
    BY <1>1 DEF Read, Write
  <1>3. Next
    BY <1>2 DEF Next
  <1>4. CacheInv'
    BY <1>3, CacheNext DEF DriverInv
  <1>5. Alike
    BY <1>1, AccessesAlike DEF DriverInv
  <1>6. globalLock' = [held |-> TRUE, tid |-> tid, tag |-> b] /\ status' = "running"
    BY DEF InstrumentedAccess, DriverInv
  <1>7. theSet(tidToCPUId(tid), b)'[1].tag = b
    BY <1>2, EffectsOf DEF DriverInv, ReadHitDone, ReadMissDone, WriteDone, Accessed
  <1>8. InFront'
    <2>1. globalLock'.tid = tid /\ globalLock'.tag = b
      BY <1>6
    <2> QED BY <1>7, <2>1 DEF InFront, theSet, tidToCPUId
  <1>9. globalLock' \in Access
    BY <1>6 DEF Access
  <1> QED BY <1>3, <1>4, <1>5, <1>6, <1>8, <1>9 DEF DriverInv, Alike

LEMMA DriverStep ==
    ASSUME DriverInv, 0 \notin Tags, [DriverNext]_driverVars
    PROVE  DriverInv' /\ [Next]_vars /\ (globalLock # Free => UNCHANGED <<ref, content>>)
  <1>1. CASE UNCHANGED driverVars
    BY <1>1 DEF driverVars, DriverInv, CacheInv, SetsOK, Exclusive, St, theSet, InFront, vars
  <1>2. CASE CompareAndRelease
    <2>1. UNCHANGED <<ref, refCounted, content, counted, status>>
      BY <1>2, ComparisonQuiet
    <2>2. globalLock' = Free
      BY <1>2 DEF CompareAndRelease
    <2>3. CacheInv'
      BY <2>1 DEF DriverInv, CacheInv, SetsOK, Exclusive, St, theSet
    <2> QED BY <2>1, <2>2, <2>3 DEF DriverInv, InFront, vars
  <1>3. ASSUME NEW tid \in Tids, NEW b \in Tags, NEW ins \in Instructions,
               InstrumentedAccess(tid, b, ins)
        PROVE  Next /\ DriverInv' /\ globalLock = Free
    BY <1>3, AccessStep DEF InstrumentedAccess
  <1> QED BY <1>1, <1>2, <1>3 DEF DriverNext

LEMMA DriverInvariant ==
    ASSUME 0 \notin Tags
    PROVE  DriverSpec => []DriverInv
  <1>1. DriverInit => DriverInv
    <2> SUFFICES ASSUME DriverInit PROVE DriverInv
      OBVIOUS
    <2>1. CacheInv
      BY CacheInit DEF DriverInit
    <2>2. ref = content /\ refCounted = counted
      BY DEF DriverInit, Init, Reference!Init, Reference!CPUs, CPUs, Reference!SetIds,
             SetIds, Reference!EmptySet, EmptySet, Reference!Ways, Ways,
             Reference!MSI_INVALID, MSI_INVALID
    <2> QED BY <2>1, <2>2 DEF DriverInit, DriverInv, InFront
  <1>2. DriverInv /\ [DriverNext]_driverVars => DriverInv'
    BY DriverStep
  <1> QED BY <1>1, <1>2, PTL DEF DriverSpec

\* Both simulators, the lock and the outcome of the comparisons keep their
\* types.
THEOREM DriverTypes ==
    ASSUME 0 \notin Tags
    PROVE  DriverSpec => []DriverTypeOK
  <1>1. DriverInv => DriverTypeOK
    <2> SUFFICES ASSUME DriverInv PROVE DriverTypeOK
      OBVIOUS
    <2>1. TypeOK
      BY DEF DriverInv, CacheInv, SetsOK, TypeOK
    <2>2. Reference!TypeOK
      BY <2>1 DEF DriverInv, TypeOK, Reference!TypeOK, Reference!CPUs, CPUs,
             Reference!SetIds, SetIds, Reference!Ways, Ways, Reference!Line, Line,
             Reference!MSIState_t, MSIState_t, Reference!Counters, Counters,
             Reference!MSI_INVALID, MSI_INVALID, Reference!MSI_SHARED, MSI_SHARED,
             Reference!MSI_MODIFIED, MSI_MODIFIED
    <2> QED BY <2>1, <2>2 DEF DriverInv, DriverTypeOK
  <1> QED BY <1>1, DriverInvariant, PTL

\* A protocol compared with itself is never reported, and getStateAsInt always
\* finds the line it dereferences.
THEOREM ComparisonsAgree ==
    ASSUME 0 \notin Tags
    PROVE  DriverSpec => []NoFalseAlarm
  <1>1. DriverInv => NoFalseAlarm
    BY DEF DriverInv, NoFalseAlarm
  <1> QED BY <1>1, DriverInvariant, PTL

\* The look up of the comparison leaves the order of the lines as it is.
THEOREM ComparisonIsInvisible ==
    ASSUME 0 \notin Tags
    PROVE  DriverSpec => ComparisonChangesNothing
  <1>1. DriverInv /\ [DriverNext]_driverVars
           => [globalLock # Free => UNCHANGED <<ref, content>>]_driverVars
    BY DriverStep
  <1> QED BY <1>1, DriverInvariant, PTL DEF DriverSpec, ComparisonChangesNothing

\* The driver only adds comparisons: the protocol under test takes no step that
\* it would not take by itself.
THEOREM DriverRunsTheProtocol ==
    ASSUME 0 \notin Tags
    PROVE  DriverSpec => Spec
  <1>1. DriverInit => Init
    BY DEF DriverInit
  <1>2. DriverInv /\ [DriverNext]_driverVars => [Next]_vars
    BY DriverStep
  <1> QED BY <1>1, <1>2, DriverInvariant, PTL DEF DriverSpec, Spec

\* So what is proved of the caches holds of those the driver runs.
THEOREM DrivenCachesAreCoherent ==
    ASSUME 0 \notin Tags
    PROVE  DriverSpec => /\ []SingleWriter /\ []OneLinePerBlock
                         /\ EvictsOnlyWhenFull /\ ServicedByTheOwner
                         /\ ImplementsCoherence
  BY DriverRunsTheProtocol, OneWriter, OneLine, EvictsWhenFull, OwnerServices,
     CachesAreCoherent, PTL
===============================================================================
