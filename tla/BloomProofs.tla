------------------------------ MODULE BloomProofs ------------------------------
(***************************************************************************)
(* The filters of Bloom.cpp forget nothing, for every number of hash        *)
(* functions, every size of a filter and of a byte, in both builds.        *)
(***************************************************************************)
EXTENDS Bloom, TLAPS

-------------------------------------------------------------------------------
\* The bits of an address.

LEMMA BitsType ==
    ASSUME NEW a \in Addrs
    PROVE  Bits(a) \subseteq 0 .. FilterSize - 1 /\ Bits(a) # {}
  <1>1. \A h \in Funcs : h[a] \in Nat
    BY BloomAssumption
  <1>2. \A n \in Nat : n % FilterSize \in 0 .. FilterSize - 1
    BY BloomAssumption
  <1> QED BY <1>1, <1>2, BloomAssumption DEF Bits

\* Dividing keeps the order, and by 1 + (n - 1) / c bytes of c bits n bits are
\* covered.
LEMMA BitIsInAByte ==
    ASSUME NEW b \in 0 .. FilterSize - 1
    PROVE  b \div CHAR_BIT \in 0 .. getFilterSizeInBytes - 1
  <1> USE BloomAssumption
  <1> DEFINE q == b \div CHAR_BIT
             s == getFilterSizeInBytes
  <1>1. q \in Nat /\ q * CHAR_BIT <= b
    OBVIOUS
  <1>2. s \in Nat /\ FilterSize + CHAR_BIT - 1 < (s + 1) * CHAR_BIT
    BY DEF getFilterSizeInBytes
  <1> QED BY <1>1, <1>2

-------------------------------------------------------------------------------
\* The inductive invariant.

\* The build without locations has all the bits of what was added, the other one
\* the addresses.
Remembers ==
    \A f \in Filters :
        IF SET_OVERRIDE THEN added[f] \subseteq locations[f]
        ELSE \A a \in added[f] : Bits(a) \subseteq filter[f]

\* Until a range is cleared, the locations are what was added and the count is
\* at least one for a filter in which there is something.
Counts ==
    \A f \in Filters : ~ ranges[f] =>
        /\ SET_OVERRIDE => locations[f] = added[f]
        /\ elementCount[f] \in Nat
        /\ elementCount[f] = 0 <=> added[f] = {}

BloomInv == TypeOK /\ Counts

LEMMA BloomInit == Init => BloomInv /\ Remembers
  BY DEF Init, BloomInv, TypeOK, Remembers, Counts

\* One lemma for each operation.  Remembers is apart: it is the part that a range
\* cleared in the build with bits would break.
LEMMA AddStep ==
    ASSUME BloomInv, NEW f \in Filters, NEW a \in Addrs, Add(f, a)
    PROVE  BloomInv' /\ (Remembers => Remembers')
  <1> USE DEF BloomInv, TypeOK
  <1>1. Bits(a) \subseteq 0 .. FilterSize - 1
    BY BitsType
  <1>2. TypeOK'
    BY <1>1 DEF Add
  <1>3. Counts'
    <2> SUFFICES ASSUME NEW g \in Filters, ~ ranges'[g]
                 PROVE  /\ SET_OVERRIDE' => locations'[g] = added'[g]
                        /\ elementCount'[g] \in Nat
                        /\ elementCount'[g] = 0 <=> added'[g] = {}
      BY DEF Counts
    <2>1. /\ SET_OVERRIDE => locations[g] = added[g]
          /\ elementCount[g] \in Nat
          /\ elementCount[g] = 0 <=> added[g] = {}
      BY DEF Add, Counts
    <2>2. CASE g = f
      BY <2>1, <2>2 DEF Add
    <2>3. CASE g # f
      BY <2>1, <2>3 DEF Add
    <2> QED BY <2>2, <2>3
  <1>4. ASSUME Remembers PROVE Remembers'
    <2>1. CASE SET_OVERRIDE
      BY <1>4, <2>1 DEF Add, Remembers
    <2>2. CASE ~ SET_OVERRIDE
      BY <1>4, <2>2 DEF Add, Remembers
    <2> QED BY <2>1, <2>2
  <1> QED BY <1>2, <1>3, <1>4

LEMMA ClearStep ==
    ASSUME BloomInv, NEW f \in Filters, Clear(f)
    PROVE  BloomInv' /\ (Remembers => Remembers')
  <1> USE DEF BloomInv, TypeOK
  <1>1. TypeOK'
    BY DEF Clear
  <1>2. Counts'
    BY DEF Clear, Counts
  <1>3. ASSUME Remembers PROVE Remembers'
    BY <1>3 DEF Clear, Remembers
  <1> QED BY <1>1, <1>2, <1>3

LEMMA AssignStep ==
    ASSUME BloomInv, NEW f \in Filters, NEW g \in Filters, Assign(f, g)
    PROVE  BloomInv' /\ (Remembers => Remembers')
  <1> USE DEF BloomInv, TypeOK
  <1>1. TypeOK'
    BY DEF Assign
  <1>2. Counts'
    BY DEF Assign, Counts
  <1>3. ASSUME Remembers PROVE Remembers'
    BY <1>3 DEF Assign, Remembers
  <1> QED BY <1>1, <1>2, <1>3

LEMMA ClearRangeStep ==
    ASSUME BloomInv, NEW f \in Filters, NEW a \in Addrs, NEW b \in Addrs,
           ClearRange(f, a, b)
    PROVE  BloomInv' /\ (FALSE \notin Removing /\ Remembers => Remembers')
  <1> DEFINE range == {x \in Addrs : a <= x /\ x < b}
  <1> USE DEF BloomInv, TypeOK
  <1>1. TypeOK'
    <2>1. a \in Int /\ b \in Int
      BY BloomAssumption
    <2>2. elementCount' \in [Filters -> Int] /\ ranges' \in [Filters -> BOOLEAN]
      BY <2>1 DEF ClearRange
    <2>3. added' \in [Filters -> SUBSET Addrs]
      BY DEF ClearRange
    <2>4. locations' \in [Filters -> SUBSET Addrs]
      BY DEF ClearRange, RemoveAll
    <2>5. filter' \in [Filters -> SUBSET (0 .. FilterSize - 1)]
      BY DEF ClearRange, RemoveAll
    <2> QED BY <2>2, <2>3, <2>4, <2>5 DEF ClearRange
  <1>2. Counts'
    <2> SUFFICES ASSUME NEW g \in Filters, ~ ranges'[g]
                 PROVE  /\ SET_OVERRIDE' => locations'[g] = added'[g]
                        /\ elementCount'[g] \in Nat
                        /\ elementCount'[g] = 0 <=> added'[g] = {}
      BY DEF Counts
    <2>1. g # f
      BY DEF ClearRange
    <2>2. /\ ranges'[g] = ranges[g] /\ added'[g] = added[g]
          /\ elementCount'[g] = elementCount[g] /\ locations'[g] = locations[g]
          /\ SET_OVERRIDE' = SET_OVERRIDE
      BY <2>1 DEF ClearRange, RemoveAll
    <2> QED BY <2>2 DEF Counts
  <1>3. ASSUME FALSE \notin Removing, Remembers PROVE Remembers'
    <2>1. SET_OVERRIDE
      BY <1>3, BloomAssumption DEF ClearRange
    <2>2. /\ locations' = [locations EXCEPT ![f] = @ \cup range]
          /\ added' = [added EXCEPT ![f] = @ \ range]
          /\ SET_OVERRIDE'
      BY <2>1 DEF ClearRange, RemoveAll
    <2> HIDE DEF range
    <2> QED BY <1>3, <2>1, <2>2 DEF Remembers
  <1> QED BY <1>1, <1>2, <1>3

LEMMA BloomNext ==
    ASSUME BloomInv, [Next]_vars
    PROVE  BloomInv' /\ (FALSE \notin Removing /\ Remembers => Remembers')
  <1>1. CASE UNCHANGED vars
    BY <1>1 DEF vars, BloomInv, TypeOK, Counts, Remembers
  <1>2. CASE Next
    BY <1>2, AddStep, ClearStep, AssignStep, ClearRangeStep DEF Next
  <1> QED BY <1>1, <1>2

-------------------------------------------------------------------------------
\* What is set or inserted stays inside the filter, whatever is called and in
\* either build, and the count falls below zero only where a range was cleared.
THEOREM BloomTypes == Spec => []TypeOK
  <1>1. Init => BloomInv
    BY BloomInit
  <1>2. BloomInv /\ [Next]_vars => BloomInv'
    BY BloomNext
  <1>3. BloomInv => TypeOK
    BY DEF BloomInv
  <1> QED BY <1>1, <1>2, <1>3, PTL DEF Spec

\* isEmpty, which decides whether an epoch is worth keeping, is right about
\* every filter that had no range cleared, through copies and clears.
THEOREM EmptinessIsCounted == Spec => []EmptyWhenNothingAdded
  <1>1. Init => BloomInv
    BY BloomInit
  <1>2. BloomInv /\ [Next]_vars => BloomInv'
    BY BloomNext
  <1>3. BloomInv => EmptyWhenNothingAdded
    BY DEF BloomInv, Counts, TypeOK, EmptyWhenNothingAdded, isEmpty
  <1> QED BY <1>1, <1>2, <1>3, PTL DEF Spec

\* With SET_OVERRIDE hasInCommon never reports what two filters do not share.
THEOREM SetsAreExact == Spec => []SetIsExact
  <1>1. Init => BloomInv
    BY BloomInit
  <1>2. BloomInv /\ [Next]_vars => BloomInv'
    BY BloomNext
  <1>3. BloomInv => SetIsExact
    BY DEF BloomInv, Counts, TypeOK, SetIsExact, hasInCommon
  <1> QED BY <1>1, <1>2, <1>3, PTL DEF Spec

\* Two filters with an address in common share one of its bits, and the byte it
\* is in is among those that hasInCommon compares.
LEMMA SharedIsSeen ==
    ASSUME TypeOK, Remembers
    PROVE  ConflictIsNeverMissed
  <1> USE DEF TypeOK
  <1>1. ASSUME NEW f \in Filters, NEW a \in added[f] PROVE check(f, a)
    BY <1>1 DEF Remembers, check
  <1>2. ASSUME NEW f \in Filters, NEW g \in Filters, added[f] \cap added[g] # {}
        PROVE  hasInCommon(f, g)
    <2>1. PICK a \in Addrs : a \in added[f] /\ a \in added[g]
      BY <1>2
    <2>2. CASE SET_OVERRIDE
      BY <2>1, <2>2 DEF Remembers, hasInCommon
    <2>3. CASE ~ SET_OVERRIDE
      <3>1. PICK b \in 0 .. FilterSize - 1 : b \in filter[f] /\ b \in filter[g]
        BY <2>1, <2>3, BitsType DEF Remembers
      <3>2. b \div CHAR_BIT \in 0 .. getFilterSizeInBytes - 1
        BY BitIsInAByte
      <3>3. b \in ByteOf(filter[f], b \div CHAR_BIT) \cap ByteOf(filter[g], b \div CHAR_BIT)
        BY <3>1 DEF ByteOf
      <3> QED BY <2>3, <3>2, <3>3 DEF hasInCommon
    <2> QED BY <2>2, <2>3
  <1> QED BY <1>1, <1>2 DEF ConflictIsNeverMissed

\* Whatever the hash functions and the sizes, no address that was added is
\* forgotten and no conflict of two filters is missed; ranges may be cleared in
\* the build with SET_OVERRIDE.
THEOREM NoConflictIsMissed ==
    ASSUME FALSE \notin Removing
    PROVE  Spec => []ConflictIsNeverMissed
  <1>1. Init => BloomInv /\ Remembers
    BY BloomInit
  <1>2. BloomInv /\ Remembers /\ [Next]_vars => (BloomInv /\ Remembers)'
    BY BloomNext
  <1>3. BloomInv /\ Remembers => ConflictIsNeverMissed
    BY SharedIsSeen DEF BloomInv
  <1> QED BY <1>1, <1>2, <1>3, PTL DEF Spec
===============================================================================
