--------------------------------- MODULE Bloom ---------------------------------
(***************************************************************************)
(* The access filters of Bloom.cpp in both builds: with SET_OVERRIDE, as   *)
(* MyFlags.h has it, a filter keeps the addresses themselves; without, it  *)
(* keeps bits chosen by hash functions.                                    *)
(*                                                                         *)
(* A filter of a thread is filled and cleared; a signature gets copies of  *)
(* it (SigRaceData) and compares them with others.  remove and the clear   *)
(* of a range are called by nothing the tool registers.                    *)
(***************************************************************************)
EXTENDS Integers

CONSTANTS Filters,      \* the Bloom objects
          Addrs,        \* the addresses of the program
          Funcs,        \* funcs[], each from an address to a number
          FilterSize,   \* in bits
          CHAR_BIT,     \* bits of a byte
          Builds,       \* the values of SET_OVERRIDE
          Removing,     \* the builds in which ranges are cleared
          MaxElements   \* bound on elementCount

ASSUME BloomAssumption ==
    /\ Addrs \subseteq Nat
    /\ Funcs # {} /\ Funcs \subseteq [Addrs -> Nat]
    /\ FilterSize \in Nat \ {0} /\ CHAR_BIT \in Nat \ {0}
    /\ Removing \subseteq Builds /\ Builds \subseteq BOOLEAN
    /\ MaxElements \in Nat

VARIABLES SET_OVERRIDE,
          filter,         \* filter[f]: the bits that are set
          locations,      \* locations[f]: the addresses, with SET_OVERRIDE
          elementCount,
          added,          \* what the callers put into f and not out again
          ranges          \* whether ranges were cleared since f was last empty

vars == <<SET_OVERRIDE, filter, locations, elementCount, added, ranges>>

\* A count is negative only where a range was cleared since.
TypeOK ==
    /\ SET_OVERRIDE \in Builds
    /\ filter \in [Filters -> SUBSET (0 .. FilterSize - 1)]
    /\ locations \in [Filters -> SUBSET Addrs]
    /\ elementCount \in [Filters -> Int]
    /\ added \in [Filters -> SUBSET Addrs]
    /\ ranges \in [Filters -> BOOLEAN]
    /\ \A f \in Filters : ranges[f] \/ elementCount[f] \in Nat

Init ==
    /\ SET_OVERRIDE \in Builds
    /\ filter = [f \in Filters |-> {}]
    /\ locations = [f \in Filters |-> {}]
    /\ elementCount = [f \in Filters |-> 0]
    /\ added = [f \in Filters |-> {}]
    /\ ranges = [f \in Filters |-> FALSE]

\* Mutation: the hash is not reduced to the size of the filter.
BitsUnreduced(a) == {h[a] : h \in Funcs}

\* The bits of an address.
Bits(a) == {h[a] % FilterSize : h \in Funcs}

\* Mutation: the bits of a last, partial byte are forgotten.
SizeInBytesRoundedDown == FilterSize \div CHAR_BIT

getFilterSizeInBytes == (FilterSize + CHAR_BIT - 1) \div CHAR_BIT

ByteOf(bits, n) == {b \in bits : b \div CHAR_BIT = n}

check(f, a) ==
    IF SET_OVERRIDE THEN a \in locations[f] ELSE Bits(a) \subseteq filter[f]

hasInCommon(f, g) ==
    IF SET_OVERRIDE THEN locations[f] \cap locations[g] # {}
    ELSE \E n \in 0 .. getFilterSizeInBytes - 1 :
            ByteOf(filter[f], n) \cap ByteOf(filter[g], n) # {}

isEmpty(f) == elementCount[f] = 0

Add(f, a) ==
    /\ elementCount[f] < MaxElements
    /\ IF SET_OVERRIDE
       THEN /\ locations' = [locations EXCEPT ![f] = @ \cup {a}]
            /\ UNCHANGED filter
       ELSE /\ filter' = [filter EXCEPT ![f] = @ \cup Bits(a)]
            /\ UNCHANGED locations
    /\ elementCount' = [elementCount EXCEPT ![f] = @ + 1]
    /\ added' = [added EXCEPT ![f] = @ \cup {a}]
    /\ UNCHANGED <<SET_OVERRIDE, ranges>>

\* Mutation: the locations stay.
ClearOfBits(f) ==
    /\ filter' = [filter EXCEPT ![f] = {}]
    /\ elementCount' = [elementCount EXCEPT ![f] = 0]
    /\ added' = [added EXCEPT ![f] = {}]
    /\ ranges' = [ranges EXCEPT ![f] = FALSE]
    /\ UNCHANGED <<SET_OVERRIDE, locations>>

\* Mutation: elementCount is not reset.
ClearWithoutCount(f) ==
    /\ filter' = [filter EXCEPT ![f] = {}]
    /\ locations' = [locations EXCEPT ![f] = {}]
    /\ added' = [added EXCEPT ![f] = {}]
    /\ ranges' = [ranges EXCEPT ![f] = FALSE]
    /\ UNCHANGED <<SET_OVERRIDE, elementCount>>

Clear(f) ==
    /\ filter' = [filter EXCEPT
           ![f] = {b \in @ : b \div CHAR_BIT >= getFilterSizeInBytes}]
    /\ elementCount' = [elementCount EXCEPT ![f] = 0]
    /\ locations' = [locations EXCEPT ![f] = {}]
    /\ added' = [added EXCEPT ![f] = {}]
    /\ ranges' = [ranges EXCEPT ![f] = FALSE]
    /\ UNCHANGED SET_OVERRIDE

\* operator= and the copy constructor: f becomes what another filter g is.
Assign(f, g) ==
    /\ filter' = [filter EXCEPT ![f] = filter[g]]
    /\ elementCount' = [elementCount EXCEPT ![f] = elementCount[g]]
    /\ locations' = [locations EXCEPT ![f] = locations[g]]
    /\ added' = [added EXCEPT ![f] = added[g]]
    /\ ranges' = [ranges EXCEPT ![f] = ranges[g]]
    /\ UNCHANGED SET_OVERRIDE

\* remove, for each address of a range; with SET_OVERRIDE it inserts.
RemoveAll(f, range) ==
    IF SET_OVERRIDE
    THEN /\ locations' = [locations EXCEPT ![f] = @ \cup range]
         /\ UNCHANGED filter
    ELSE /\ filter' = [filter EXCEPT ![f] = @ \ UNION {Bits(a) : a \in range}]
         /\ UNCHANGED locations

\* clear(startAddress, endAddress).
ClearRange(f, startAddress, endAddress) ==
    LET range == {a \in Addrs : startAddress <= a /\ a < endAddress}
    IN  /\ SET_OVERRIDE \in Removing
        /\ startAddress < endAddress
        /\ elementCount[f] - (endAddress - startAddress) >= -MaxElements
        /\ RemoveAll(f, range)
        /\ elementCount' = [elementCount EXCEPT
               ![f] = @ - (endAddress - startAddress)]
        /\ added' = [added EXCEPT ![f] = @ \ range]
        /\ ranges' = [ranges EXCEPT ![f] = TRUE]
        /\ UNCHANGED SET_OVERRIDE

\* No caller assigns a filter to itself, and operator= does not test for it.
Next ==
    \E f \in Filters :
        \/ \E a \in Addrs : Add(f, a)
        \/ Clear(f)
        \/ \E g \in Filters \ {f} : Assign(f, g)
        \/ \E a, b \in Addrs : ClearRange(f, a, b)

Spec == Init /\ [][Next]_vars

-------------------------------------------------------------------------------
\* Whatever the hash functions, the size of the filter and the bytes it is kept
\* in: two filters that were given the same address are seen to have something
\* in common, so no conflict of two epochs is missed; nor does either build
\* forget an address it was given.  Ranges cleared in the build with
\* SET_OVERRIDE, where removal inserts, do not change that.
ConflictIsNeverMissed ==
    \A f, g \in Filters :
        /\ \A a \in added[f] : check(f, a)
        /\ added[f] \cap added[g] # {} => hasInCommon(f, g)

\* With SET_OVERRIDE the answer is exact: nothing is reported that two filters do
\* not share, after clears and copies too, unless a range was cleared.
SetIsExact ==
    SET_OVERRIDE =>
        \A f, g \in Filters :
            hasInCommon(f, g) =>
                added[f] \cap added[g] # {} \/ ranges[f] \/ ranges[g]

\* isDirty asks isEmpty whether an epoch is worth keeping: the count, which also
\* grows with an address that is there already and is copied with the filter,
\* is zero exactly when nothing was added since the last clear.  (Clearing a range
\* takes its length off, whatever was in it.)
EmptyWhenNothingAdded ==
    \A f \in Filters : ranges[f] \/ (isEmpty(f) <=> added[f] = {})
===============================================================================
