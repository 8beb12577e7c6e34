------------------------------- MODULE CacheCore -------------------------------
(***************************************************************************)
(* One cache of CacheCore.cpp in each of its organisations, used as        *)
(* MSI_SMPCache.cpp uses it: an access looks its block up and fills a line *)
(* when there is none, a snoop looks a block up and may invalidate it.     *)
(*                                                                         *)
(* content holds the lines of CacheAssoc, slots those of the direct-mapped *)
(* CacheDM and CacheDMSkew, one line per set.  No caller passes            *)
(* ignoreLocked, without which the replacement policy is not consulted:    *)
(* "RANDOM" behaves as "LRU".                                              *)
(***************************************************************************)
EXTENDS CacheAssoc, Bitwise, Sequences

CONSTANT Tags

VARIABLES organisation,   \* the class create chose
          content, slots,
          rand_number,    \* of CacheDMSkew, of which the last bit is read
          accessed        \* the block of the last access, 0 before the first

vars == <<organisation, content, slots, rand_number, accessed>>

TypeOK ==
    /\ organisation \in {"CacheAssoc", "CacheDM", "CacheDMSkew"}
    /\ content \in [SetIds -> [Ways -> Line]]
    /\ slots \in [SetIds -> Line]
    /\ rand_number \in 0 .. 1
    /\ accessed \in Tags \cup {0}

\* create, by skew and by assoc; the constructors invalidate every line.
Init ==
    /\ organisation \in {"CacheAssoc", "CacheDM", "CacheDMSkew"}
    /\ content = [i \in SetIds |-> EmptySet]
    /\ slots = [i \in SetIds |-> EmptySet[1]]
    /\ rand_number = 0
    /\ accessed = 0

\* calcTag(addr ^ (addr >> 7)), which is tag ^ (tag >> 7).
tag2(tag) == tag ^^ (tag \div 128)

\* The slots in which the direct-mapped caches look, in their order.
DMSlots(tag) == <<calcSet4Tag(tag)>>

DMSkewSlots(tag) == <<calcSet4Tag(tag), calcSet4Tag(tag2(tag))>>

SlotsOf(tag) ==
    IF organisation = "CacheDM" THEN DMSlots(tag) ELSE DMSkewSlots(tag)

SlotHits(tag) == {k \in DOMAIN SlotsOf(tag) : slots[SlotsOf(tag)[k]].tag = tag}

Filled(tag) == [tag |-> tag, state |-> MSI_SHARED]

\* An access to a CacheAssoc.
AssocAccess(tag) ==
    /\ organisation = "CacheAssoc"
    /\ content' = [content EXCEPT ![calcSet4Tag(tag)] =
                       IF Hits(@, tag) # {} THEN findLine(@, tag)
                       ELSE fillLine(@, tag, MSI_SHARED)]
    /\ UNCHANGED <<organisation, slots, rand_number>>

\* An access that CacheDM or CacheDMSkew has the line of.
SlotHit(tag) ==
    /\ organisation # "CacheAssoc"
    /\ SlotHits(tag) # {}
    /\ UNCHANGED <<organisation, content, slots, rand_number>>

\* CacheDM::findLine2Replace returns the one line there is.
DMFill(tag) ==
    /\ organisation = "CacheDM"
    /\ SlotHits(tag) = {}
    /\ slots' = [slots EXCEPT ![calcSet4Tag(tag)] = Filled(tag)]
    /\ UNCHANGED <<organisation, content, rand_number>>

\* CacheDMSkew::findLine2Replace takes the two lines in turns.
DMSkewFill(tag) ==
    /\ organisation = "CacheDMSkew"
    /\ SlotHits(tag) = {}
    /\ slots' = [slots EXCEPT ![DMSkewSlots(tag)[2 - rand_number]] = Filled(tag)]
    /\ rand_number' = 1 - rand_number
    /\ UNCHANGED <<organisation, content>>

\* A remote read looks the line up, a remote write invalidates it too.
AssocSnoop(tag, write) ==
    /\ organisation = "CacheAssoc"
    /\ Hits(content[calcSet4Tag(tag)], tag) # {}
    /\ content' = [content EXCEPT ![calcSet4Tag(tag)] =
                       IF write
                       THEN [findLine(@, tag) EXCEPT ![1] = Invalidated(@)]
                       ELSE findLine(@, tag)]
    /\ UNCHANGED <<organisation, slots, rand_number>>

SlotSnoop(tag) ==
    /\ organisation # "CacheAssoc"
    /\ SlotHits(tag) # {}
    /\ slots' = [slots EXCEPT ![SlotsOf(tag)[Least(SlotHits(tag))]] =
                     Invalidated(@)]
    /\ UNCHANGED <<organisation, content, rand_number>>

Next == \E tag \in Tags :
    /\ \/ AssocAccess(tag) \/ SlotHit(tag) \/ DMFill(tag) \/ DMSkewFill(tag)
       \/ SlotSnoop(tag)
       \/ \E write \in BOOLEAN : AssocSnoop(tag, write)
    /\ accessed' = tag

Spec == Init /\ [][Next]_vars

-------------------------------------------------------------------------------
\* The valid lines of a sequence of lines, as tags.
ValidTags(lines) ==
    LET valid == SelectSeq(lines, isValid)
    IN  [k \in DOMAIN valid |-> valid[k].tag]

orderOf ==
    [i \in SetIds |->
        IF organisation = "CacheAssoc"
        THEN ValidTags([w \in Ways |-> content[i][w]])
        ELSE ValidTags(<<slots[i]>>)]

homesOf ==
    [tag \in Tags |-> IF organisation = "CacheAssoc" THEN {calcSet4Tag(tag)}
                      ELSE {SlotsOf(tag)[k] : k \in DOMAIN SlotsOf(tag)}]

Recent == INSTANCE RecentBlocks WITH
    Blocks <- Tags, Homes <- SetIds, order <- orderOf, last <- accessed,
    capacity <- IF organisation = "CacheAssoc" THEN Assoc ELSE 1,
    homes <- homesOf

\* Whatever the organisation, the invalid lines in between and the order in
\* which ways are filled, the blocks of a set are those used last, looked up by
\* snoops included, and the oldest one goes; a block is never in two lines.
KeepsRecentBlocks == Recent!Spec
===============================================================================
