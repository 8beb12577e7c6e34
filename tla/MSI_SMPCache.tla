----------------------------- MODULE MSI_SMPCache -----------------------------
(***************************************************************************)
(* The MSI protocol of MSI_SMPCache.cpp on the caches of one MultiCacheSim. *)
(*                                                                         *)
(* content[p] is the cache of CPU p, a set of lines for each set index.    *)
(* counted holds the event counters the last access incremented, and of    *)
(* which cache; their totals only grow and decide nothing.                 *)
(*                                                                         *)
(* MultiCacheSim::readLine and writeLine hold allCachesLock from the look  *)
(* up to the fill, so an access is one step.                               *)
(***************************************************************************)
EXTENDS CacheAssoc

CONSTANTS NumCaches,   \* -numcaches
          Tids,        \* the program's threads
          Tags         \* the blocks they access

ASSUME CachesAssumption ==
    /\ NumCaches \in Nat \ {0}
    /\ Tids \subseteq Nat
    /\ Tags \subseteq Nat

VARIABLES content, counted

vars == <<content, counted>>

CPUs == 0 .. NumCaches - 1

Counters ==
    {"numReadHits", "numReadMisses", "numReadOnInvalidMisses",
     "numReadRequestsSent", "numReadMissesServicedByOthers",
     "numReadMissesServicedByShared", "numReadMissesServicedByModified",
     "numWriteHits", "numWriteMisses", "numWriteOnSharedMisses",
     "numWriteOnInvalidMisses", "numInvalidatesSent"}

TypeOK ==
    /\ content \in [CPUs -> [SetIds -> [Ways -> Line]]]
    /\ counted \in [cpu : CPUs, what : SUBSET Counters]

\* main calls createNewCache NumCaches times before the program starts.
Init ==
    /\ content = [p \in CPUs |-> [i \in SetIds |-> EmptySet]]
    /\ counted = [cpu |-> 0, what |-> {}]

tidToCPUId(tid) == tid % NumCaches

\* The set in which cache p looks for the tag.
theSet(p, tag) == content[p][calcSet4Tag(tag)]

\* The state of the line findLine returns for the tag, MSI_INVALID if none.
StateOf(s, tag) ==
    IF Hits(s, tag) # {} THEN s[Least(Hits(s, tag))].state ELSE MSI_INVALID

\* Every cache's set for the tag becomes new[p].
Update(tag, new) ==
    content' = [p \in CPUs |-> [content[p] EXCEPT ![calcSet4Tag(tag)] = new[p]]]

\* changeStateTo and invalidate on the line findLine has put in front.
changeStateTo(s, state) == [s EXCEPT ![1].state = state]

\* Mutation: the first other cache is asked, and no more.
ProvidersFirstOnly(p, tag) ==
    {q \in CPUs \ {p} : /\ \A r \in CPUs \ {p} : q <= r
                        /\ StateOf(theSet(q, tag), tag) # MSI_INVALID}

\* The other caches that have the line.
Providers(p, tag) ==
    {q \in CPUs \ {p} : StateOf(theSet(q, tag), tag) # MSI_INVALID}

\* readRemoteAction: the caches are asked in their order, until the first one
\* that has the line provides it.  What it leaves in the set of cache q.
readRemoteAction(p, q, tag) ==
    LET found == findLine(theSet(q, tag), tag)
    IN  IF Providers(p, tag) = {} \/ q < Least(Providers(p, tag)) THEN found
        ELSE IF q = Least(Providers(p, tag)) THEN changeStateTo(found, MSI_SHARED)
        ELSE theSet(q, tag)

\* Mutation: only the first other copy is invalidated.
writeRemoteActionFirst(p, q, tag) ==
    LET found == findLine(theSet(q, tag), tag)
    IN  IF q \in Providers(p, tag) /\ \A r \in Providers(p, tag) : q <= r
        THEN [found EXCEPT ![1] = Invalidated(@)]
        ELSE found

\* writeRemoteAction: every other copy is invalidated.
writeRemoteAction(p, q, tag) ==
    LET found == findLine(theSet(q, tag), tag)
    IN  IF StateOf(theSet(q, tag), tag) # MSI_INVALID
        THEN [found EXCEPT ![1] = Invalidated(@)]
        ELSE found

\* The counters of a read miss, rrs being the state of the providing line.
ReadMissCounters(onInvalid, rrs) ==
    {"numReadMisses", "numReadRequestsSent"}
        \cup (IF onInvalid THEN {"numReadOnInvalidMisses"} ELSE {})
        \cup (CASE rrs = MSI_INVALID  -> {}
                [] rrs = MSI_SHARED   -> {"numReadMissesServicedByOthers",
                                          "numReadMissesServicedByShared"}
                [] rrs = MSI_MODIFIED -> {"numReadMissesServicedByOthers",
                                          "numReadMissesServicedByModified"})

\* What the cache that provides the line has it in.
RemoteReadService(p, tag) ==
    IF Providers(p, tag) = {} THEN MSI_INVALID
    ELSE StateOf(theSet(Least(Providers(p, tag)), tag), tag)

\* readLine on cache p.
ReadHit(p, tag) ==
    /\ StateOf(theSet(p, tag), tag) # MSI_INVALID
    /\ content' = [content EXCEPT ![p][calcSet4Tag(tag)] = findLine(@, tag)]
    /\ counted' = [cpu |-> p, what |-> {"numReadHits"}]

ReadMiss(p, tag) ==
    /\ StateOf(theSet(p, tag), tag) = MSI_INVALID
    /\ Update(tag, [q \in CPUs |->
            IF q = p THEN fillLine(findLine(theSet(p, tag), tag), tag, MSI_SHARED)
            ELSE readRemoteAction(p, q, tag)])
    /\ counted' = [cpu |-> p,
                   what |-> ReadMissCounters(Hits(theSet(p, tag), tag) # {},
                                             RemoteReadService(p, tag))]

\* writeLine on cache p.
WriteMiss(p, tag) ==
    /\ StateOf(theSet(p, tag), tag) = MSI_INVALID
    /\ Update(tag, [q \in CPUs |->
            IF q = p THEN fillLine(findLine(theSet(p, tag), tag), tag, MSI_MODIFIED)
            ELSE writeRemoteAction(p, q, tag)])
    /\ counted' = [cpu |-> p,
                   what |-> {"numWriteMisses", "numInvalidatesSent"}
                        \cup (IF Hits(theSet(p, tag), tag) # {}
                              THEN {"numWriteOnInvalidMisses"} ELSE {})]

WriteOnShared(p, tag) ==
    /\ StateOf(theSet(p, tag), tag) = MSI_SHARED
    /\ Update(tag, [q \in CPUs |->
            IF q = p
            THEN changeStateTo(findLine(theSet(p, tag), tag), MSI_MODIFIED)
            ELSE writeRemoteAction(p, q, tag)])
    /\ counted' = [cpu |-> p,
                   what |-> {"numWriteMisses", "numWriteOnSharedMisses",
                             "numInvalidatesSent"}]

WriteHit(p, tag) ==
    /\ StateOf(theSet(p, tag), tag) = MSI_MODIFIED
    /\ content' = [content EXCEPT ![p][calcSet4Tag(tag)] = findLine(@, tag)]
    /\ counted' = [cpu |-> p, what |-> {"numWriteHits"}]

readLine(tid, tag) ==
    \/ ReadHit(tidToCPUId(tid), tag)
    \/ ReadMiss(tidToCPUId(tid), tag)

writeLine(tid, tag) ==
    \/ WriteMiss(tidToCPUId(tid), tag)
    \/ WriteOnShared(tidToCPUId(tid), tag)
    \/ WriteHit(tidToCPUId(tid), tag)

Next == \E tid \in Tids, tag \in Tags : readLine(tid, tag) \/ writeLine(tid, tag)

Spec == Init /\ [][Next]_vars

-------------------------------------------------------------------------------
\* What the caches together hold.

\* The lines of cache p that hold the block.
Copies(p, tag) ==
    {w \in Ways : theSet(p, tag)[w].tag = tag /\ isValid(theSet(p, tag)[w])}

\* Whichever lines they are in: a block that one cache has modified is in no
\* other line of any cache (writeLine: "all other copies must be invalidated").
SingleWriter ==
    \A p, q \in CPUs, tag \in Tags :
        \A v \in Copies(p, tag), w \in Copies(q, tag) :
            theSet(p, tag)[v].state = MSI_MODIFIED => p = q /\ v = w

\* findLine and findLine2Replace between them keep a block in one line, so what
\* a snoop invalidates is all there is.
OneLinePerBlock ==
    \A p \in CPUs, tag \in Tags :
        \A v, w \in Copies(p, tag) : v = w

\* findLine2Replace throws a block out of a cache for another one only when the
\* set has no line to spare.
EvictsOnlyWhenFull ==
    [][\A p \in CPUs, tag \in Tags :
          /\ Copies(p, tag) # {}
          /\ counted'.cpu = p
          /\ Copies(p, tag)' = {}
          => \A w \in Ways : isValid(theSet(p, tag)[w])]_vars

\* Cache p missed the block, reading it.
MissedRead(p, tag) ==
    /\ counted'.cpu = p /\ "numReadMisses" \in counted'.what
    /\ Copies(p, tag) = {} /\ Copies(p, tag)' # {}

ModifiedSomewhere(tag) ==
    \E p \in CPUs : \E w \in Copies(p, tag) :
        theSet(p, tag)[w].state = MSI_MODIFIED

\* A read miss is counted as serviced by a modified line exactly when some other
\* cache had the block modified, wherever in the scan order that cache is.
ServicedByTheOwner ==
    [][\A p \in CPUs, tag \in Tags :
          MissedRead(p, tag) =>
             ("numReadMissesServicedByModified" \in counted'.what
              <=> ModifiedSomewhere(tag))]_vars

\* The state in which cache p holds each block.
copyOf == [p \in CPUs |-> [tag \in Tags |-> StateOf(theSet(p, tag), tag)]]

\* Lines, ways and the order of the lines put aside, the caches behave as
\* coherent caches do.
Coherent == INSTANCE Coherence WITH Blocks <- Tags, copy <- copyOf

ImplementsCoherence == Coherent!Spec
===============================================================================
