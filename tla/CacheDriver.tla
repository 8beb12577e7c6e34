------------------------------ MODULE CacheDriver ------------------------------
(***************************************************************************)
(* The Pin driver of MultiCacheSim: every memory access of the program is  *)
(* run on the reference protocol and on the protocol under test, and the   *)
(* states the two end in are compared.  They are two separate simulators,  *)
(* both of MSI_SMPCache (the default of -protos and of -reference): the    *)
(* one under test, Caches[0], is the module extended here, the reference   *)
(* an instance of it.                                                      *)
(*                                                                         *)
(* globalLock is held from the first access to the last comparison; the    *)
(* comparison is a step of its own, because getStateAsInt looks the line   *)
(* up again and a look up reorders the lines of a set.                     *)
(***************************************************************************)
EXTENDS MSI_SMPCache

CONSTANTS StopOnError, PrintOnError,   \* -stopOnProtoBug, -printOnProtoBug
          Instructions                 \* what the program's instructions do

ASSUME DriverAssumption ==
    /\ StopOnError \in BOOLEAN /\ PrintOnError \in BOOLEAN
    /\ Instructions \subseteq (SUBSET {"read", "write"}) \ {{}}

VARIABLES ref, refCounted,      \* ReferenceProtocol
          globalLock,           \* the access the holder of the lock runs
          status                \* how the comparisons went

driverVars == <<content, counted, ref, refCounted, globalLock, status>>

Free == [held |-> FALSE]

Access == [held : {TRUE}, tid : Tids, tag : Tags]

Reference == INSTANCE MSI_SMPCache WITH content <- ref, counted <- refCounted

DriverTypeOK ==
    /\ TypeOK
    /\ Reference!TypeOK
    /\ globalLock \in {Free} \cup Access
    /\ status \in {"running", "printed", "exited", "crashed"}

\* main loads the protocol, then the reference, and creates NumCaches caches
\* for each.
DriverInit ==
    /\ Init
    /\ Reference!Init
    /\ globalLock = Free
    /\ status = "running"

Running == status \in {"running", "printed"}

\* The two simulators, one after the other.
Read(tid, tag) == Reference!readLine(tid, tag) /\ readLine(tid, tag)

\* Mutation: the protocol under test is handed a read.
WriteTestedReads(tid, tag) ==
    Reference!writeLine(tid, tag) /\ readLine(tid, tag)

Write(tid, tag) == Reference!writeLine(tid, tag) /\ writeLine(tid, tag)

\* instrumentTrace puts one call before an instruction: Read if it reads
\* memory, else Write.
InstrumentedAccess(tid, tag, ins) ==
    /\ Running
    /\ globalLock = Free
    /\ IF "read" \in ins THEN Read(tid, tag) ELSE Write(tid, tag)
    /\ globalLock' = [held |-> TRUE, tid |-> tid, tag |-> tag]
    /\ UNCHANGED status

\* The set of the accessed tag in the caches of the accessing thread's CPU.
SetOf(caches, tid, tag) == caches[tidToCPUId(tid)][calcSet4Tag(tag)]

\* Mutation: the look up for the comparison goes to the other end of the set.
LookedAtVictim(caches, tid, tag) ==
    [caches EXCEPT ![tidToCPUId(tid)][calcSet4Tag(tag)] = MoveToFront(@, Assoc)]

\* The look up of getStateAsInt.
Looked(caches, tid, tag) ==
    [caches EXCEPT ![tidToCPUId(tid)][calcSet4Tag(tag)] = findLine(@, tag)]

\* SMPCache::getStateAsInt dereferences what findLine returns.  The function of
\* MultiCacheSim that calls it has no return statement; compiled without
\* optimisation, as the Makefile has it, it leaves the inner result in place.
getStateAsInt(caches, tid, tag) == StateOf(SetOf(caches, tid, tag), tag)

IsCached(caches, tid, tag) == Hits(SetOf(caches, tid, tag), tag) # {}

\* The end of Read and Write: the comparison, if one of the knobs asks for it,
\* and ReleaseLock.
Compared(tid, tag) ==
    /\ ref' = Looked(ref, tid, tag)
    /\ content' = Looked(content, tid, tag)
    /\ status' =
         IF ~ (IsCached(ref, tid, tag) /\ IsCached(content, tid, tag)) THEN "crashed"
         ELSE IF getStateAsInt(ref, tid, tag) = getStateAsInt(content, tid, tag)
         THEN status
         ELSE IF StopOnError THEN "exited" ELSE "printed"

CompareAndRelease ==
    /\ Running
    /\ globalLock # Free
    /\ IF StopOnError \/ PrintOnError
       THEN Compared(globalLock.tid, globalLock.tag)
       ELSE UNCHANGED <<ref, content, status>>
    /\ globalLock' = Free
    /\ UNCHANGED <<refCounted, counted>>

DriverNext ==
    \/ \E tid \in Tids, tag \in Tags, ins \in Instructions :
          InstrumentedAccess(tid, tag, ins)
    \/ CompareAndRelease

DriverSpec == DriverInit /\ [][DriverNext]_driverVars

-------------------------------------------------------------------------------
\* getStateAsInt finds a line to dereference, and a protocol compared with
\* itself is never reported: no comparison stops the simulation.
NoFalseAlarm == status = "running"

\* Looking up what was just accessed does not change which line goes next: with
\* the knobs set the simulation counts the same hits and misses as without.
ComparisonChangesNothing ==
    [][globalLock # Free => UNCHANGED <<ref, content>>]_driverVars
===============================================================================
