------------------------ MODULE PthreadInstrumentation ------------------------
(***************************************************************************)
(* The recording tool: the handlers of pin/PthreadInstumentation.cpp and   *)
(* pin/MultiCacheSim_PinDriver.cpp, over the state of pin/GlobalVariables.h*)
(* and pin/MyPinTool.cpp, run by the threads of an instrumented program.   *)
(*                                                                         *)
(* A thread is its Pin thread id.  Its pthread_t and its OS id are         *)
(* represented by the same number: what the tool has to find out is which  *)
(* Pin id belongs to a handle, and that is pthreadPinIdMap.                *)
(*                                                                         *)
(* One step is one critical section of the tool, together with the effects *)
(* that only the running thread can see.  What libpthread does (mutexes,   *)
(* condition variables, barriers, joining) is external and is modelled by  *)
(* what the handlers rely on.  The logs the handlers write (record.txt and *)
(* the epoch logs) are read by nothing in this tool and are left out.      *)
(*                                                                         *)
(* past, mutexPast and pend are ghosts: the order of the epochs in the     *)
(* instrumented program, which the clocks are meant to represent.          *)
(***************************************************************************)
EXTENDS SigraceModules, FiniteSets

CONSTANTS
    MaxThreads,     \* bound: threads the program starts
    MaxClock,       \* bound: epochs of a thread
    Mutexes, Conds, Barriers,
    Tracked,        \* mutexes and conds at or below MUTEX_POINTER_LIMIT
    BarrierSizes,   \* counts given to pthread_barrier_init
    Accesses,       \* kinds of memory access the program makes
    Env,            \* what program and environment may do besides: EnvChoices
    NULL            \* an address that was never set

EnvChoices ==
    {"trylock",         \* the program calls pthread_mutex_trylock
     "foreign_join",    \* a thread joins a thread it did not create
     "broadcast",       \* the program calls pthread_cond_broadcast
     "spurious_wakeup", \* pthread_cond_wait returns without a signal
     "eager_reinit",    \* a barrier is set up again before all have returned
     "slow_start"}      \* a new thread takes longer than the creator polls

ASSUME InstanceAssumption ==
    /\ MaxThreads \in Nat \ {0} /\ MaxThreads <= MAX_THREAD_COUNT
    /\ MaxClock \in Nat
    /\ BarrierSizes \subseteq Nat \ {0}
    /\ Accesses \subseteq {"read", "write"}
    /\ Env \subseteq EnvChoices
    /\ NULL \notin Mutexes \cup Conds \cup Barriers

VARIABLES
    pc,                     \* where a thread is
    owner,                  \* holder of a mutex
    thread,                 \* *newthread of a create, thread of a join
    signalled,              \* the argument of pthread_cond_signal
    parent,                 \* PIN_GetParentTid
    nextTid,                \* number of threads the program has made
    joined,                 \* threads whose join has returned
    vectorClock, readFilter, writeFilter,       \* ThreadLocalStorage ...
    lockAddr, condVarAddr, barrierAddr, joinVCMap,
    atomicCreate,           \* holder of that Pin lock
    lastCreatedThread, pthreadPinIdMap,
    unlockedThreadMap, notifiedThreadMap, barrierWaitMap,
    threadCount, blockHistoryQueues, races,     \* rdm, and what it printed
    failed,                 \* the assertion that stopped the tool
    past, mutexPast, pend   \* ghosts

program == <<owner, thread, signalled, parent, nextTid, joined>>
filters == <<readFilter, writeFilter>>
addresses == <<lockAddr, condVarAddr, barrierAddr>>
creation == <<atomicCreate, lastCreatedThread, pthreadPinIdMap>>
syncMaps == <<unlockedThreadMap, notifiedThreadMap, barrierWaitMap>>
rdm == <<threadCount, blockHistoryQueues, races>>
ghosts == <<past, mutexPast, pend>>

vars == <<pc, program, vectorClock, filters, addresses, joinVCMap, creation,
          syncMaps, rdm, failed, ghosts>>

NO_ID == -1     \* also NOT_A_THREADID: both are (UINT32) -1

ThreadIds == Threads \cup {NO_ID}

\* An entry with tid NO_ID is one that was consumed or never made.
ThreadInfo == [tid : ThreadIds, vectorClock : Clock]

NoThreadInfo == [tid |-> NO_ID, vectorClock |-> ZeroClock]

\* Size 0 stands for a barrier that is not in barrierWaitMap.
BarrierData ==
    [vectorClock : Clock, previousVectorClock : Clock,
     barrierSize : Nat, waiterCount : Nat]

NewBarrierData(size) ==
    [vectorClock |-> ZeroClock, previousVectorClock |-> ZeroClock,
     barrierSize |-> size, waiterCount |-> 0]

PcValues ==
    {"none",            \* not created
     "spawned",         \* created, before its ThreadStart
     "run",             \* in the program's own code
     "create",          \* polls lastCreatedThread in pthread_create
     "publish",         \* has published the id of the new thread
     "join",            \* blocked in pthread_join
     "lock", "trylock", \* in pthread_mutex_lock, pthread_mutex_trylock
     "condwait",        \* in pthread_cond_wait, mutex not yet released
     "asleep",          \* in pthread_cond_wait, waiting to be woken
     "wake",            \* in pthread_cond_wait, woken
     "signal",          \* in pthread_cond_signal, handler done
     "barrier",         \* in pthread_barrier_wait, not yet counted by it
     "arrived",         \* waiting in pthread_barrier_wait
     "released",        \* let through, before AfterBarrierWait
     "exited"}          \* ThreadFini done

Failures ==
    {"none",
     "too many threads",            \* SigraceModules.h, addProcessor
     "ThreadStart didn't started",  \* PthreadCreateReplacement
     "Couldn't get VC",             \* PthreadJoinReplacement, unknown handle
     "cannot find vc",              \* PthreadJoinReplacement, no clock
     "no local storage",            \* getTLS
     "end iterator"}                \* AfterCondWait reads a missing entry

TypeOK ==
    /\ pc \in [Threads -> PcValues]
    /\ owner \in [Mutexes -> ThreadIds]
    /\ thread \in [Threads -> ThreadIds]
    /\ signalled \in [Threads -> Conds \cup {NULL}]
    /\ parent \in [Threads -> ThreadIds]
    /\ nextTid \in 1 .. MAX_THREAD_COUNT
    /\ joined \subseteq Threads
    /\ vectorClock \in [Threads -> Clock]
    /\ readFilter \in [Threads -> SUBSET Addrs]
    /\ writeFilter \in [Threads -> SUBSET Addrs]
    /\ lockAddr \in [Threads -> Mutexes \cup {NULL}]
    /\ condVarAddr \in [Threads -> Conds \cup {NULL}]
    /\ barrierAddr \in [Threads -> Barriers \cup {NULL}]
    /\ joinVCMap \in [Threads -> [Threads -> Clock]]
    /\ atomicCreate \in ThreadIds
    /\ lastCreatedThread \in ThreadIds
    /\ pthreadPinIdMap \in [Threads -> ThreadIds]
    /\ unlockedThreadMap \in [Mutexes -> ThreadInfo]
    /\ notifiedThreadMap \in [Conds -> ThreadInfo]
    /\ barrierWaitMap \in [Barriers -> BarrierData]
    /\ threadCount \in Nat
    /\ blockHistoryQueues \in [Threads -> Seq(SigRaceData)]
    /\ races \subseteq Races
    /\ failed \in Failures
    /\ past \in [Threads -> SUBSET Epochs]
    /\ mutexPast \in [Mutexes -> SUBSET Epochs]
    /\ pend \in [Threads -> SUBSET Epochs]


\* A thread that is inside a pthread call has that call's arguments set.
ArgumentsOK ==
    \A t \in Threads :
        /\ pc[t] \in {"create", "publish", "join"} => thread[t] \in Threads
        /\ pc[t] \in {"lock", "trylock", "condwait", "asleep", "wake"}
           => lockAddr[t] \in Mutexes
        /\ pc[t] \in {"condwait", "asleep", "wake"} => condVarAddr[t] \in Conds
        /\ pc[t] = "signal" => signalled[t] \in Conds
        /\ pc[t] \in {"barrier", "arrived", "released"}
           => barrierAddr[t] \in Barriers

-----------------------------------------------------------------------------
\* The initial thread exists; its ThreadStart has not run.
Init ==
    /\ pc = [t \in Threads |-> IF t = 0 THEN "spawned" ELSE "none"]
    /\ owner = [m \in Mutexes |-> NO_ID]
    /\ thread = [t \in Threads |-> NO_ID]
    /\ signalled = [t \in Threads |-> NULL]
    /\ parent = [t \in Threads |-> NO_ID]
    /\ nextTid = 1
    /\ joined = {}
    /\ vectorClock = [t \in Threads |-> ZeroClock]
    /\ readFilter = [t \in Threads |-> {}]
    /\ writeFilter = [t \in Threads |-> {}]
    /\ lockAddr = [t \in Threads |-> NULL]
    /\ condVarAddr = [t \in Threads |-> NULL]
    /\ barrierAddr = [t \in Threads |-> NULL]
    /\ joinVCMap = [t \in Threads |-> [c \in Threads |-> ZeroClock]]
    /\ atomicCreate = NO_ID
    /\ lastCreatedThread = NO_ID
    /\ pthreadPinIdMap = [t \in Threads |-> NO_ID]
    /\ unlockedThreadMap = [m \in Mutexes |-> NoThreadInfo]
    /\ notifiedThreadMap = [c \in Conds |-> NoThreadInfo]
    /\ barrierWaitMap = [b \in Barriers |-> NewBarrierData(0)]
    /\ threadCount = 0
    /\ blockHistoryQueues = [t \in Threads |-> <<>>]
    /\ races = {}
    /\ failed = "none"
    /\ past = [t \in Threads |-> {}]
    /\ mutexPast = [m \in Mutexes |-> {}]
    /\ pend = [t \in Threads |-> {}]

-----------------------------------------------------------------------------
\* A failed assertion stops the tool, and the program with it.
At(t, labels) == failed = "none" /\ pc[t] \in labels

Goto(t, label) == pc' = [pc EXCEPT ![t] = label]

\* The bound on the length of a run: a call that ends an epoch is made only
\* by a thread whose clock is below MaxClock.
MayAdvance(t) == vectorClock[t][t] < MaxClock

Epoch(t) == <<t, vectorClock[t][t]>>

CurrentSig(t) ==
    [tid |-> t, ts |-> vectorClock[t], r |-> readFilter[t],
     w |-> writeFilter[t], past |-> past[t]]

\* rdm.addSignature of the thread's current epoch.  An epoch without accesses
\* is not kept.
addSignature(t) ==
    IF isDirty(CurrentSig(t))
    THEN /\ blockHistoryQueues' =
                [blockHistoryQueues EXCEPT ![t] = pushFront(@, CurrentSig(t))]
         /\ races' = races \cup ScanReport(blockHistoryQueues, CurrentSig(t))
    ELSE UNCHANGED <<blockHistoryQueues, races>>

clearFilters(t) ==
    /\ readFilter' = [readFilter EXCEPT ![t] = {}]
    /\ writeFilter' = [writeFilter EXCEPT ![t] = {}]

\* What most handlers do: hand the epoch to the module and empty the filters.
EndEpoch(t) ==
    /\ addSignature(t)
    /\ clearFilters(t)
    /\ UNCHANGED threadCount

SetClock(t, vc) == vectorClock' = [vectorClock EXCEPT ![t] = vc]

\* The ghost step that goes with the end of t's epoch and with receiving the
\* epochs in received.
ExtendPast(t, received) ==
    past' = [past EXCEPT ![t] = @ \cup {Epoch(t)} \cup received]

-----------------------------------------------------------------------------
\* Starting and ending threads.

ThreadStart(t) ==
    /\ At(t, {"spawned"})
    /\ threadCount' = threadCount + 1
    /\ IF threadCount + 1 < MAX_THREAD_COUNT
       THEN /\ IF parent[t] # NO_ID
               THEN /\ SetClock(t, ChildClock(vectorClock[parent[t]],
                                              parent[t], t))
                    /\ lastCreatedThread' = t
                    /\ past' = [past EXCEPT ![t] = past[parent[t]]
                                                   \cup {Epoch(parent[t])}]
               ELSE /\ SetClock(t, FirstClock(t))
                    /\ UNCHANGED <<lastCreatedThread, past>>
            /\ Goto(t, "run")
            /\ UNCHANGED failed
       ELSE /\ failed' = "too many threads"
            /\ UNCHANGED <<pc, vectorClock, lastCreatedThread, past>>
    /\ UNCHANGED <<program, filters, addresses, joinVCMap, atomicCreate,
                   pthreadPinIdMap, syncMaps, blockHistoryQueues, races,
                   mutexPast, pend>>

\* The real pthread_create, called by t: the new thread gets the next Pin id.
Spawn(t) ==
    /\ At(t, {"run"}) /\ MayAdvance(t)
    /\ nextTid < MaxThreads
    /\ atomicCreate' = t
    /\ thread' = [thread EXCEPT ![t] = nextTid]
    /\ parent' = [parent EXCEPT ![nextTid] = t]
    /\ nextTid' = nextTid + 1
    /\ pc' = [pc EXCEPT ![t] = "create", ![nextTid] = "spawned"]
    /\ UNCHANGED <<owner, signalled, joined, vectorClock, filters, addresses, joinVCMap,
                   lastCreatedThread, pthreadPinIdMap, syncMaps, rdm, failed,
                   ghosts>>

\* Mutation: pthread_create without the lock.
CreateCallUnlocked(t) == Spawn(t)

\* PthreadCreateReplacement up to the polling loop.
CreateCall(t) ==
    /\ atomicCreate = NO_ID
    /\ Spawn(t)

\* The loop gives up after MAX_WAKEUP_COUNT sleeps, also when the thread
\* started during the last of them.
CreateTimeout(t) ==
    /\ "slow_start" \in Env
    /\ At(t, {"create"})
    /\ failed' = "ThreadStart didn't started"
    /\ UNCHANGED <<pc, program, vectorClock, filters, addresses, joinVCMap,
                   creation, syncMaps, rdm, ghosts>>

\* The handle of the new thread is mapped to lastCreatedThread.
Publish(t) ==
    /\ At(t, {"create"})
    /\ pthreadPinIdMap' =
            [pthreadPinIdMap EXCEPT ![thread[t]] = lastCreatedThread]
    /\ lastCreatedThread' = NO_ID
    /\ Goto(t, "publish")
    /\ UNCHANGED <<program, vectorClock, filters, addresses, joinVCMap,
                   atomicCreate, syncMaps, rdm, failed, ghosts>>

\* Mutation: no polling loop.
CreatePublishAtOnce(t) == Publish(t)

\* Mutation: the condition of the polling loop is inverted.
CreatePublishInverted(t) == lastCreatedThread = NO_ID /\ Publish(t)

\* The polling loop ends when ThreadStart of the new thread has run.
CreatePublish(t) ==
    /\ lastCreatedThread # NO_ID
    /\ Publish(t)

\* The rest of PthreadCreateReplacement: only now does the creator's epoch end.
CreateEpoch(t) ==
    /\ At(t, {"publish"})
    /\ EndEpoch(t)
    /\ SetClock(t, advance(vectorClock[t], t))
    /\ ExtendPast(t, {})
    /\ atomicCreate' = NO_ID
    /\ thread' = [thread EXCEPT ![t] = NO_ID]
    /\ Goto(t, "run")
    /\ UNCHANGED <<owner, signalled, parent, nextTid, joined, addresses, joinVCMap,
                   lastCreatedThread, pthreadPinIdMap, syncMaps, failed,
                   mutexPast, pend>>

\* A program joins a thread once; with foreign_join it may do so in a thread
\* that got the handle from another one.
JoinCall(t, c) ==
    /\ At(t, {"run"}) /\ MayAdvance(t)
    /\ c # t /\ c # 0 /\ c < nextTid
    /\ parent[c] = t \/ "foreign_join" \in Env
    /\ c \notin joined /\ \A u \in Threads : pc[u] = "join" => thread[u] # c
    /\ thread' = [thread EXCEPT ![t] = c]
    /\ Goto(t, "join")
    /\ UNCHANGED <<owner, signalled, parent, nextTid, joined, vectorClock, filters,
                   addresses, joinVCMap, creation, syncMaps, rdm, failed,
                   ghosts>>

\* PthreadJoinReplacement after the real join: the loop that waits for the
\* handle never looks it up again, so an unknown handle ends in the assertion.
JoinReturn(t) ==
    LET c == pthreadPinIdMap[thread[t]] IN
    /\ At(t, {"join"})
    /\ pc[thread[t]] = "exited"
    /\ EndEpoch(t)
    /\ IF c # NO_ID /\ joinVCMap[t][c] # ZeroClock
       THEN /\ SetClock(t, receiveWithIncrement(vectorClock[t], t,
                                                joinVCMap[t][c], c))
            /\ ExtendPast(t, past[thread[t]] \cup {Epoch(thread[t])})
            /\ joined' = joined \cup {thread[t]}
            /\ thread' = [thread EXCEPT ![t] = NO_ID]
            /\ Goto(t, "run")
            /\ UNCHANGED failed
       ELSE /\ failed' = IF c = NO_ID THEN "Couldn't get VC"
                                      ELSE "cannot find vc"
            /\ UNCHANGED <<pc, vectorClock, past, joined, thread>>
    /\ UNCHANGED <<owner, signalled, parent, nextTid, addresses, joinVCMap, creation,
                   syncMaps, mutexPast, pend>>

\* The last epoch is handed over, and the final clock left with the parent.
\* pthread_join in another thread returns only after this handler.
ThreadFini(t) ==
    /\ At(t, {"run"})
    /\ addSignature(t)
    /\ IF parent[t] # NO_ID
       THEN joinVCMap' = [joinVCMap EXCEPT ![parent[t]][t] = vectorClock[t]]
       ELSE UNCHANGED joinVCMap
    /\ Goto(t, "exited")
    /\ UNCHANGED <<program, vectorClock, filters, addresses, creation,
                   syncMaps, threadCount, failed, ghosts>>

-----------------------------------------------------------------------------
\* Memory accesses of the main executable that are not near the stack pointer.

Read(t, a) ==
    /\ At(t, {"run"}) /\ "read" \in Accesses
    /\ readFilter' = [readFilter EXCEPT ![t] = @ \cup {a}]
    /\ UNCHANGED <<pc, program, vectorClock, writeFilter, addresses,
                   joinVCMap, creation, syncMaps, rdm, failed, ghosts>>

Write(t, a) ==
    /\ At(t, {"run"}) /\ "write" \in Accesses
    /\ writeFilter' = [writeFilter EXCEPT ![t] = @ \cup {a}]
    /\ UNCHANGED <<pc, program, vectorClock, readFilter, addresses,
                   joinVCMap, creation, syncMaps, rdm, failed, ghosts>>

-----------------------------------------------------------------------------
\* Mutexes.

BeforeLock(t, m, call) ==
    /\ At(t, {"run"}) /\ MayAdvance(t)
    /\ owner[m] # t
    /\ call = "lock" \/ (call = "trylock" /\ "trylock" \in Env)
    /\ lockAddr' = [lockAddr EXCEPT ![t] = m]
    /\ Goto(t, call)
    /\ UNCHANGED <<program, vectorClock, filters, condVarAddr, barrierAddr,
                   joinVCMap, creation, syncMaps, rdm, failed, ghosts>>

\* The real mutex is taken and AfterLock runs: until it has run no other
\* thread can change the mutex's entry.  For a trylock that succeeded,
\* AfterTryLock is AfterLock.
AfterLock(t) ==
    LET m == lockAddr[t] IN
    /\ At(t, {"lock", "trylock"})
    /\ owner[m] = NO_ID
    /\ owner' = [owner EXCEPT ![m] = t]
    /\ Goto(t, "run")
    /\ IF m \in Tracked
       THEN /\ EndEpoch(t)
            /\ SetClock(t,
                 IF unlockedThreadMap[m].tid # NO_ID
                 THEN receiveAction(advance(vectorClock[t], t),
                                    unlockedThreadMap[m].vectorClock)
                 ELSE advance(vectorClock[t], t))
            /\ ExtendPast(t, mutexPast[m])
            /\ unlockedThreadMap' =
                    [unlockedThreadMap EXCEPT ![m].tid = NO_ID]
       ELSE UNCHANGED <<rdm, filters, vectorClock, past, unlockedThreadMap>>
    /\ UNCHANGED <<thread, signalled, parent, nextTid, joined, addresses, joinVCMap,
                   creation, notifiedThreadMap, barrierWaitMap, failed,
                   mutexPast, pend>>

AfterFailedTryLock(t) ==
    /\ At(t, {"trylock"})
    /\ owner[lockAddr[t]] # NO_ID
    /\ Goto(t, "run")
    /\ UNCHANGED <<program, vectorClock, filters, addresses, joinVCMap,
                   creation, syncMaps, rdm, failed, ghosts>>

\* Mutation: a copy of the clock is advanced and left with the mutex.
LeaveAdvancedCopy(t, m) ==
    /\ EndEpoch(t)
    /\ SetClock(t, vectorClock[t])
    /\ UNCHANGED past
    /\ unlockedThreadMap' =
            [unlockedThreadMap EXCEPT
                ![m] = [tid |-> t,
                        vectorClock |-> advance(vectorClock[t], t)]]
    /\ mutexPast' = [mutexPast EXCEPT ![m] = past[t]]

\* Advance the clock and leave it with the mutex.
LeaveClock(t, m) ==
    /\ EndEpoch(t)
    /\ SetClock(t, advance(vectorClock[t], t))
    /\ ExtendPast(t, {})
    /\ unlockedThreadMap' =
            [unlockedThreadMap EXCEPT
                ![m] = [tid |-> t, vectorClock |-> vectorClock'[t]]]
    /\ mutexPast' = [mutexPast EXCEPT ![m] = past'[t]]

\* BeforeUnlock, and the real unlock that follows it.
BeforeUnlock(t, m) ==
    /\ At(t, {"run"}) /\ MayAdvance(t)
    /\ owner[m] = t
    /\ owner' = [owner EXCEPT ![m] = NO_ID]
    /\ IF m \in Tracked
       THEN LeaveClock(t, m)
       ELSE UNCHANGED <<rdm, filters, vectorClock, past, unlockedThreadMap,
                        mutexPast>>
    /\ UNCHANGED <<pc, thread, signalled, parent, nextTid, joined, addresses, joinVCMap,
                   creation, notifiedThreadMap, barrierWaitMap, failed, pend>>

-----------------------------------------------------------------------------
\* Condition variables.

BeforeCondWait(t, cond, m) ==
    /\ At(t, {"run"}) /\ MayAdvance(t)
    /\ owner[m] = t
    /\ lockAddr' = [lockAddr EXCEPT ![t] = m]
    /\ condVarAddr' = [condVarAddr EXCEPT ![t] = cond]
    /\ Goto(t, "condwait")
    /\ IF m \in Tracked
       THEN LeaveClock(t, m)
       ELSE UNCHANGED <<rdm, filters, vectorClock, past, unlockedThreadMap,
                        mutexPast>>
    /\ UNCHANGED <<program, barrierAddr, joinVCMap, creation,
                   notifiedThreadMap, barrierWaitMap, failed, pend>>

\* External: pthread_cond_wait releases the mutex and blocks.
CondSleep(t) ==
    /\ At(t, {"condwait"})
    /\ owner' = [owner EXCEPT ![lockAddr[t]] = NO_ID]
    /\ Goto(t, "asleep")
    /\ UNCHANGED <<thread, signalled, parent, nextTid, joined, vectorClock, filters,
                   addresses, joinVCMap, creation, syncMaps, rdm, failed,
                   ghosts>>

\* External: pthread_cond_wait returns without a signal.
SpuriousWakeup(t) ==
    /\ "spurious_wakeup" \in Env
    /\ At(t, {"asleep"})
    /\ Goto(t, "wake")
    /\ UNCHANGED <<program, vectorClock, filters, addresses, joinVCMap,
                   creation, syncMaps, rdm, failed, ghosts>>

\* The real mutex is taken again and AfterCondWait runs.  The lookup's result
\* is compared with the end of the other map, so a missing entry is used.
AfterCondWait(t) ==
    LET entry == notifiedThreadMap[condVarAddr[t]] IN
    /\ At(t, {"wake"})
    /\ owner[lockAddr[t]] = NO_ID
    /\ owner' = [owner EXCEPT ![lockAddr[t]] = t]
    /\ IF lockAddr[t] \in Tracked
       THEN IF entry.tid # NO_ID
            THEN /\ SetClock(t, receiveAction(vectorClock[t],
                                              entry.vectorClock))
                 /\ clearFilters(t)
                 /\ past' = [past EXCEPT ![t] =
                                @ \cup pend[t] \cup mutexPast[lockAddr[t]]]
                 /\ Goto(t, "run")
                 /\ UNCHANGED failed
            ELSE /\ failed' = "end iterator"
                 /\ UNCHANGED <<pc, vectorClock, filters, past>>
       ELSE /\ Goto(t, "run")
            /\ UNCHANGED <<vectorClock, filters, past, failed>>
    /\ pend' = [pend EXCEPT ![t] = {}]
    /\ UNCHANGED <<thread, signalled, parent, nextTid, joined, addresses, joinVCMap,
                   creation, syncMaps, rdm, mutexPast>>

\* Mutation: the signalling thread is not noted.
NotifyNobody(t, cond) ==
    /\ EndEpoch(t)
    /\ SetClock(t, advance(vectorClock[t], t))
    /\ ExtendPast(t, {})
    /\ UNCHANGED notifiedThreadMap

\* Advance the clock and leave it with the condition variable.
Notify(t, cond) ==
    /\ EndEpoch(t)
    /\ SetClock(t, advance(vectorClock[t], t))
    /\ ExtendPast(t, {})
    /\ notifiedThreadMap' =
            [notifiedThreadMap EXCEPT
                ![cond] = [tid |-> t, vectorClock |-> vectorClock'[t]]]

BeforeCondSignal(t, cond) ==
    /\ At(t, {"run"}) /\ MayAdvance(t)
    /\ IF cond \in Tracked
       THEN Notify(t, cond)
       ELSE UNCHANGED <<rdm, filters, vectorClock, past, notifiedThreadMap>>
    /\ signalled' = [signalled EXCEPT ![t] = cond]
    /\ Goto(t, "signal")
    /\ UNCHANGED <<owner, thread, parent, nextTid, joined, addresses,
                   joinVCMap, creation, unlockedThreadMap, barrierWaitMap,
                   failed, mutexPast, pend>>

Sleepers(cond) == {u \in Threads : pc[u] = "asleep" /\ condVarAddr[u] = cond}

\* External: pthread_cond_signal wakes one of the threads that wait, if any.
CondSignal(t) ==
    /\ At(t, {"signal"})
    /\ IF Sleepers(signalled[t]) = {}
       THEN Goto(t, "run") /\ UNCHANGED pend
       ELSE \E u \in Sleepers(signalled[t]) :
                /\ pc' = [pc EXCEPT ![t] = "run", ![u] = "wake"]
                /\ pend' = [pend EXCEPT ![u] = past[t]]
    /\ signalled' = [signalled EXCEPT ![t] = NULL]
    /\ UNCHANGED <<owner, thread, parent, nextTid, joined, vectorClock,
                   filters, addresses, joinVCMap, creation, syncMaps, rdm,
                   failed, past, mutexPast>>

\* The call to BeforeCondSignal has its arguments swapped: getTLS looks for
\* the thread whose id is the address of the condition variable.
BeforeCondBroadcast(t) ==
    /\ "broadcast" \in Env
    /\ At(t, {"run"})
    /\ failed' = "no local storage"
    /\ UNCHANGED <<pc, program, vectorClock, filters, addresses, joinVCMap,
                   creation, syncMaps, rdm, ghosts>>

-----------------------------------------------------------------------------
\* Barriers.

InBarrier(b, labels) ==
    {u \in Threads : barrierAddr[u] = b /\ pc[u] \in labels}

\* The handler, and the real pthread_barrier_init.  A program does not set up
\* a barrier while threads are blocked in it.
BeforeBarrierInit(t, b, size) ==
    /\ At(t, {"run"})
    /\ InBarrier(b, {"barrier", "arrived"}) = {}
    /\ "eager_reinit" \in Env \/ InBarrier(b, {"released"}) = {}
    /\ barrierWaitMap' = [barrierWaitMap EXCEPT ![b] = NewBarrierData(size)]
    /\ UNCHANGED <<pc, program, vectorClock, filters, addresses, joinVCMap,
                   creation, unlockedThreadMap, notifiedThreadMap, rdm,
                   failed, ghosts>>

\* Mutations: every thread that enters changes what the leaving threads find;
\* the last thread's own clock is left out; the count is off by one.
EnterBarrierOverwriting(data, vc) ==
    LET merged == receiveAction(data.vectorClock, vc)
        last == data.waiterCount + 1 = data.barrierSize
    IN [vectorClock |-> IF last THEN ZeroClock ELSE merged,
        previousVectorClock |-> merged,
        barrierSize |-> data.barrierSize,
        waiterCount |-> IF last THEN 0 ELSE data.waiterCount + 1]

EnterBarrierWithoutLast(data, vc) ==
    LET merged == receiveAction(data.vectorClock, vc)
        last == data.waiterCount + 1 = data.barrierSize
    IN [vectorClock |-> IF last THEN ZeroClock ELSE merged,
        previousVectorClock |->
            IF last THEN data.vectorClock ELSE data.previousVectorClock,
        barrierSize |-> data.barrierSize,
        waiterCount |-> IF last THEN 0 ELSE data.waiterCount + 1]

EnterBarrierOffByOne(data, vc) ==
    LET merged == receiveAction(data.vectorClock, vc)
        last == data.waiterCount = data.barrierSize
    IN [vectorClock |-> IF last THEN ZeroClock ELSE merged,
        previousVectorClock |->
            IF last THEN merged ELSE data.previousVectorClock,
        barrierSize |-> data.barrierSize,
        waiterCount |-> IF last THEN 0 ELSE data.waiterCount + 1]

\* What the arrival of a thread with clock vc makes of a barrier's data: the
\* clock is merged into the barrier's, and the thread that completes the count
\* puts the merged clock where the threads that leave will find it.
EnterBarrier(data, vc) ==
    LET merged == receiveAction(data.vectorClock, vc)
        last == data.waiterCount + 1 = data.barrierSize
    IN [vectorClock |-> IF last THEN ZeroClock ELSE merged,
        previousVectorClock |->
            IF last THEN merged ELSE data.previousVectorClock,
        barrierSize |-> data.barrierSize,
        waiterCount |-> IF last THEN 0 ELSE data.waiterCount + 1]

BeforeBarrierWait(t, b) ==
    /\ At(t, {"run"}) /\ MayAdvance(t)
    /\ barrierWaitMap[b].barrierSize # 0
    /\ barrierAddr' = [barrierAddr EXCEPT ![t] = b]
    /\ EndEpoch(t)
    /\ SetClock(t, advance(vectorClock[t], t))
    /\ ExtendPast(t, {})
    /\ barrierWaitMap' = [barrierWaitMap EXCEPT
                              ![b] = EnterBarrier(@, vectorClock'[t])]
    /\ Goto(t, "barrier")
    /\ UNCHANGED <<program, lockAddr, condVarAddr, joinVCMap, creation,
                   unlockedThreadMap, notifiedThreadMap, failed, mutexPast,
                   pend>>

\* External: pthread_barrier_wait counts the thread, and lets everyone through
\* when the count is complete.
BarrierArrive(t) ==
    LET b == barrierAddr[t]
        here == InBarrier(b, {"arrived"}) \cup {t}
    IN
    /\ At(t, {"barrier"})
    /\ IF Cardinality(here) = barrierWaitMap[b].barrierSize
       THEN /\ pc' = [u \in Threads |-> IF u \in here THEN "released"
                                                      ELSE pc[u]]
            /\ pend' = [u \in Threads |->
                            IF u \in here THEN UNION {past[v] : v \in here}
                                          ELSE pend[u]]
       ELSE Goto(t, "arrived") /\ UNCHANGED pend
    /\ UNCHANGED <<program, vectorClock, filters, addresses, joinVCMap,
                   creation, syncMaps, rdm, failed, past, mutexPast>>

AfterBarrierWait(t) ==
    /\ At(t, {"released"})
    /\ SetClock(t, receiveAction(vectorClock[t],
                        barrierWaitMap[barrierAddr[t]].previousVectorClock))
    /\ past' = [past EXCEPT ![t] = @ \cup pend[t]]
    /\ pend' = [pend EXCEPT ![t] = {}]
    /\ Goto(t, "run")
    /\ UNCHANGED <<program, filters, addresses, joinVCMap, creation,
                   syncMaps, rdm, failed, mutexPast>>

-----------------------------------------------------------------------------
Lifecycle(t) ==
    \/ ThreadStart(t)
    \/ CreateCall(t)
    \/ CreateTimeout(t)
    \/ CreatePublish(t)
    \/ CreateEpoch(t)
    \/ \E c \in Threads : JoinCall(t, c)
    \/ JoinReturn(t)
    \/ ThreadFini(t)

Access(t) == \E a \in Addrs : Read(t, a) \/ Write(t, a)

MutexStep(t) ==
    \/ \E m \in Mutexes, call \in {"lock", "trylock"} : BeforeLock(t, m, call)
    \/ AfterLock(t)
    \/ AfterFailedTryLock(t)
    \/ \E m \in Mutexes : BeforeUnlock(t, m)

CondStep(t) ==
    \/ \E cond \in Conds, m \in Mutexes : BeforeCondWait(t, cond, m)
    \/ CondSleep(t)
    \/ SpuriousWakeup(t)
    \/ AfterCondWait(t)
    \/ \E cond \in Conds : BeforeCondSignal(t, cond)
    \/ CondSignal(t)
    \/ BeforeCondBroadcast(t)

BarrierStep(t) ==
    \/ \E b \in Barriers, size \in BarrierSizes : BeforeBarrierInit(t, b, size)
    \/ \E b \in Barriers : BeforeBarrierWait(t, b)
    \/ BarrierArrive(t)
    \/ AfterBarrierWait(t)

Next ==
    \E t \in Threads : \/ Lifecycle(t) \/ Access(t) \/ MutexStep(t)
                       \/ CondStep(t) \/ BarrierStep(t)

Spec == Init /\ [][Next]_vars

-----------------------------------------------------------------------------
Running == {t \in Threads : pc[t] = "run"}

Entries(t) == {blockHistoryQueues[t][k] : k \in DOMAIN blockHistoryQueues[t]}

\* sig's epoch precedes other's in the instrumented program.
Precedes(sig, other) == <<sig.tid, sig.ts[sig.tid]>> \in other.past

Unordered(sig, other) == ~ Precedes(sig, other) /\ ~ Precedes(other, sig)

\* The epochs of thread u the race detection module may compare with an epoch
\* that is going on in another thread: those kept in u's queue, and u's own
\* epoch if it is going on too.
Comparable(u) ==
    Entries(u) \cup (IF u \in Running THEN {CurrentSig(u)} ELSE {})

\* No false order, and so no missed race: whatever operator< calls ordered is
\* ordered by the synchronisation of the program.
ConcurrencyIsSeen ==
    \A t \in Running : \A u \in Threads \ {t} :
        \A e \in Comparable(u) :
            /\ happensBefore(CurrentSig(t), e) => Precedes(CurrentSig(t), e)
            /\ happensBefore(e, CurrentSig(t)) => Precedes(e, CurrentSig(t))

\* No false race: epochs that the program's synchronisation orders are not
\* taken for concurrent ones.
OrderIsSeen ==
    \A t \in Running : \A u \in Threads \ {t} :
        \A e \in Comparable(u) :
            isConcurrent(CurrentSig(t), e) => Unordered(CurrentSig(t), e)

\* No thread's clock claims that an epoch of another thread is over before it
\* is: the component is at most one ahead, in the children of a thread that is
\* still inside pthread_create and in the threads that joined it.
NoFutureKnowledge ==
    \A t, u \in Threads : t # u =>
        vectorClock[t][u] <= vectorClock[u][u]
                             + (IF pc[u] \in {"create", "publish"}
                                   \/ u \in joined THEN 1 ELSE 0)

\* Leaving a queue at the first entry that is not concurrent skips no
\* concurrent entry, for an epoch that ends while its thread runs the program.
BreakIsSafe ==
    \A t \in Running : \A u \in Threads \ {t} :
        \A k, j \in DOMAIN blockHistoryQueues[u] :
            (k < j /\ ~ isConcurrent(CurrentSig(t), blockHistoryQueues[u][k]))
            => Precedes(blockHistoryQueues[u][j], CurrentSig(t))

\* The comment in addSignature, "rest is already HB this one": no entry behind
\* the one that ends the scan is unordered with the new epoch, for every epoch
\* that is handed to the module, those that end inside pthread_create included.
RestIsOrdered ==
    \A t \in Threads : pc[t] \in {"run", "publish"} =>
        \A u \in Threads \ {t} : \A k, j \in DOMAIN blockHistoryQueues[u] :
            (k < j /\ ~ isConcurrent(CurrentSig(t), blockHistoryQueues[u][k]))
            => ~ Unordered(blockHistoryQueues[u][j], CurrentSig(t))

\* The addresses two epochs access in conflict, by kind.
Clash(a, b, kind) ==
    CASE kind = "r-w" -> a.r \cap b.w
      [] kind = "w-r" -> a.w \cap b.r
      [] kind = "w-w" -> a.w \cap b.w

\* When two kept epochs of different threads conflict and nothing orders them,
\* a race of one of the two threads has been reported.
RaceIsReported ==
    \A t, u \in Threads : \A a \in Entries(t), b \in Entries(u) :
        (t # u /\ Unordered(a, b)
            /\ \E kind \in {"r-w", "w-r", "w-w"} : Clash(a, b, kind) # {})
        => \E r \in races : r.tid \in {t, u}

\* Where no epoch is evicted, every reported race is one: two unordered epochs
\* of the two threads conflict in the reported way.
ReportIsReal ==
    \A r \in races :
        \E a \in Entries(r.tid), b \in Entries(r.other) :
            Unordered(a, b) /\ Clash(a, b, r.kind) # {}

\* Accesses leave a thread's filters only into the module: when a filter is
\* emptied, the newest entry of the thread's queue holds what was in it.
NoAccessIsDropped ==
    [][\A t \in Threads :
        (\/ ~ readFilter[t] \subseteq readFilter'[t]
         \/ ~ writeFilter[t] \subseteq writeFilter'[t])
        => /\ blockHistoryQueues'[t] # <<>>
           /\ Head(blockHistoryQueues'[t]) = CurrentSig(t)]_vars

\* "it is safe to access the parent's vector clock here": from the moment a
\* thread exists until its ThreadStart, its parent's clock stands still.
ParentClockIsStable ==
    [][\A c \in Threads :
        (pc[c] = "spawned" /\ parent[c] # NO_ID)
        => vectorClock'[parent[c]] = vectorClock[parent[c]]]_vars

\* The handshake through lastCreatedThread gives every handle the id of the
\* thread it stands for, before pthread_create returns, and the race detection
\* module has a queue at the index of every thread that runs.
IdsMatch ==
    /\ \A c \in Threads : pthreadPinIdMap[c] \in {NO_ID, c}
    /\ \A c \in Threads : pc[c] \notin {"none", "spawned"} => c < threadCount
    /\ \A t \in Running : \A c \in 1 .. nextTid - 1 :
            parent[c] = t => pthreadPinIdMap[c] = c

\* In a program that joins its threads where they were created and stays below
\* the thread limit, no assertion of the tool fails: pthread_create and
\* pthread_join find the id and the final clock they look for.
NoAssertionFails == failed = "none"

\* A thread woken by a signal finds the signaller's entry: the lookup whose
\* result AfterCondWait checks against the wrong map does not miss.
NotifyEntryExists ==
    \A t \in Threads :
        (pc[t] = "wake" /\ pend[t] # {} /\ lockAddr[t] \in Tracked)
        => notifiedThreadMap[condVarAddr[t]].tid # NO_ID

\* AfterCondWait, "get the signalling thread and update my timestamp": a thread
\* whose clock has reached the one a notifier left is after the epochs that the
\* notifier had ended by then.
NotifierIsPast ==
    \A t \in Running, cond \in Conds :
        LET u == notifiedThreadMap[cond].tid
            left == notifiedThreadMap[cond].vectorClock
        IN (u \notin {t, NO_ID} /\ vectorClock[t][u] >= left[u])
           => \A e \in Entries(u) :
                e.ts[u] < left[u] => happensBefore(e, CurrentSig(t))

\* A barrier lets threads through only after the last of them has put its
\* clock in: a thread that was released finds the clocks of all it met there.
BarrierClockIsComplete ==
    \A t \in Threads : pc[t] = "released" =>
        \A e \in pend[t] :
            e[2] < barrierWaitMap[barrierAddr[t]].previousVectorClock[e[1]]

-----------------------------------------------------------------------------
\* Fairness: the operating system runs every thread that can run, so a handler
\* that has been entered is finished.  Nothing is assumed of the program: it
\* need not make any call.
FairSpec ==
    /\ Spec
    /\ \A t \in Threads :
        /\ WF_vars(ThreadStart(t))
        /\ WF_vars(CreatePublish(t))
        /\ WF_vars(CreateEpoch(t))
        /\ WF_vars(JoinReturn(t))

\* Every pthread_create returns, and with it the lock atomicCreate is free for
\* the next creator.
CreateReturns ==
    \A t \in Threads : pc[t] = "create" ~> (pc[t] = "run" /\ atomicCreate # t)

\* A join of a thread that exits returns.
JoinReturns ==
    \A t, c \in Threads :
        (pc[t] = "join" /\ thread[t] = c /\ pc[c] = "exited") ~> c \in joined
===============================================================================
