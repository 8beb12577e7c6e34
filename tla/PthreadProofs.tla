----------------------------- MODULE PthreadProofs -----------------------------
(***************************************************************************)
(* Proofs about PthreadInstrumentation, for every number of threads, every *)
(* program of the modelled kind and every bound.                           *)
(***************************************************************************)
EXTENDS PthreadInstrumentation, TLAPS

-----------------------------------------------------------------------------
\* Types of the operators of VectorClock and SigraceModules.

\* The clock operations return clocks.
LEMMA ClockOps ==
    ASSUME NEW v \in Clock, NEW w \in Clock, NEW t \in Threads, NEW u \in Threads
    PROVE  /\ ZeroClock \in Clock
           /\ FirstClock(t) \in Clock
           /\ ChildClock(v, u, t) \in Clock
           /\ advance(v, t) \in Clock
           /\ receiveAction(v, w) \in Clock
           /\ receiveWithIncrement(v, t, w, u) \in Clock
  <1>1. ZeroClock \in Clock
    BY DEF ZeroClock, Clock
  <1>2. FirstClock(t) \in Clock
    BY <1>1 DEF FirstClock, Clock
  <1>3. ChildClock(v, u, t) \in Clock
    BY DEF ChildClock, Clock
  <1>4. advance(v, t) \in Clock
    BY DEF advance, Clock
  <1>5. receiveAction(v, w) \in Clock
    BY DEF receiveAction, Clock
  <1>6. receiveWithIncrement(v, t, w, u) \in Clock
    BY <1>5 DEF receiveWithIncrement, Clock
  <1> QED
    BY <1>1, <1>2, <1>3, <1>4, <1>5, <1>6

\* Pushing a signature leaves a queue of signatures.
LEMMA PushFrontType ==
    ASSUME NEW q \in Seq(SigRaceData), NEW sig \in SigRaceData
    PROVE  pushFront(q, sig) \in Seq(SigRaceData)
  <1> DEFINE whole == <<sig>> \o q
  <1>1. whole \in Seq(SigRaceData) /\ Len(whole) = Len(q) + 1
    OBVIOUS
  <1>2. (IF Len(q) < BLOCK_HISTORY_QUEUE_SIZE
         THEN Len(q) + 1 ELSE BLOCK_HISTORY_QUEUE_SIZE) \in 0 .. Len(whole)
    BY <1>1, QueueSizeAssumption
  <1> HIDE DEF whole
  <1> QED
    BY <1>1, <1>2 DEF pushFront, whole

\* The scan reports races between two threads.
LEMMA ScanReportType ==
    ASSUME NEW queues, NEW sig \in SigRaceData
    PROVE  ScanReport(queues, sig) \subseteq Races
  <1> SUFFICES ASSUME NEW h \in Hits(queues, sig)
               PROVE  [tid |-> sig.tid, other |-> h[1],
                       kind |-> Conflict(sig, queues[h[1]][h[2]])] \in Races
    BY DEF ScanReport
  <1>1. h[1] \in Threads /\ Conflict(sig, queues[h[1]][h[2]]) # "none"
    BY DEF Hits
  <1>2. Conflict(sig, queues[h[1]][h[2]]) \in {"r-w", "w-r", "w-w"}
    BY <1>1 DEF Conflict
  <1>3. sig.tid \in Threads
    BY DEF SigRaceData
  <1> QED
    BY <1>1, <1>2, <1>3 DEF Races

-----------------------------------------------------------------------------
\* Types of the parts the actions are made of.

TypeInv == TypeOK /\ ArgumentsOK

\* The epoch going on in a thread is a signature.
LEMMA CurrentSigType ==
    ASSUME TypeOK, NEW t \in Threads
    PROVE  CurrentSig(t) \in SigRaceData
  BY DEF TypeOK, CurrentSig, SigRaceData

\* Handing an epoch over keeps the queues and the reports well typed.
LEMMA AddSignatureType ==
    ASSUME TypeOK, NEW t \in Threads, addSignature(t)
    PROVE  /\ blockHistoryQueues' \in [Threads -> Seq(SigRaceData)]
           /\ races' \subseteq Races
  <1>1. CurrentSig(t) \in SigRaceData
    BY CurrentSigType
  <1>2. blockHistoryQueues[t] \in Seq(SigRaceData)
    BY DEF TypeOK
  <1>3. pushFront(blockHistoryQueues[t], CurrentSig(t)) \in Seq(SigRaceData)
    BY <1>1, <1>2, PushFrontType
  <1>4. ScanReport(blockHistoryQueues, CurrentSig(t)) \subseteq Races
    BY <1>1, ScanReportType
  <1> QED
    BY <1>3, <1>4 DEF addSignature, TypeOK

\* Ending an epoch keeps module and filters well typed.
LEMMA EndEpochType ==
    ASSUME TypeOK, NEW t \in Threads, EndEpoch(t)
    PROVE  /\ blockHistoryQueues' \in [Threads -> Seq(SigRaceData)]
           /\ races' \subseteq Races
           /\ threadCount' \in Nat
           /\ readFilter' \in [Threads -> SUBSET Addrs]
           /\ writeFilter' \in [Threads -> SUBSET Addrs]
  BY AddSignatureType DEF EndEpoch, clearFilters, TypeOK

\* An epoch has a name, and extending a past gives a past.
LEMMA ExtendPastType ==
    ASSUME TypeOK, NEW t \in Threads, NEW received \in SUBSET Epochs
    PROVE  /\ Epoch(t) \in Epochs
           /\ ExtendPast(t, received) => past' \in [Threads -> SUBSET Epochs]
  <1>1. Epoch(t) \in Epochs
    BY DEF TypeOK, Epoch, Epochs, Clock
  <1>2. past[t] \cup {Epoch(t)} \cup received \in SUBSET Epochs
    BY <1>1 DEF TypeOK
  <1> QED
    BY <1>1, <1>2 DEF TypeOK, ExtendPast

-----------------------------------------------------------------------------
\* The inductive step of the type invariant, action by action.

\* Definitions that every step of the type proof unfolds.
USE DEF program, filters, addresses, creation, syncMaps, rdm, ghosts

\* The label most handlers end at.
LEMMA RunIsPc == "run" \in PcValues
  BY DEF PcValues

\* The handlers of creation, joining, start and end keep the types.
LEMMA LifecycleType ==
    ASSUME TypeInv, NEW t \in Threads, Lifecycle(t)
    PROVE  TypeInv'
  <1> USE DEF TypeInv, At, Goto, SetClock
  <1>1. CASE ThreadStart(t)
    <2>1. vectorClock' \in [Threads -> Clock]
      <3>1. FirstClock(t) \in Clock
        BY ClockOps DEF TypeOK
      <3>2. ASSUME parent[t] # NO_ID
            PROVE  ChildClock(vectorClock[parent[t]], parent[t], t) \in Clock
        <4>1. parent[t] \in Threads /\ vectorClock[parent[t]] \in Clock
          BY <3>2 DEF TypeOK, ThreadIds
        <4> QED BY <4>1, ClockOps
      <3> QED
        BY <1>1, <3>1, <3>2 DEF ThreadStart, TypeOK
    <2>2. past' \in [Threads -> SUBSET Epochs]
      <3>1. ASSUME parent[t] # NO_ID
            PROVE  past[parent[t]] \cup {Epoch(parent[t])} \in SUBSET Epochs
        BY <3>1, ExtendPastType DEF TypeOK, ThreadIds
      <3> QED
        BY <1>1, <3>1 DEF ThreadStart, TypeOK
    <2>3. TypeOK'
      <3>1. threadCount' \in Nat
        <4>1. threadCount \in Nat
          BY DEF TypeOK
        <4>2. threadCount' = threadCount + 1
          BY <1>1 DEF ThreadStart
        <4> QED BY <4>1, <4>2
      <3>2. lastCreatedThread' \in ThreadIds
        BY <1>1 DEF ThreadStart, TypeOK, ThreadIds
      <3>3. pc' \in [Threads -> PcValues]
        BY <1>1, RunIsPc DEF ThreadStart, TypeOK
      <3>4. failed' \in Failures
        BY <1>1 DEF ThreadStart, TypeOK, Failures
      <3> QED
        BY <1>1, <2>1, <2>2, <3>1, <3>2, <3>3, <3>4 DEF ThreadStart, TypeOK
    <2>4. ArgumentsOK'
      BY <1>1 DEF ThreadStart, TypeOK, ArgumentsOK
    <2> QED BY <2>3, <2>4
  <1>2. CASE CreateCall(t)
    <2>1. nextTid \in Threads /\ nextTid + 1 \in 1 .. MAX_THREAD_COUNT
      BY <1>2, InstanceAssumption, ThreadCountAssumption
      DEF CreateCall, Spawn, TypeOK, Threads
    <2>2. TypeOK'
      BY <1>2, <2>1 DEF CreateCall, Spawn, TypeOK, ThreadIds, PcValues
    <2>3. ArgumentsOK'
      BY <1>2, <2>1 DEF CreateCall, Spawn, TypeOK, ArgumentsOK
    <2> QED BY <2>2, <2>3
  <1>3. CASE CreateTimeout(t)
    BY <1>3 DEF CreateTimeout, TypeOK, ArgumentsOK, Failures
  <1>4. CASE CreatePublish(t)
    <2>1. TypeOK'
      BY <1>4 DEF CreatePublish, Publish, TypeOK, ThreadIds, PcValues
    <2>2. ArgumentsOK'
      BY <1>4 DEF CreatePublish, Publish, TypeOK, ArgumentsOK
    <2> QED BY <2>1, <2>2
  <1>5. CASE CreateEpoch(t)
    <2>1. vectorClock' \in [Threads -> Clock]
      BY <1>5, ClockOps DEF CreateEpoch, TypeOK
    <2>2. past' \in [Threads -> SUBSET Epochs]
      BY <1>5, ExtendPastType DEF CreateEpoch
    <2>3. TypeOK'
      BY <1>5, <2>1, <2>2, EndEpochType
      DEF CreateEpoch, TypeOK, ThreadIds, PcValues
    <2>4. ArgumentsOK'
      BY <1>5 DEF CreateEpoch, TypeOK, ArgumentsOK
    <2> QED BY <2>3, <2>4
  <1>6. ASSUME NEW c \in Threads, JoinCall(t, c)
        PROVE  TypeInv'
    <2>1. TypeOK'
      BY <1>6 DEF JoinCall, TypeOK, ThreadIds, PcValues
    <2>2. ArgumentsOK'
      BY <1>6 DEF JoinCall, TypeOK, ArgumentsOK
    <2> QED BY <2>1, <2>2
  <1>7. CASE JoinReturn(t)
    <2>1. thread[t] \in Threads
      BY <1>7 DEF JoinReturn, ArgumentsOK
    <2> DEFINE c == pthreadPinIdMap[thread[t]]
               found == c # NO_ID /\ joinVCMap[t][c] # ZeroClock
    <2>2. vectorClock' \in [Threads -> Clock]
      <3>1. ASSUME c # NO_ID
            PROVE  receiveWithIncrement(vectorClock[t], t, joinVCMap[t][c], c)
                   \in Clock
        <4>1. /\ c \in Threads /\ vectorClock[t] \in Clock
              /\ joinVCMap[t][c] \in Clock
          BY <2>1, <3>1 DEF TypeOK, ThreadIds
        <4> HIDE DEF c
        <4> QED BY <4>1, ClockOps
      <3> QED
        BY <1>7, <3>1 DEF JoinReturn, TypeOK
    <2>3. past' \in [Threads -> SUBSET Epochs]
      <3>1. past[thread[t]] \cup {Epoch(thread[t])} \in SUBSET Epochs
        BY <2>1, ExtendPastType DEF TypeOK
      <3> QED
        BY <1>7, <3>1, ExtendPastType DEF JoinReturn, TypeOK
    <2>4. TypeOK'
      <3>1. /\ joined' \subseteq Threads /\ thread' \in [Threads -> ThreadIds]
            /\ pc' \in [Threads -> PcValues] /\ failed' \in Failures
        <4>1. CASE found
          <5>1. joined' \subseteq Threads
            BY <1>7, <2>1, <4>1 DEF JoinReturn, TypeOK
          <5>2. thread' \in [Threads -> ThreadIds]
            BY <1>7, <4>1 DEF JoinReturn, TypeOK, ThreadIds
          <5>3. pc' \in [Threads -> PcValues]
            BY <1>7, <4>1, RunIsPc DEF JoinReturn, TypeOK
          <5>4. failed' \in Failures
            BY <1>7, <4>1 DEF JoinReturn, TypeOK
          <5> QED BY <5>1, <5>2, <5>3, <5>4
        <4>2. CASE ~ found
          BY <1>7, <4>2 DEF JoinReturn, TypeOK, Failures
        <4> QED BY <4>1, <4>2
      <3> QED
        BY <1>7, <2>2, <2>3, <3>1, EndEpochType DEF JoinReturn, TypeOK
    <2>5. ArgumentsOK'
      <3>1. CASE found
        BY <1>7, <3>1 DEF JoinReturn, TypeOK, ArgumentsOK
      <3>2. CASE ~ found
        BY <1>7, <3>2 DEF JoinReturn, TypeOK, ArgumentsOK
      <3> QED BY <3>1, <3>2
    <2> QED BY <2>4, <2>5
  <1>8. CASE ThreadFini(t)
    <2>1. joinVCMap' \in [Threads -> [Threads -> Clock]]
      <3>1. CASE parent[t] # NO_ID
        <4>1. parent[t] \in Threads
          BY <3>1 DEF TypeOK, ThreadIds
        <4>2. [joinVCMap[parent[t]] EXCEPT ![t] = vectorClock[t]]
              \in [Threads -> Clock]
          BY <4>1 DEF TypeOK
        <4>3. joinVCMap' = [joinVCMap EXCEPT ![parent[t]] =
                [joinVCMap[parent[t]] EXCEPT ![t] = vectorClock[t]]]
          BY <1>8, <3>1, <4>1 DEF ThreadFini, TypeOK
        <4> QED BY <4>1, <4>2, <4>3 DEF TypeOK
      <3>2. CASE parent[t] = NO_ID
        BY <1>8, <3>2 DEF ThreadFini, TypeOK
      <3> QED BY <3>1, <3>2
    <2>2. TypeOK'
      BY <1>8, <2>1, AddSignatureType DEF ThreadFini, TypeOK, PcValues
    <2>3. ArgumentsOK'
      BY <1>8 DEF ThreadFini, TypeOK, ArgumentsOK
    <2> QED BY <2>2, <2>3
  <1> QED
    BY <1>1, <1>2, <1>3, <1>4, <1>5, <1>6, <1>7, <1>8 DEF Lifecycle

\* Memory accesses keep the types.
LEMMA AccessType ==
    ASSUME TypeInv, NEW t \in Threads, Access(t)
    PROVE  TypeInv'
  <1>1. PICK a \in Addrs : Read(t, a) \/ Write(t, a)
    BY DEF Access
  <1>2. CASE Read(t, a)
    BY <1>2 DEF Read, TypeInv, TypeOK, ArgumentsOK
  <1>3. CASE Write(t, a)
    BY <1>3 DEF Write, TypeInv, TypeOK, ArgumentsOK
  <1> QED
    BY <1>1, <1>2, <1>3

\* A clock left with a mutex, and the ghost that goes with it, are well typed.
LEMMA LeaveClockType ==
    ASSUME TypeOK, NEW t \in Threads, NEW m \in Mutexes, LeaveClock(t, m)
    PROVE  /\ vectorClock' \in [Threads -> Clock]
           /\ past' \in [Threads -> SUBSET Epochs]
           /\ unlockedThreadMap' \in [Mutexes -> ThreadInfo]
           /\ mutexPast' \in [Mutexes -> SUBSET Epochs]
  <1>1. vectorClock' \in [Threads -> Clock]
    BY ClockOps DEF LeaveClock, SetClock, TypeOK
  <1>2. past' \in [Threads -> SUBSET Epochs]
    BY ExtendPastType DEF LeaveClock
  <1>3. unlockedThreadMap' \in [Mutexes -> ThreadInfo]
    BY <1>1 DEF LeaveClock, TypeOK, ThreadInfo, ThreadIds
  <1>4. mutexPast' \in [Mutexes -> SUBSET Epochs]
    BY <1>2 DEF LeaveClock, TypeOK
  <1> QED
    BY <1>1, <1>2, <1>3, <1>4

\* The handlers of mutexes keep the types.
LEMMA MutexStepType ==
    ASSUME TypeInv, NEW t \in Threads, MutexStep(t)
    PROVE  TypeInv'
  <1> USE DEF TypeInv, At, Goto, SetClock
  <1>1. ASSUME NEW m \in Mutexes, NEW call \in {"lock", "trylock"},
               BeforeLock(t, m, call)
        PROVE  TypeInv'
    <2>1. TypeOK'
      BY <1>1 DEF BeforeLock, TypeOK, PcValues
    <2>2. ArgumentsOK'
      BY <1>1 DEF BeforeLock, TypeOK, ArgumentsOK
    <2> QED BY <2>1, <2>2
  <1>2. CASE AfterLock(t)
    <2>1. lockAddr[t] \in Mutexes
      BY <1>2 DEF AfterLock, ArgumentsOK
    <2>2. CASE lockAddr[t] \in Tracked
      <3> DEFINE m == lockAddr[t]
                 received == receiveAction(advance(vectorClock[t], t),
                                           unlockedThreadMap[m].vectorClock)
      <3>1. vectorClock' \in [Threads -> Clock]
        <4>1. advance(vectorClock[t], t) \in Clock
          BY ClockOps DEF TypeOK
        <4>2. unlockedThreadMap[m].vectorClock \in Clock
          BY <2>1 DEF TypeOK, ThreadInfo
        <4>3. received \in Clock
          BY <4>1, <4>2, ClockOps
        <4> QED
          BY <1>2, <2>2, <4>1, <4>3 DEF AfterLock, TypeOK
      <3>2. past' \in [Threads -> SUBSET Epochs]
        BY <1>2, <2>1, <2>2, ExtendPastType DEF AfterLock, TypeOK
      <3>3. unlockedThreadMap' \in [Mutexes -> ThreadInfo]
        <4>1. [unlockedThreadMap[m] EXCEPT !.tid = NO_ID] \in ThreadInfo
          BY <2>1 DEF TypeOK, ThreadInfo, ThreadIds
        <4>2. unlockedThreadMap' = [unlockedThreadMap EXCEPT ![m] =
                                [unlockedThreadMap[m] EXCEPT !.tid = NO_ID]]
          BY <1>2, <2>2 DEF AfterLock
        <4> QED BY <4>1, <4>2 DEF TypeOK
      <3>4. /\ owner' \in [Mutexes -> ThreadIds]
            /\ pc' \in [Threads -> PcValues]
        BY <1>2, RunIsPc DEF AfterLock, TypeOK, ThreadIds
      <3>5. TypeOK'
        BY <1>2, <2>2, <3>1, <3>2, <3>3, <3>4, EndEpochType
        DEF AfterLock, TypeOK
      <3>6. ArgumentsOK'
        BY <1>2 DEF AfterLock, TypeOK, ArgumentsOK
      <3> QED BY <3>5, <3>6
    <2>3. CASE lockAddr[t] \notin Tracked
      <3>1. TypeOK'
        BY <1>2, <2>3, RunIsPc DEF AfterLock, TypeOK, ThreadIds
      <3>2. ArgumentsOK'
        BY <1>2 DEF AfterLock, TypeOK, ArgumentsOK
      <3> QED BY <3>1, <3>2
    <2> QED BY <2>2, <2>3
  <1>3. CASE AfterFailedTryLock(t)
    BY <1>3, RunIsPc DEF AfterFailedTryLock, TypeOK, ArgumentsOK
  <1>4. ASSUME NEW m \in Mutexes, BeforeUnlock(t, m)
        PROVE  TypeInv'
    <2>1. owner' \in [Mutexes -> ThreadIds]
      BY <1>4 DEF BeforeUnlock, TypeOK, ThreadIds
    <2>2. CASE m \in Tracked
      <3>1. LeaveClock(t, m)
        BY <1>4, <2>2 DEF BeforeUnlock
      <3>2. EndEpoch(t)
        BY <3>1 DEF LeaveClock
      <3>3. TypeOK'
        BY <1>4, <2>1, <3>1, <3>2, LeaveClockType, EndEpochType
        DEF BeforeUnlock, TypeOK
      <3>4. ArgumentsOK'
        BY <1>4 DEF BeforeUnlock, ArgumentsOK
      <3> QED BY <3>3, <3>4
    <2>3. CASE m \notin Tracked
      BY <1>4, <2>1, <2>3 DEF BeforeUnlock, TypeOK, ArgumentsOK
    <2> QED BY <2>2, <2>3
  <1> QED
    BY <1>1, <1>2, <1>3, <1>4 DEF MutexStep

\* The handlers of condition variables keep the types.
LEMMA CondStepType ==
    ASSUME TypeInv, NEW t \in Threads, CondStep(t)
    PROVE  TypeInv'
  <1> USE DEF TypeInv, At, Goto, SetClock
  <1>1. ASSUME NEW cond \in Conds, NEW m \in Mutexes, BeforeCondWait(t, cond, m)
        PROVE  TypeInv'
    <2>1. /\ pc' \in [Threads -> PcValues]
          /\ lockAddr' \in [Threads -> Mutexes \cup {NULL}]
          /\ condVarAddr' \in [Threads -> Conds \cup {NULL}]
      BY <1>1 DEF BeforeCondWait, TypeOK, PcValues
    <2>2. ArgumentsOK'
      BY <1>1 DEF BeforeCondWait, TypeOK, ArgumentsOK
    <2>3. CASE m \in Tracked
      <3>1. LeaveClock(t, m)
        BY <1>1, <2>3 DEF BeforeCondWait
      <3>2. EndEpoch(t)
        BY <3>1 DEF LeaveClock
      <3>3. TypeOK'
        BY <1>1, <2>1, <3>1, <3>2, LeaveClockType, EndEpochType
        DEF BeforeCondWait, TypeOK
      <3> QED BY <2>2, <3>3
    <2>4. CASE m \notin Tracked
      <3>1. TypeOK'
        BY <1>1, <2>1, <2>4 DEF BeforeCondWait, TypeOK
      <3> QED BY <2>2, <3>1
    <2> QED BY <2>3, <2>4
  <1>2. CASE CondSleep(t)
    <2>1. TypeOK'
      BY <1>2 DEF CondSleep, TypeOK, ThreadIds, PcValues
    <2>2. ArgumentsOK'
      BY <1>2 DEF CondSleep, TypeOK, ArgumentsOK
    <2> QED BY <2>1, <2>2
  <1>3. CASE SpuriousWakeup(t)
    <2>1. TypeOK'
      BY <1>3 DEF SpuriousWakeup, TypeOK, PcValues
    <2>2. ArgumentsOK'
      BY <1>3 DEF SpuriousWakeup, TypeOK, ArgumentsOK
    <2> QED BY <2>1, <2>2
  <1>4. CASE AfterCondWait(t)
    <2>1. lockAddr[t] \in Mutexes /\ condVarAddr[t] \in Conds
      BY <1>4 DEF AfterCondWait, ArgumentsOK
    <2> DEFINE entry == notifiedThreadMap[condVarAddr[t]]
    <2>2. /\ owner' \in [Mutexes -> ThreadIds]
          /\ pend' \in [Threads -> SUBSET Epochs]
      BY <1>4 DEF AfterCondWait, TypeOK, ThreadIds
    <2>3. CASE lockAddr[t] \in Tracked /\ entry.tid # NO_ID
      <3>1. vectorClock' \in [Threads -> Clock]
        <4>1. vectorClock[t] \in Clock /\ entry.vectorClock \in Clock
          BY <2>1 DEF TypeOK, ThreadInfo
        <4>2. receiveAction(vectorClock[t], entry.vectorClock) \in Clock
          BY <4>1, ClockOps
        <4> QED
          BY <1>4, <2>3, <4>2 DEF AfterCondWait, TypeOK
      <3>2. past' \in [Threads -> SUBSET Epochs]
        <4>1. past[t] \cup pend[t] \cup mutexPast[lockAddr[t]] \in SUBSET Epochs
          BY <2>1 DEF TypeOK
        <4>2. past' = [past EXCEPT ![t] =
                         past[t] \cup pend[t] \cup mutexPast[lockAddr[t]]]
          BY <1>4, <2>3 DEF AfterCondWait
        <4> QED
          BY <4>1, <4>2 DEF TypeOK
      <3>3. /\ readFilter' \in [Threads -> SUBSET Addrs]
            /\ writeFilter' \in [Threads -> SUBSET Addrs]
        BY <1>4, <2>3 DEF AfterCondWait, TypeOK, clearFilters
      <3>4. TypeOK'
        BY <1>4, <2>2, <2>3, <3>1, <3>2, <3>3, RunIsPc DEF AfterCondWait, TypeOK
      <3>5. ArgumentsOK'
        BY <1>4, <2>3 DEF AfterCondWait, TypeOK, ArgumentsOK
      <3> QED BY <3>4, <3>5
    <2>4. CASE lockAddr[t] \in Tracked /\ entry.tid = NO_ID
      <3>1. TypeOK'
        BY <1>4, <2>2, <2>4 DEF AfterCondWait, TypeOK, Failures
      <3>2. ArgumentsOK'
        BY <1>4, <2>4 DEF AfterCondWait, ArgumentsOK
      <3> QED BY <3>1, <3>2
    <2>5. CASE lockAddr[t] \notin Tracked
      <3>1. TypeOK'
        BY <1>4, <2>2, <2>5, RunIsPc DEF AfterCondWait, TypeOK
      <3>2. ArgumentsOK'
        BY <1>4, <2>5 DEF AfterCondWait, TypeOK, ArgumentsOK
      <3> QED BY <3>1, <3>2
    <2> QED BY <2>3, <2>4, <2>5
  <1>5. ASSUME NEW cond \in Conds, BeforeCondSignal(t, cond)
        PROVE  TypeInv'
    <2>1. /\ pc' \in [Threads -> PcValues]
          /\ signalled' \in [Threads -> Conds \cup {NULL}]
      BY <1>5 DEF BeforeCondSignal, Notify, TypeOK, PcValues
    <2>2. ArgumentsOK'
      BY <1>5 DEF BeforeCondSignal, Notify, TypeOK, ArgumentsOK
    <2>3. CASE cond \in Tracked
      <3>1. vectorClock' \in [Threads -> Clock]
        <4>1. advance(vectorClock[t], t) \in Clock
          BY ClockOps DEF TypeOK
        <4>2. vectorClock' =
                [vectorClock EXCEPT ![t] = advance(vectorClock[t], t)]
          BY <1>5, <2>3 DEF BeforeCondSignal, Notify
        <4> QED BY <4>1, <4>2 DEF TypeOK
      <3>2. past' \in [Threads -> SUBSET Epochs]
        BY <1>5, <2>3, ExtendPastType DEF BeforeCondSignal, Notify
      <3>3. notifiedThreadMap' \in [Conds -> ThreadInfo]
        <4>1. [tid |-> t, vectorClock |-> vectorClock'[t]] \in ThreadInfo
          BY <3>1 DEF ThreadInfo, ThreadIds
        <4>2. notifiedThreadMap' = [notifiedThreadMap EXCEPT
                ![cond] = [tid |-> t, vectorClock |-> vectorClock'[t]]]
          BY <1>5, <2>3 DEF BeforeCondSignal, Notify
        <4> QED BY <4>1, <4>2 DEF TypeOK
      <3>4. TypeOK'
        BY <1>5, <2>1, <2>3, <3>1, <3>2, <3>3, EndEpochType
        DEF BeforeCondSignal, Notify, TypeOK
      <3> QED BY <2>2, <3>4
    <2>4. CASE cond \notin Tracked
      <3>1. TypeOK'
        BY <1>5, <2>1, <2>4 DEF BeforeCondSignal, Notify, TypeOK
      <3> QED BY <2>2, <3>1
    <2> QED BY <2>3, <2>4
  <1>6. CASE CondSignal(t)
    <2>1. /\ pc' \in [Threads -> PcValues]
          /\ pend' \in [Threads -> SUBSET Epochs]
          /\ \A u \in Threads : pc'[u] \in {"run", "wake"} \/ pc'[u] = pc[u]
          /\ \A u \in Threads : pc'[u] = "wake" => pc[u] \in {"asleep", "wake"}
      <3>1. CASE Sleepers(signalled[t]) = {}
        BY <1>6, <3>1, RunIsPc DEF CondSignal, TypeOK
      <3>2. CASE Sleepers(signalled[t]) # {}
        <4>1. PICK u \in Threads :
                /\ pc[u] = "asleep"
                /\ pc' = [pc EXCEPT ![t] = "run", ![u] = "wake"]
                /\ pend' = [pend EXCEPT ![u] = past[t]]
          BY <1>6, <3>2 DEF CondSignal, Sleepers
        <4>2. "run" \in PcValues /\ "wake" \in PcValues
          BY DEF PcValues
        <4> QED
          BY <4>1, <4>2 DEF TypeOK
      <3> QED BY <3>1, <3>2
    <2>2. /\ signalled' \in [Threads -> Conds \cup {NULL}]
          /\ pc'[t] # "signal"
          /\ \A u \in Threads : u # t => signalled'[u] = signalled[u]
      <3>1. pc[t] = "signal"
        BY <1>6 DEF CondSignal
      <3>2. pc'[t] = "run"
        BY <1>6, <3>1 DEF CondSignal, TypeOK, Sleepers
      <3> QED
        BY <1>6, <3>2 DEF CondSignal, TypeOK
    <2>3. TypeOK'
      BY <1>6, <2>1, <2>2 DEF CondSignal, TypeOK
    <2>4. ArgumentsOK'
      BY <1>6, <2>1, <2>2 DEF CondSignal, TypeOK, ArgumentsOK
    <2> QED BY <2>3, <2>4
  <1>7. CASE BeforeCondBroadcast(t)
    BY <1>7 DEF BeforeCondBroadcast, TypeOK, ArgumentsOK, Failures
  <1> QED
    BY <1>1, <1>2, <1>3, <1>4, <1>5, <1>6, <1>7 DEF CondStep

\* A barrier's data stays well typed when a thread enters.
LEMMA EnterBarrierType ==
    ASSUME NEW data \in BarrierData, NEW vc \in Clock
    PROVE  EnterBarrier(data, vc) \in BarrierData
  <1>1. /\ data.vectorClock \in Clock /\ data.previousVectorClock \in Clock
        /\ data.barrierSize \in Nat /\ data.waiterCount \in Nat
    BY DEF BarrierData
  <1>2. receiveAction(data.vectorClock, vc) \in Clock /\ ZeroClock \in Clock
    BY <1>1, ClockOps DEF receiveAction, ZeroClock, Clock
  <1>3. data.waiterCount + 1 \in Nat /\ 0 \in Nat
    BY <1>1
  <1> QED
    BY <1>1, <1>2, <1>3 DEF EnterBarrier, BarrierData

\* The handlers of barriers keep the types.
LEMMA BarrierStepType ==
    ASSUME TypeInv, NEW t \in Threads, BarrierStep(t)
    PROVE  TypeInv'
  <1> USE DEF TypeInv, At, Goto, SetClock
  <1>1. ASSUME NEW b \in Barriers, NEW size \in BarrierSizes,
               BeforeBarrierInit(t, b, size)
        PROVE  TypeInv'
    <2>1. NewBarrierData(size) \in BarrierData
      BY InstanceAssumption, ZeroClock \in Clock
      DEF NewBarrierData, BarrierData, ZeroClock, Clock
    <2> QED
      BY <1>1, <2>1 DEF BeforeBarrierInit, TypeOK, ArgumentsOK
  <1>2. ASSUME NEW b \in Barriers, BeforeBarrierWait(t, b)
        PROVE  TypeInv'
    <2>1. vectorClock' \in [Threads -> Clock]
      BY <1>2, ClockOps DEF BeforeBarrierWait, TypeOK
    <2>2. past' \in [Threads -> SUBSET Epochs]
      BY <1>2, ExtendPastType DEF BeforeBarrierWait
    <2>3. /\ pc' \in [Threads -> PcValues]
          /\ barrierAddr' \in [Threads -> Barriers \cup {NULL}]
      BY <1>2 DEF BeforeBarrierWait, TypeOK, PcValues
    <2>4. barrierWaitMap' \in [Barriers -> BarrierData]
      <3>1. barrierWaitMap[b] \in BarrierData /\ vectorClock'[t] \in Clock
        BY <2>1 DEF TypeOK
      <3>2. EnterBarrier(barrierWaitMap[b], vectorClock'[t]) \in BarrierData
        BY <3>1, EnterBarrierType
      <3> QED
        BY <1>2, <3>2 DEF BeforeBarrierWait, TypeOK
    <2>5. TypeOK'
      BY <1>2, <2>1, <2>2, <2>3, <2>4, EndEpochType
      DEF BeforeBarrierWait, TypeOK
    <2>6. ArgumentsOK'
      BY <1>2 DEF BeforeBarrierWait, TypeOK, ArgumentsOK
    <2> QED BY <2>5, <2>6
  <1>3. CASE BarrierArrive(t)
    <2> DEFINE here == InBarrier(barrierAddr[t], {"arrived"}) \cup {t}
    <2>1. \A u \in here :
            u \in Threads /\ pc[u] \in {"barrier", "arrived"}
      BY <1>3 DEF BarrierArrive, InBarrier
    <2>2. "released" \in PcValues /\ "arrived" \in PcValues
      BY DEF PcValues
    <2>3. UNION {past[v] : v \in here} \in SUBSET Epochs
      BY <2>1 DEF TypeOK
    <2> HIDE DEF here
    <2>4. \/ /\ pc' = [u \in Threads |-> IF u \in here THEN "released"
                                                        ELSE pc[u]]
             /\ pend' = [u \in Threads |->
                            IF u \in here THEN UNION {past[v] : v \in here}
                                          ELSE pend[u]]
          \/ pc' = [pc EXCEPT ![t] = "arrived"] /\ pend' = pend
      BY <1>3 DEF BarrierArrive, here
    <2>5. pc' \in [Threads -> PcValues] /\ pend' \in [Threads -> SUBSET Epochs]
      BY <2>2, <2>3, <2>4 DEF TypeOK
    <2>6. TypeOK'
      BY <1>3, <2>5 DEF BarrierArrive, TypeOK
    <2>7. \A u \in Threads :
            \/ pc'[u] = pc[u]
            \/ /\ pc[u] \in {"barrier", "arrived"}
               /\ pc'[u] \in {"released", "arrived"}
      <3>1. pc[t] = "barrier"
        BY <1>3 DEF BarrierArrive
      <3> QED
        BY <2>1, <2>4, <3>1 DEF TypeOK
    <2>8. ArgumentsOK'
      BY <1>3, <2>7 DEF BarrierArrive, ArgumentsOK
    <2> QED BY <2>6, <2>8
  <1>4. CASE AfterBarrierWait(t)
    <2>1. barrierAddr[t] \in Barriers
      BY <1>4 DEF AfterBarrierWait, ArgumentsOK
    <2>2. vectorClock' \in [Threads -> Clock]
      <3>1. /\ vectorClock[t] \in Clock
            /\ barrierWaitMap[barrierAddr[t]].previousVectorClock \in Clock
        BY <2>1 DEF TypeOK, BarrierData
      <3>2. receiveAction(vectorClock[t],
                barrierWaitMap[barrierAddr[t]].previousVectorClock) \in Clock
        BY <3>1, ClockOps
      <3> QED
        BY <1>4, <3>2 DEF AfterBarrierWait, TypeOK
    <2>3. TypeOK'
      BY <1>4, <2>2, RunIsPc DEF AfterBarrierWait, TypeOK
    <2>4. ArgumentsOK'
      BY <1>4 DEF AfterBarrierWait, TypeOK, ArgumentsOK
    <2> QED BY <2>3, <2>4
  <1> QED
    BY <1>1, <1>2, <1>3, <1>4 DEF BarrierStep

-----------------------------------------------------------------------------
\* Every variable of the tool keeps its type, and every pthread call that a
\* thread is in has its arguments, whatever the program does.
THEOREM TypeCorrect == Spec => []TypeInv
  <1>1. Init => TypeInv
    <2> SUFFICES ASSUME Init PROVE TypeInv
      OBVIOUS
    <2>1. ZeroClock \in Clock /\ NoThreadInfo \in ThreadInfo
      BY DEF ZeroClock, Clock, NoThreadInfo, ThreadInfo, ThreadIds
    <2>2. NewBarrierData(0) \in BarrierData
      BY <2>1 DEF NewBarrierData, BarrierData
    <2>3. TypeOK
      BY <2>1, <2>2, ThreadCountAssumption
      DEF Init, TypeOK, ThreadIds, PcValues, Failures
    <2>4. ArgumentsOK
      BY DEF Init, ArgumentsOK
    <2> QED BY <2>3, <2>4 DEF TypeInv
  <1>2. TypeInv /\ [Next]_vars => TypeInv'
    <2> SUFFICES ASSUME TypeInv, [Next]_vars PROVE TypeInv'
      OBVIOUS
    <2>1. CASE Next
      BY <2>1, LifecycleType, AccessType, MutexStepType, CondStepType,
         BarrierStepType DEF Next
    <2>2. CASE UNCHANGED vars
      BY <2>2 DEF vars, TypeInv, TypeOK, ArgumentsOK
    <2> QED BY <2>1, <2>2
  <1> QED
    BY <1>1, <1>2, PTL DEF Spec

\* The type invariant the runs check.
COROLLARY TypesHold == Spec => []TypeOK
  BY TypeCorrect, PTL DEF TypeInv

-----------------------------------------------------------------------------
(***************************************************************************)
(* The handshake of pthread_create and pthread_join: ids, the parent's     *)
(* clock, and the assertions of the two replacements.                      *)
(***************************************************************************)

\* The inductive invariant, in named parts.

Newest == nextTid - 1

Creating == {"create", "publish"}

\* Ids are given out in order; every thread but the first has a creator.
FamilyInv ==
    /\ nextTid <= MaxThreads
    /\ parent[0] = NO_ID
    /\ \A c \in Threads :
        /\ pc[c] = "none" <=> c > Newest
        /\ (0 < c /\ c <= Newest) => parent[c] \in Threads

\* atomicCreate is held by the thread that is inside pthread_create, and by no
\* other; the thread it makes is the newest one.
LockInv ==
    \A t \in Threads :
        /\ pc[t] \in Creating <=> atomicCreate = t
        /\ pc[t] \in Creating => thread[t] = Newest /\ parent[Newest] = t

\* Only the newest thread can still be on its way to ThreadStart; its creator
\* polls until it has been there, and lastCreatedThread is set in between.
HandshakeInv ==
    /\ \A c \in Threads : (pc[c] = "spawned" /\ c # 0) =>
        c = Newest /\ pc[parent[c]] = "create" /\ lastCreatedThread = NO_ID
    /\ pc[0] = "spawned" => Newest = 0
    /\ lastCreatedThread # NO_ID =>
        /\ lastCreatedThread = Newest /\ Newest # 0
        /\ pc[Newest] # "spawned" /\ pc[parent[Newest]] = "create"

\* A handle is known as soon as its creator is out of the polling loop.
HandleInv ==
    \A c \in Threads :
        /\ pthreadPinIdMap[c] \in {NO_ID, c}
        /\ (0 < c /\ c <= Newest /\ (c = Newest => pc[parent[c]] # "create"))
           => pthreadPinIdMap[c] = c

\* threadCount counts the threads that have been in ThreadStart.
CountInv ==
    threadCount = (IF pc[Newest] = "spawned" THEN Newest ELSE nextTid)
                  + (IF failed = "too many threads" THEN 1 ELSE 0)

\* A thread that was started has a clock, and leaves one for its creator.
FinalClockInv ==
    \A c \in Threads :
        /\ pc[c] \notin {"none", "spawned"} => vectorClock[c][c] > 0
        /\ (pc[c] = "exited" /\ c # 0) => joinVCMap[parent[c]][c][c] > 0

CreationInv ==
    /\ FamilyInv /\ LockInv /\ HandshakeInv /\ HandleInv /\ CountInv
    /\ FinalClockInv

-----------------------------------------------------------------------------
\* Steps that are not about creation: calls of a running thread in which it
\* and others move between labels of their own, and clocks only grow.

Elsewhere ==
    {"run", "join", "lock", "trylock", "condwait", "asleep", "wake",
     "signal", "barrier", "arrived", "released"}

QuietStep ==
    /\ UNCHANGED <<parent, nextTid, joinVCMap, creation, threadCount>>
    /\ \A u \in Threads :
        /\ pc'[u] = pc[u] \/ (pc[u] \in Elsewhere /\ pc'[u] \in Elsewhere)
        /\ thread'[u] = thread[u] \/ pc'[u] \in Elsewhere
        /\ vectorClock'[u][u] >= vectorClock[u][u]
    /\ failed # "too many threads" /\ failed' # "too many threads"

\* The components that QuietPreserves and the creation steps argue about.
LEMMA Basics ==
    ASSUME TypeOK, FamilyInv
    PROVE  /\ 0 \in Threads /\ Newest \in Threads /\ Newest \in Nat
           /\ \A c \in Threads : c \in Nat
           /\ \A c \in Threads : (0 < c /\ c <= Newest) => parent[c] \in Threads
           /\ Newest # 0 => parent[Newest] \in Threads
           /\ \A c \in Threads : vectorClock[c][c] \in Nat
  <1>1. nextTid \in 1 .. MAX_THREAD_COUNT
    BY DEF TypeOK
  <1>2. /\ 0 \in Threads /\ Newest \in Threads /\ Newest \in Nat
        /\ \A c \in Threads : c \in Nat
    BY <1>1, ThreadCountAssumption DEF Newest, Threads
  <1>3. \A c \in Threads : (0 < c /\ c <= Newest) => parent[c] \in Threads
    BY DEF FamilyInv
  <1>4. vectorClock \in [Threads -> Clock]
    BY DEF TypeOK
  <1>5. \A c \in Threads : vectorClock[c][c] \in Nat
    BY <1>4 DEF Clock
  <1>6. ASSUME Newest # 0 PROVE parent[Newest] \in Threads
    <2>1. 0 < Newest /\ Newest <= Newest
      BY <1>2, <1>6 DEF Threads
    <2> QED BY <1>2, <1>3, <2>1
  <1> QED BY <1>2, <1>3, <1>5, <1>6

\* A quiet step leaves the handshake alone.
LEMMA QuietPreserves ==
    ASSUME TypeOK, TypeOK', CreationInv, QuietStep
    PROVE  CreationInv'
  <1>1. \A u \in Threads :
          /\ pc'[u] = "none" <=> pc[u] = "none"
          /\ pc'[u] = "spawned" <=> pc[u] = "spawned"
          /\ pc'[u] = "create" <=> pc[u] = "create"
          /\ pc'[u] = "publish" <=> pc[u] = "publish"
          /\ pc'[u] = "exited" <=> pc[u] = "exited"
    BY DEF QuietStep, Elsewhere
  <1>2. /\ parent' = parent /\ nextTid' = nextTid
        /\ joinVCMap' = joinVCMap /\ atomicCreate' = atomicCreate
        /\ lastCreatedThread' = lastCreatedThread
        /\ pthreadPinIdMap' = pthreadPinIdMap /\ threadCount' = threadCount
        /\ failed # "too many threads" /\ failed' # "too many threads"
    BY DEF QuietStep, creation
  <1>3. Newest' = Newest
    BY <1>2 DEF Newest
  <1>4. FamilyInv /\ FamilyInv'
    BY <1>1, <1>2, <1>3 DEF CreationInv, FamilyInv
  <1>5. LockInv'
    <2>1. \A u \in Threads : pc'[u] \in Creating => thread'[u] = thread[u]
      BY DEF QuietStep, Elsewhere, Creating
    <2> QED BY <1>1, <1>2, <1>3, <2>1 DEF CreationInv, LockInv, Creating
  <1>6. HandshakeInv'
    <2>1. \A c \in Threads : (pc[c] = "spawned" /\ c # 0) =>
              c = Newest /\ pc[parent[c]] = "create" /\ lastCreatedThread = NO_ID
      BY DEF CreationInv, HandshakeInv
    <2>2. \A c \in Threads : (pc'[c] = "spawned" /\ c # 0) =>
              c = Newest /\ pc'[parent[c]] = "create" /\ lastCreatedThread = NO_ID
      BY <1>1, <1>4, <2>1, Basics
    <2> QED
      BY <1>1, <1>2, <1>3, <1>4, <2>2, Basics DEF CreationInv, HandshakeInv
  <1>7. HandleInv'
    BY <1>1, <1>2, <1>3, <1>4, Basics DEF CreationInv, HandleInv
  <1>8. CountInv'
    BY <1>1, <1>2, <1>3, <1>4, Basics DEF CreationInv, CountInv
  <1>9. FinalClockInv'
    <2>1. \A c \in Threads : /\ vectorClock[c][c] \in Nat
                             /\ vectorClock'[c][c] \in Nat
                             /\ vectorClock'[c][c] >= vectorClock[c][c]
      <3>1. \A c \in Threads : vectorClock'[c][c] >= vectorClock[c][c]
        BY DEF QuietStep
      <3>2. vectorClock' \in [Threads -> Clock]
        BY DEF TypeOK
      <3> QED BY <1>4, <3>1, <3>2, Basics DEF Clock
    <2>2. ASSUME NEW c \in Threads
          PROVE  /\ pc'[c] \notin {"none", "spawned"} => vectorClock'[c][c] > 0
                 /\ (pc'[c] = "exited" /\ c # 0) => joinVCMap[parent[c]][c][c] > 0
      BY <1>1, <2>1 DEF CreationInv, FinalClockInv
    <2> QED BY <1>2, <2>2 DEF FinalClockInv
  <1> QED BY <1>4, <1>5, <1>6, <1>7, <1>8, <1>9 DEF CreationInv

\* No clock operation lowers the owner's component.
LEMMA AdvanceGrows ==
    ASSUME NEW v \in Clock, NEW t \in Threads
    PROVE  /\ advance(v, t) \in Clock
           /\ advance(v, t)[t] = v[t] + 1
           /\ advance(v, t)[t] >= v[t]
  BY DEF advance, Clock

\* Receiving a clock lowers no component.
LEMMA ReceiveGrows ==
    ASSUME NEW v \in Clock, NEW w \in Clock, NEW t \in Threads
    PROVE  /\ receiveAction(v, w) \in Clock
           /\ receiveAction(v, w)[t] >= v[t]
  BY DEF receiveAction, Clock

\* Nor does the receive of a join.
LEMMA JoinGrows ==
    ASSUME NEW v \in Clock, NEW w \in Clock, NEW t \in Threads, NEW u \in Threads
    PROVE  /\ receiveWithIncrement(v, t, w, u) \in Clock
           /\ receiveWithIncrement(v, t, w, u)[t] >= v[t]
  <1>1. /\ receiveAction(v, w) \in Clock /\ receiveAction(v, w)[t] >= v[t]
        /\ receiveAction(v, w)[t] \in Nat /\ v[t] \in Nat
    BY ReceiveGrows DEF Clock
  <1>2. receiveWithIncrement(v, t, w, u)[t] = receiveAction(v, w)[t] + 1
    BY DEF receiveWithIncrement
  <1> QED BY <1>1, <1>2, ClockOps

\* Replacing a thread's clock by one whose own component is not smaller.
LEMMA SetClockGrows ==
    ASSUME TypeOK, NEW t \in Threads, NEW v \in Clock, v[t] >= vectorClock[t][t],
           SetClock(t, v)
    PROVE  \A u \in Threads : vectorClock'[u][u] >= vectorClock[u][u]
  <1>1. vectorClock \in [Threads -> Clock]
    BY DEF TypeOK
  <1>2. \A u \in Threads : vectorClock[u][u] \in Nat
    BY <1>1 DEF Clock
  <1>3. vectorClock' = [vectorClock EXCEPT ![t] = v]
    BY DEF SetClock
  <1> QED BY <1>1, <1>2, <1>3

\* The same when no clock changes.
LEMMA KeptClockGrows ==
    ASSUME TypeOK, UNCHANGED vectorClock
    PROVE  \A u \in Threads : vectorClock'[u][u] >= vectorClock[u][u]
  <1>1. \A u \in Threads : vectorClock[u][u] \in Nat
    BY DEF TypeOK, Clock
  <1> QED BY <1>1

\* Memory accesses are quiet.
LEMMA AccessQuiet ==
    ASSUME TypeInv, NEW t \in Threads, Access(t)
    PROVE  QuietStep
  <1>1. PICK a \in Addrs : Read(t, a) \/ Write(t, a)
    BY DEF Access
  <1>2. /\ UNCHANGED <<thread, parent, nextTid, joinVCMap, creation, threadCount>>
        /\ UNCHANGED <<pc, vectorClock, failed>> /\ failed = "none"
    BY <1>1 DEF Read, Write, At, program, rdm
  <1> QED BY <1>2, KeptClockGrows DEF QuietStep, TypeInv

\* The handlers of mutexes are quiet.
LEMMA MutexQuiet ==
    ASSUME TypeInv, NEW t \in Threads, MutexStep(t)
    PROVE  QuietStep
  <1> USE DEF At, Goto
  <1>0. TypeOK /\ pc \in [Threads -> PcValues] /\ vectorClock[t] \in Clock
    BY DEF TypeInv, TypeOK
  <1>1. ASSUME NEW m \in Mutexes, NEW call \in {"lock", "trylock"},
               BeforeLock(t, m, call)
        PROVE  QuietStep
    <2>1. /\ UNCHANGED <<thread, parent, nextTid, joinVCMap, creation, threadCount>>
          /\ UNCHANGED <<vectorClock, failed>> /\ failed = "none"
      BY <1>1 DEF BeforeLock, program, rdm
    <2>2. \A u \in Threads :
            pc'[u] = pc[u] \/ (pc[u] \in Elsewhere /\ pc'[u] \in Elsewhere)
      BY <1>0, <1>1 DEF BeforeLock, Elsewhere
    <2> QED BY <1>0, <2>1, <2>2, KeptClockGrows DEF QuietStep
  <1>2. CASE AfterLock(t)
    <2>1. /\ UNCHANGED <<thread, parent, nextTid, joinVCMap, creation, threadCount>>
          /\ UNCHANGED failed /\ failed = "none"
      BY <1>2 DEF AfterLock, EndEpoch, rdm
    <2>2. \A u \in Threads :
            pc'[u] = pc[u] \/ (pc[u] \in Elsewhere /\ pc'[u] \in Elsewhere)
      BY <1>0, <1>2 DEF AfterLock, Elsewhere
    <2>3. CASE lockAddr[t] \in Tracked
      <3> DEFINE v == IF unlockedThreadMap[lockAddr[t]].tid # NO_ID
                      THEN receiveAction(advance(vectorClock[t], t),
                                    unlockedThreadMap[lockAddr[t]].vectorClock)
                      ELSE advance(vectorClock[t], t)
      <3>1. lockAddr[t] \in Mutexes
        BY <1>2 DEF AfterLock, TypeInv, ArgumentsOK
      <3>2. unlockedThreadMap[lockAddr[t]].vectorClock \in Clock
        BY <3>1 DEF TypeInv, TypeOK, ThreadInfo
      <3>3. v \in Clock /\ v[t] >= vectorClock[t][t]
        <4> DEFINE w == advance(vectorClock[t], t)
                   x == receiveAction(w, unlockedThreadMap[lockAddr[t]].vectorClock)
        <4>1. w \in Clock /\ w[t] >= vectorClock[t][t]
          BY <1>0, AdvanceGrows
        <4>2. x \in Clock /\ x[t] >= w[t]
          BY <3>2, <4>1, ReceiveGrows
        <4>3. vectorClock[t][t] \in Nat /\ w[t] \in Nat /\ x[t] \in Nat
          BY <1>0, <4>1, <4>2 DEF Clock
        <4>4. v = x \/ v = w
          OBVIOUS
        <4> HIDE DEF v, w, x
        <4> QED BY <4>1, <4>2, <4>3, <4>4
      <3>4. SetClock(t, v)
        BY <1>2, <2>3 DEF AfterLock
      <3> HIDE DEF v
      <3> QED BY <1>0, <2>1, <2>2, <3>3, <3>4, SetClockGrows DEF QuietStep
    <2>4. CASE lockAddr[t] \notin Tracked
      <3>1. UNCHANGED vectorClock
        BY <1>2, <2>4 DEF AfterLock
      <3> QED BY <1>0, <2>1, <2>2, <3>1, KeptClockGrows DEF QuietStep
    <2> QED BY <2>3, <2>4
  <1>3. CASE AfterFailedTryLock(t)
    <2>1. /\ UNCHANGED <<thread, parent, nextTid, joinVCMap, creation, threadCount>>
          /\ UNCHANGED <<vectorClock, failed>> /\ failed = "none"
      BY <1>3 DEF AfterFailedTryLock, program, rdm
    <2>2. \A u \in Threads :
            pc'[u] = pc[u] \/ (pc[u] \in Elsewhere /\ pc'[u] \in Elsewhere)
      BY <1>0, <1>3 DEF AfterFailedTryLock, Elsewhere
    <2> QED BY <1>0, <2>1, <2>2, KeptClockGrows DEF QuietStep
  <1>4. ASSUME NEW m \in Mutexes, BeforeUnlock(t, m)
        PROVE  QuietStep
    <2>1. /\ UNCHANGED <<thread, parent, nextTid, joinVCMap, creation, threadCount>>
          /\ UNCHANGED <<pc, failed>> /\ failed = "none"
      BY <1>4 DEF BeforeUnlock, LeaveClock, EndEpoch, rdm
    <2>2. \A u \in Threads : vectorClock'[u][u] >= vectorClock[u][u]
      <3>1. CASE m \in Tracked
        <4>1. SetClock(t, advance(vectorClock[t], t))
          BY <1>4, <3>1 DEF BeforeUnlock, LeaveClock
        <4>2. /\ advance(vectorClock[t], t) \in Clock
              /\ advance(vectorClock[t], t)[t] >= vectorClock[t][t]
          BY <1>0, AdvanceGrows
        <4> QED BY <1>0, <4>1, <4>2, SetClockGrows
      <3>2. CASE m \notin Tracked
        BY <1>0, <1>4, <3>2, KeptClockGrows DEF BeforeUnlock
      <3> QED BY <3>1, <3>2
    <2> QED BY <2>1, <2>2 DEF QuietStep
  <1> QED BY <1>1, <1>2, <1>3, <1>4 DEF MutexStep

\* The handlers of condition variables are quiet.
LEMMA CondQuiet ==
    ASSUME TypeInv, NEW t \in Threads, CondStep(t)
    PROVE  QuietStep
  <1> USE DEF At, Goto
  <1>0. TypeOK /\ pc \in [Threads -> PcValues] /\ vectorClock[t] \in Clock
    BY DEF TypeInv, TypeOK
  <1>a. /\ advance(vectorClock[t], t) \in Clock
        /\ advance(vectorClock[t], t)[t] >= vectorClock[t][t]
    BY <1>0, AdvanceGrows
  <1>1. ASSUME NEW cond \in Conds, NEW m \in Mutexes, BeforeCondWait(t, cond, m)
        PROVE  QuietStep
    <2>1. /\ UNCHANGED <<thread, parent, nextTid, joinVCMap, creation, threadCount>>
          /\ UNCHANGED failed /\ failed = "none"
      BY <1>1 DEF BeforeCondWait, LeaveClock, EndEpoch, program, rdm
    <2>2. \A u \in Threads :
            pc'[u] = pc[u] \/ (pc[u] \in Elsewhere /\ pc'[u] \in Elsewhere)
      BY <1>0, <1>1 DEF BeforeCondWait, Elsewhere
    <2>3. \A u \in Threads : vectorClock'[u][u] >= vectorClock[u][u]
      <3>1. CASE m \in Tracked
        <4>1. SetClock(t, advance(vectorClock[t], t))
          BY <1>1, <3>1 DEF BeforeCondWait, LeaveClock
        <4> QED BY <1>0, <1>a, <4>1, SetClockGrows
      <3>2. CASE m \notin Tracked
        BY <1>0, <1>1, <3>2, KeptClockGrows DEF BeforeCondWait
      <3> QED BY <3>1, <3>2
    <2> QED BY <2>1, <2>2, <2>3 DEF QuietStep
  <1>2. CASE CondSleep(t) \/ SpuriousWakeup(t)
    <2>1. /\ UNCHANGED <<thread, parent, nextTid, joinVCMap, creation, threadCount>>
          /\ UNCHANGED <<vectorClock, failed>> /\ failed = "none"
      BY <1>2 DEF CondSleep, SpuriousWakeup, program, rdm
    <2>2. \A u \in Threads :
            pc'[u] = pc[u] \/ (pc[u] \in Elsewhere /\ pc'[u] \in Elsewhere)
      BY <1>0, <1>2 DEF CondSleep, SpuriousWakeup, Elsewhere
    <2> QED BY <1>0, <2>1, <2>2, KeptClockGrows DEF QuietStep
  <1>3. CASE AfterCondWait(t)
    <2> DEFINE entry == notifiedThreadMap[condVarAddr[t]]
    <2>1. UNCHANGED <<thread, parent, nextTid, joinVCMap, creation, threadCount>>
      BY <1>3 DEF AfterCondWait, rdm
    <2>2. \A u \in Threads :
            pc'[u] = pc[u] \/ (pc[u] \in Elsewhere /\ pc'[u] \in Elsewhere)
      BY <1>0, <1>3 DEF AfterCondWait, Elsewhere
    <2>3. failed # "too many threads" /\ failed' # "too many threads"
      BY <1>3 DEF AfterCondWait
    <2>4. CASE lockAddr[t] \in Tracked /\ entry.tid # NO_ID
      <3> DEFINE v == receiveAction(vectorClock[t], entry.vectorClock)
      <3>1. condVarAddr[t] \in Conds
        BY <1>3 DEF AfterCondWait, TypeInv, ArgumentsOK
      <3>2. entry.vectorClock \in Clock
        BY <3>1 DEF TypeInv, TypeOK, ThreadInfo
      <3>3. v \in Clock /\ v[t] >= vectorClock[t][t]
        BY <1>0, <3>2, ReceiveGrows
      <3>4. SetClock(t, v)
        BY <1>3, <2>4 DEF AfterCondWait
      <3> HIDE DEF v
      <3> QED BY <1>0, <2>1, <2>2, <2>3, <3>3, <3>4, SetClockGrows DEF QuietStep
    <2>5. CASE ~ (lockAddr[t] \in Tracked /\ entry.tid # NO_ID)
      <3>1. UNCHANGED vectorClock
        BY <1>3, <2>5 DEF AfterCondWait
      <3> QED BY <1>0, <2>1, <2>2, <2>3, <3>1, KeptClockGrows DEF QuietStep
    <2> QED BY <2>4, <2>5
  <1>4. ASSUME NEW cond \in Conds, BeforeCondSignal(t, cond)
        PROVE  QuietStep
    <2>1. /\ UNCHANGED <<thread, parent, nextTid, joinVCMap, creation, threadCount>>
          /\ UNCHANGED failed /\ failed = "none"
      BY <1>4 DEF BeforeCondSignal, Notify, EndEpoch, rdm
    <2>2. \A u \in Threads :
            pc'[u] = pc[u] \/ (pc[u] \in Elsewhere /\ pc'[u] \in Elsewhere)
      BY <1>0, <1>4 DEF BeforeCondSignal, Elsewhere
    <2>3. \A u \in Threads : vectorClock'[u][u] >= vectorClock[u][u]
      <3>1. CASE cond \in Tracked
        <4>1. SetClock(t, advance(vectorClock[t], t))
          BY <1>4, <3>1 DEF BeforeCondSignal, Notify
        <4> QED BY <1>0, <1>a, <4>1, SetClockGrows
      <3>2. CASE cond \notin Tracked
        BY <1>0, <1>4, <3>2, KeptClockGrows DEF BeforeCondSignal
      <3> QED BY <3>1, <3>2
    <2> QED BY <2>1, <2>2, <2>3 DEF QuietStep
  <1>5. CASE CondSignal(t)
    <2>1. /\ UNCHANGED <<thread, parent, nextTid, joinVCMap, creation, threadCount>>
          /\ UNCHANGED <<vectorClock, failed>> /\ failed = "none"
      BY <1>5 DEF CondSignal, rdm
    <2>2. \A u \in Threads :
            pc'[u] = pc[u] \/ (pc[u] \in Elsewhere /\ pc'[u] \in Elsewhere)
      <3>1. CASE Sleepers(signalled[t]) = {}
        BY <1>0, <1>5, <3>1 DEF CondSignal, Elsewhere
      <3>2. CASE Sleepers(signalled[t]) # {}
        <4>1. PICK u \in Threads :
                pc[u] = "asleep" /\ pc' = [pc EXCEPT ![t] = "run", ![u] = "wake"]
          BY <1>5, <3>2 DEF CondSignal, Sleepers
        <4>2. pc[t] = "signal"
          BY <1>5 DEF CondSignal
        <4> QED BY <1>0, <4>1, <4>2 DEF Elsewhere
      <3> QED BY <3>1, <3>2
    <2> QED BY <1>0, <2>1, <2>2, KeptClockGrows DEF QuietStep
  <1>6. CASE BeforeCondBroadcast(t)
    <2>1. /\ UNCHANGED <<thread, parent, nextTid, joinVCMap, creation, threadCount>>
          /\ UNCHANGED <<pc, vectorClock>>
          /\ failed = "none" /\ failed' = "no local storage"
      BY <1>6 DEF BeforeCondBroadcast, program, rdm
    <2> QED BY <1>0, <2>1, KeptClockGrows DEF QuietStep
  <1> QED BY <1>1, <1>2, <1>3, <1>4, <1>5, <1>6 DEF CondStep

\* The handlers of barriers are quiet.
LEMMA BarrierQuiet ==
    ASSUME TypeInv, NEW t \in Threads, BarrierStep(t)
    PROVE  QuietStep
  <1> USE DEF At, Goto
  <1>0. TypeOK /\ pc \in [Threads -> PcValues] /\ vectorClock[t] \in Clock
    BY DEF TypeInv, TypeOK
  <1>1. ASSUME NEW b \in Barriers, NEW size \in BarrierSizes,
               BeforeBarrierInit(t, b, size)
        PROVE  QuietStep
    <2>1. /\ UNCHANGED <<thread, parent, nextTid, joinVCMap, creation, threadCount>>
          /\ UNCHANGED <<pc, vectorClock, failed>> /\ failed = "none"
      BY <1>1 DEF BeforeBarrierInit, program, rdm
    <2> QED BY <1>0, <2>1, KeptClockGrows DEF QuietStep
  <1>2. ASSUME NEW b \in Barriers, BeforeBarrierWait(t, b)
        PROVE  QuietStep
    <2>1. /\ UNCHANGED <<thread, parent, nextTid, joinVCMap, creation, threadCount>>
          /\ UNCHANGED failed /\ failed = "none"
      BY <1>2 DEF BeforeBarrierWait, EndEpoch, program
    <2>2. \A u \in Threads :
            pc'[u] = pc[u] \/ (pc[u] \in Elsewhere /\ pc'[u] \in Elsewhere)
      BY <1>0, <1>2 DEF BeforeBarrierWait, Elsewhere
    <2>3. SetClock(t, advance(vectorClock[t], t))
      BY <1>2 DEF BeforeBarrierWait
    <2>4. \A u \in Threads : vectorClock'[u][u] >= vectorClock[u][u]
      BY <1>0, <2>3, AdvanceGrows, SetClockGrows
    <2> QED BY <2>1, <2>2, <2>4 DEF QuietStep
  <1>3. CASE BarrierArrive(t)
    <2> DEFINE here == InBarrier(barrierAddr[t], {"arrived"}) \cup {t}
    <2>1. /\ UNCHANGED <<thread, parent, nextTid, joinVCMap, creation, threadCount>>
          /\ UNCHANGED <<vectorClock, failed>> /\ failed = "none"
      BY <1>3 DEF BarrierArrive, program, rdm
    <2>2. /\ \A u \in here : pc[u] \in {"barrier", "arrived"}
          /\ pc[t] = "barrier"
      BY <1>3 DEF BarrierArrive, InBarrier
    <2>3. \/ pc' = [u \in Threads |-> IF u \in here THEN "released" ELSE pc[u]]
          \/ pc' = [pc EXCEPT ![t] = "arrived"]
      BY <1>3 DEF BarrierArrive
    <2> HIDE DEF here
    <2>4. \A u \in Threads :
            pc'[u] = pc[u] \/ (pc[u] \in Elsewhere /\ pc'[u] \in Elsewhere)
      BY <1>0, <2>2, <2>3 DEF Elsewhere
    <2> QED BY <1>0, <2>1, <2>4, KeptClockGrows DEF QuietStep
  <1>4. CASE AfterBarrierWait(t)
    <2> DEFINE v == receiveAction(vectorClock[t],
                        barrierWaitMap[barrierAddr[t]].previousVectorClock)
    <2>1. /\ UNCHANGED <<thread, parent, nextTid, joinVCMap, creation, threadCount>>
          /\ UNCHANGED failed /\ failed = "none"
      BY <1>4 DEF AfterBarrierWait, program, rdm
    <2>2. \A u \in Threads :
            pc'[u] = pc[u] \/ (pc[u] \in Elsewhere /\ pc'[u] \in Elsewhere)
      BY <1>0, <1>4 DEF AfterBarrierWait, Elsewhere
    <2>3. barrierAddr[t] \in Barriers
      BY <1>4 DEF AfterBarrierWait, TypeInv, ArgumentsOK
    <2>4. barrierWaitMap[barrierAddr[t]].previousVectorClock \in Clock
      BY <2>3 DEF TypeInv, TypeOK, BarrierData
    <2>5. v \in Clock /\ v[t] >= vectorClock[t][t]
      BY <1>0, <2>4, ReceiveGrows
    <2>6. SetClock(t, v)
      BY <1>4 DEF AfterBarrierWait
    <2> HIDE DEF v
    <2> QED BY <1>0, <2>1, <2>2, <2>5, <2>6, SetClockGrows DEF QuietStep
  <1> QED BY <1>1, <1>2, <1>3, <1>4 DEF BarrierStep

-----------------------------------------------------------------------------
\* The steps of creation itself.

\* ThreadStart announces the newest thread, and no other.
LEMMA StartPreserves ==
    ASSUME TypeInv, TypeInv', CreationInv, NEW t \in Threads, ThreadStart(t)
    PROVE  CreationInv'
  <1> USE DEF At, Goto
  <1>0. /\ TypeOK /\ TypeOK' /\ FamilyInv /\ LockInv /\ HandshakeInv
        /\ HandleInv /\ CountInv /\ FinalClockInv
    BY DEF TypeInv, CreationInv
  <1>1. /\ pc[t] = "spawned" /\ failed = "none"
        /\ threadCount' = threadCount + 1
        /\ UNCHANGED <<thread, parent, nextTid, joinVCMap, atomicCreate,
                       pthreadPinIdMap>>
    BY DEF ThreadStart, program
  <1>2. t = Newest /\ Newest' = Newest
    BY <1>0, <1>1, Basics DEF HandshakeInv, Newest
  <1>3. pc \in [Threads -> PcValues] /\ vectorClock \in [Threads -> Clock]
    BY <1>0 DEF TypeOK
  <1>4. CASE threadCount + 1 < MAX_THREAD_COUNT
    <2>1. /\ pc' = [pc EXCEPT ![t] = "run"] /\ failed' = failed
          /\ lastCreatedThread' = IF parent[t] # NO_ID THEN t
                                                       ELSE lastCreatedThread
      BY <1>4 DEF ThreadStart
    <2>2. \A u \in Threads : u # t => pc'[u] = pc[u] /\ vectorClock'[u] = vectorClock[u]
      BY <1>3, <1>4, <2>1 DEF ThreadStart, SetClock
    <2>3. pc'[t] = "run"
      BY <1>3, <2>1
    <2>4. FamilyInv'
      BY <1>0, <1>1, <1>2, <2>2, <2>3 DEF FamilyInv
    <2>5. LockInv'
      BY <1>0, <1>1, <1>2, <2>2, <2>3 DEF LockInv, Creating
    <2>6. t # 0 => /\ parent[t] \in Threads /\ parent[t] # NO_ID
                   /\ pc[parent[t]] = "create" /\ parent[t] # t
                   /\ pc'[parent[t]] = "create"
      <3>1. SUFFICES ASSUME t # 0 PROVE /\ parent[t] \in Threads
                                        /\ pc[parent[t]] = "create"
        BY <1>1, <2>2 DEF NO_ID, Threads
      <3> QED BY <1>0, <1>1, <1>2, <3>1, Basics DEF HandshakeInv
    <2>7. t = 0 => parent[t] = NO_ID
      BY <1>0 DEF FamilyInv
    <2>8. HandshakeInv'
      <3>1. \A c \in Threads : pc'[c] # "spawned"
        <4>1. ASSUME NEW c \in Threads, c # t, pc[c] = "spawned" PROVE FALSE
          BY <1>0, <1>1, <1>2, <4>1 DEF HandshakeInv
        <4> QED BY <2>2, <2>3, <4>1
      <3>2. CASE t = 0
        BY <1>0, <1>1, <1>2, <2>1, <2>7, <3>1, <3>2 DEF HandshakeInv
      <3>3. CASE t # 0
        BY <1>0, <1>1, <1>2, <2>1, <2>6, <3>1, <3>3, Basics DEF HandshakeInv
      <3> QED BY <3>2, <3>3
    <2>9. HandleInv'
      <3>1. ASSUME NEW c \in Threads, 0 < c, c <= Newest, pc'[parent[c]] # "create"
            PROVE  pc[parent[c]] # "create"
        BY <1>0, <1>1, <2>2, <3>1, Basics
      <3> QED BY <1>0, <1>1, <1>2, <3>1 DEF HandleInv
    <2>10. CountInv'
      BY <1>0, <1>1, <1>2, <2>1, <2>3, Basics DEF CountInv, Newest, TypeOK
    <2>11. FinalClockInv'
      <3>1. vectorClock'[t][t] > 0
        <4>1. CASE parent[t] # NO_ID
          <5>1. parent[t] \in Threads
            BY <1>0, <4>1 DEF TypeOK, ThreadIds
          <5>2. vectorClock[parent[t]][t] \in Nat
            BY <1>3, <5>1 DEF Clock
          <5>3. vectorClock' = [vectorClock EXCEPT ![t] =
                          ChildClock(vectorClock[parent[t]], parent[t], t)]
            BY <1>4, <4>1 DEF ThreadStart, SetClock
          <5> QED BY <1>3, <5>2, <5>3 DEF ChildClock
        <4>2. CASE parent[t] = NO_ID
          <5>1. vectorClock' = [vectorClock EXCEPT ![t] = FirstClock(t)]
            BY <1>4, <4>2 DEF ThreadStart, SetClock
          <5>2. FirstClock(t)[t] = 1
            BY DEF FirstClock, ZeroClock
          <5> QED BY <1>3, <5>1, <5>2
        <4> QED BY <4>1, <4>2
      <3> QED BY <1>0, <1>1, <2>2, <2>3, <3>1 DEF FinalClockInv
    <2> QED BY <2>4, <2>5, <2>8, <2>9, <2>10, <2>11 DEF CreationInv
  <1>5. CASE ~ (threadCount + 1 < MAX_THREAD_COUNT)
    <2>1. /\ UNCHANGED <<pc, vectorClock, lastCreatedThread>>
          /\ failed' = "too many threads"
      BY <1>5 DEF ThreadStart
    <2>2. CountInv'
      <3>1. threadCount = Newest + 0 /\ Newest \in Nat
        BY <1>0, <1>1, <1>2, Basics DEF CountInv
      <3>2. threadCount' = Newest + 1
        BY <1>1, <3>1
      <3> QED BY <1>1, <1>2, <2>1, <3>2 DEF CountInv
    <2> QED
      BY <1>0, <1>1, <1>2, <2>1, <2>2
      DEF CreationInv, FamilyInv, LockInv, HandshakeInv, HandleInv, FinalClockInv
  <1> QED BY <1>4, <1>5

\* Whoever gets atomicCreate finds the last handshake finished.
LEMMA CallPreserves ==
    ASSUME TypeInv, TypeInv', CreationInv, NEW t \in Threads, CreateCall(t)
    PROVE  CreationInv'
  <1> USE DEF At, Goto
  <1>0. /\ TypeOK /\ TypeOK' /\ FamilyInv /\ LockInv /\ HandshakeInv
        /\ HandleInv /\ CountInv /\ FinalClockInv
    BY DEF TypeInv, CreationInv
  <1>1. /\ pc[t] = "run" /\ failed = "none" /\ failed' = failed
        /\ atomicCreate = NO_ID /\ atomicCreate' = t /\ nextTid < MaxThreads
        /\ thread' = [thread EXCEPT ![t] = nextTid]
        /\ parent' = [parent EXCEPT ![nextTid] = t]
        /\ nextTid' = nextTid + 1
        /\ pc' = [pc EXCEPT ![t] = "create", ![nextTid] = "spawned"]
        /\ UNCHANGED <<vectorClock, joinVCMap, lastCreatedThread,
                       pthreadPinIdMap, threadCount>>
    BY DEF CreateCall, Spawn, rdm
  <1>2. /\ pc \in [Threads -> PcValues] /\ thread \in [Threads -> ThreadIds]
        /\ parent \in [Threads -> ThreadIds] /\ nextTid \in Nat
    BY <1>0 DEF TypeOK
  <1>3. /\ nextTid \in Threads /\ Newest' = nextTid /\ nextTid = Newest + 1
        /\ nextTid > 0
    BY <1>0, <1>1, <1>2, Basics, InstanceAssumption, ThreadCountAssumption
    DEF Threads, Newest
  <1>4. t <= Newest /\ t # nextTid /\ t \in Nat /\ pc[nextTid] = "none"
    BY <1>0, <1>1, <1>3, Basics DEF FamilyInv
  <1>5. /\ pc'[t] = "create" /\ pc'[nextTid] = "spawned"
        /\ \A u \in Threads \ {t, nextTid} : pc'[u] = pc[u]
        /\ parent'[nextTid] = t
        /\ \A u \in Threads \ {nextTid} : parent'[u] = parent[u]
    BY <1>1, <1>2, <1>3, <1>4
  <1>6. \A u \in Threads : pc[u] \notin Creating
    BY <1>0, <1>1 DEF LockInv, NO_ID, Threads
  <1>7. lastCreatedThread = NO_ID /\ \A u \in Threads : pc[u] # "spawned"
    <2>1. lastCreatedThread # NO_ID => parent[Newest] \in Threads
      BY <1>0, Basics DEF HandshakeInv
    <2>2. lastCreatedThread = NO_ID
      BY <1>0, <1>6, <2>1 DEF HandshakeInv, Creating
    <2>3. ASSUME NEW u \in Threads, pc[u] = "spawned" PROVE FALSE
      <3>1. CASE u = 0
        <4>1. Newest = 0 /\ t = 0
          BY <1>0, <1>4, <2>3, <3>1, Basics DEF HandshakeInv
        <4> QED BY <1>1, <2>3, <3>1, <4>1
      <3>2. CASE u # 0
        <4>1. parent[u] \in Threads /\ pc[parent[u]] = "create"
          BY <1>0, <2>3, <3>2, Basics DEF HandshakeInv
        <4> QED BY <1>6, <4>1 DEF Creating
      <3> QED BY <3>1, <3>2
    <2> QED BY <2>2, <2>3
  <1>8. FamilyInv'
    <2>1. nextTid' <= MaxThreads
      BY <1>1, <1>2, InstanceAssumption
    <2>2. parent'[0] = NO_ID
      BY <1>0, <1>3, <1>5, Basics DEF FamilyInv
    <2>3. ASSUME NEW c \in Threads
          PROVE  /\ pc'[c] = "none" <=> c > nextTid
                 /\ (0 < c /\ c <= nextTid) => parent'[c] \in Threads
      <3>1. CASE c = nextTid
        BY <1>3, <1>5, <3>1, Basics
      <3>2. CASE c # nextTid
        <4>1. c \in Nat /\ Newest \in Nat /\ (c > nextTid <=> c > Newest)
          BY <1>0, <1>3, <3>2, Basics
        <4>2. pc'[c] = "none" <=> pc[c] = "none"
          BY <1>1, <1>5, <3>2
        <4>3. (0 < c /\ c <= nextTid) => c <= Newest
          BY <1>3, <3>2, <4>1
        <4> QED BY <1>0, <1>5, <3>2, <4>1, <4>2, <4>3, Basics DEF FamilyInv
      <3> QED BY <3>1, <3>2
    <2> QED BY <1>3, <2>1, <2>2, <2>3 DEF FamilyInv
  <1>9. LockInv'
    <2>1. thread'[t] = nextTid
      BY <1>1, <1>2
    <2>2. \A u \in Threads : pc'[u] \in Creating <=> u = t
      BY <1>4, <1>5, <1>6 DEF Creating
    <2> QED BY <1>1, <1>3, <1>5, <2>1, <2>2 DEF LockInv
  <1>10. HandshakeInv'
    <2>1. \A c \in Threads : pc'[c] = "spawned" => c = nextTid
      BY <1>5, <1>7
    <2> QED BY <1>0, <1>1, <1>3, <1>5, <1>7, <2>1, Basics DEF HandshakeInv
  <1>11. HandleInv'
    <2>1. ASSUME NEW c \in Threads, 0 < c, c <= nextTid,
                 c = nextTid => pc'[parent'[c]] # "create"
          PROVE  pthreadPinIdMap[c] = c
      <3>1. c # nextTid
        BY <1>5, <2>1
      <3>2. c <= Newest /\ parent[c] \in Threads /\ parent'[c] = parent[c]
        BY <1>0, <1>3, <1>5, <2>1, <3>1, Basics
      <3>3. pc[parent[c]] # "create"
        BY <1>6, <3>2 DEF Creating
      <3> QED BY <1>0, <2>1, <3>2, <3>3 DEF HandleInv
    <2> QED BY <1>0, <1>1, <1>3, <2>1 DEF HandleInv
  <1>12. CountInv'
    <2>1. Newest \in Threads /\ pc[Newest] # "spawned" /\ threadCount = nextTid
      BY <1>0, <1>1, <1>2, <1>7, Basics DEF CountInv
    <2> QED BY <1>1, <1>2, <1>3, <1>5, <2>1 DEF CountInv
  <1>13. FinalClockInv'
    <2>1. ASSUME NEW c \in Threads
          PROVE  /\ pc'[c] \notin {"none", "spawned"} => vectorClock[c][c] > 0
                 /\ (pc'[c] = "exited" /\ c # 0) => joinVCMap[parent'[c]][c][c] > 0
      BY <1>0, <1>1, <1>5 DEF FinalClockInv
    <2> QED BY <1>1, <2>1 DEF FinalClockInv
  <1> QED BY <1>8, <1>9, <1>10, <1>11, <1>12, <1>13 DEF CreationInv

\* The creator maps its own handle to the id of its own child.
LEMMA PublishPreserves ==
    ASSUME TypeInv, TypeInv', CreationInv, NEW t \in Threads, CreatePublish(t)
    PROVE  CreationInv'
  <1> USE DEF At, Goto
  <1>0. /\ TypeOK /\ TypeOK' /\ FamilyInv /\ LockInv /\ HandshakeInv
        /\ HandleInv /\ CountInv /\ FinalClockInv
    BY DEF TypeInv, CreationInv
  <1>1. /\ pc[t] = "create" /\ failed = "none" /\ failed' = failed
        /\ lastCreatedThread # NO_ID /\ lastCreatedThread' = NO_ID
        /\ pthreadPinIdMap' = [pthreadPinIdMap EXCEPT ![thread[t]] = lastCreatedThread]
        /\ pc' = [pc EXCEPT ![t] = "publish"]
        /\ UNCHANGED <<vectorClock, thread, parent, nextTid, joinVCMap,
                       atomicCreate, threadCount>>
    BY DEF CreatePublish, Publish, program, rdm
  <1>2. /\ pc \in [Threads -> PcValues]
        /\ pthreadPinIdMap \in [Threads -> ThreadIds]
    BY <1>0 DEF TypeOK
  <1>3. /\ pc'[t] = "publish" /\ \A u \in Threads \ {t} : pc'[u] = pc[u]
        /\ Newest' = Newest
    BY <1>1, <1>2 DEF Newest
  <1>4. /\ thread[t] = Newest /\ parent[Newest] = t
        /\ lastCreatedThread = Newest /\ Newest # 0 /\ pc[Newest] # "spawned"
    BY <1>0, <1>1 DEF LockInv, HandshakeInv, Creating
  <1>5. \A c \in Threads : pc'[c] # "spawned" /\ pc[c] # "spawned"
    BY <1>0, <1>1, <1>3, <1>4 DEF HandshakeInv
  <1>6. FamilyInv'
    BY <1>0, <1>1, <1>3 DEF FamilyInv
  <1>7. LockInv'
    BY <1>0, <1>1, <1>3 DEF LockInv, Creating
  <1>8. HandshakeInv'
    BY <1>0, <1>1, <1>5, Basics DEF HandshakeInv
  <1>9. HandleInv'
    <2>1. ASSUME NEW c \in Threads
          PROVE  /\ pthreadPinIdMap'[c] \in {NO_ID, c}
                 /\ (0 < c /\ c <= Newest
                        /\ (c = Newest => pc'[parent[c]] # "create"))
                    => pthreadPinIdMap'[c] = c
      <3>1. CASE c = Newest
        BY <1>1, <1>2, <1>4, <3>1
      <3>2. CASE c # Newest
        <4>1. pthreadPinIdMap'[c] = pthreadPinIdMap[c]
          BY <1>1, <1>2, <1>4, <3>2
        <4> QED BY <1>0, <3>2, <4>1 DEF HandleInv
      <3> QED BY <3>1, <3>2
    <2> QED BY <1>1, <1>3, <2>1 DEF HandleInv
  <1>10. CountInv'
    BY <1>0, <1>1, <1>3, <1>5, Basics DEF CountInv
  <1>11. FinalClockInv'
    BY <1>0, <1>1, <1>3 DEF FinalClockInv
  <1> QED BY <1>6, <1>7, <1>8, <1>9, <1>10, <1>11 DEF CreationInv

\* atomicCreate is given back when the child has started.
LEMMA EpochPreserves ==
    ASSUME TypeInv, TypeInv', CreationInv, NEW t \in Threads, CreateEpoch(t)
    PROVE  CreationInv'
  <1> USE DEF At, Goto
  <1>0. /\ TypeOK /\ TypeOK' /\ FamilyInv /\ LockInv /\ HandshakeInv
        /\ HandleInv /\ CountInv /\ FinalClockInv
    BY DEF TypeInv, CreationInv
  <1>1. /\ pc[t] = "publish" /\ failed = "none" /\ failed' = failed
        /\ pc' = [pc EXCEPT ![t] = "run"] /\ atomicCreate' = NO_ID
        /\ UNCHANGED <<parent, nextTid, joinVCMap, lastCreatedThread,
                       pthreadPinIdMap, threadCount>>
        /\ SetClock(t, advance(vectorClock[t], t))
    BY DEF CreateEpoch, EndEpoch
  <1>2. pc \in [Threads -> PcValues] /\ vectorClock[t] \in Clock
    BY <1>0 DEF TypeOK
  <1>3. /\ pc'[t] = "run" /\ \A u \in Threads \ {t} : pc'[u] = pc[u]
        /\ Newest' = Newest
    BY <1>1, <1>2 DEF Newest
  <1>4. FamilyInv'
    BY <1>0, <1>1, <1>3 DEF FamilyInv
  <1>5. LockInv'
    <2>1. \A u \in Threads : pc'[u] \notin Creating
      BY <1>0, <1>1, <1>3 DEF LockInv, Creating
    <2> QED BY <1>1, <2>1 DEF LockInv, NO_ID, Threads
  <1>6. HandshakeInv'
    <2>1. ASSUME NEW u \in Threads PROVE pc[u] # "create"
      BY <1>0, <1>1 DEF LockInv, Creating
    <2>2. lastCreatedThread = NO_ID
      BY <1>0, <2>1, Basics DEF HandshakeInv
    <2>3. \A c \in Threads : pc[c] = "spawned" => c = 0
      BY <1>0, <2>1, Basics DEF HandshakeInv
    <2> QED BY <1>0, <1>1, <1>3, <2>2, <2>3, Basics DEF HandshakeInv
  <1>7. HandleInv'
    <2>1. ASSUME NEW u \in Threads PROVE pc[u] # "create"
      BY <1>0, <1>1 DEF LockInv, Creating
    <2>2. Newest # 0 => parent[Newest] \in Threads
      BY <1>0, Basics
    <2>3. \A c \in Threads : (0 < c /\ c <= Newest) => pthreadPinIdMap[c] = c
      BY <1>0, <2>1, <2>2, Basics DEF HandleInv
    <2> QED BY <1>0, <1>1, <1>3, <2>3 DEF HandleInv
  <1>8. CountInv'
    BY <1>0, <1>1, <1>3, Basics DEF CountInv
  <1>9. FinalClockInv'
    <2>1. \A u \in Threads : vectorClock'[u][u] >= vectorClock[u][u]
      BY <1>0, <1>1, <1>2, AdvanceGrows, SetClockGrows
    <2>2. \A u \in Threads : vectorClock[u][u] \in Nat /\ vectorClock'[u][u] \in Nat
      BY <1>0, <1>4, Basics DEF TypeOK, Clock
    <2>3. ASSUME NEW c \in Threads
          PROVE  /\ pc'[c] \notin {"none", "spawned"} => vectorClock'[c][c] > 0
                 /\ (pc'[c] = "exited" /\ c # 0) => joinVCMap[parent[c]][c][c] > 0
      BY <1>0, <1>1, <1>3, <2>1, <2>2 DEF FinalClockInv
    <2> QED BY <1>1, <2>3 DEF FinalClockInv
  <1> QED BY <1>4, <1>5, <1>6, <1>7, <1>8, <1>9 DEF CreationInv

\* A thread that ends leaves a clock for its creator.
LEMMA FiniPreserves ==
    ASSUME TypeInv, TypeInv', CreationInv, NEW t \in Threads, ThreadFini(t)
    PROVE  CreationInv'
  <1> USE DEF At, Goto
  <1>0. /\ TypeOK /\ TypeOK' /\ FamilyInv /\ LockInv /\ HandshakeInv
        /\ HandleInv /\ CountInv /\ FinalClockInv
    BY DEF TypeInv, CreationInv
  <1>1. /\ pc[t] = "run" /\ failed = "none" /\ failed' = failed
        /\ pc' = [pc EXCEPT ![t] = "exited"]
        /\ joinVCMap' = IF parent[t] # NO_ID
             THEN [joinVCMap EXCEPT ![parent[t]][t] = vectorClock[t]]
             ELSE joinVCMap
        /\ UNCHANGED <<thread, parent, nextTid, vectorClock, atomicCreate,
                       lastCreatedThread, pthreadPinIdMap, threadCount>>
    BY DEF ThreadFini, program, creation
  <1>2. /\ pc \in [Threads -> PcValues] /\ vectorClock \in [Threads -> Clock]
        /\ joinVCMap \in [Threads -> [Threads -> Clock]]
        /\ parent \in [Threads -> ThreadIds]
    BY <1>0 DEF TypeOK
  <1>3. /\ pc'[t] = "exited" /\ \A u \in Threads \ {t} : pc'[u] = pc[u]
        /\ Newest' = Newest
    BY <1>1, <1>2 DEF Newest
  <1>4. FamilyInv'
    BY <1>0, <1>1, <1>3 DEF FamilyInv
  <1>5. LockInv'
    BY <1>0, <1>1, <1>3 DEF LockInv, Creating
  <1>6. HandshakeInv'
    <2>1. \A c \in Threads : /\ pc'[c] = "spawned" <=> pc[c] = "spawned"
                             /\ pc'[c] = "create" <=> pc[c] = "create"
      BY <1>1, <1>3
    <2>2. ASSUME NEW c \in Threads, pc'[c] = "spawned", c # 0
          PROVE  c = Newest /\ pc'[parent[c]] = "create" /\ lastCreatedThread = NO_ID
      BY <1>0, <2>1, <2>2, Basics DEF HandshakeInv
    <2>3. lastCreatedThread # NO_ID =>
            /\ lastCreatedThread = Newest /\ Newest # 0
            /\ pc'[Newest] # "spawned" /\ pc'[parent[Newest]] = "create"
      BY <1>0, <2>1, Basics DEF HandshakeInv
    <2>4. pc'[0] = "spawned" => Newest = 0
      BY <1>0, <2>1, Basics DEF HandshakeInv
    <2> QED BY <1>1, <1>3, <2>2, <2>3, <2>4 DEF HandshakeInv
  <1>7. HandleInv'
    <2>1. \A c \in Threads : pc'[c] # "create" => pc[c] # "create"
      BY <1>1, <1>3
    <2> QED BY <1>0, <1>1, <1>3, <2>1, Basics DEF HandleInv
  <1>8. CountInv'
    BY <1>0, <1>1, <1>3, Basics DEF CountInv
  <1>9. FinalClockInv'
    <2>1. ASSUME NEW c \in Threads, pc'[c] = "exited", c # 0
          PROVE  joinVCMap'[parent[c]][c][c] > 0
      <3>1. parent[c] \in Threads
        BY <1>0, <1>1, <1>3, <2>1, Basics DEF FamilyInv
      <3>2. CASE c = t
        <4>1. parent[t] # NO_ID
          BY <3>1, <3>2 DEF NO_ID, Threads
        <4>2. joinVCMap'[parent[c]][c] = vectorClock[c]
          BY <1>1, <1>2, <3>1, <3>2, <4>1
        <4> QED BY <1>0, <1>1, <3>2, <4>2 DEF FinalClockInv
      <3>3. CASE c # t
        <4>1. joinVCMap'[parent[c]][c] = joinVCMap[parent[c]][c]
          BY <1>1, <1>2, <3>1, <3>3 DEF ThreadIds
        <4> QED BY <1>0, <1>3, <2>1, <3>3, <4>1 DEF FinalClockInv
      <3> QED BY <3>2, <3>3
    <2> QED BY <1>0, <1>1, <1>3, <2>1 DEF FinalClockInv
  <1> QED BY <1>4, <1>5, <1>6, <1>7, <1>8, <1>9 DEF CreationInv

\* Joining, and giving up polling, leave the handshake alone.
LEMMA JoinQuiet ==
    ASSUME TypeInv, NEW t \in Threads,
           \/ CreateTimeout(t) \/ JoinReturn(t)
           \/ \E c \in Threads : JoinCall(t, c)
    PROVE  QuietStep
  <1> USE DEF At, Goto
  <1>0. /\ TypeOK /\ pc \in [Threads -> PcValues] /\ vectorClock[t] \in Clock
        /\ thread \in [Threads -> ThreadIds]
    BY DEF TypeInv, TypeOK
  <1>1. CASE CreateTimeout(t)
    <2>1. /\ UNCHANGED <<thread, parent, nextTid, joinVCMap, creation, threadCount>>
          /\ UNCHANGED <<pc, vectorClock>>
          /\ failed = "none" /\ failed' = "ThreadStart didn't started"
      BY <1>1 DEF CreateTimeout, program, rdm
    <2> QED BY <1>0, <2>1, KeptClockGrows DEF QuietStep
  <1>2. ASSUME NEW c \in Threads, JoinCall(t, c)
        PROVE  QuietStep
    <2>1. /\ UNCHANGED <<parent, nextTid, joinVCMap, creation, threadCount>>
          /\ UNCHANGED <<vectorClock, failed>> /\ failed = "none"
      BY <1>2 DEF JoinCall, rdm
    <2>2. \A u \in Threads :
            /\ pc'[u] = pc[u] \/ (pc[u] \in Elsewhere /\ pc'[u] \in Elsewhere)
            /\ thread'[u] = thread[u] \/ pc'[u] \in Elsewhere
      BY <1>0, <1>2 DEF JoinCall, Elsewhere
    <2> QED BY <1>0, <2>1, <2>2, KeptClockGrows DEF QuietStep
  <1>3. CASE JoinReturn(t)
    <2> DEFINE c == pthreadPinIdMap[thread[t]]
               found == c # NO_ID /\ joinVCMap[t][c] # ZeroClock
               v == receiveWithIncrement(vectorClock[t], t, joinVCMap[t][c], c)
    <2>1. /\ UNCHANGED <<parent, nextTid, joinVCMap, creation, threadCount>>
          /\ failed # "too many threads" /\ failed' # "too many threads"
      BY <1>3 DEF JoinReturn, EndEpoch
    <2>2. thread[t] \in Threads
      BY <1>3 DEF JoinReturn, TypeInv, ArgumentsOK
    <2>3. CASE found
      <3>1. \A u \in Threads :
              /\ pc'[u] = pc[u] \/ (pc[u] \in Elsewhere /\ pc'[u] \in Elsewhere)
              /\ thread'[u] = thread[u] \/ pc'[u] \in Elsewhere
        BY <1>0, <1>3, <2>3 DEF JoinReturn, Elsewhere
      <3>2. c \in Threads /\ joinVCMap[t][c] \in Clock
        BY <2>2, <2>3 DEF TypeInv, TypeOK, ThreadIds
      <3>3. SetClock(t, v)
        BY <1>3, <2>3 DEF JoinReturn
      <3> HIDE DEF c
      <3>4. v \in Clock /\ v[t] >= vectorClock[t][t]
        BY <1>0, <3>2, JoinGrows
      <3> HIDE DEF v
      <3> QED BY <1>0, <2>1, <3>1, <3>3, <3>4, SetClockGrows DEF QuietStep
    <2>4. CASE ~ found
      <3>1. UNCHANGED <<pc, vectorClock, thread>>
        BY <1>3, <2>4 DEF JoinReturn
      <3> QED BY <1>0, <2>1, <3>1, KeptClockGrows DEF QuietStep
    <2> QED BY <2>3, <2>4
  <1> QED BY <1>1, <1>2, <1>3

-----------------------------------------------------------------------------
\* The invariant of the handshake, for every program.
THEOREM CreationCorrect == Spec => []CreationInv
  <1>1. Init => CreationInv
    <2> SUFFICES ASSUME Init PROVE CreationInv
      OBVIOUS
    <2>1. 0 \in Threads /\ Newest = 0
      BY ThreadCountAssumption DEF Init, Threads, Newest
    <2>2. \A c \in Threads : c \in Nat /\ c # NO_ID
      BY DEF Threads, NO_ID
    <2>3. FamilyInv /\ LockInv
      BY <2>1, <2>2, InstanceAssumption DEF Init, FamilyInv, LockInv, Creating
    <2>4. HandshakeInv /\ HandleInv /\ CountInv
      BY <2>1, <2>2 DEF Init, HandshakeInv, HandleInv, CountInv
    <2>5. FinalClockInv
      BY DEF Init, FinalClockInv
    <2> QED BY <2>3, <2>4, <2>5 DEF CreationInv
  <1>2. TypeInv /\ TypeInv' /\ CreationInv /\ [Next]_vars => CreationInv'
    <2> SUFFICES ASSUME TypeInv, TypeInv', CreationInv, [Next]_vars
                 PROVE  CreationInv'
      OBVIOUS
    <2>0. TypeOK /\ TypeOK'
      BY DEF TypeInv
    <2>1. ASSUME NEW t \in Threads, Lifecycle(t) PROVE CreationInv'
      BY <2>0, <2>1, StartPreserves, CallPreserves, PublishPreserves,
         EpochPreserves, FiniPreserves, JoinQuiet, QuietPreserves DEF Lifecycle
    <2>2. ASSUME NEW t \in Threads,
                 Access(t) \/ MutexStep(t) \/ CondStep(t) \/ BarrierStep(t)
          PROVE  CreationInv'
      BY <2>0, <2>2, AccessQuiet, MutexQuiet, CondQuiet, BarrierQuiet,
         QuietPreserves
    <2>3. CASE Next
      BY <2>1, <2>2, <2>3 DEF Next
    <2>4. CASE UNCHANGED vars
      <3>1. UNCHANGED <<pc, thread, parent, nextTid, vectorClock, joinVCMap,
                        atomicCreate, lastCreatedThread, pthreadPinIdMap,
                        threadCount, failed>>
        BY <2>4 DEF vars, program, creation, rdm
      <3>2. Newest' = Newest
        BY <3>1 DEF Newest
      <3> QED
        BY <3>1, <3>2 DEF CreationInv, FamilyInv, LockInv, HandshakeInv,
           HandleInv, CountInv, FinalClockInv
    <2> QED BY <2>3, <2>4
  <1> QED
    BY <1>1, <1>2, TypeCorrect, PTL DEF Spec

\* The handshake gives every handle the id of its thread before pthread_create
\* returns, and the race detection module a queue at every running thread's
\* index, however creations, starts and returns interleave.
THEOREM IdsAlwaysMatch == Spec => []IdsMatch
  <1>1. TypeInv /\ CreationInv => IdsMatch
    <2> SUFFICES ASSUME TypeInv, CreationInv PROVE IdsMatch
      OBVIOUS
    <2>0. TypeOK /\ FamilyInv /\ HandshakeInv /\ HandleInv /\ CountInv
      BY DEF TypeInv, CreationInv
    <2>1. \A c \in Threads : pthreadPinIdMap[c] \in {NO_ID, c}
      BY <2>0 DEF HandleInv
    <2>2. ASSUME NEW c \in Threads, pc[c] \notin {"none", "spawned"}
          PROVE  c < threadCount
      <3>1. c \in Nat /\ Newest \in Nat /\ c <= Newest /\ nextTid = Newest + 1
        BY <2>0, <2>2, Basics DEF FamilyInv, Newest, TypeOK
      <3> DEFINE started == IF pc[Newest] = "spawned" THEN Newest ELSE nextTid
                 refused == IF failed = "too many threads" THEN 1 ELSE 0
      <3>2. /\ started \in Nat /\ refused \in Nat /\ started >= Newest
            /\ pc[Newest] # "spawned" => started = Newest + 1
        BY <3>1
      <3>3. threadCount = started + refused
        BY <2>0 DEF CountInv
      <3> HIDE DEF started, refused
      <3>4. c = Newest => pc[Newest] # "spawned"
        BY <2>2
      <3> QED BY <3>1, <3>2, <3>3, <3>4
    <2>3. ASSUME NEW t \in Running, NEW c \in 1 .. nextTid - 1, parent[c] = t
          PROVE  pthreadPinIdMap[c] = c
      <3>1. c \in Threads /\ 0 < c /\ c <= Newest
        BY <2>0, ThreadCountAssumption DEF TypeOK, Newest, Threads
      <3>2. pc[parent[c]] = "run"
        BY <2>3 DEF Running
      <3> QED BY <2>0, <3>1, <3>2 DEF HandleInv
    <2> QED BY <2>1, <2>2, <2>3 DEF IdsMatch
  <1> QED
    BY <1>1, TypeCorrect, CreationCorrect, PTL

\* A step of thread t changes no clock but t's, and not even that while t
\* polls in pthread_create.
LEMMA PollingClockStands ==
    ASSUME TypeInv, NEW t \in Threads, NEW u \in Threads, pc[u] = "create",
           \/ Lifecycle(t) \/ Access(t) \/ MutexStep(t) \/ CondStep(t)
           \/ BarrierStep(t)
    PROVE  vectorClock'[u] = vectorClock[u]
  <1> DEFINE Moves == pc[t] # "create" /\ \E v : SetClock(t, v)
  <1>1. Moves => vectorClock'[u] = vectorClock[u]
    BY DEF TypeInv, TypeOK, SetClock
  <1> SUFFICES UNCHANGED vectorClock \/ Moves
    BY <1>1
  <1> USE DEF At
  <1>2. CASE Lifecycle(t)
    <2>1. CASE ThreadStart(t)
      <3>1. CASE threadCount + 1 < MAX_THREAD_COUNT /\ parent[t] # NO_ID
        BY <2>1, <3>1 DEF ThreadStart
      <3>2. CASE threadCount + 1 < MAX_THREAD_COUNT /\ parent[t] = NO_ID
        BY <2>1, <3>2 DEF ThreadStart
      <3>3. CASE ~ (threadCount + 1 < MAX_THREAD_COUNT)
        BY <2>1, <3>3 DEF ThreadStart
      <3> QED BY <3>1, <3>2, <3>3
    <2>2. CASE CreateCall(t) \/ CreateTimeout(t) \/ CreatePublish(t)
      BY <2>2 DEF CreateCall, Spawn, CreateTimeout, CreatePublish, Publish
    <2>3. CASE CreateEpoch(t)
      BY <2>3 DEF CreateEpoch
    <2>4. CASE \E c \in Threads : JoinCall(t, c)
      BY <2>4 DEF JoinCall
    <2>5. CASE JoinReturn(t)
      <3> DEFINE c == pthreadPinIdMap[thread[t]]
                 found == c # NO_ID /\ joinVCMap[t][c] # ZeroClock
      <3>1. CASE found
        BY <2>5, <3>1 DEF JoinReturn
      <3>2. CASE ~ found
        BY <2>5, <3>2 DEF JoinReturn
      <3> QED BY <3>1, <3>2
    <2>6. CASE ThreadFini(t)
      BY <2>6 DEF ThreadFini
    <2> QED BY <1>2, <2>1, <2>2, <2>3, <2>4, <2>5, <2>6 DEF Lifecycle
  <1>3. CASE Access(t)
    BY <1>3 DEF Access, Read, Write
  <1>4. CASE MutexStep(t)
    <2>1. CASE \E m \in Mutexes, call \in {"lock", "trylock"} : BeforeLock(t, m, call)
      BY <2>1 DEF BeforeLock
    <2>2. CASE AfterLock(t)
      <3>1. CASE lockAddr[t] \in Tracked
        BY <2>2, <3>1 DEF AfterLock
      <3>2. CASE lockAddr[t] \notin Tracked
        BY <2>2, <3>2 DEF AfterLock
      <3> QED BY <3>1, <3>2
    <2>3. CASE AfterFailedTryLock(t)
      BY <2>3 DEF AfterFailedTryLock
    <2>4. CASE \E m \in Mutexes : BeforeUnlock(t, m)
      BY <2>4 DEF BeforeUnlock, LeaveClock
    <2> QED BY <1>4, <2>1, <2>2, <2>3, <2>4 DEF MutexStep
  <1>5. CASE CondStep(t)
    <2>1. CASE \E cond \in Conds, m \in Mutexes : BeforeCondWait(t, cond, m)
      BY <2>1 DEF BeforeCondWait, LeaveClock
    <2>2. CASE CondSleep(t) \/ SpuriousWakeup(t) \/ CondSignal(t)
      BY <2>2 DEF CondSleep, SpuriousWakeup, CondSignal
    <2>3. CASE AfterCondWait(t)
      <3> DEFINE entry == notifiedThreadMap[condVarAddr[t]]
      <3>1. CASE lockAddr[t] \in Tracked /\ entry.tid # NO_ID
        BY <2>3, <3>1 DEF AfterCondWait
      <3>2. CASE ~ (lockAddr[t] \in Tracked /\ entry.tid # NO_ID)
        BY <2>3, <3>2 DEF AfterCondWait
      <3> QED BY <3>1, <3>2
    <2>4. CASE \E cond \in Conds : BeforeCondSignal(t, cond)
      BY <2>4 DEF BeforeCondSignal, Notify
    <2>5. CASE BeforeCondBroadcast(t)
      BY <2>5 DEF BeforeCondBroadcast
    <2> QED BY <1>5, <2>1, <2>2, <2>3, <2>4, <2>5 DEF CondStep
  <1>6. CASE BarrierStep(t)
    <2>1. CASE \E b \in Barriers, size \in BarrierSizes : BeforeBarrierInit(t, b, size)
      BY <2>1 DEF BeforeBarrierInit
    <2>2. CASE \E b \in Barriers : BeforeBarrierWait(t, b)
      BY <2>2 DEF BeforeBarrierWait
    <2>3. CASE BarrierArrive(t)
      BY <2>3 DEF BarrierArrive
    <2>4. CASE AfterBarrierWait(t)
      BY <2>4 DEF AfterBarrierWait
    <2> QED BY <1>6, <2>1, <2>2, <2>3, <2>4 DEF BarrierStep
  <1> QED BY <1>2, <1>3, <1>4, <1>5, <1>6

\* "It is safe to access the parent's vector clock here": while a thread is on
\* its way to ThreadStart, no step changes its creator's clock.
THEOREM ParentClockStands == Spec => ParentClockIsStable
  <1> DEFINE Stable ==
        \A c \in Threads :
            (pc[c] = "spawned" /\ parent[c] # NO_ID)
            => vectorClock'[parent[c]] = vectorClock[parent[c]]
  <1>1. TypeInv /\ CreationInv /\ [Next]_vars => [Stable]_vars
    <2> SUFFICES ASSUME TypeInv, CreationInv, Next,
                        NEW c \in Threads, pc[c] = "spawned", parent[c] # NO_ID
                 PROVE  vectorClock'[parent[c]] = vectorClock[parent[c]]
      OBVIOUS
    <2>1. c # 0
      BY DEF CreationInv, FamilyInv
    <2>2. pc[parent[c]] = "create"
      BY <2>1 DEF CreationInv, HandshakeInv
    <2>3. parent[c] \in Threads
      BY DEF TypeInv, TypeOK, ThreadIds
    <2> QED BY <2>2, <2>3, PollingClockStands DEF Next
  <1> QED
    BY <1>1, TypeCorrect, CreationCorrect, PTL DEF Spec, ParentClockIsStable

-----------------------------------------------------------------------------
\* The assertions.

\* What a program and its environment have to keep to: fewer threads than
\* MAX_THREAD_COUNT, started within the polling time and joined by their
\* creators; signals on condition variables the tool tracks, no broadcasts, and
\* no wakeup without a signal.
WellBehaved ==
    /\ MaxThreads < MAX_THREAD_COUNT
    /\ Env \cap {"slow_start", "foreign_join", "broadcast", "spurious_wakeup"} = {}
    /\ Conds \subseteq Tracked

\* A join is one by the creator; a signal that is on its way, or has woken a
\* thread, has left its entry.
JoinerInv ==
    \A t \in Threads : pc[t] = "join" =>
        0 < thread[t] /\ thread[t] <= Newest /\ parent[thread[t]] = t

EntryInv ==
    \A t \in Threads :
        /\ pc[t] = "signal" => notifiedThreadMap[signalled[t]].tid # NO_ID
        /\ pc[t] = "wake" => notifiedThreadMap[condVarAddr[t]].tid # NO_ID

AssertionInv == failed = "none" /\ JoinerInv /\ EntryInv

JoinFrame ==
    /\ UNCHANGED <<thread, parent, nextTid>>
    /\ \A u \in Threads : pc'[u] = "join" => pc[u] = "join"

CondFrame ==
    /\ UNCHANGED <<notifiedThreadMap, signalled, condVarAddr>>
    /\ \A u \in Threads : pc'[u] \in {"signal", "wake"} => pc'[u] = pc[u]

\* Steps that are not about joining keep the joiner as it is.
LEMMA JoinFramePreserves ==
    ASSUME JoinerInv, JoinFrame PROVE JoinerInv'
  <1>1. Newest' = Newest
    BY DEF JoinFrame, Newest
  <1> QED BY <1>1 DEF JoinFrame, JoinerInv

\* Steps that are not about conditions keep their entries.
LEMMA CondFramePreserves ==
    ASSUME EntryInv, CondFrame PROVE EntryInv'
  BY DEF CondFrame, EntryInv

\* Accesses, mutexes and barriers have nothing to do with either.
LEMMA OtherFrames ==
    ASSUME TypeInv, NEW t \in Threads,
           Access(t) \/ MutexStep(t) \/ BarrierStep(t)
    PROVE  JoinFrame /\ CondFrame /\ failed' = failed
  <1> USE DEF At, Goto, JoinFrame, CondFrame
  <1>0. pc \in [Threads -> PcValues]
    BY DEF TypeInv, TypeOK
  <1>1. CASE Access(t)
    BY <1>1 DEF Access, Read, Write, program, addresses, syncMaps
  <1>2. CASE MutexStep(t)
    <2>1. CASE \E m \in Mutexes, call \in {"lock", "trylock"} : BeforeLock(t, m, call)
      BY <1>0, <2>1 DEF BeforeLock, program, syncMaps
    <2>2. CASE AfterLock(t)
      BY <1>0, <2>2 DEF AfterLock, addresses
    <2>3. CASE AfterFailedTryLock(t)
      BY <1>0, <2>3 DEF AfterFailedTryLock, program, addresses, syncMaps
    <2>4. CASE \E m \in Mutexes : BeforeUnlock(t, m)
      BY <2>4 DEF BeforeUnlock, addresses
    <2> QED BY <1>2, <2>1, <2>2, <2>3, <2>4 DEF MutexStep
  <1>3. CASE BarrierStep(t)
    <2>1. CASE \E b \in Barriers, size \in BarrierSizes : BeforeBarrierInit(t, b, size)
      BY <2>1 DEF BeforeBarrierInit, program, addresses
    <2>2. CASE \E b \in Barriers : BeforeBarrierWait(t, b)
      BY <1>0, <2>2 DEF BeforeBarrierWait, program
    <2>3. CASE BarrierArrive(t)
      <3>1. \A u \in Threads : pc'[u] \in {"released", "arrived"} \/ pc'[u] = pc[u]
        BY <1>0, <2>3 DEF BarrierArrive
      <3> QED BY <2>3, <3>1 DEF BarrierArrive, program, addresses, syncMaps
    <2>4. CASE AfterBarrierWait(t)
      BY <1>0, <2>4 DEF AfterBarrierWait, program, addresses, syncMaps
    <2> QED BY <1>3, <2>1, <2>2, <2>3, <2>4 DEF BarrierStep
  <1> QED BY <1>1, <1>2, <1>3

\* A wakeup finds the entry of a signal.
LEMMA CondAssertions ==
    ASSUME WellBehaved, TypeInv, AssertionInv, NEW t \in Threads, CondStep(t)
    PROVE  AssertionInv'
  <1> USE DEF At, Goto
  <1>0. /\ pc \in [Threads -> PcValues] /\ failed = "none" /\ JoinerInv /\ EntryInv
        /\ notifiedThreadMap \in [Conds -> ThreadInfo]
        /\ condVarAddr \in [Threads -> Conds \cup {NULL}]
        /\ signalled \in [Threads -> Conds \cup {NULL}]
    BY DEF TypeInv, TypeOK, AssertionInv
  <1>1. CASE \E cond \in Conds, m \in Mutexes : BeforeCondWait(t, cond, m)
    <2>1. /\ JoinFrame /\ failed' = failed
          /\ UNCHANGED <<notifiedThreadMap, signalled>>
          /\ pc'[t] = "condwait"
          /\ \A u \in Threads \ {t} : pc'[u] = pc[u] /\ condVarAddr'[u] = condVarAddr[u]
      BY <1>0, <1>1 DEF BeforeCondWait, JoinFrame, program
    <2> QED BY <1>0, <2>1, JoinFramePreserves DEF AssertionInv, EntryInv
  <1>2. CASE CondSleep(t)
    <2>1. JoinFrame /\ CondFrame /\ failed' = failed
      BY <1>0, <1>2 DEF CondSleep, JoinFrame, CondFrame, addresses, syncMaps
    <2> QED BY <1>0, <2>1, JoinFramePreserves, CondFramePreserves DEF AssertionInv
  <1>3. ~ SpuriousWakeup(t) /\ ~ BeforeCondBroadcast(t)
    BY DEF SpuriousWakeup, BeforeCondBroadcast, WellBehaved
  <1>4. CASE AfterCondWait(t)
    <2>1. notifiedThreadMap[condVarAddr[t]].tid # NO_ID
      BY <1>0, <1>4 DEF AfterCondWait, EntryInv
    <2>2. JoinFrame /\ CondFrame /\ failed' = failed
      BY <1>0, <1>4, <2>1
      DEF AfterCondWait, JoinFrame, CondFrame, addresses, syncMaps
    <2> QED BY <1>0, <2>2, JoinFramePreserves, CondFramePreserves DEF AssertionInv
  <1>5. ASSUME NEW cond \in Conds, BeforeCondSignal(t, cond)
        PROVE  AssertionInv'
    <2>1. notifiedThreadMap' = [notifiedThreadMap EXCEPT
                ![cond] = [tid |-> t, vectorClock |-> vectorClock'[t]]]
      BY <1>5 DEF BeforeCondSignal, Notify, WellBehaved
    <2>2. /\ JoinFrame /\ failed' = failed /\ condVarAddr' = condVarAddr
          /\ signalled'[t] = cond /\ pc'[t] = "signal"
          /\ \A u \in Threads \ {t} : pc'[u] = pc[u] /\ signalled'[u] = signalled[u]
      BY <1>0, <1>5 DEF BeforeCondSignal, JoinFrame, addresses
    <2>3. t # NO_ID
      BY DEF Threads, NO_ID
    <2>4. \A x \in Conds : notifiedThreadMap[x].tid # NO_ID
                           => notifiedThreadMap'[x].tid # NO_ID
      BY <1>0, <2>1, <2>3
    <2>5. notifiedThreadMap'[cond].tid # NO_ID
      BY <1>0, <2>1, <2>3
    <2>6. \A u \in Threads : /\ pc[u] = "signal" => signalled[u] \in Conds
                             /\ pc[u] = "wake" => condVarAddr[u] \in Conds
      BY DEF TypeInv, ArgumentsOK
    <2>7. EntryInv'
      <3>1. ASSUME NEW u \in Threads
            PROVE  /\ pc'[u] = "signal" => notifiedThreadMap'[signalled'[u]].tid # NO_ID
                   /\ pc'[u] = "wake" => notifiedThreadMap'[condVarAddr[u]].tid # NO_ID
        <4>1. CASE u = t
          BY <2>2, <2>5, <4>1
        <4>2. CASE u # t
          BY <1>0, <2>2, <2>4, <2>6, <4>2 DEF EntryInv
        <4> QED BY <4>1, <4>2
      <3> QED BY <2>2, <3>1 DEF EntryInv
    <2> QED BY <1>0, <2>2, <2>7, JoinFramePreserves DEF AssertionInv
  <1>6. CASE CondSignal(t)
    <2>1. pc[t] = "signal" /\ notifiedThreadMap[signalled[t]].tid # NO_ID
      BY <1>0, <1>6 DEF CondSignal, EntryInv
    <2>2. /\ UNCHANGED <<notifiedThreadMap, condVarAddr, failed, thread, parent, nextTid>>
          /\ signalled' = [signalled EXCEPT ![t] = NULL]
      BY <1>6 DEF CondSignal, addresses, syncMaps
    <2>3. CASE Sleepers(signalled[t]) = {}
      <3>1. pc' = [pc EXCEPT ![t] = "run"]
        BY <1>6, <2>3 DEF CondSignal
      <3>2. JoinFrame
        BY <1>0, <2>2, <3>1 DEF JoinFrame
      <3>3. EntryInv'
        BY <1>0, <2>2, <3>1 DEF EntryInv
      <3> QED BY <1>0, <2>2, <3>2, <3>3, JoinFramePreserves DEF AssertionInv
    <2>4. CASE Sleepers(signalled[t]) # {}
      <3>1. PICK u \in Threads :
              /\ pc[u] = "asleep" /\ condVarAddr[u] = signalled[t]
              /\ pc' = [pc EXCEPT ![t] = "run", ![u] = "wake"]
        BY <1>6, <2>4 DEF CondSignal, Sleepers
      <3>2. JoinFrame
        BY <1>0, <2>2, <3>1 DEF JoinFrame
      <3>3. EntryInv'
        <4>1. ASSUME NEW w \in Threads
              PROVE  /\ pc'[w] = "signal" =>
                            notifiedThreadMap[signalled'[w]].tid # NO_ID
                     /\ pc'[w] = "wake" =>
                            notifiedThreadMap[condVarAddr[w]].tid # NO_ID
          <5>1. CASE w = u
            BY <1>0, <2>1, <3>1, <5>1
          <5>2. CASE w # u
            BY <1>0, <2>1, <2>2, <3>1, <5>2 DEF EntryInv
          <5> QED BY <5>1, <5>2
        <4> QED BY <2>2, <4>1 DEF EntryInv
      <3> QED BY <1>0, <2>2, <3>2, <3>3, JoinFramePreserves DEF AssertionInv
    <2> QED BY <2>3, <2>4
  <1> QED BY <1>1, <1>2, <1>3, <1>4, <1>5, <1>6 DEF CondStep

\* The create and join replacements find what they look for.
LEMMA LifecycleAssertions ==
    ASSUME WellBehaved, TypeInv, TypeInv', CreationInv, AssertionInv,
           NEW t \in Threads, Lifecycle(t)
    PROVE  AssertionInv'
  <1> USE DEF At, Goto
  <1>0. /\ pc \in [Threads -> PcValues] /\ failed = "none" /\ JoinerInv /\ EntryInv
        /\ TypeOK /\ FamilyInv /\ LockInv /\ HandshakeInv /\ HandleInv /\ CountInv
        /\ FinalClockInv /\ thread \in [Threads -> ThreadIds]
        /\ parent \in [Threads -> ThreadIds]
    BY DEF TypeInv, TypeOK, AssertionInv, CreationInv
  <1>1. CASE ThreadStart(t)
    <2>1. threadCount + 1 < MAX_THREAD_COUNT
      <3>1. t = Newest /\ pc[t] = "spawned" /\ Newest \in Nat
        BY <1>0, <1>1, Basics DEF ThreadStart, HandshakeInv
      <3>2. threadCount = Newest + 0
        BY <1>0, <3>1 DEF CountInv
      <3>3. nextTid \in Nat /\ nextTid <= MaxThreads /\ nextTid = Newest + 1
        BY <1>0 DEF FamilyInv, TypeOK, Newest
      <3> QED BY <3>1, <3>2, <3>3, InstanceAssumption, ThreadCountAssumption
          DEF WellBehaved
    <2>2. JoinFrame /\ CondFrame /\ failed' = failed
      BY <1>0, <1>1, <2>1
      DEF ThreadStart, JoinFrame, CondFrame, program, addresses, syncMaps
    <2> QED BY <1>0, <2>2, JoinFramePreserves, CondFramePreserves DEF AssertionInv
  <1>2. CASE CreateCall(t)
    <2>1. /\ failed' = failed /\ CondFrame
          /\ thread' = [thread EXCEPT ![t] = nextTid]
          /\ parent' = [parent EXCEPT ![nextTid] = t]
          /\ nextTid' = nextTid + 1
          /\ pc' = [pc EXCEPT ![t] = "create", ![nextTid] = "spawned"]
      BY <1>0, <1>2 DEF CreateCall, Spawn, CondFrame, addresses, syncMaps
    <2>2. nextTid \in Nat /\ Newest \in Nat /\ nextTid = Newest + 1
          /\ Newest' = Newest + 1
      BY <1>0, <2>1, Basics DEF TypeOK, Newest
    <2>3. JoinerInv'
      <3>1. ASSUME NEW u \in Threads, pc'[u] = "join"
            PROVE  /\ 0 < thread'[u] /\ thread'[u] <= Newest'
                   /\ parent'[thread'[u]] = u
        <4>1. u # t /\ u # nextTid /\ pc[u] = "join" /\ thread'[u] = thread[u]
          BY <1>0, <2>1, <3>1
        <4>2. 0 < thread[u] /\ thread[u] <= Newest /\ parent[thread[u]] = u
          BY <1>0, <4>1 DEF JoinerInv
        <4>3. thread[u] \in Threads /\ thread[u] \in Nat
          BY <1>0, <4>1, Basics DEF TypeInv, ArgumentsOK
        <4>4. thread[u] # nextTid /\ thread[u] <= Newest'
          BY <2>2, <4>2, <4>3
        <4> QED BY <1>0, <2>1, <4>1, <4>2, <4>3, <4>4
      <3> QED BY <3>1 DEF JoinerInv
    <2> QED BY <1>0, <2>1, <2>3, CondFramePreserves DEF AssertionInv
  <1>3. ~ CreateTimeout(t)
    BY DEF CreateTimeout, WellBehaved
  <1>4. CASE CreatePublish(t)
    <2>1. JoinFrame /\ CondFrame /\ failed' = failed
      BY <1>0, <1>4 DEF CreatePublish, Publish, JoinFrame, CondFrame, program,
         addresses, syncMaps
    <2> QED BY <1>0, <2>1, JoinFramePreserves, CondFramePreserves DEF AssertionInv
  <1>5. CASE CreateEpoch(t)
    <2>1. /\ CondFrame /\ failed' = failed /\ UNCHANGED <<parent, nextTid>>
          /\ pc'[t] = "run"
          /\ \A u \in Threads \ {t} : pc'[u] = pc[u] /\ thread'[u] = thread[u]
      BY <1>0, <1>5 DEF CreateEpoch, CondFrame, addresses, syncMaps
    <2>2. Newest' = Newest
      BY <2>1 DEF Newest
    <2>3. JoinerInv'
      BY <1>0, <2>1, <2>2 DEF JoinerInv
    <2> QED BY <1>0, <2>1, <2>3, CondFramePreserves DEF AssertionInv
  <1>6. ASSUME NEW c \in Threads, JoinCall(t, c)
        PROVE  AssertionInv'
    <2>1. /\ CondFrame /\ failed' = failed /\ UNCHANGED <<parent, nextTid>>
          /\ pc' = [pc EXCEPT ![t] = "join"] /\ thread' = [thread EXCEPT ![t] = c]
      BY <1>0, <1>6 DEF JoinCall, CondFrame, addresses, syncMaps
    <2>2. parent[c] = t /\ c # 0 /\ c < nextTid
      BY <1>6 DEF JoinCall, WellBehaved
    <2>3. 0 < c /\ c <= Newest /\ Newest' = Newest
      BY <1>0, <2>1, <2>2, Basics DEF Newest, TypeOK
    <2>4. JoinerInv'
      BY <1>0, <2>1, <2>2, <2>3 DEF JoinerInv
    <2> QED BY <1>0, <2>1, <2>4, CondFramePreserves DEF AssertionInv
  <1>7. CASE JoinReturn(t)
    <2> DEFINE c == thread[t]
    <2>1. /\ c \in Threads /\ 0 < c /\ c <= Newest /\ parent[c] = t
          /\ pc[t] = "join" /\ pc[c] = "exited"
      BY <1>0, <1>7 DEF JoinReturn, JoinerInv, TypeInv, ArgumentsOK
    <2>2. pthreadPinIdMap[c] = c
      BY <1>0, <2>1 DEF HandleInv
    <2>3. joinVCMap[t][c] # ZeroClock
      <3>1. c # 0
        BY <2>1
      <3>2. joinVCMap[t][c][c] > 0
        BY <1>0, <2>1, <3>1 DEF FinalClockInv
      <3>3. ZeroClock[c] = 0
        BY <2>1 DEF ZeroClock
      <3> QED BY <3>2, <3>3
    <2>4. c # NO_ID
      BY <2>1 DEF Threads, NO_ID
    <2>5. /\ CondFrame /\ failed' = failed /\ UNCHANGED <<parent, nextTid>>
          /\ pc'[t] = "run"
          /\ \A u \in Threads \ {t} : pc'[u] = pc[u] /\ thread'[u] = thread[u]
      BY <1>0, <1>7, <2>2, <2>3, <2>4
      DEF JoinReturn, CondFrame, addresses, syncMaps
    <2>6. Newest' = Newest
      BY <2>5 DEF Newest
    <2>7. JoinerInv'
      BY <1>0, <2>5, <2>6 DEF JoinerInv
    <2> QED BY <1>0, <2>5, <2>7, CondFramePreserves DEF AssertionInv
  <1>8. CASE ThreadFini(t)
    <2>1. JoinFrame /\ CondFrame /\ failed' = failed
      BY <1>0, <1>8 DEF ThreadFini, JoinFrame, CondFrame, program, addresses, syncMaps
    <2> QED BY <1>0, <2>1, JoinFramePreserves, CondFramePreserves DEF AssertionInv
  <1> QED
    BY <1>1, <1>2, <1>3, <1>4, <1>5, <1>6, <1>7, <1>8 DEF Lifecycle

\* In a well behaved program no assertion of the tool fails and no end iterator
\* is used: every pthread_create and pthread_join finds the id and the clock it
\* looks for, and every wakeup the entry of a signaller.
THEOREM AssertionsHold ==
    ASSUME WellBehaved
    PROVE  Spec => []NoAssertionFails
  <1>1. Init => AssertionInv
    BY DEF Init, AssertionInv, JoinerInv, EntryInv
  <1>2. TypeInv /\ TypeInv' /\ CreationInv /\ AssertionInv /\ [Next]_vars
        => AssertionInv'
    <2> SUFFICES ASSUME TypeInv, TypeInv', CreationInv, AssertionInv, [Next]_vars
                 PROVE  AssertionInv'
      OBVIOUS
    <2>1. ASSUME NEW t \in Threads,
                 Access(t) \/ MutexStep(t) \/ BarrierStep(t)
          PROVE  AssertionInv'
      <3>1. JoinFrame /\ CondFrame /\ failed' = failed
        BY <2>1, OtherFrames
      <3> QED BY <3>1, JoinFramePreserves, CondFramePreserves DEF AssertionInv
    <2>2. CASE Next
      BY <2>1, <2>2, CondAssertions, LifecycleAssertions DEF Next
    <2>3. CASE UNCHANGED vars
      <3>1. JoinFrame /\ CondFrame /\ failed' = failed
        BY <2>3 DEF vars, program, addresses, syncMaps, JoinFrame, CondFrame
      <3> QED BY <3>1, JoinFramePreserves, CondFramePreserves DEF AssertionInv
    <2> QED BY <2>2, <2>3
  <1>3. AssertionInv => NoAssertionFails
    BY DEF AssertionInv, NoAssertionFails
  <1> QED
    BY <1>1, <1>2, <1>3, TypeCorrect, CreationCorrect, PTL DEF Spec

-----------------------------------------------------------------------------
\* The entries of the condition variables, with spurious wakeups, broadcasts,
\* foreign joins and slow starts allowed.

\* What a signal hands over it hands to a thread that it wakes, and only after
\* the handler has left an entry.
NoticeInv ==
    \A t \in Threads :
        /\ pend[t] # {} => pc[t] \in {"wake", "released"}
        /\ pc[t] = "signal" => notifiedThreadMap[signalled[t]].tid # NO_ID
        /\ (pc[t] = "wake" /\ pend[t] # {})
           => notifiedThreadMap[condVarAddr[t]].tid # NO_ID

\* No entry, and nothing handed over, is touched.
NoticeFrame ==
    /\ UNCHANGED <<notifiedThreadMap, signalled, condVarAddr, pend>>
    /\ \A u \in Threads :
        /\ pc'[u] \in {"signal", "wake"} => pc'[u] = pc[u]
        /\ pc[u] \in {"wake", "released"} => pc'[u] = pc[u]

LEMMA NoticeFramePreserves ==
    ASSUME NoticeInv, NoticeFrame PROVE NoticeInv'
  BY DEF NoticeInv, NoticeFrame

LEMMA LifecycleNotices ==
    ASSUME TypeInv, CreationInv, NEW t \in Threads, Lifecycle(t)
    PROVE  NoticeFrame
  <1> USE DEF At, Goto, NoticeFrame, program, addresses, syncMaps, ghosts
  <1>0. pc \in [Threads -> PcValues]
    BY DEF TypeInv, TypeOK
  <1>1. CASE ThreadStart(t)
    BY <1>0, <1>1 DEF ThreadStart
  <1>2. CASE CreateCall(t)
    <2>1. /\ nextTid \in Nat /\ nextTid < MaxThreads /\ MaxThreads <= MAX_THREAD_COUNT
          /\ MaxThreads \in Nat
      BY <1>2, InstanceAssumption, ThreadCountAssumption
      DEF CreateCall, Spawn, TypeInv, TypeOK
    <2>2. nextTid \in Threads /\ nextTid > Newest
      BY <2>1, ThreadCountAssumption DEF Threads, Newest
    <2>3. pc[nextTid] = "none"
      BY <2>2 DEF CreationInv, FamilyInv
    <2> QED BY <1>0, <1>2, <2>2, <2>3 DEF CreateCall, Spawn
  <1>3. CASE CreateTimeout(t)
    BY <1>3 DEF CreateTimeout
  <1>4. CASE CreatePublish(t)
    BY <1>0, <1>4 DEF CreatePublish, Publish
  <1>5. CASE CreateEpoch(t)
    BY <1>0, <1>5 DEF CreateEpoch
  <1>6. CASE \E c \in Threads : JoinCall(t, c)
    BY <1>0, <1>6 DEF JoinCall
  <1>7. CASE JoinReturn(t)
    BY <1>0, <1>7 DEF JoinReturn
  <1>8. CASE ThreadFini(t)
    BY <1>0, <1>8 DEF ThreadFini
  <1> QED BY <1>1, <1>2, <1>3, <1>4, <1>5, <1>6, <1>7, <1>8 DEF Lifecycle

LEMMA AccessNotices ==
    ASSUME TypeInv, NEW t \in Threads, Access(t) \/ MutexStep(t)
    PROVE  NoticeFrame
  <1> USE DEF At, Goto, NoticeFrame, program, addresses, syncMaps, ghosts
  <1>0. pc \in [Threads -> PcValues]
    BY DEF TypeInv, TypeOK
  <1>1. CASE Access(t)
    BY <1>1 DEF Access, Read, Write
  <1>2. CASE \E m \in Mutexes, call \in {"lock", "trylock"} : BeforeLock(t, m, call)
    BY <1>0, <1>2 DEF BeforeLock
  <1>3. CASE AfterLock(t)
    BY <1>0, <1>3 DEF AfterLock
  <1>4. CASE AfterFailedTryLock(t)
    BY <1>0, <1>4 DEF AfterFailedTryLock
  <1>5. CASE \E m \in Mutexes : BeforeUnlock(t, m)
    BY <1>5 DEF BeforeUnlock
  <1> QED BY <1>1, <1>2, <1>3, <1>4, <1>5 DEF MutexStep

LEMMA BarrierNotices ==
    ASSUME TypeInv, NoticeInv, NEW t \in Threads, BarrierStep(t)
    PROVE  NoticeInv'
  <1> USE DEF At, Goto, program, addresses, syncMaps, ghosts
  <1>0. pc \in [Threads -> PcValues] /\ pend \in [Threads -> SUBSET Epochs]
    BY DEF TypeInv, TypeOK
  <1>1. CASE \E b \in Barriers, size \in BarrierSizes : BeforeBarrierInit(t, b, size)
    <2>1. NoticeFrame
      BY <1>1 DEF BeforeBarrierInit, NoticeFrame
    <2> QED BY <2>1, NoticeFramePreserves
  <1>2. CASE \E b \in Barriers : BeforeBarrierWait(t, b)
    <2>1. NoticeFrame
      BY <1>0, <1>2 DEF BeforeBarrierWait, NoticeFrame
    <2> QED BY <2>1, NoticeFramePreserves
  <1>3. CASE BarrierArrive(t)
    <2>1. \A u \in Threads :
             \/ pc'[u] = "released"
             \/ pend'[u] = pend[u] /\ (pc'[u] = pc[u] \/ (u = t /\ pc'[u] = "arrived"))
      <3> DEFINE here == InBarrier(barrierAddr[t], {"arrived"}) \cup {t}
      <3>1. \/ /\ pc' = [u \in Threads |-> IF u \in here THEN "released" ELSE pc[u]]
               /\ pend' = [u \in Threads |->
                              IF u \in here THEN UNION {past[v] : v \in here} ELSE pend[u]]
            \/ pc' = [pc EXCEPT ![t] = "arrived"] /\ pend' = pend
        BY <1>3 DEF BarrierArrive
      <3> HIDE DEF here
      <3> QED BY <1>0, <3>1
    <2>2. pc[t] = "barrier"
      BY <1>3 DEF BarrierArrive
    <2> QED BY <1>3, <2>1, <2>2 DEF BarrierArrive, NoticeInv
  <1>4. CASE AfterBarrierWait(t)
    <2>1. /\ pc'[t] = "run" /\ pend'[t] = {}
          /\ \A u \in Threads \ {t} : pc'[u] = pc[u] /\ pend'[u] = pend[u]
          /\ UNCHANGED <<notifiedThreadMap, signalled, condVarAddr>>
      BY <1>0, <1>4 DEF AfterBarrierWait
    <2> QED BY <2>1 DEF NoticeInv
  <1> QED BY <1>1, <1>2, <1>3, <1>4 DEF BarrierStep

LEMMA CondNotices ==
    ASSUME Conds \subseteq Tracked, TypeInv, NoticeInv, NEW t \in Threads, CondStep(t)
    PROVE  NoticeInv'
  <1> USE DEF At, Goto, program, addresses, syncMaps, ghosts
  <1>0. /\ pc \in [Threads -> PcValues] /\ pend \in [Threads -> SUBSET Epochs]
        /\ notifiedThreadMap \in [Conds -> ThreadInfo]
        /\ condVarAddr \in [Threads -> Conds \cup {NULL}]
        /\ signalled \in [Threads -> Conds \cup {NULL}]
    BY DEF TypeInv, TypeOK
  <1>1. CASE \E cond \in Conds, m \in Mutexes : BeforeCondWait(t, cond, m)
    <2>1. /\ UNCHANGED <<notifiedThreadMap, signalled, pend>>
          /\ pc[t] = "run" /\ pc'[t] = "condwait"
          /\ \A u \in Threads \ {t} : pc'[u] = pc[u] /\ condVarAddr'[u] = condVarAddr[u]
      BY <1>0, <1>1 DEF BeforeCondWait
    <2> QED BY <2>1 DEF NoticeInv
  <1>2. CASE CondSleep(t)
    <2>1. NoticeFrame
      BY <1>0, <1>2 DEF CondSleep, NoticeFrame
    <2> QED BY <2>1, NoticeFramePreserves
  <1>3. CASE SpuriousWakeup(t)
    <2>1. pc[t] = "asleep" /\ pend[t] = {}
      BY <1>3 DEF SpuriousWakeup, NoticeInv
    <2>2. /\ UNCHANGED <<notifiedThreadMap, signalled, condVarAddr, pend>>
          /\ pc'[t] = "wake" /\ \A u \in Threads \ {t} : pc'[u] = pc[u]
      BY <1>0, <1>3 DEF SpuriousWakeup
    <2> QED BY <2>1, <2>2 DEF NoticeInv
  <1>4. CASE AfterCondWait(t)
    <2>1. /\ UNCHANGED <<notifiedThreadMap, signalled, condVarAddr>>
          /\ pend'[t] = {} /\ pc'[t] \in {"run", "wake"}
          /\ \A u \in Threads \ {t} : pc'[u] = pc[u] /\ pend'[u] = pend[u]
      BY <1>0, <1>4 DEF AfterCondWait
    <2> QED BY <2>1 DEF NoticeInv
  <1>5. ASSUME NEW cond \in Conds, BeforeCondSignal(t, cond)
        PROVE  NoticeInv'
    <2>1. notifiedThreadMap' = [notifiedThreadMap EXCEPT
                ![cond] = [tid |-> t, vectorClock |-> vectorClock'[t]]]
      BY <1>5 DEF BeforeCondSignal, Notify
    <2>2. /\ condVarAddr' = condVarAddr /\ pend' = pend
          /\ signalled'[t] = cond /\ pc[t] = "run" /\ pc'[t] = "signal"
          /\ \A u \in Threads \ {t} : pc'[u] = pc[u] /\ signalled'[u] = signalled[u]
      BY <1>0, <1>5 DEF BeforeCondSignal
    <2>3. t # NO_ID
      BY DEF Threads, NO_ID
    <2>4. /\ notifiedThreadMap'[cond].tid # NO_ID
          /\ \A x \in Conds : notifiedThreadMap[x].tid # NO_ID
                              => notifiedThreadMap'[x].tid # NO_ID
      BY <1>0, <2>1, <2>3
    <2>5. \A u \in Threads : /\ pc[u] = "signal" => signalled[u] \in Conds
                             /\ pc[u] = "wake" => condVarAddr[u] \in Conds
      BY DEF TypeInv, ArgumentsOK
    <2>6. ASSUME NEW u \in Threads
          PROVE  /\ pend'[u] # {} => pc'[u] \in {"wake", "released"}
                 /\ pc'[u] = "signal" => notifiedThreadMap'[signalled'[u]].tid # NO_ID
                 /\ (pc'[u] = "wake" /\ pend'[u] # {})
                    => notifiedThreadMap'[condVarAddr'[u]].tid # NO_ID
      <3>1. CASE u = t
        BY <2>2, <2>4, <3>1 DEF NoticeInv
      <3>2. CASE u # t
        BY <2>2, <2>4, <2>5, <3>2 DEF NoticeInv
      <3> QED BY <3>1, <3>2
    <2> QED BY <2>6 DEF NoticeInv
  <1>6. CASE CondSignal(t)
    <2>1. pc[t] = "signal" /\ notifiedThreadMap[signalled[t]].tid # NO_ID /\ pend[t] = {}
      BY <1>6 DEF CondSignal, NoticeInv
    <2>2. /\ UNCHANGED <<notifiedThreadMap, condVarAddr>>
          /\ signalled' = [signalled EXCEPT ![t] = NULL]
      BY <1>6 DEF CondSignal
    <2>3. CASE Sleepers(signalled[t]) = {}
      <3>1. pc' = [pc EXCEPT ![t] = "run"] /\ pend' = pend
        BY <1>6, <2>3 DEF CondSignal
      <3> QED BY <1>0, <2>1, <2>2, <3>1 DEF NoticeInv
    <2>4. CASE Sleepers(signalled[t]) # {}
      <3>1. PICK u \in Threads :
              /\ pc[u] = "asleep" /\ condVarAddr[u] = signalled[t]
              /\ pc' = [pc EXCEPT ![t] = "run", ![u] = "wake"]
              /\ pend' = [pend EXCEPT ![u] = past[t]]
        BY <1>6, <2>4 DEF CondSignal, Sleepers
      <3>2. ASSUME NEW w \in Threads
            PROVE  /\ pend'[w] # {} => pc'[w] \in {"wake", "released"}
                   /\ pc'[w] = "signal" => notifiedThreadMap[signalled'[w]].tid # NO_ID
                   /\ (pc'[w] = "wake" /\ pend'[w] # {})
                      => notifiedThreadMap[condVarAddr[w]].tid # NO_ID
        <4>1. CASE w = u
          BY <1>0, <2>1, <3>1, <4>1
        <4>2. CASE w # u
          BY <1>0, <2>1, <2>2, <3>1, <4>2 DEF NoticeInv
        <4> QED BY <4>1, <4>2
      <3> QED BY <2>2, <3>2 DEF NoticeInv
    <2> QED BY <2>3, <2>4
  <1>7. CASE BeforeCondBroadcast(t)
    <2>1. NoticeFrame
      BY <1>7 DEF BeforeCondBroadcast, NoticeFrame
    <2> QED BY <2>1, NoticeFramePreserves
  <1> QED BY <1>1, <1>2, <1>3, <1>4, <1>5, <1>6, <1>7 DEF CondStep

\* Where the tool tracks the condition variables, a thread that a signal has
\* woken finds the signaller's entry, however wakeups, signals and broadcasts
\* interleave: AfterCondWait uses an end iterator only after a spurious wakeup.
THEOREM NotifyEntryFound ==
    ASSUME Conds \subseteq Tracked
    PROVE  Spec => []NotifyEntryExists
  <1>1. Init => NoticeInv
    BY DEF Init, NoticeInv
  <1>2. TypeInv /\ CreationInv /\ NoticeInv /\ [Next]_vars => NoticeInv'
    <2> SUFFICES ASSUME TypeInv, CreationInv, NoticeInv, [Next]_vars
                 PROVE  NoticeInv'
      OBVIOUS
    <2>1. ASSUME NEW t \in Threads, Lifecycle(t) \/ Access(t) \/ MutexStep(t)
          PROVE  NoticeInv'
      BY <2>1, LifecycleNotices, AccessNotices, NoticeFramePreserves
    <2>2. CASE Next
      BY <2>1, <2>2, CondNotices, BarrierNotices DEF Next
    <2>3. CASE UNCHANGED vars
      <3>1. NoticeFrame
        BY <2>3 DEF vars, program, addresses, syncMaps, ghosts, NoticeFrame
      <3> QED BY <3>1, NoticeFramePreserves
    <2> QED BY <2>2, <2>3
  <1>3. NoticeInv => NotifyEntryExists
    BY DEF NoticeInv, NotifyEntryExists
  <1> QED
    BY <1>1, <1>2, <1>3, TypeCorrect, CreationCorrect, PTL DEF Spec
===============================================================================
