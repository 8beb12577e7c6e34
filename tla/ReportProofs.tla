------------------------------ MODULE ReportProofs ------------------------------
(***************************************************************************)
(* What the race detection module reports, in programs that synchronise by *)
(* creating and joining threads, by mutexes, and by barriers that all      *)
(* threads take part in.                                                   *)
(*                                                                         *)
(* An epoch that ends inside pthread_create may find an entry that comes   *)
(* after it, in a queue that also holds unordered ones; so "every race is  *)
(* reported" is proved for all other epochs, and for two threads outright. *)
(***************************************************************************)
EXTENDS ExactProofs, WellFoundedInduction

-----------------------------------------------------------------------------
\* The scan.

\* The first hit, by thread and by place in the queue.
LEMMA FirstExists ==
    ASSUME NEW H \in SUBSET (Nat \X Nat), H # {}
    PROVE  \E g \in H : \A i \in H : g[1] < i[1] \/ (g[1] = i[1] /\ g[2] <= i[2])
  <1>0. ASSUME NEW W \in SUBSET Nat, W # {} PROVE \E w \in W : \A v \in W : w <= v
    <2> DEFINE R == OpToRel(<, Nat)
    <2>1. PICK w \in W : \A v \in W : ~ (<<v, w>> \in R)
      BY <1>0, NatLessThanWellFounded, WFMin
    <2>2. \A u, v \in Nat : u < v => <<u, v>> \in R
      BY Zenon DEF OpToRel
    <2> HIDE DEF R
    <2>3. \A v \in W : ~ (v < w)
      BY <2>1, <2>2, Zenon
    <2> QED BY <2>3
  <1> DEFINE A == {h[1] : h \in H}
  <1>1. PICK a \in A : \A x \in A : a <= x
    <2>1. A \in SUBSET Nat /\ A # {}
      OBVIOUS
    <2> HIDE DEF A
    <2> QED BY <1>0, <2>1
  <1> DEFINE B == {k \in Nat : <<a, k>> \in H}
  <1>2. PICK b \in B : \A x \in B : b <= x
    <2>1. PICK h \in H : h[1] = a
      OBVIOUS
    <2>2. h = <<a, h[2]>> /\ h[2] \in Nat
      BY <2>1
    <2>3. B \in SUBSET Nat /\ B # {}
      BY <2>2
    <2> HIDE DEF B
    <2> QED BY <1>0, <2>3
  <1>3. <<a, b>> \in H
    OBVIOUS
  <1>4. ASSUME NEW i \in H PROVE a < i[1] \/ (a = i[1] /\ b <= i[2])
    <2>1. i[1] \in Nat /\ i[2] \in Nat /\ i = <<i[1], i[2]>> /\ a <= i[1] /\ a \in Nat
      BY <1>1
    <2>2. CASE a = i[1]
      <3>1. i[2] \in B
        BY <2>1, <2>2
      <3> QED BY <1>2, <2>2, <3>1
    <2>3. CASE a # i[1]
      <3> HIDE DEF A, B
      <3> QED BY <2>1, <2>3
    <2> QED BY <2>2, <2>3
  <1> HIDE DEF A, B
  <1> QED BY <1>3, <1>4

\* Some hit is reported.
LEMMA ScanFinds ==
    ASSUME NEW queues, NEW sig, Hits(queues, sig) # {}
    PROVE  \E r \in ScanReport(queues, sig) : r.tid = sig.tid
  <1>1. Hits(queues, sig) \in SUBSET (Nat \X Nat)
    BY QueueSizeAssumption, ThreadCountAssumption DEF Hits, Threads
  <1>2. PICK g \in Hits(queues, sig) :
           \A i \in Hits(queues, sig) : g[1] < i[1] \/ (g[1] = i[1] /\ g[2] <= i[2])
    BY <1>1, FirstExists
  <1> DEFINE r == [tid |-> sig.tid, other |-> g[1],
                   kind |-> Conflict(sig, queues[g[1]][g[2]])]
  <1>3. r \in ScanReport(queues, sig)
    BY <1>2 DEF ScanReport
  <1>4. r.tid = sig.tid
    OBVIOUS
  <1> QED BY <1>3, <1>4

\* What is reported is a hit.
LEMMA ScanMeans ==
    ASSUME NEW queues, NEW sig, NEW r \in ScanReport(queues, sig)
    PROVE  /\ r.tid = sig.tid /\ r.other \in Threads /\ r.other # sig.tid
           /\ \E k \in DOMAIN queues[r.other] :
                 /\ isConcurrent(sig, queues[r.other][k])
                 /\ r.kind = Conflict(sig, queues[r.other][k])
                 /\ r.kind # "none"
  <1>1. PICK h \in Hits(queues, sig) :
           r = [tid |-> sig.tid, other |-> h[1], kind |-> Conflict(sig, queues[h[1]][h[2]])]
    BY DEF ScanReport
  <1>2. /\ h[1] \in Threads /\ h[1] # sig.tid /\ h[2] \in 1 .. BLOCK_HISTORY_QUEUE_SIZE
        /\ h[2] \in Scanned(queues[h[1]], sig)
        /\ Conflict(sig, queues[h[1]][h[2]]) # "none"
    BY DEF Hits
  <1>3. h[2] \in DOMAIN queues[h[1]] /\ isConcurrent(sig, queues[h[1]][h[2]])
    BY <1>2, QueueSizeAssumption DEF Scanned
  <1>4. r.tid = sig.tid /\ r.other = h[1] /\ r.kind = Conflict(sig, queues[h[1]][h[2]])
    BY <1>1
  <1> QED BY <1>2, <1>3, <1>4

Kinds == {"r-w", "w-r", "w-w"}

\* The three tests of the scan find a conflict if there is one, and name it.
LEMMA ConflictIsClash ==
    ASSUME NEW a, NEW b
    PROVE  /\ (\E kind \in Kinds : Clash(a, b, kind) # {}) => Conflict(a, b) # "none"
           /\ Conflict(a, b) # "none" =>
                 Conflict(a, b) \in Kinds /\ Clash(a, b, Conflict(a, b)) # {}
  <1>1. /\ Clash(a, b, "r-w") = a.r \cap b.w
        /\ Clash(a, b, "w-r") = a.w \cap b.r
        /\ Clash(a, b, "w-w") = a.w \cap b.w
    BY DEF Clash
  <1> QED BY <1>1 DEF Conflict, hasInCommon, Kinds

-----------------------------------------------------------------------------
\* One epoch is handed over.

Added(t) ==
    /\ blockHistoryQueues' =
          [blockHistoryQueues EXCEPT ![t] = pushFront(@, CurrentSig(t))]
    /\ races' = races \cup ScanReport(blockHistoryQueues, CurrentSig(t))

Idle == UNCHANGED <<blockHistoryQueues, races>>

\* A step hands over the epoch of the thread that makes it, or none.
LEMMA StepsScan ==
    ASSUME TypeInv, NEW t \in Threads,
           \/ Lifecycle(t) \/ Access(t) \/ MutexStep(t)
           \/ CondStep(t) \/ BarrierStep(t)
    PROVE  \/ Idle
           \/ Added(t) /\ pc[t] \notin {"none", "spawned", "exited"}
  <1> USE DEF At
  <1>1. addSignature(t) => Idle \/ Added(t)
    BY DEF addSignature, Idle, Added
  <1>2. EndEpoch(t) => Idle \/ Added(t)
    BY <1>1 DEF EndEpoch
  <1> DEFINE Goal == Idle \/ (Added(t) /\ pc[t] \notin {"none", "spawned", "exited"})
  <1>3. CASE Lifecycle(t)
    <2>1. CASE ThreadStart(t) \/ CreateCall(t) \/ CreateTimeout(t) \/ CreatePublish(t)
               \/ \E c \in Threads : JoinCall(t, c)
      BY <2>1 DEF ThreadStart, CreateCall, Spawn, CreateTimeout, CreatePublish, Publish,
                  JoinCall, rdm, Idle
    <2>2. CASE CreateEpoch(t)
      BY <1>2, <2>2 DEF CreateEpoch
    <2>3. CASE ThreadFini(t)
      BY <1>1, <2>3 DEF ThreadFini
    <2>4. CASE JoinReturn(t)
      BY <1>2, <2>4 DEF JoinReturn
    <2> QED BY <1>3, <2>1, <2>2, <2>3, <2>4 DEF Lifecycle
  <1>4. CASE Access(t)
    BY <1>4 DEF Access, Read, Write, rdm, Idle
  <1>5. CASE MutexStep(t)
    <2>1. CASE AfterFailedTryLock(t) \/ \E m \in Mutexes, call \in {"lock", "trylock"} :
                                            BeforeLock(t, m, call)
      BY <2>1 DEF AfterFailedTryLock, BeforeLock, rdm, Idle
    <2>2. ASSUME NEW m \in Mutexes, BeforeUnlock(t, m) PROVE Goal
      <3>1. CASE m \in Tracked
        BY <1>2, <2>2, <3>1 DEF BeforeUnlock, LeaveClock
      <3>2. CASE m \notin Tracked
        BY <2>2, <3>2 DEF BeforeUnlock, rdm, Idle
      <3> QED BY <3>1, <3>2
    <2>3. CASE AfterLock(t)
      <3>1. CASE lockAddr[t] \in Tracked
        BY <1>2, <2>3, <3>1 DEF AfterLock
      <3>2. CASE lockAddr[t] \notin Tracked
        BY <2>3, <3>2 DEF AfterLock, rdm, Idle
      <3> QED BY <3>1, <3>2
    <2> QED BY <1>5, <2>1, <2>2, <2>3 DEF MutexStep
  <1>6. CASE CondStep(t)
    <2>1. CASE CondSleep(t) \/ SpuriousWakeup(t) \/ AfterCondWait(t) \/ CondSignal(t)
               \/ BeforeCondBroadcast(t)
      BY <2>1 DEF CondSleep, SpuriousWakeup, AfterCondWait, CondSignal,
                  BeforeCondBroadcast, rdm, Idle
    <2>2. ASSUME NEW cond \in Conds, NEW m \in Mutexes, BeforeCondWait(t, cond, m)
          PROVE  Goal
      <3>1. CASE m \in Tracked
        BY <1>2, <2>2, <3>1 DEF BeforeCondWait, LeaveClock
      <3>2. CASE m \notin Tracked
        BY <2>2, <3>2 DEF BeforeCondWait, rdm, Idle
      <3> QED BY <3>1, <3>2
    <2>3. ASSUME NEW cond \in Conds, BeforeCondSignal(t, cond) PROVE Goal
      <3>1. CASE cond \in Tracked
        BY <1>2, <2>3, <3>1 DEF BeforeCondSignal, Notify
      <3>2. CASE cond \notin Tracked
        BY <2>3, <3>2 DEF BeforeCondSignal, rdm, Idle
      <3> QED BY <3>1, <3>2
    <2> QED BY <1>6, <2>1, <2>2, <2>3 DEF CondStep
  <1>7. CASE BarrierStep(t)
    <2>1. CASE \/ \E b \in Barriers, size \in BarrierSizes : BeforeBarrierInit(t, b, size)
               \/ BarrierArrive(t) \/ AfterBarrierWait(t)
      BY <2>1 DEF BeforeBarrierInit, BarrierArrive, AfterBarrierWait, rdm, Idle
    <2>2. CASE \E b \in Barriers : BeforeBarrierWait(t, b)
      BY <1>2, <2>2 DEF BeforeBarrierWait
    <2> QED BY <1>7, <2>1, <2>2 DEF BarrierStep
  <1> QED BY <1>3, <1>4, <1>5, <1>6, <1>7

\* What is in the queues after that.
LEMMA AddedEntries ==
    ASSUME TypeOK, NEW t \in Threads, Added(t)
    PROVE  /\ CurrentSig(t) \in Entries(t)'
           /\ \A e \in Entries(t)' : e \in Entries(t) \/ e = CurrentSig(t)
           /\ \A u \in Threads \ {t} : blockHistoryQueues'[u] = blockHistoryQueues[u]
                                      /\ Entries(u)' = Entries(u)
           /\ blockHistoryQueues'[t] = pushFront(blockHistoryQueues[t], CurrentSig(t))
  <1>1. CurrentSig(t) \in SigRaceData /\ blockHistoryQueues[t] \in Seq(SigRaceData)
    BY CurrentSigType DEF TypeOK
  <1>2. /\ blockHistoryQueues'[t] = pushFront(blockHistoryQueues[t], CurrentSig(t))
        /\ \A u \in Threads \ {t} : blockHistoryQueues'[u] = blockHistoryQueues[u]
    BY DEF Added, TypeOK
  <1>3. \A u \in Threads \ {t} : Entries(u)' = Entries(u)
    BY <1>2 DEF Entries
  <1> DEFINE q == pushFront(blockHistoryQueues[t], CurrentSig(t))
  <1>4. /\ 1 \in DOMAIN q /\ q[1] = CurrentSig(t)
        /\ \A k \in DOMAIN q :
              k \in Nat /\ (k # 1 => /\ k - 1 \in DOMAIN blockHistoryQueues[t]
                                     /\ q[k] = blockHistoryQueues[t][k - 1])
    BY <1>1, PushFrontEntries
  <1>5. Entries(t)' = {q[k] : k \in DOMAIN q}
    BY <1>2 DEF Entries
  <1> HIDE DEF q
  <1>6. CurrentSig(t) \in Entries(t)'
    BY <1>4, <1>5
  <1>7. \A e \in Entries(t)' : e \in Entries(t) \/ e = CurrentSig(t)
    BY <1>4, <1>5 DEF Entries
  <1> QED BY <1>2, <1>3, <1>6, <1>7

LEMMA IdleEntries ==
    ASSUME Idle PROVE \A u : Entries(u)' = Entries(u)
  BY DEF Idle, Entries

LEMMA EntryType ==
    ASSUME TypeOK, NEW u \in Threads, NEW e \in Entries(u)
    PROVE  e \in SigRaceData /\ e.ts \in Clock
  <1>1. blockHistoryQueues[u] \in Seq(SigRaceData)
    BY DEF TypeOK
  <1>2. e \in SigRaceData
    BY <1>1 DEF Entries
  <1> QED BY <1>2 DEF SigRaceData

\* A thread inside pthread_create changes its clock once, at the end, and one
\* that has ended does not.
Passing(t) ==
    \/ UNCHANGED vectorClock
    \/ /\ \E w : SetClock(t, w)
       /\ pc[t] \notin {"none", "create", "exited"}
       /\ pc[t] = "publish" => SetClock(t, advance(vectorClock[t], t))

LEMMA StepsPass ==
    ASSUME NEW t \in Threads,
           \/ Lifecycle(t) \/ Access(t) \/ MutexStep(t)
           \/ CondStep(t) \/ BarrierStep(t)
    PROVE  Passing(t)
  <1> USE DEF At
  <1>1. ASSUME NEW w, SetClock(t, w), pc[t] \notin {"none", "create", "exited", "publish"}
        PROVE  Passing(t)
    BY <1>1 DEF Passing
  <1>3. CASE Lifecycle(t)
    <2>1. CASE ThreadStart(t)
      BY <2>1 DEF ThreadStart, Passing
    <2>2. CASE CreateCall(t) \/ CreateTimeout(t) \/ CreatePublish(t) \/ ThreadFini(t)
               \/ \E c \in Threads : JoinCall(t, c)
      BY <2>2 DEF CreateCall, Spawn, CreateTimeout, CreatePublish, Publish,
                  JoinCall, ThreadFini, Passing
    <2>3. CASE CreateEpoch(t)
      BY <2>3 DEF CreateEpoch, Passing
    <2>4. CASE JoinReturn(t)
      BY <2>4 DEF JoinReturn, Passing
    <2> QED BY <1>3, <2>1, <2>2, <2>3, <2>4 DEF Lifecycle
  <1>4. CASE Access(t)
    BY <1>4 DEF Access, Read, Write, Passing
  <1>5. CASE MutexStep(t)
    <2>1. CASE AfterFailedTryLock(t) \/ \E m \in Mutexes, call \in {"lock", "trylock"} :
                                            BeforeLock(t, m, call)
      BY <2>1 DEF AfterFailedTryLock, BeforeLock, Passing
    <2>2. CASE \E m \in Mutexes : BeforeUnlock(t, m)
      BY <2>2 DEF BeforeUnlock, LeaveClock, Passing
    <2>3. CASE AfterLock(t)
      BY <2>3 DEF AfterLock, Passing
    <2> QED BY <1>5, <2>1, <2>2, <2>3 DEF MutexStep
  <1>6. CASE CondStep(t)
    <2>1. CASE CondSleep(t) \/ SpuriousWakeup(t) \/ CondSignal(t) \/ BeforeCondBroadcast(t)
      BY <2>1 DEF CondSleep, SpuriousWakeup, CondSignal, BeforeCondBroadcast, Passing
    <2>2. CASE AfterCondWait(t)
      BY <2>2 DEF AfterCondWait, Passing
    <2>3. CASE \E cond \in Conds, m \in Mutexes : BeforeCondWait(t, cond, m)
      BY <2>3 DEF BeforeCondWait, LeaveClock, Passing
    <2>4. CASE \E cond \in Conds : BeforeCondSignal(t, cond)
      BY <2>4 DEF BeforeCondSignal, Notify, Passing
    <2> QED BY <1>6, <2>1, <2>2, <2>3, <2>4 DEF CondStep
  <1>7. CASE BarrierStep(t)
    <2>1. CASE \/ \E b \in Barriers, size \in BarrierSizes : BeforeBarrierInit(t, b, size)
               \/ BarrierArrive(t)
      BY <2>1 DEF BeforeBarrierInit, BarrierArrive, Passing
    <2>2. CASE \E b \in Barriers : BeforeBarrierWait(t, b)
      BY <2>2 DEF BeforeBarrierWait, Passing
    <2>3. CASE AfterBarrierWait(t)
      BY <2>3 DEF AfterBarrierWait, Passing
    <2> QED BY <1>7, <2>1, <2>2, <2>3 DEF BarrierStep
  <1> QED BY <1>3, <1>4, <1>5, <1>6, <1>7

\* A clock that changes reaches what others may know of its thread.
LEMMA ClocksPass ==
    ASSUME TypeInv, CreationInv, ExactInv, GoesOn, NEW t \in Threads, Passing(t),
           NEW u \in Threads
    PROVE  vectorClock'[u] = vectorClock[u] \/ Limit[u] <= vectorClock'[u][u]
  <1>0. /\ TypeOK /\ vectorClock \in [Threads -> Clock] /\ JoinInv
        /\ vectorClock[t] \in Clock /\ vectorClock[t][t] \in Nat
    BY DEF TypeInv, TypeOK, ExactInv, AheadInv, Clock
  <1>1. CASE u # t
    BY <1>0, <1>1 DEF Passing, SetClock
  <1>2. CASE u = t /\ ~ UNCHANGED vectorClock
    <2>1. Limit[t] = vectorClock[t][t] + Slack(t)
      BY <1>0, LimitType
    <2>2. CASE pc[t] = "publish"
      <3>1. vectorClock'[t] = advance(vectorClock[t], t)
        BY <1>0, <1>2, <2>2 DEF Passing, SetClock
      <3>2. vectorClock'[t][t] = vectorClock[t][t] + 1
        BY <1>0, <3>1 DEF advance, Clock
      <3> QED BY <1>0, <1>2, <2>1, <3>2 DEF Slack
    <2>3. CASE pc[t] # "publish"
      <3>1. pc[t] \notin Creating /\ t \notin joined
        BY <1>0, <1>2, <2>3 DEF Passing, Creating, JoinInv
      <3>2. vectorClock'[t][t] >= vectorClock[t][t]
        BY DEF GoesOn
      <3>3. Slack(t) = 0
        BY <3>1 DEF Slack
      <3> QED BY <1>0, <1>2, <2>1, <3>2, <3>3
    <2> QED BY <2>2, <2>3
  <1> QED BY <1>1, <1>2

-----------------------------------------------------------------------------
\* The invariant, in named parts.

\* An entry that has seen an epoch that goes on was made by a thread that has
\* moved on since: QueueInv from the other side.
BackInv ==
    \A u \in Threads : \A e \in Entries(u) : \A t \in Threads \ {u} :
        Seen(vectorClock[t], t, e.ts, u)

LengthInv ==
    \A u \in Threads : Len(blockHistoryQueues[u]) <= BLOCK_HISTORY_QUEUE_SIZE

\* The epoch in which a thread creates another one precedes all epochs of the
\* new thread, although it ends after some of them.
ChildInv ==
    \A t, c \in Threads : (pc[t] \in Creating /\ c = Newest) =>
        /\ t # c
        /\ pc[c] # "spawned" => Epoch(t) \in past[c]
        /\ \A e \in Entries(c) : Epoch(t) \in e.past

ReportInv == BackInv /\ LengthInv /\ ChildInv

Steps(t) ==
    Lifecycle(t) \/ Access(t) \/ MutexStep(t) \/ CondStep(t) \/ BarrierStep(t)

LEMMA BackKept ==
    ASSUME TypeInv, CreationInv, ExactInv, BackInv, GoesOn, NEW t \in Threads,
           Passing(t), Idle \/ Added(t), TypeInv'
    PROVE  BackInv'
  <1> SUFFICES ASSUME NEW u \in Threads, NEW e \in Entries(u)', NEW x \in Threads \ {u}
               PROVE  Seen(vectorClock'[x], x, e.ts, u)
    BY DEF BackInv
  <1>0. /\ TypeOK /\ FinalClockInv /\ ClockInv /\ QueueInv
        /\ vectorClock \in [Threads -> Clock] /\ vectorClock' \in [Threads -> Clock]
    BY DEF TypeInv, TypeOK, ExactInv, CreationInv
  <1>1. e \in Entries(u) \/ (u = t /\ e = CurrentSig(t))
    BY <1>0, AddedEntries, IdleEntries
  <1>2. e.ts \in Clock /\ Others(e.ts, u, Known) /\ Seen(vectorClock[x], x, e.ts, u)
    <2>1. CASE e \in Entries(u)
      BY <1>0, <2>1, EntryType DEF QueueInv, BackInv
    <2>2. CASE u = t /\ e = CurrentSig(t)
      <3>1. e.ts = vectorClock[t]
        BY <2>2 DEF CurrentSig
      <3> QED BY <1>0, <2>2, <3>1 DEF ClockInv
    <2> QED BY <1>1, <2>1, <2>2
  <1>3. vectorClock'[x] = vectorClock[x] \/ Limit[x] <= vectorClock'[x][x]
    BY ClocksPass
  <1>4. CASE vectorClock'[x] = vectorClock[x]
    BY <1>2, <1>4
  <1>5. CASE Limit[x] <= vectorClock'[x][x]
    <2>1. /\ e.ts[x] \in Nat /\ Limit[x] \in Nat /\ Known[x] \in Nat
          /\ vectorClock'[x][x] \in Nat /\ Known[x] <= Limit[x]
      <3>1. Limit \in Clock /\ Known \in Clock /\ Below(Known, Limit)
        BY <1>0, KnownType
      <3> QED BY <1>0, <1>2, <3>1 DEF Clock, Below
    <2>2. e.ts[x] <= Limit[x]
      BY <1>2, <2>1 DEF Others
    <2> QED BY <1>5, <2>1, <2>2 DEF Seen
  <1> QED BY <1>3, <1>4, <1>5

LEMMA LengthKept ==
    ASSUME TypeOK, LengthInv, NEW t \in Threads, Idle \/ Added(t)
    PROVE  LengthInv'
  <1>1. CASE Idle
    BY <1>1 DEF Idle, LengthInv
  <1>2. CASE Added(t)
    <2> DEFINE q == blockHistoryQueues[t]
               sig == CurrentSig(t)
               whole == <<sig>> \o q
               n == IF Len(q) < BLOCK_HISTORY_QUEUE_SIZE
                    THEN Len(q) + 1 ELSE BLOCK_HISTORY_QUEUE_SIZE
    <2>1. q \in Seq(SigRaceData) /\ sig \in SigRaceData
      BY CurrentSigType DEF TypeOK
    <2>2. blockHistoryQueues'[t] = pushFront(q, sig)
      BY <1>2, AddedEntries
    <2> HIDE DEF q, sig
    <2>3. whole \in Seq(SigRaceData) /\ Len(whole) = Len(q) + 1
      BY <2>1
    <2>4. n \in 1 .. Len(whole) /\ n <= BLOCK_HISTORY_QUEUE_SIZE
      BY <2>1, <2>3, QueueSizeAssumption
    <2>5. pushFront(q, sig) = SubSeq(whole, 1, n)
      BY DEF pushFront
    <2> HIDE DEF whole, n
    <2>6. Len(SubSeq(whole, 1, n)) = n
      BY <2>3, <2>4
    <2> QED BY <1>2, <2>2, <2>4, <2>5, <2>6, AddedEntries DEF LengthInv
  <1> QED BY <1>1, <1>2

\* What the program orders stays ordered; a new thread starts with the past of
\* its creator.
PastGrows(t) ==
    /\ \A u \in Threads \ {t} : past'[u] = past[u]
    /\ \/ past[t] \subseteq past'[t]
       \/ ThreadStart(t) /\ parent[t] # NO_ID
          /\ past'[t] = past[parent[t]] \cup {Epoch(parent[t])}

LEMMA StepsExtendPast ==
    ASSUME TypeInv, NEW t \in Threads, Steps(t)
    PROVE  PastGrows(t)
  <1>0. past \in [Threads -> SUBSET Epochs]
    BY DEF TypeInv, TypeOK
  <1>1. UNCHANGED past => PastGrows(t)
    BY DEF PastGrows
  <1>2. ASSUME NEW S, past' = [past EXCEPT ![t] = @ \cup S] PROVE PastGrows(t)
    BY <1>0, <1>2 DEF PastGrows
  <1>3. ASSUME NEW S, ExtendPast(t, S) PROVE PastGrows(t)
    <2>1. past' = [past EXCEPT ![t] = @ \cup ({Epoch(t)} \cup S)]
      BY <1>0, <1>3 DEF ExtendPast
    <2> QED BY <1>2, <2>1
  <1>4. CASE Lifecycle(t)
    <2>1. CASE ThreadStart(t)
      <3>1. \/ UNCHANGED past
            \/ /\ parent[t] # NO_ID
               /\ past' = [past EXCEPT ![t] = past[parent[t]] \cup {Epoch(parent[t])}]
        BY <2>1 DEF ThreadStart
      <3> QED BY <1>0, <1>1, <2>1, <3>1 DEF PastGrows
    <2>2. CASE CreateCall(t) \/ CreateTimeout(t) \/ CreatePublish(t) \/ ThreadFini(t)
               \/ \E c \in Threads : JoinCall(t, c)
      BY <1>1, <2>2 DEF CreateCall, Spawn, CreateTimeout, CreatePublish, Publish,
                  JoinCall, ThreadFini, ghosts
    <2>3. CASE CreateEpoch(t)
      BY <1>3, <2>3 DEF CreateEpoch
    <2>4. CASE JoinReturn(t)
      <3>1. UNCHANGED past \/ ExtendPast(t, past[thread[t]] \cup {Epoch(thread[t])})
        BY <2>4 DEF JoinReturn
      <3> QED BY <1>1, <1>3, <3>1
    <2> QED BY <1>4, <2>1, <2>2, <2>3, <2>4 DEF Lifecycle
  <1>5. CASE Access(t)
    BY <1>1, <1>5 DEF Access, Read, Write, ghosts
  <1>6. CASE MutexStep(t)
    <2>1. CASE AfterFailedTryLock(t) \/ \E m \in Mutexes, call \in {"lock", "trylock"} :
                                            BeforeLock(t, m, call)
      BY <1>1, <2>1 DEF AfterFailedTryLock, BeforeLock, ghosts
    <2>2. CASE \E m \in Mutexes : BeforeUnlock(t, m)
      BY <1>1, <1>3, <2>2 DEF BeforeUnlock, LeaveClock
    <2>3. CASE AfterLock(t)
      <3>1. UNCHANGED past \/ ExtendPast(t, mutexPast[lockAddr[t]])
        BY <2>3 DEF AfterLock
      <3> QED BY <1>1, <1>3, <3>1
    <2> QED BY <1>6, <2>1, <2>2, <2>3 DEF MutexStep
  <1>7. CASE CondStep(t)
    <2>1. CASE CondSleep(t) \/ SpuriousWakeup(t) \/ CondSignal(t) \/ BeforeCondBroadcast(t)
      BY <1>1, <2>1 DEF CondSleep, SpuriousWakeup, CondSignal, BeforeCondBroadcast, ghosts
    <2>2. CASE AfterCondWait(t)
      <3>1. \/ UNCHANGED past
            \/ past' = [past EXCEPT ![t] = @ \cup pend[t] \cup mutexPast[lockAddr[t]]]
        BY <2>2 DEF AfterCondWait
      <3> QED BY <1>0, <1>1, <3>1 DEF PastGrows
    <2>3. CASE \E cond \in Conds, m \in Mutexes : BeforeCondWait(t, cond, m)
      BY <1>1, <1>3, <2>3 DEF BeforeCondWait, LeaveClock
    <2>4. CASE \E cond \in Conds : BeforeCondSignal(t, cond)
      BY <1>1, <1>3, <2>4 DEF BeforeCondSignal, Notify
    <2> QED BY <1>7, <2>1, <2>2, <2>3, <2>4 DEF CondStep
  <1>8. CASE BarrierStep(t)
    <2>1. CASE \/ \E b \in Barriers, size \in BarrierSizes : BeforeBarrierInit(t, b, size)
               \/ BarrierArrive(t)
      BY <1>1, <2>1 DEF BeforeBarrierInit, BarrierArrive, ghosts
    <2>2. CASE \E b \in Barriers : BeforeBarrierWait(t, b)
      BY <1>3, <2>2 DEF BeforeBarrierWait
    <2>3. CASE AfterBarrierWait(t)
      BY <1>2, <2>3 DEF AfterBarrierWait
    <2> QED BY <1>8, <2>1, <2>2, <2>3 DEF BarrierStep
  <1> QED BY <1>4, <1>5, <1>6, <1>7, <1>8 DEF Steps

\* A thread that is inside pthread_create has nothing else to do.
LEMMA CreatorSteps ==
    ASSUME NEW t \in Threads, pc[t] \in Creating, Steps(t)
    PROVE  CreateTimeout(t) \/ CreatePublish(t) \/ CreateEpoch(t)
  BY DEF Creating, Steps, At, Lifecycle, Access, MutexStep, CondStep, BarrierStep,
         ThreadStart, CreateCall, Spawn, JoinCall, JoinReturn, ThreadFini, Read, Write,
         BeforeLock, AfterLock, AfterFailedTryLock, BeforeUnlock, BeforeCondWait,
         CondSleep, SpuriousWakeup, AfterCondWait, BeforeCondSignal, CondSignal,
         BeforeCondBroadcast, BeforeBarrierInit, BeforeBarrierWait, BarrierArrive,
         AfterBarrierWait

\* Who is inside pthread_create after a step: whoever was, its clock unchanged,
\* or the thread that has just called it.
LEMMA CreatorsAfter ==
    ASSUME TypeInv, CreationInv, NEW t \in Threads, Steps(t), NEW x \in Threads,
           pc'[x] \in Creating
    PROVE  \/ /\ pc[x] \in Creating /\ nextTid' = nextTid
              /\ vectorClock'[x] = vectorClock[x]
           \/ x = t /\ CreateCall(t)
  <1> USE DEF At, Goto
  <1>0. pc \in [Threads -> PcValues] /\ vectorClock \in [Threads -> Clock]
    BY DEF TypeInv, TypeOK
  <1>1. CASE CreateCall(t)
    <2>1. /\ atomicCreate = NO_ID /\ nextTid < MaxThreads
          /\ pc' = [pc EXCEPT ![t] = "create", ![nextTid] = "spawned"]
      BY <1>1 DEF CreateCall, Spawn
    <2>2. x # NO_ID
      BY DEF Threads, NO_ID
    <2>3. pc[x] \notin Creating
      BY <2>1, <2>2 DEF CreationInv, LockInv
    <2>4. x = t \/ x = nextTid
      BY <1>0, <2>1, <2>3
    <2>5. x # nextTid \/ x = t
      BY <1>0, <2>1, <2>3 DEF Creating
    <2> QED BY <1>1, <2>4, <2>5
  <1>2. CASE ~ CreateCall(t)
    <2>1. pc[x] \in Creating /\ nextTid' = nextTid
      <3>1. CASE QuietStep
        BY <3>1 DEF QuietStep, Elsewhere, Creating
      <3>2. CASE ThreadStart(t)
        BY <1>0, <3>2 DEF ThreadStart, program, Creating
      <3>3. CASE CreatePublish(t)
        BY <1>0, <3>3 DEF CreatePublish, Publish, program, Creating
      <3>4. CASE CreateEpoch(t)
        BY <1>0, <3>4 DEF CreateEpoch, Creating
      <3>5. CASE ThreadFini(t)
        BY <1>0, <3>5 DEF ThreadFini, program, Creating
      <3>6. CASE Lifecycle(t)
        BY <1>2, <3>1, <3>2, <3>3, <3>4, <3>5, <3>6, JoinQuiet DEF Lifecycle
      <3> QED BY <3>1, <3>6, AccessQuiet, MutexQuiet, CondQuiet, BarrierQuiet DEF Steps
    <2>2. vectorClock'[x] = vectorClock[x]
      <3>1. CASE x # t
        <4>1. Passing(t)
          BY StepsPass DEF Steps
        <4> QED BY <1>0, <3>1, <4>1 DEF Passing, SetClock
      <3>2. CASE x = t
        <4>1. CreateTimeout(t) \/ CreatePublish(t) \/ CreateEpoch(t)
          BY <2>1, <3>2, CreatorSteps
        <4>2. ~ CreateEpoch(t)
          BY <1>0, <3>2 DEF CreateEpoch, Creating
        <4> QED BY <3>2, <4>1, <4>2 DEF CreateTimeout, CreatePublish, Publish
      <3> QED BY <3>1, <3>2
    <2> QED BY <2>1, <2>2
  <1> QED BY <1>1, <1>2

\* A thread that does not exist yet has no entries.
LEMMA NoEntriesYet ==
    ASSUME TypeInv, ExactInv, SortedInv, NEW u \in Threads, pc[u] \in {"none", "spawned"}
    PROVE  Entries(u) = {}
  <1> SUFFICES ASSUME NEW e \in Entries(u) PROVE FALSE
    OBVIOUS
  <1>1. PICK k \in DOMAIN blockHistoryQueues[u] : e = blockHistoryQueues[u][k]
    BY DEF Entries
  <1>2. e.ts[u] > 0 /\ e.ts[u] <= vectorClock[u][u]
    BY <1>1 DEF ExactInv, QueueInv, SortedInv
  <1>3. vectorClock[u][u] = 0
    BY DEF ExactInv, AheadInv, BoundInv, ZeroClock
  <1>4. e.ts[u] \in Nat
    BY EntryType DEF TypeInv, Clock
  <1> QED BY <1>2, <1>3, <1>4

LEMMA ChildKept ==
    ASSUME TypeInv, TypeInv', CreationInv, ExactInv, SortedInv, ChildInv,
           NEW t \in Threads, Steps(t)
    PROVE  ChildInv'
  <1> SUFFICES ASSUME NEW x \in Threads, NEW c \in Threads, pc'[x] \in Creating, c = Newest'
               PROVE  /\ x # c
                      /\ pc'[c] # "spawned" => Epoch(x)' \in past'[c]
                      /\ \A e \in Entries(c)' : Epoch(x)' \in e.past
    BY DEF ChildInv
  <1>0. /\ TypeOK /\ FamilyInv /\ Newest \in Threads
        /\ pc \in [Threads -> PcValues] /\ past \in [Threads -> SUBSET Epochs]
    BY Basics DEF TypeInv, TypeOK, CreationInv
  <1>1. CASE pc[x] \in Creating /\ nextTid' = nextTid /\ vectorClock'[x] = vectorClock[x]
    <2>1. Newest = c /\ Epoch(x)' = Epoch(x)
      BY <1>1 DEF Newest, Epoch
    <2>2. /\ x # c
          /\ pc[c] # "spawned" => Epoch(x) \in past[c]
          /\ \A e \in Entries(c) : Epoch(x) \in e.past
      BY <1>1, <2>1 DEF ChildInv
    <2>3. PastGrows(t)
      BY StepsExtendPast
    <2>4. ASSUME pc'[c] # "spawned" PROVE Epoch(x) \in past'[c]
      <3>1. CASE pc[c] # "spawned"
        <4>1. past[c] \subseteq past'[c]
          BY <1>0, <2>3, <3>1 DEF PastGrows, ThreadStart, At
        <4> QED BY <2>2, <3>1, <4>1
      <3>2. CASE pc[c] = "spawned"
        <4>1. parent[c] = x
          BY <1>1, <2>1 DEF CreationInv, LockInv
        <4>2. c = t /\ ThreadStart(t)
          <5>1. ~ QuietStep
            BY <1>0, <2>4, <3>2 DEF QuietStep, Elsewhere
          <5>2. Lifecycle(t)
            BY <5>1, AccessQuiet, MutexQuiet, CondQuiet, BarrierQuiet DEF Steps
          <5>3. /\ ~ CreateTimeout(t) /\ ~ JoinReturn(t)
                /\ ~ \E d \in Threads : JoinCall(t, d)
            BY <5>1, JoinQuiet
          <5>4. ~ CreateCall(t)
            BY <1>1, <1>0 DEF CreateCall, Spawn, TypeOK
          <5>5. ~ CreatePublish(t)
            BY <1>0, <2>4, <3>2 DEF CreatePublish, Publish, Goto, At
          <5>6. ~ CreateEpoch(t)
            BY <1>0, <2>4, <3>2 DEF CreateEpoch, Goto, At
          <5>7. ~ ThreadFini(t)
            BY <1>0, <2>4, <3>2 DEF ThreadFini, Goto, At
          <5>8. ThreadStart(t)
            BY <5>2, <5>3, <5>4, <5>5, <5>6, <5>7 DEF Lifecycle
          <5> QED BY <1>0, <2>4, <3>2, <5>8 DEF ThreadStart, Goto, At
        <4>3. x # NO_ID
          BY DEF Threads, NO_ID
        <4>4. past' = [past EXCEPT ![c] = past[x] \cup {Epoch(x)}]
          BY <2>4, <3>2, <4>1, <4>2, <4>3 DEF ThreadStart
        <4> QED BY <1>0, <4>4
      <3> QED BY <3>1, <3>2
    <2>5. ASSUME NEW e \in Entries(c)' PROVE Epoch(x) \in e.past
      <3>1. Idle \/ (Added(t) /\ pc[t] \notin {"none", "spawned", "exited"})
        BY StepsScan DEF Steps
      <3>2. e \in Entries(c) \/ (c = t /\ pc[c] # "spawned" /\ e = CurrentSig(t))
        BY <1>0, <2>5, <3>1, AddedEntries, IdleEntries
      <3>3. CASE c = t /\ pc[c] # "spawned" /\ e = CurrentSig(t)
        BY <2>2, <3>3 DEF CurrentSig
      <3> QED BY <2>2, <3>2, <3>3
    <2> QED BY <2>1, <2>2, <2>4, <2>5
  <1>2. CASE x = t /\ CreateCall(t)
    <2>1. /\ nextTid' = nextTid + 1 /\ nextTid < MaxThreads /\ pc[t] = "run"
          /\ pc' = [pc EXCEPT ![t] = "create", ![nextTid] = "spawned"]
          /\ UNCHANGED <<vectorClock, blockHistoryQueues>>
      BY <1>2 DEF CreateCall, Spawn, At, rdm
    <2>2. nextTid \in Threads /\ nextTid > Newest /\ c = nextTid
      BY <1>0, <2>1, InstanceAssumption, ThreadCountAssumption DEF TypeOK, Threads, Newest
    <2>3. pc[nextTid] = "none"
      BY <1>0, <2>2 DEF FamilyInv
    <2>4. Entries(nextTid) = {}
      BY <2>2, <2>3, NoEntriesYet
    <2>5. Entries(c)' = {}
      BY <2>1, <2>2, <2>4 DEF Entries
    <2>6. pc'[c] = "spawned"
      BY <1>0, <2>1, <2>2
    <2> QED BY <1>2, <2>1, <2>2, <2>3, <2>5, <2>6
  <1> QED BY <1>1, <1>2, CreatorsAfter

LEMMA ReportInvariant ==
    ASSUME Conds = {}, FullBarriers
    PROVE  Spec => []ReportInv
  <1>1. Init => ReportInv
    BY QueueSizeAssumption DEF Init, ReportInv, BackInv, LengthInv, ChildInv, Entries, Creating
  <1>2. /\ TypeInv /\ TypeInv' /\ CreationInv /\ ExactInv /\ SortedInv
        /\ ReportInv /\ [Next]_vars
        => ReportInv'
    <2> SUFFICES ASSUME TypeInv, TypeInv', CreationInv, ExactInv, SortedInv,
                        BackInv, LengthInv, ChildInv, [Next]_vars
                 PROVE  ReportInv'
      BY DEF ReportInv
    <2>1. ASSUME NEW t \in Threads, Steps(t) PROVE ReportInv'
      <3>1. Passing(t) /\ (Idle \/ Added(t))
        BY <2>1, StepsPass, StepsScan DEF Steps
      <3>2. GoesOn /\ TypeOK
        BY <2>1, StepsGoOn DEF Steps, TypeInv, ExactInv
      <3>3. BackInv'
        BY <3>1, <3>2, BackKept
      <3>4. LengthInv'
        BY <3>1, <3>2, LengthKept
      <3>5. ChildInv'
        BY <2>1, ChildKept
      <3> QED BY <3>3, <3>4, <3>5 DEF ReportInv
    <2>2. CASE UNCHANGED vars
      <3>1. UNCHANGED <<pc, nextTid, vectorClock, past, blockHistoryQueues>>
        BY <2>2 DEF vars, program, rdm, ghosts
      <3>2. BackInv'
        BY <3>1 DEF BackInv, Entries
      <3>3. LengthInv'
        BY <3>1 DEF LengthInv
      <3>4. ChildInv'
        BY <3>1 DEF ChildInv, Entries, Newest, Epoch
      <3> QED BY <3>2, <3>3, <3>4 DEF ReportInv
    <2> QED BY <2>1, <2>2 DEF Next, Steps
  <1> QED BY <1>1, <1>2, TypeCorrect, CreationCorrect, ExactCorrect, SortedCorrect, PTL
      DEF Spec

-----------------------------------------------------------------------------
\* Every race is reported.

\* The clock test of the scan is exact for every epoch that is handed over, and
\* for an entry behind one that has been seen.
LEMMA JudgedExactly ==
    ASSUME TypeInv, CreationInv, ExactInv, ReportInv,
           NEW t \in Threads, pc[t] \notin {"none", "spawned"},
           NEW u \in Threads \ {t}, NEW e \in Entries(u)
    PROVE  /\ isConcurrent(CurrentSig(t), e) <=> Unordered(CurrentSig(t), e)
           /\ Precedes(e, CurrentSig(t)) <=> e.ts[u] < vectorClock[t][u]
           /\ happensBefore(e, CurrentSig(t)) => Precedes(e, CurrentSig(t))
           /\ happensBefore(CurrentSig(t), e) => vectorClock[t][t] < e.ts[t]
  <1> DEFINE s == CurrentSig(t)
  <1>1. s.tid = t /\ s.ts = vectorClock[t] /\ s.past = past[t]
    BY DEF CurrentSig
  <1>2. /\ vectorClock[t] \in Clock /\ e.ts \in Clock
        /\ e.tid = u /\ e.ts[u] > 0 /\ vectorClock[t][t] > 0
        /\ Represents(vectorClock[t], past[t]) /\ Represents(e.ts, e.past)
        /\ Seen(e.ts, u, vectorClock[t], t) /\ Seen(vectorClock[t], t, e.ts, u)
    BY EntryType DEF TypeInv, TypeOK, CreationInv, FinalClockInv, ExactInv, ClockInv,
       QueueInv, ReportInv, BackInv
  <1> HIDE DEF s
  <1>3. e.ts[t] \in Nat /\ e.ts[u] \in Nat /\ vectorClock[t][t] \in Nat
        /\ vectorClock[t][u] \in Nat
    BY <1>2 DEF Clock
  <1>4. Precedes(e, s) <=> e.ts[u] < vectorClock[t][u]
    BY <1>1, <1>2, <1>3 DEF Precedes, Represents
  <1>5. Precedes(s, e) <=> vectorClock[t][t] < e.ts[t]
    BY <1>1, <1>2, <1>3 DEF Precedes, Represents
  <1>6. happensBefore(e, s) <=> e.ts[u] < vectorClock[t][u] /\ e.ts[t] < vectorClock[t][t]
    BY <1>1, <1>2 DEF happensBefore, Less
  <1>7. happensBefore(s, e) <=> vectorClock[t][t] < e.ts[t] /\ vectorClock[t][u] < e.ts[u]
    BY <1>1, <1>2 DEF happensBefore, Less
  <1>8. isConcurrent(s, e) <=> Unordered(s, e)
    BY <1>2, <1>4, <1>5, <1>6, <1>7 DEF isConcurrent, Unordered, Seen
  <1> QED BY <1>4, <1>6, <1>7, <1>8 DEF s

\* No entry in front of an unordered one ends the scan: not if it precedes the
\* epoch, since then the entries behind it do too, and not if it comes after
\* it, which takes an epoch that is ending inside pthread_create.
LEMMA ScanReaches ==
    ASSUME TypeInv, CreationInv, ExactInv, SortedInv, ReportInv,
           NEW t \in Threads, pc[t] \notin {"none", "spawned", "exited"},
           pc[t] \in Creating => MaxThreads <= 2,
           NEW u \in Threads \ {t}, NEW j \in DOMAIN blockHistoryQueues[u],
           Unordered(CurrentSig(t), blockHistoryQueues[u][j])
    PROVE  j \in Scanned(blockHistoryQueues[u], CurrentSig(t))
  <1> DEFINE q == blockHistoryQueues[u]
             s == CurrentSig(t)
             f == q[j]
  <1>0. /\ TypeOK /\ q \in Seq(SigRaceData) /\ vectorClock[t] \in Clock
        /\ FamilyInv /\ LockInv
    BY DEF TypeInv, TypeOK, CreationInv
  <1>1. f \in Entries(u) /\ f.ts \in Clock
    BY <1>0, EntryType DEF Entries
  <1>2. ~ Precedes(f, s) /\ ~ Precedes(s, f)
    BY DEF Unordered
  <1>3. ASSUME NEW k \in 1 .. j PROVE isConcurrent(s, q[k])
    <2> DEFINE e == q[k]
    <2>0. k \in DOMAIN q /\ k \in Nat /\ j \in Nat
      BY <1>0
    <2>1. e \in Entries(u) /\ e.ts \in Clock
      BY <1>0, <2>0, EntryType DEF Entries
    <2>2. CASE k = j
      BY <1>1, <2>2, JudgedExactly
    <2>3. CASE k # j
      <3>1. f.ts[u] < e.ts[u]
        BY <2>0, <2>3 DEF SortedInv
      <3>2. f.ts[u] \in Nat /\ e.ts[u] \in Nat /\ vectorClock[t][u] \in Nat
            /\ e.ts[t] \in Nat /\ vectorClock[t][t] \in Nat
        BY <1>0, <1>1, <2>1 DEF Clock
      <3>3. ~ happensBefore(e, s)
        <4>1. happensBefore(e, s) => e.ts[u] < vectorClock[t][u]
          BY <2>1, JudgedExactly
        <4>2. ~ (f.ts[u] < vectorClock[t][u])
          BY <1>1, <1>2, JudgedExactly
        <4> QED BY <3>1, <3>2, <4>1, <4>2
      <3>4. ~ happensBefore(s, e)
        <4> SUFFICES ASSUME happensBefore(s, e) PROVE FALSE
          OBVIOUS
        <4>1. vectorClock[t][t] < e.ts[t]
          BY <2>1, JudgedExactly
        <4>2. e.ts[t] <= vectorClock[t][t] + Slack(t)
          <5>1. Limit[t] = vectorClock[t][t] + Slack(t) /\ Limit[t] \in Nat
                /\ Known[t] \in Nat /\ Known[t] <= Limit[t]
            BY <1>0, LimitType, KnownType DEF CreationInv, Below, Clock
          <5>2. e.ts[t] <= Known[t]
            BY <2>1 DEF ExactInv, QueueInv, Others
          <5> QED BY <3>2, <5>1, <5>2
        <4>3. pc[t] \in Creating
          BY <3>2, <4>1, <4>2 DEF Slack, ExactInv, AheadInv, JoinInv
        <4>4. MaxThreads <= 2
          BY <4>3
        <4>5. u = Newest
          <5>1. u <= Newest /\ t <= Newest /\ Newest \in 0 .. 1
            <6>1. pc[u] # "none" /\ pc[t] # "none"
              BY <1>1, NoEntriesYet
            <6>2. nextTid <= MaxThreads /\ nextTid \in Nat /\ MaxThreads \in Nat
              BY <1>0, InstanceAssumption DEF FamilyInv, TypeOK
            <6>3. u \in Nat /\ t \in Nat /\ Newest \in Nat
              BY <1>0, Basics
            <6>4. u <= Newest /\ t <= Newest
              BY <1>0, <6>1, <6>3 DEF FamilyInv
            <6> QED BY <4>4, <6>2, <6>3, <6>4 DEF Newest
          <5>2. t # Newest
            BY <1>0, <4>3, Basics DEF ReportInv, ChildInv
          <5>3. u \in Nat /\ t \in Nat
            BY <1>0, Basics
          <5> QED BY <5>1, <5>2, <5>3
        <4>6. Epoch(t) \in f.past
          BY <1>1, <4>3, <4>5 DEF ReportInv, ChildInv
        <4>7. s.tid = t /\ s.ts = vectorClock[t]
          BY DEF CurrentSig
        <4> QED BY <1>2, <4>6, <4>7 DEF Precedes, Epoch
      <3> QED BY <3>3, <3>4 DEF isConcurrent
    <2> QED BY <2>2, <2>3
  <1> QED BY <1>3 DEF Scanned

\* An epoch that conflicts with an unordered entry is reported when it ends.
LEMMA ConflictReported ==
    ASSUME TypeInv, CreationInv, ExactInv, SortedInv, ReportInv,
           NEW t \in Threads, pc[t] \notin {"none", "spawned", "exited"}, Added(t),
           pc[t] \in Creating => MaxThreads <= 2,
           NEW u \in Threads \ {t}, NEW e \in Entries(u),
           Unordered(CurrentSig(t), e),
           \E kind \in Kinds : Clash(CurrentSig(t), e, kind) # {}
    PROVE  \E r \in races' : r.tid = t
  <1>1. PICK j \in DOMAIN blockHistoryQueues[u] : e = blockHistoryQueues[u][j]
    BY DEF Entries
  <1>2. j \in Scanned(blockHistoryQueues[u], CurrentSig(t))
    BY <1>1, ScanReaches
  <1>3. Conflict(CurrentSig(t), blockHistoryQueues[u][j]) # "none"
    BY <1>1, ConflictIsClash
  <1>4. j \in 1 .. BLOCK_HISTORY_QUEUE_SIZE
    <2>1. blockHistoryQueues[u] \in Seq(SigRaceData)
      BY DEF TypeInv, TypeOK
    <2>2. j \in 1 .. Len(blockHistoryQueues[u]) /\ Len(blockHistoryQueues[u]) \in Nat
      BY <2>1
    <2>3. Len(blockHistoryQueues[u]) <= BLOCK_HISTORY_QUEUE_SIZE
      BY DEF ReportInv, LengthInv
    <2> QED BY <2>2, <2>3, QueueSizeAssumption
  <1>5. CurrentSig(t).tid = t
    BY DEF CurrentSig
  <1>6. <<u, j>> \in Hits(blockHistoryQueues, CurrentSig(t))
    BY <1>2, <1>3, <1>4, <1>5 DEF Hits
  <1>7. \E r \in ScanReport(blockHistoryQueues, CurrentSig(t)) : r.tid = t
    BY <1>5, <1>6, ScanFinds
  <1> QED BY <1>7 DEF Added

LEMMA RaceReportedStep ==
    ASSUME TypeInv, CreationInv, ExactInv, SortedInv, ReportInv, RaceIsReported,
           MaxThreads <= 2, NEW t \in Threads, Steps(t)
    PROVE  RaceIsReported'
  <1>1. Idle \/ (Added(t) /\ pc[t] \notin {"none", "spawned", "exited"})
    BY StepsScan DEF Steps
  <1>2. CASE Idle
    BY <1>2, IdleEntries DEF RaceIsReported, Idle
  <1>3. CASE Added(t) /\ pc[t] \notin {"none", "spawned", "exited"}
    <2> SUFFICES ASSUME NEW x \in Threads, NEW y \in Threads,
                        NEW a \in Entries(x)', NEW b \in Entries(y)', x # y,
                        Unordered(a, b), \E kind \in Kinds : Clash(a, b, kind) # {}
                 PROVE  \E r \in races' : r.tid \in {x, y}
      BY DEF RaceIsReported, Kinds
    <2>0. TypeOK /\ races \subseteq races'
      BY <1>3 DEF TypeInv, Added
    <2>1. /\ a \in Entries(x) \/ (x = t /\ a = CurrentSig(t))
          /\ b \in Entries(y) \/ (y = t /\ b = CurrentSig(t))
      BY <1>3, <2>0, AddedEntries
    <2>2. CASE a \in Entries(x) /\ b \in Entries(y)
      BY <2>0, <2>2 DEF RaceIsReported, Kinds
    <2>3. CASE x = t /\ a = CurrentSig(t)
      <3>1. b \in Entries(y)
        BY <2>1, <2>3
      <3>2. \E r \in races' : r.tid = t
        BY <1>3, <2>3, <3>1, ConflictReported
      <3> QED BY <2>3, <3>2
    <2>4. CASE y = t /\ b = CurrentSig(t)
      <3>1. a \in Entries(x)
        BY <2>1, <2>4
      <3>2. Unordered(b, a)
        BY DEF Unordered
      <3>3. \E kind \in Kinds : Clash(b, a, kind) # {}
        <4>1. /\ Clash(a, b, "r-w") = Clash(b, a, "w-r")
              /\ Clash(a, b, "w-r") = Clash(b, a, "r-w")
              /\ Clash(a, b, "w-w") = Clash(b, a, "w-w")
          BY DEF Clash
        <4> QED BY <4>1 DEF Kinds
      <3>4. \E r \in races' : r.tid = t
        BY <1>3, <2>4, <3>1, <3>2, <3>3, ConflictReported
      <3> QED BY <2>4, <3>4
    <2> QED BY <2>1, <2>2, <2>3, <2>4
  <1> QED BY <1>1, <1>2, <1>3

\* For a thread and one it creates, every conflict of two kept epochs that
\* nothing orders has been reported, for all lengths of the queues and whatever
\* the two do: with a third thread the epoch that ends inside pthread_create
\* can miss one.
THEOREM RacesAreReported ==
    ASSUME Conds = {}, FullBarriers, MaxThreads <= 2
    PROVE  Spec => []RaceIsReported
  <1>1. Init => RaceIsReported
    BY DEF Init, RaceIsReported, Entries
  <1>2. /\ TypeInv /\ CreationInv /\ ExactInv /\ SortedInv /\ ReportInv
        /\ RaceIsReported /\ [Next]_vars
        => RaceIsReported'
    <2> SUFFICES ASSUME TypeInv, CreationInv, ExactInv, SortedInv, ReportInv,
                        RaceIsReported, [Next]_vars
                 PROVE  RaceIsReported'
      OBVIOUS
    <2>1. CASE Next
      BY <2>1, RaceReportedStep DEF Next, Steps
    <2>2. CASE UNCHANGED vars
      <3>1. Idle
        BY <2>2 DEF vars, rdm, Idle
      <3> QED BY <3>1, IdleEntries DEF RaceIsReported, Idle
    <2> QED BY <2>1, <2>2
  <1> QED BY <1>1, <1>2, TypeCorrect, CreationCorrect, ExactCorrect, SortedCorrect,
             ReportInvariant, PTL DEF Spec

\* Whenever an epoch is handed over, except by pthread_create, and an entry of
\* another thread conflicts with it unordered, its thread is reported.
EndingEpochIsJudged ==
    [][\A t, u \in Threads :
          (t # u /\ pc[t] # "publish" /\ blockHistoryQueues'[t] # blockHistoryQueues[t])
          => \A e \in Entries(u) :
                (/\ Unordered(CurrentSig(t), e)
                 /\ \E kind \in Kinds : Clash(CurrentSig(t), e, kind) # {})
                => \E r \in races' : r.tid = t]_vars

\* addSignature misses no race with an epoch that is still kept, however many
\* threads there are, except for the epochs that end inside pthread_create.
THEOREM EpochsAreJudged ==
    ASSUME Conds = {}, FullBarriers
    PROVE  Spec => EndingEpochIsJudged
  <1> DEFINE Judged ==
        \A t, u \in Threads :
          (t # u /\ pc[t] # "publish" /\ blockHistoryQueues'[t] # blockHistoryQueues[t])
          => \A e \in Entries(u) :
                (/\ Unordered(CurrentSig(t), e)
                 /\ \E kind \in Kinds : Clash(CurrentSig(t), e, kind) # {})
                => \E r \in races' : r.tid = t
  <1>1. TypeInv /\ CreationInv /\ ExactInv /\ SortedInv /\ ReportInv /\ [Next]_vars
        => [Judged]_vars
    <2> SUFFICES ASSUME TypeInv, CreationInv, ExactInv, SortedInv, ReportInv, Next,
                        NEW t \in Threads, NEW u \in Threads, t # u, pc[t] # "publish",
                        blockHistoryQueues'[t] # blockHistoryQueues[t],
                        NEW e \in Entries(u), Unordered(CurrentSig(t), e),
                        \E kind \in Kinds : Clash(CurrentSig(t), e, kind) # {}
                 PROVE  \E r \in races' : r.tid = t
      OBVIOUS
    <2>1. PICK x \in Threads : Steps(x)
      BY DEF Next, Steps
    <2>2. Idle \/ (Added(x) /\ pc[x] \notin {"none", "spawned", "exited"})
      BY <2>1, StepsScan DEF Steps
    <2>3. ~ Idle
      BY DEF Idle
    <2>4. x = t
      BY <2>2, <2>3, AddedEntries DEF TypeInv
    <2>5. pc[t] \notin Creating
      <3>1. CASE pc[t] = "create"
        <4>1. CreateTimeout(t) \/ CreatePublish(t) \/ CreateEpoch(t)
          BY <2>1, <2>4, <3>1, CreatorSteps DEF Creating
        <4> QED BY <2>3, <3>1, <4>1
            DEF CreateTimeout, CreatePublish, Publish, CreateEpoch, At, rdm, Idle
      <3> QED BY <3>1 DEF Creating
    <2> QED BY <2>2, <2>3, <2>4, <2>5, ConflictReported
  <1> QED BY <1>1, TypeCorrect, CreationCorrect, ExactCorrect, SortedCorrect,
             ReportInvariant, PTL DEF Spec, EndingEpochIsJudged

-----------------------------------------------------------------------------
\* Every report is a race.

\* A reported race is one when it is reported: the epoch that ends conflicts in
\* the reported way with a kept epoch of the other thread, and nothing orders
\* the two.
NewReportsAreReal ==
    [][\A r \in races' \ races :
          /\ CurrentSig(r.tid) \in Entries(r.tid)'
          /\ \E b \in Entries(r.other)' :
                /\ Unordered(CurrentSig(r.tid), b)
                /\ Clash(CurrentSig(r.tid), b, r.kind) # {}]_vars

LEMMA ReportedIsReal ==
    ASSUME TypeInv, CreationInv, ExactInv, ReportInv, NEW t \in Threads,
           pc[t] \notin {"none", "spawned", "exited"}, Added(t),
           NEW r \in races' \ races
    PROVE  /\ r.tid = t /\ r.other \in Threads \ {t}
           /\ CurrentSig(t) \in Entries(t)'
           /\ \E b \in Entries(r.other)' :
                 Unordered(CurrentSig(t), b) /\ Clash(CurrentSig(t), b, r.kind) # {}
  <1> DEFINE s == CurrentSig(t)
             q == blockHistoryQueues[r.other]
  <1>1. r \in ScanReport(blockHistoryQueues, s) /\ s.tid = t
    BY DEF Added, CurrentSig
  <1> HIDE DEF s
  <1>2. /\ r.tid = t /\ r.other \in Threads \ {t}
        /\ \E k \in DOMAIN q : /\ isConcurrent(s, q[k])
                               /\ r.kind = Conflict(s, q[k]) /\ r.kind # "none"
    BY <1>1, ScanMeans
  <1>3. PICK k \in DOMAIN q : /\ isConcurrent(s, q[k])
                              /\ r.kind = Conflict(s, q[k]) /\ r.kind # "none"
    BY <1>2
  <1>4. q[k] \in Entries(r.other)
    BY <1>3 DEF Entries
  <1>5. Unordered(s, q[k])
    BY <1>2, <1>3, <1>4, JudgedExactly DEF s
  <1>6. Clash(s, q[k], r.kind) # {}
    BY <1>3, ConflictIsClash
  <1>7. s \in Entries(t)' /\ Entries(r.other)' = Entries(r.other)
    BY <1>2, AddedEntries DEF TypeInv, s
  <1> QED BY <1>2, <1>4, <1>5, <1>6, <1>7 DEF s

\* addSignature reports no false race, for any number of threads, whatever the
\* lengths of the queues, and also for the epochs that end in pthread_create.
THEOREM OnlyRacesAreReported ==
    ASSUME Conds = {}, FullBarriers
    PROVE  Spec => NewReportsAreReal
  <1> DEFINE Real ==
        \A r \in races' \ races :
          /\ CurrentSig(r.tid) \in Entries(r.tid)'
          /\ \E b \in Entries(r.other)' :
                /\ Unordered(CurrentSig(r.tid), b)
                /\ Clash(CurrentSig(r.tid), b, r.kind) # {}
  <1>1. TypeInv /\ CreationInv /\ ExactInv /\ ReportInv /\ [Next]_vars => [Real]_vars
    <2> SUFFICES ASSUME TypeInv, CreationInv, ExactInv, ReportInv, Next,
                        NEW r \in races' \ races
                 PROVE  /\ CurrentSig(r.tid) \in Entries(r.tid)'
                        /\ \E b \in Entries(r.other)' :
                              /\ Unordered(CurrentSig(r.tid), b)
                              /\ Clash(CurrentSig(r.tid), b, r.kind) # {}
      OBVIOUS
    <2>1. PICK t \in Threads : Steps(t)
      BY DEF Next, Steps
    <2>2. Added(t) /\ pc[t] \notin {"none", "spawned", "exited"}
      BY <2>1, StepsScan DEF Steps, Idle
    <2> QED BY <2>2, ReportedIsReal
  <1> QED BY <1>1, TypeCorrect, CreationCorrect, ExactCorrect, ReportInvariant, PTL
      DEF Spec, NewReportsAreReal

\* A thread that is inside a call that will end its epoch is below the bound on
\* epochs, and so no thread goes past it.
Ending == {"create", "publish", "join", "lock", "trylock"}

EpochBound ==
    \A t \in Threads :
        /\ vectorClock[t][t] <= MaxClock \/ vectorClock[t][t] <= 1
        /\ pc[t] \in Ending => MayAdvance(t)

\* A queue is no longer than the number of epochs its thread has begun since
\* any of its entries, counted from the back.
RoomInv ==
    \A u \in Threads : \A k \in DOMAIN blockHistoryQueues[u] :
        Len(blockHistoryQueues[u]) <= blockHistoryQueues[u][k].ts[u] + k - 1

\* A step moves one thread's clock by one epoch, inside a call of that thread.
Counts(t) ==
    /\ \A u \in Threads \ {t} : /\ vectorClock'[u] = vectorClock[u]
                                /\ pc'[u] \in Ending => pc[u] \in Ending
    /\ \/ /\ vectorClock'[t][t] = vectorClock[t][t]
          /\ pc'[t] \in Ending => MayAdvance(t)
       \/ /\ vectorClock'[t][t] = vectorClock[t][t] + 1
          /\ pc'[t] \notin Ending
          /\ MayAdvance(t) \/ vectorClock[t][t] = 0

LEMMA StepsCount ==
    ASSUME TypeInv, CreationInv, ExactInv, EpochBound, Conds = {},
           NEW t \in Threads, Steps(t)
    PROVE  Counts(t)
  <1> USE DEF At, Goto
  <1>0. /\ TypeOK /\ BoundInv /\ JoinInv /\ ReleasedInv /\ HandleInv
        /\ pc \in [Threads -> PcValues] /\ vectorClock \in [Threads -> Clock]
        /\ vectorClock[t] \in Clock /\ vectorClock[t][t] \in Nat
    <2>1. TypeOK /\ BoundInv /\ JoinInv /\ ReleasedInv /\ HandleInv
      BY DEF TypeInv, ExactInv, AheadInv, CreationInv
    <2>2. pc \in [Threads -> PcValues] /\ vectorClock \in [Threads -> Clock]
      BY <2>1 DEF TypeOK
    <2> QED BY <2>1, <2>2 DEF Clock
  <1>1. ASSUME NEW x \in Clock, Below(x, Limit), pc[t] \notin Creating \cup {"exited"}
        PROVE  x[t] <= vectorClock[t][t] /\ x[t] \in Nat
    <2>1. Limit[t] = vectorClock[t][t] + Slack(t) /\ Slack(t) = 0
      BY <1>0, <1>1, LimitType DEF Slack, JoinInv
    <2>2. x[t] <= Limit[t] /\ x[t] \in Nat
      BY <1>1 DEF Below, Clock
    <2> QED BY <1>0, <2>1, <2>2
  <1>2. ASSUME UNCHANGED vectorClock, pc' = pc PROVE Counts(t)
    BY <1>0, <1>2 DEF Counts, EpochBound
  <1>3. ASSUME UNCHANGED vectorClock, NEW l, pc' = [pc EXCEPT ![t] = l],
               l \in Ending => MayAdvance(t)
        PROVE  Counts(t)
    BY <1>0, <1>3 DEF Counts
  <1>4. ASSUME NEW w, SetClock(t, w), w[t] = vectorClock[t][t] + 1,
               \/ pc' = pc /\ pc[t] = "run"
               \/ \E l \in {"run", "barrier"} : pc' = [pc EXCEPT ![t] = l],
               MayAdvance(t) \/ vectorClock[t][t] = 0
        PROVE  Counts(t)
    <2>1. vectorClock'[t] = w /\ \A u \in Threads \ {t} : vectorClock'[u] = vectorClock[u]
      BY <1>0, <1>4 DEF SetClock
    <2>2. pc'[t] \in {"run", "barrier"} /\ \A u \in Threads \ {t} : pc'[u] = pc[u]
      BY <1>0, <1>4
    <2> QED BY <1>4, <2>1, <2>2 DEF Counts, Ending
  <1>5. advance(vectorClock[t], t)[t] = vectorClock[t][t] + 1
    BY <1>0 DEF advance, Clock
  <1>6. pc[t] \in Ending => MayAdvance(t)
    BY DEF EpochBound
  <1>7. CASE Lifecycle(t)
    <2>1. CASE ThreadStart(t)
      <3>1. pc[t] = "spawned"
        BY <2>1 DEF ThreadStart
      <3>2. vectorClock[t] = ZeroClock /\ vectorClock[t][t] = 0
        BY <1>0, <3>1 DEF BoundInv, ZeroClock
      <3>3. CASE ~ (threadCount + 1 < MAX_THREAD_COUNT)
        BY <1>2, <2>1, <3>3 DEF ThreadStart
      <3>4. CASE threadCount + 1 < MAX_THREAD_COUNT /\ parent[t] # NO_ID
        <4> DEFINE p == parent[t]
                   w == ChildClock(vectorClock[p], p, t)
        <4>1. p \in Threads
          BY <1>0, <3>4 DEF TypeOK, ThreadIds
        <4>2. vectorClock[p] \in Clock /\ Below(vectorClock[p], Limit)
          BY <1>0, <4>1 DEF BoundInv, TypeOK
        <4>3. vectorClock[p][t] = 0
          BY <1>1, <3>1, <3>2, <4>2 DEF Creating
        <4>4. w[t] = 1
          BY <4>3 DEF ChildClock
        <4>5. SetClock(t, w) /\ pc' = [pc EXCEPT ![t] = "run"]
          BY <2>1, <3>4 DEF ThreadStart
        <4> HIDE DEF w
        <4> QED BY <1>4, <3>2, <4>4, <4>5
      <3>5. CASE threadCount + 1 < MAX_THREAD_COUNT /\ parent[t] = NO_ID
        <4>1. FirstClock(t)[t] = 1
          BY DEF FirstClock, ZeroClock
        <4> QED BY <1>4, <2>1, <3>2, <3>5, <4>1 DEF ThreadStart
      <3> QED BY <3>3, <3>4, <3>5
    <2>2. CASE CreateCall(t)
      <3>1. /\ UNCHANGED vectorClock /\ MayAdvance(t)
            /\ pc' = [pc EXCEPT ![t] = "create", ![nextTid] = "spawned"]
        BY <2>2 DEF CreateCall, Spawn
      <3>2. \A u \in Threads \ {t} : pc'[u] \in Ending => pc[u] \in Ending
        BY <1>0, <3>1 DEF Ending
      <3> QED BY <3>1, <3>2 DEF Counts
    <2>3. CASE CreateTimeout(t)
      BY <1>2, <2>3 DEF CreateTimeout
    <2>4. CASE CreatePublish(t)
      BY <1>3, <1>6, <2>4 DEF CreatePublish, Publish, Ending
    <2>5. CASE CreateEpoch(t)
      BY <1>4, <1>5, <1>6, <2>5 DEF CreateEpoch, Ending
    <2>6. CASE \E c \in Threads : JoinCall(t, c)
      BY <1>3, <2>6 DEF JoinCall
    <2>7. CASE ThreadFini(t)
      BY <1>3, <2>7 DEF ThreadFini, Ending
    <2>8. CASE JoinReturn(t)
      <3> DEFINE c == pthreadPinIdMap[thread[t]]
                 found == c # NO_ID /\ joinVCMap[t][c] # ZeroClock
                 w == receiveWithIncrement(vectorClock[t], t, joinVCMap[t][c], c)
      <3>1. pc[t] = "join" /\ thread[t] \in Threads
        BY <2>8 DEF JoinReturn, TypeInv, ArgumentsOK
      <3>2. CASE ~ found
        BY <1>2, <2>8, <3>2 DEF JoinReturn
      <3>3. CASE found
        <4>1. /\ SetClock(t, w) /\ pc' = [pc EXCEPT ![t] = "run"]
              /\ c \in Threads /\ joinVCMap[t][c] # ZeroClock
          BY <1>0, <2>8, <3>1, <3>3 DEF JoinReturn, HandleInv
        <4>2. joinVCMap[t][c] = vectorClock[c]
          BY <1>0, <4>1 DEF JoinInv
        <4>3. vectorClock[c] \in Clock /\ Below(vectorClock[c], Limit)
          BY <1>0, <4>1 DEF BoundInv, TypeOK
        <4> HIDE DEF c
        <4>4. vectorClock[c][t] <= vectorClock[t][t] /\ vectorClock[c][t] \in Nat
          BY <1>1, <3>1, <4>3 DEF Creating
        <4>5. receiveAction(vectorClock[t], vectorClock[c])[t] = vectorClock[t][t]
          BY <1>0, <4>4 DEF receiveAction
        <4>6. w[t] = vectorClock[t][t] + 1
          BY <4>2, <4>5 DEF receiveWithIncrement
        <4> HIDE DEF w
        <4> QED BY <1>4, <1>6, <3>1, <4>1, <4>6 DEF Ending
      <3> QED BY <3>2, <3>3
    <2> QED BY <1>7, <2>1, <2>2, <2>3, <2>4, <2>5, <2>6, <2>7, <2>8 DEF Lifecycle
  <1>8. CASE Access(t)
    BY <1>2, <1>8 DEF Access, Read, Write
  <1>9. CASE MutexStep(t)
    <2>1. CASE \E m \in Mutexes, call \in {"lock", "trylock"} : BeforeLock(t, m, call)
      BY <1>3, <2>1 DEF BeforeLock
    <2>2. CASE AfterFailedTryLock(t)
      BY <1>3, <2>2 DEF AfterFailedTryLock, Ending
    <2>3. CASE \E m \in Mutexes : BeforeUnlock(t, m)
      <3>1. PICK m \in Mutexes : BeforeUnlock(t, m)
        BY <2>3
      <3>2. CASE m \in Tracked
        BY <1>4, <1>5, <3>1, <3>2 DEF BeforeUnlock, LeaveClock
      <3>3. CASE m \notin Tracked
        BY <1>2, <3>1, <3>3 DEF BeforeUnlock
      <3> QED BY <3>2, <3>3
    <2>4. CASE AfterLock(t)
      <3> DEFINE m == lockAddr[t]
                 a == advance(vectorClock[t], t)
                 x == unlockedThreadMap[m].vectorClock
                 w == IF unlockedThreadMap[m].tid # NO_ID THEN receiveAction(a, x) ELSE a
      <3>1. /\ pc[t] \in {"lock", "trylock"} /\ m \in Mutexes
            /\ pc' = [pc EXCEPT ![t] = "run"]
        BY <2>4 DEF AfterLock, TypeInv, ArgumentsOK
      <3>2. CASE m \in Tracked
        <4>1. SetClock(t, w)
          BY <2>4, <3>2 DEF AfterLock
        <4>2. x \in Clock /\ Below(x, Limit)
          BY <1>0, <3>1 DEF TypeOK, ThreadInfo, BoundInv
        <4> HIDE DEF x, m
        <4>3. x[t] <= vectorClock[t][t] /\ x[t] \in Nat
          BY <1>1, <3>1, <4>2 DEF Creating
        <4>4. a[t] = vectorClock[t][t] + 1
          BY <1>5
        <4> HIDE DEF a
        <4>5. receiveAction(a, x)[t] = vectorClock[t][t] + 1
          BY <1>0, <4>3, <4>4 DEF receiveAction
        <4>6. w[t] = vectorClock[t][t] + 1
          BY <4>4, <4>5
        <4> HIDE DEF w
        <4> QED BY <1>4, <1>6, <3>1, <4>1, <4>6 DEF Ending
      <3>3. CASE m \notin Tracked
        BY <1>3, <2>4, <3>1, <3>3 DEF AfterLock, Ending
      <3> QED BY <3>2, <3>3
    <2> QED BY <1>9, <2>1, <2>2, <2>3, <2>4 DEF MutexStep
  <1>10. CASE CondStep(t)
    <2>1. BeforeCondBroadcast(t)
      BY <1>10, OnlyBroadcast
    <2> QED BY <1>2, <2>1 DEF BeforeCondBroadcast
  <1>11. CASE BarrierStep(t)
    <2>1. CASE \E b \in Barriers, size \in BarrierSizes : BeforeBarrierInit(t, b, size)
      BY <1>2, <2>1 DEF BeforeBarrierInit
    <2>2. CASE \E b \in Barriers : BeforeBarrierWait(t, b)
      <3>1. /\ SetClock(t, advance(vectorClock[t], t)) /\ MayAdvance(t)
            /\ pc' = [pc EXCEPT ![t] = "barrier"]
        BY <2>2 DEF BeforeBarrierWait
      <3> QED BY <1>4, <1>5, <3>1
    <2>3. CASE BarrierArrive(t)
      <3>1. UNCHANGED vectorClock
        BY <2>3 DEF BarrierArrive
      <3>2. \A u \in Threads : pc'[u] \in {pc[u], "arrived", "released"}
        BY <1>0, <2>3 DEF BarrierArrive
      <3> QED BY <1>6, <3>1, <3>2 DEF Counts, Ending
    <2>4. CASE AfterBarrierWait(t)
      <3> DEFINE x == Left(t)
      <3>1. /\ pc[t] = "released" /\ SetClock(t, receiveAction(vectorClock[t], x))
            /\ pc' = [pc EXCEPT ![t] = "run"]
        BY <2>4 DEF AfterBarrierWait, Left
      <3>2. x[t] <= vectorClock[t][t] /\ x \in Clock
        <4>1. barrierAddr[t] \in Barriers
          BY <3>1 DEF TypeInv, ArgumentsOK
        <4> QED BY <1>0, <3>1, <4>1 DEF ReleasedInv, Left, TypeOK, BarrierData
      <3> HIDE DEF x
      <3>3. receiveAction(vectorClock[t], x)[t] = vectorClock[t][t]
        <4>1. x[t] \in Nat
          BY <3>2 DEF Clock
        <4> QED BY <1>0, <3>2, <4>1 DEF receiveAction
      <3>4. /\ vectorClock'[t][t] = vectorClock[t][t]
            /\ \A u \in Threads \ {t} : vectorClock'[u] = vectorClock[u]
        BY <1>0, <3>1, <3>3 DEF SetClock
      <3> QED BY <1>0, <3>1, <3>4 DEF Counts, Ending
    <2> QED BY <1>11, <2>1, <2>2, <2>3, <2>4 DEF BarrierStep
  <1> QED BY <1>7, <1>8, <1>9, <1>10, <1>11 DEF Steps

LEMMA BoundKept ==
    ASSUME TypeOK, TypeOK', EpochBound, NEW t \in Threads, Counts(t)
    PROVE  EpochBound'
  <1> SUFFICES ASSUME NEW u \in Threads
               PROVE  /\ vectorClock'[u][u] <= MaxClock \/ vectorClock'[u][u] <= 1
                      /\ pc'[u] \in Ending => vectorClock'[u][u] < MaxClock
    BY DEF EpochBound, MayAdvance
  <1>0. vectorClock[u][u] \in Nat /\ vectorClock'[u][u] \in Nat /\ MaxClock \in Nat
    BY InstanceAssumption DEF TypeOK, Clock
  <1>1. /\ vectorClock[u][u] <= MaxClock \/ vectorClock[u][u] <= 1
        /\ pc[u] \in Ending => vectorClock[u][u] < MaxClock
    BY DEF EpochBound, MayAdvance
  <1>2. CASE u # t
    <2>1. vectorClock'[u] = vectorClock[u] /\ (pc'[u] \in Ending => pc[u] \in Ending)
      BY <1>2 DEF Counts
    <2> QED BY <1>1, <2>1
  <1>3. CASE u = t
    <2>1. CASE vectorClock'[t][t] = vectorClock[t][t] /\ (pc'[t] \in Ending => MayAdvance(t))
      BY <1>1, <1>3, <2>1 DEF MayAdvance
    <2>2. CASE /\ vectorClock'[t][t] = vectorClock[t][t] + 1 /\ pc'[t] \notin Ending
               /\ MayAdvance(t) \/ vectorClock[t][t] = 0
      <3>1. vectorClock[t][t] < MaxClock \/ vectorClock[t][t] = 0
        BY <2>2 DEF MayAdvance
      <3> QED BY <1>0, <1>3, <2>2, <3>1
    <2> QED BY <2>1, <2>2 DEF Counts
  <1> QED BY <1>2, <1>3

\* A queue below its limit loses nothing.
LEMMA PushFrontKeeps ==
    ASSUME NEW q \in Seq(SigRaceData), NEW sig \in SigRaceData
    PROVE  /\ Len(pushFront(q, sig)) <= Len(q) + 1
           /\ Len(q) < BLOCK_HISTORY_QUEUE_SIZE =>
                \A k \in DOMAIN q : /\ k + 1 \in DOMAIN pushFront(q, sig)
                                    /\ pushFront(q, sig)[k + 1] = q[k]
  <1> DEFINE whole == <<sig>> \o q
             n == IF Len(q) < BLOCK_HISTORY_QUEUE_SIZE
                  THEN Len(q) + 1 ELSE BLOCK_HISTORY_QUEUE_SIZE
  <1>1. whole \in Seq(SigRaceData) /\ Len(whole) = Len(q) + 1 /\ Len(q) \in Nat
    OBVIOUS
  <1>2. \A k \in DOMAIN q : /\ k \in 1 .. Len(q) /\ whole[k + 1] = q[k]
    OBVIOUS
  <1>3. n \in 1 .. Len(whole)
    BY <1>1, QueueSizeAssumption
  <1>4. pushFront(q, sig) = SubSeq(whole, 1, n)
    BY DEF pushFront
  <1>5. Len(q) < BLOCK_HISTORY_QUEUE_SIZE => n = Len(q) + 1
    OBVIOUS
  <1> HIDE DEF whole, n
  <1>6. /\ Len(SubSeq(whole, 1, n)) = n
        /\ \A k \in 1 .. n : k \in DOMAIN SubSeq(whole, 1, n)
                             /\ SubSeq(whole, 1, n)[k] = whole[k]
    BY <1>1, <1>3
  <1> QED BY <1>1, <1>2, <1>3, <1>4, <1>5, <1>6

\* Where there is room, the queue of the thread that hands over an epoch keeps
\* its entries.
LEMMA NothingEvicted ==
    ASSUME TypeInv, CreationInv, SortedInv, RoomInv, EpochBound,
           MaxClock <= BLOCK_HISTORY_QUEUE_SIZE, failed = "none",
           NEW t \in Threads, pc[t] \notin {"none", "spawned", "exited"}, Added(t)
    PROVE  RoomInv' /\ \A u \in Threads : Entries(u) \subseteq Entries(u)'
  <1> DEFINE q == blockHistoryQueues[t]
             s == CurrentSig(t)
             new == pushFront(q, s)
  <1>0. /\ TypeOK /\ q \in Seq(SigRaceData) /\ s \in SigRaceData /\ s.ts = vectorClock[t]
        /\ vectorClock[t][t] \in Nat /\ vectorClock[t][t] > 0 /\ MaxClock \in Nat
        /\ BLOCK_HISTORY_QUEUE_SIZE \in Nat \ {0}
    <2>1. TypeOK /\ q \in Seq(SigRaceData) /\ vectorClock[t] \in Clock
      BY DEF TypeInv, TypeOK
    <2>2. s \in SigRaceData /\ s.ts = vectorClock[t]
      BY <2>1, CurrentSigType DEF CurrentSig
    <2>3. vectorClock[t][t] \in Nat /\ vectorClock[t][t] > 0
      BY <2>1 DEF Clock, CreationInv, FinalClockInv
    <2> QED BY <2>1, <2>2, <2>3, InstanceAssumption, QueueSizeAssumption
  <1>1. \A k \in DOMAIN q : /\ q[k].ts[t] \in Nat /\ q[k].ts[t] < vectorClock[t][t]
                            /\ Len(q) <= q[k].ts[t] + k - 1
    <2> SUFFICES ASSUME NEW k \in DOMAIN q
                 PROVE  /\ q[k].ts[t] \in Nat /\ q[k].ts[t] < vectorClock[t][t]
                        /\ Len(q) <= q[k].ts[t] + k - 1
      OBVIOUS
    <2>1. q[k] \in SigRaceData
      BY <1>0
    <2>2. q[k].ts[t] \in Nat
      BY <2>1 DEF SigRaceData, Clock
    <2> QED BY <2>2 DEF SortedInv, RoomInv
  <1>2. /\ blockHistoryQueues'[t] = new
        /\ \A u \in Threads \ {t} : blockHistoryQueues'[u] = blockHistoryQueues[u]
    BY <1>0, AddedEntries
  <1>3. /\ 1 \in DOMAIN new /\ new[1] = s
        /\ \A k \in DOMAIN new : k \in Nat /\ (k # 1 => /\ k - 1 \in DOMAIN q
                                                        /\ new[k] = q[k - 1])
    BY <1>0, PushFrontEntries
  <1>4. /\ Len(new) <= Len(q) + 1 /\ Len(q) \in Nat
        /\ Len(q) < BLOCK_HISTORY_QUEUE_SIZE =>
             \A k \in DOMAIN q : k + 1 \in DOMAIN new /\ new[k + 1] = q[k]
    BY <1>0, PushFrontKeeps
  <1>a. new \in Seq(SigRaceData)
    BY <1>0, <1>2, PushFrontType
  <1>5. Len(new) \in Nat
    BY <1>a
  <1>6. Len(q) < vectorClock[t][t]
    <2>1. CASE Len(q) = 0
      BY <1>0, <2>1
    <2>2. CASE Len(q) # 0
      <3>1. 1 \in DOMAIN q
        BY <1>0, <2>2
      <3>2. Len(q) <= q[1].ts[t] + 1 - 1 /\ q[1].ts[t] < vectorClock[t][t] /\ q[1].ts[t] \in Nat
        BY <1>1, <3>1
      <3> HIDE DEF q
      <3> QED BY <1>0, <1>4, <3>2
    <2> QED BY <2>1, <2>2
  <1>7. Len(q) < BLOCK_HISTORY_QUEUE_SIZE
    <2>1. vectorClock[t][t] <= MaxClock \/ vectorClock[t][t] <= 1
      BY DEF EpochBound
    <2> HIDE DEF q
    <2> QED BY <1>0, <1>4, <1>6, <2>1
  <1>8. RoomInv'
    <2> SUFFICES ASSUME NEW u \in Threads, NEW k \in DOMAIN blockHistoryQueues'[u]
                 PROVE  Len(blockHistoryQueues'[u]) <= blockHistoryQueues'[u][k].ts[u] + k - 1
      BY DEF RoomInv
    <2>1. CASE u # t
      BY <1>2, <2>1 DEF RoomInv
    <2>2. CASE u = t
      <3>1. k \in DOMAIN new
        BY <1>2, <2>2
      <3> HIDE DEF new, q, s
      <3>2. CASE k = 1
        <4>1. new[k].ts[t] = vectorClock[t][t]
          BY <1>0, <1>3, <3>2
        <4>2. Len(new) <= new[k].ts[t] + k - 1
          BY <1>0, <1>4, <1>5, <1>6, <3>2, <4>1
        <4> QED BY <1>2, <2>2, <4>2
      <3>3. CASE k # 1
        <4>1. k \in Nat /\ k - 1 \in DOMAIN q /\ new[k] = q[k - 1]
          BY <1>3, <3>1, <3>3
        <4>2. q[k - 1].ts[t] \in Nat /\ Len(q) <= q[k - 1].ts[t] + (k - 1) - 1
          BY <1>1, <4>1
        <4>3. Len(new) <= new[k].ts[t] + k - 1
          BY <1>4, <1>5, <4>1, <4>2
        <4> QED BY <1>2, <2>2, <4>3
      <3> QED BY <3>2, <3>3
    <2> QED BY <2>1, <2>2
  <1>9. Entries(t) \subseteq Entries(t)'
    <2>1. Entries(t)' = {new[k] : k \in DOMAIN new}
      BY <1>2 DEF Entries
    <2>2. Entries(t) = {q[k] : k \in DOMAIN q}
      BY DEF Entries
    <2> HIDE DEF new, q
    <2> QED BY <1>4, <1>7, <2>1, <2>2
  <1>10. \A u \in Threads \ {t} : Entries(u)' = Entries(u)
    BY <1>0, AddedEntries
  <1> QED BY <1>8, <1>9, <1>10

\* In programs whose threads have no more epochs than a queue has places, every
\* race in the report is a pair of kept epochs, unordered and in conflict.
THEOREM ReportsAreReal ==
    ASSUME Conds = {}, FullBarriers, MaxClock <= BLOCK_HISTORY_QUEUE_SIZE
    PROVE  Spec => []ReportIsReal
  <1> DEFINE Real == EpochBound /\ RoomInv /\ ReportIsReal
  <1>1. Init => Real
    <2> SUFFICES ASSUME Init PROVE Real
      OBVIOUS
    <2>1. EpochBound
      <3>1. \A t \in Threads : vectorClock[t][t] = 0 /\ pc[t] \in {"none", "spawned"}
        BY DEF Init, ZeroClock
      <3> QED BY <3>1 DEF EpochBound, Ending
    <2>2. RoomInv
      BY DEF Init, RoomInv
    <2>3. ReportIsReal
      BY DEF Init, ReportIsReal
    <2> QED BY <2>1, <2>2, <2>3
  <1>2. /\ TypeInv /\ TypeInv' /\ CreationInv /\ ExactInv /\ SortedInv /\ ReportInv
        /\ Real /\ [Next]_vars
        => Real'
    <2> SUFFICES ASSUME TypeInv, TypeInv', CreationInv, ExactInv, SortedInv, ReportInv,
                        EpochBound, RoomInv, ReportIsReal, [Next]_vars
                 PROVE  Real'
      OBVIOUS
    <2>1. ASSUME Idle PROVE RoomInv' /\ ReportIsReal'
      <3>1. RoomInv'
        BY <2>1 DEF Idle, RoomInv
      <3> QED BY <2>1, <3>1, IdleEntries DEF Idle, ReportIsReal
    <2>2. CASE UNCHANGED vars
      <3>1. Idle /\ UNCHANGED <<vectorClock, pc>>
        BY <2>2 DEF vars, rdm, Idle
      <3>2. EpochBound'
        BY <3>1 DEF EpochBound, MayAdvance
      <3> QED BY <2>1, <3>1, <3>2
    <2>3. ASSUME NEW t \in Threads, Steps(t) PROVE Real'
      <3>1. EpochBound'
        BY <2>3, StepsCount, BoundKept DEF TypeInv
      <3>2. CASE Idle
        BY <2>1, <3>1, <3>2
      <3>3. CASE Added(t) /\ pc[t] \notin {"none", "spawned", "exited"}
        <4>1. failed = "none"
          BY <2>3, StepsGoOn DEF Steps, GoesOn, ExactInv
        <4>2. RoomInv' /\ \A u \in Threads : Entries(u) \subseteq Entries(u)'
          BY <3>3, <4>1, NothingEvicted
        <4>3. ASSUME NEW r \in races'
              PROVE  \E a \in Entries(r.tid)', b \in Entries(r.other)' :
                        Unordered(a, b) /\ Clash(a, b, r.kind) # {}
          <5>1. CASE r \in races
            <6>1. r.tid \in Threads /\ r.other \in Threads
              BY <5>1 DEF TypeInv, TypeOK, Races
            <6> QED BY <4>2, <5>1, <6>1 DEF ReportIsReal
          <5>2. CASE r \notin races
            BY <3>3, <5>2, ReportedIsReal
          <5> QED BY <5>1, <5>2
        <4>4. ReportIsReal'
          BY <4>3 DEF ReportIsReal
        <4> QED BY <3>1, <4>2, <4>4
      <3> QED BY <2>3, <3>2, <3>3, StepsScan DEF Steps
    <2> QED BY <2>2, <2>3 DEF Next, Steps
  <1> QED BY <1>1, <1>2, TypeCorrect, CreationCorrect, ExactCorrect, SortedCorrect,
             ReportInvariant, PTL DEF Spec

-----------------------------------------------------------------------------
\* What was accessed is handed over, in every program.

\* AfterCondWait empties the filters and hands nothing over, so there must be
\* nothing in them: BeforeCondWait has emptied them, and a thread accesses no
\* memory inside pthread_cond_wait.
Waiting == {"condwait", "asleep", "wake"}

WaitInv ==
    \A t \in Threads : (pc[t] \in Waiting /\ lockAddr[t] \in Tracked) =>
        readFilter[t] = {} /\ writeFilter[t] = {}

\* A thread that waits has waited, and nothing was added to its filters.
WaitFrame ==
    \A u \in Threads : pc'[u] \in Waiting =>
        /\ pc[u] \in Waiting /\ lockAddr'[u] = lockAddr[u]
        /\ readFilter'[u] \subseteq readFilter[u]
        /\ writeFilter'[u] \subseteq writeFilter[u]

LEMMA WaitFramePreserves ==
    ASSUME WaitInv, WaitFrame PROVE WaitInv'
  BY DEF WaitInv, WaitFrame

LEMMA Emptied ==
    ASSUME TypeInv, NEW t \in Threads, EndEpoch(t)
    PROVE  \A u \in Threads : /\ readFilter'[u] \subseteq readFilter[u]
                              /\ writeFilter'[u] \subseteq writeFilter[u]
                              /\ u = t => readFilter'[u] = {} /\ writeFilter'[u] = {}
  BY DEF EndEpoch, clearFilters, TypeInv, TypeOK

LEMMA StepsWait ==
    ASSUME TypeInv, CreationInv, NEW t \in Threads,
           Lifecycle(t) \/ Access(t) \/ MutexStep(t) \/ BarrierStep(t)
    PROVE  WaitFrame
  <1> USE DEF At, Goto, Waiting, WaitFrame, filters, addresses, program
  <1>0. pc \in [Threads -> PcValues] /\ lockAddr \in [Threads -> Mutexes \cup {NULL}]
    BY DEF TypeInv, TypeOK
  <1>1. CASE Lifecycle(t)
    <2>1. CASE CreateCall(t)
      BY <1>0, <2>1 DEF CreateCall, Spawn
    <2>2. CASE ThreadStart(t) \/ CreateTimeout(t) \/ CreatePublish(t)
               \/ (\E c \in Threads : JoinCall(t, c)) \/ ThreadFini(t)
      BY <1>0, <2>2 DEF ThreadStart, CreateTimeout, CreatePublish, Publish, JoinCall,
                        ThreadFini
    <2>3. CASE CreateEpoch(t)
      BY <1>0, <2>3, Emptied DEF CreateEpoch
    <2>4. CASE JoinReturn(t)
      <3>1. /\ EndEpoch(t) /\ lockAddr' = lockAddr
            /\ pc' = [pc EXCEPT ![t] = "run"] \/ pc' = pc
        BY <2>4, Zenon DEF JoinReturn
      <3> QED BY <1>0, <3>1, Emptied
    <2> QED BY <1>1, <2>1, <2>2, <2>3, <2>4 DEF Lifecycle
  <1>2. CASE Access(t)
    <2>1. /\ readFilter \in [Threads -> SUBSET Addrs]
          /\ writeFilter \in [Threads -> SUBSET Addrs]
      BY DEF TypeInv, TypeOK
    <2> QED BY <1>2, <2>1 DEF Access, Read, Write
  <1>3. CASE MutexStep(t)
    <2>1. CASE AfterFailedTryLock(t) \/ \E m \in Mutexes, call \in {"lock", "trylock"} :
                                            BeforeLock(t, m, call)
      BY <1>0, <2>1 DEF AfterFailedTryLock, BeforeLock
    <2>2. CASE AfterLock(t)
      BY <1>0, <2>2, Emptied DEF AfterLock
    <2>3. CASE \E m \in Mutexes : BeforeUnlock(t, m)
      BY <1>0, <2>3, Emptied DEF BeforeUnlock, LeaveClock
    <2> QED BY <1>3, <2>1, <2>2, <2>3 DEF MutexStep
  <1>4. CASE BarrierStep(t)
    <2>1. CASE \E b \in Barriers, size \in BarrierSizes : BeforeBarrierInit(t, b, size)
      BY <2>1 DEF BeforeBarrierInit
    <2>2. CASE \E b \in Barriers : BeforeBarrierWait(t, b)
      BY <1>0, <2>2, Emptied DEF BeforeBarrierWait
    <2>3. CASE BarrierArrive(t)
      <3>1. \A u \in Threads : pc'[u] \in {"released", "arrived", pc[u]}
        BY <1>0, <2>3 DEF BarrierArrive
      <3> QED BY <2>3, <3>1 DEF BarrierArrive
    <2>4. CASE AfterBarrierWait(t)
      BY <1>0, <2>4 DEF AfterBarrierWait
    <2> QED BY <1>4, <2>1, <2>2, <2>3, <2>4 DEF BarrierStep
  <1> QED BY <1>1, <1>2, <1>3, <1>4

LEMMA CondStepsWait ==
    ASSUME TypeInv, WaitInv, NEW t \in Threads, CondStep(t)
    PROVE  WaitInv'
  <1> USE DEF At, Goto, filters, addresses, program
  <1>0. pc \in [Threads -> PcValues] /\ lockAddr \in [Threads -> Mutexes \cup {NULL}]
    BY DEF TypeInv, TypeOK
  <1>1. ASSUME NEW cond \in Conds, NEW m \in Mutexes, BeforeCondWait(t, cond, m)
        PROVE  WaitInv'
    <2>1. /\ lockAddr'[t] = m
          /\ \A u \in Threads \ {t} : pc'[u] = pc[u] /\ lockAddr'[u] = lockAddr[u]
      BY <1>0, <1>1 DEF BeforeCondWait
    <2>2. CASE m \in Tracked
      <3>1. EndEpoch(t)
        BY <1>1, <2>2 DEF BeforeCondWait, LeaveClock
      <3> QED BY <2>1, <3>1, Emptied DEF WaitInv
    <2>3. CASE m \notin Tracked
      BY <1>1, <2>1, <2>3 DEF BeforeCondWait, WaitInv
    <2> QED BY <2>2, <2>3
  <1>2. CASE CondSleep(t) \/ SpuriousWakeup(t)
    <2>1. WaitFrame
      BY <1>0, <1>2 DEF CondSleep, SpuriousWakeup, WaitFrame, Waiting
    <2> QED BY <2>1, WaitFramePreserves
  <1>3. CASE AfterCondWait(t)
    <2>1. /\ readFilter \in [Threads -> SUBSET Addrs]
          /\ writeFilter \in [Threads -> SUBSET Addrs]
      BY DEF TypeInv, TypeOK
    <2>2. WaitFrame
      BY <1>0, <1>3, <2>1 DEF AfterCondWait, clearFilters, WaitFrame, Waiting
    <2> QED BY <2>2, WaitFramePreserves
  <1>4. ASSUME NEW cond \in Conds, BeforeCondSignal(t, cond)
        PROVE  WaitInv'
    <2>1. lockAddr' = lockAddr /\ pc' = [pc EXCEPT ![t] = "signal"]
      BY <1>4 DEF BeforeCondSignal
    <2>2. WaitFrame
      BY <1>0, <1>4, <2>1, Emptied DEF BeforeCondSignal, Notify, WaitFrame, Waiting
    <2> QED BY <2>2, WaitFramePreserves
  <1>5. CASE CondSignal(t)
    <2>1. \A u \in Threads : pc'[u] \in Waiting => pc[u] \in Waiting
      BY <1>0, <1>5 DEF CondSignal, Sleepers, Waiting
    <2>2. WaitFrame
      BY <1>5, <2>1 DEF CondSignal, WaitFrame
    <2> QED BY <2>2, WaitFramePreserves
  <1>6. CASE BeforeCondBroadcast(t)
    <2>1. WaitFrame
      BY <1>6 DEF BeforeCondBroadcast, WaitFrame
    <2> QED BY <2>1, WaitFramePreserves
  <1> QED BY <1>1, <1>2, <1>3, <1>4, <1>5, <1>6 DEF CondStep

LEMMA WaitCorrect == Spec => []WaitInv
  <1>1. Init => WaitInv
    BY DEF Init, WaitInv
  <1>2. TypeInv /\ CreationInv /\ WaitInv /\ [Next]_vars => WaitInv'
    <2> SUFFICES ASSUME TypeInv, CreationInv, WaitInv, [Next]_vars PROVE WaitInv'
      OBVIOUS
    <2>1. CASE Next
      BY <2>1, StepsWait, WaitFramePreserves, CondStepsWait DEF Next
    <2>2. CASE UNCHANGED vars
      BY <2>2 DEF vars, filters, addresses, WaitInv
    <2> QED BY <2>1, <2>2
  <1> QED BY <1>1, <1>2, TypeCorrect, CreationCorrect, PTL DEF Spec

\* The filters of every thread only grow, or t hands over and empties its own.
Kept(t) ==
    \/ \A u \in Threads : /\ readFilter[u] \subseteq readFilter'[u]
                          /\ writeFilter[u] \subseteq writeFilter'[u]
    \/ EndEpoch(t)

LEMMA StepsKeep ==
    ASSUME TypeInv, WaitInv, NEW t \in Threads, Steps(t)
    PROVE  Kept(t)
  <1> USE DEF Kept, filters
  <1>0. /\ readFilter \in [Threads -> SUBSET Addrs]
        /\ writeFilter \in [Threads -> SUBSET Addrs]
    BY DEF TypeInv, TypeOK
  <1>1. CASE Lifecycle(t)
    <2>1. CASE JoinReturn(t)
      BY <2>1, Zenon DEF JoinReturn
    <2>2. CASE ThreadStart(t) \/ CreateCall(t) \/ CreateTimeout(t) \/ CreatePublish(t)
               \/ \E c \in Threads : JoinCall(t, c)
      BY <2>2 DEF ThreadStart, CreateCall, Spawn, CreateTimeout, CreatePublish, Publish,
                  JoinCall
    <2>3. CASE CreateEpoch(t) \/ ThreadFini(t)
      BY <2>3 DEF CreateEpoch, ThreadFini
    <2> QED BY <1>1, <2>1, <2>2, <2>3 DEF Lifecycle
  <1>2. CASE Access(t)
    BY <1>0, <1>2 DEF Access, Read, Write
  <1>3. CASE MutexStep(t)
    BY <1>3 DEF MutexStep, BeforeLock, AfterLock, AfterFailedTryLock, BeforeUnlock,
                LeaveClock
  <1>4. CASE CondStep(t)
    <2>1. CASE AfterCondWait(t)
      <3>1. pc[t] = "wake"
        BY <2>1 DEF AfterCondWait, At
      <3>2. CASE lockAddr[t] \in Tracked
        <4>1. readFilter[t] = {} /\ writeFilter[t] = {}
          BY <3>1, <3>2 DEF WaitInv, Waiting
        <4> QED BY <1>0, <2>1, <3>2, <4>1 DEF AfterCondWait, clearFilters
      <3>3. CASE lockAddr[t] \notin Tracked
        BY <2>1, <3>3 DEF AfterCondWait
      <3> QED BY <3>2, <3>3
    <2>2. CASE \/ \E cond \in Conds, m \in Mutexes : BeforeCondWait(t, cond, m)
               \/ \E cond \in Conds : BeforeCondSignal(t, cond)
      BY <2>2 DEF BeforeCondWait, LeaveClock, BeforeCondSignal, Notify
    <2>3. CASE CondSleep(t) \/ SpuriousWakeup(t) \/ CondSignal(t) \/ BeforeCondBroadcast(t)
      BY <2>3 DEF CondSleep, SpuriousWakeup, CondSignal, BeforeCondBroadcast
    <2> QED BY <1>4, <2>1, <2>2, <2>3 DEF CondStep
  <1>5. CASE BarrierStep(t)
    BY <1>5 DEF BarrierStep, BeforeBarrierInit, BeforeBarrierWait, BarrierArrive,
                AfterBarrierWait
  <1> QED BY <1>1, <1>2, <1>3, <1>4, <1>5 DEF Steps

\* No access is lost between the filters and the queues: whatever call ends an
\* epoch, the filters that it empties are in the newest entry of the thread's
\* queue, also when the queue is full.
THEOREM AccessesAreHandedOver == Spec => NoAccessIsDropped
  <1>1. TypeInv /\ WaitInv /\ [Next]_vars =>
        [\A t \in Threads :
            (\/ ~ readFilter[t] \subseteq readFilter'[t]
             \/ ~ writeFilter[t] \subseteq writeFilter'[t])
            => /\ blockHistoryQueues'[t] # <<>>
               /\ Head(blockHistoryQueues'[t]) = CurrentSig(t)]_vars
    <2> SUFFICES ASSUME TypeInv, WaitInv, Next, NEW t \in Threads,
                        \/ ~ readFilter[t] \subseteq readFilter'[t]
                        \/ ~ writeFilter[t] \subseteq writeFilter'[t]
                 PROVE  /\ blockHistoryQueues'[t] # <<>>
                        /\ Head(blockHistoryQueues'[t]) = CurrentSig(t)
      OBVIOUS
    <2>1. PICK s \in Threads : Steps(s)
      BY DEF Next, Steps
    <2>2. EndEpoch(s)
      BY <2>1, StepsKeep DEF Kept
    <2>3. /\ readFilter \in [Threads -> SUBSET Addrs]
          /\ writeFilter \in [Threads -> SUBSET Addrs]
          /\ blockHistoryQueues \in [Threads -> Seq(SigRaceData)]
          /\ CurrentSig(t) \in SigRaceData
      BY CurrentSigType DEF TypeInv, TypeOK
    <2>4. t = s /\ isDirty(CurrentSig(t))
      BY <2>2, <2>3 DEF EndEpoch, clearFilters, isDirty, CurrentSig
    <2>5. blockHistoryQueues'[t] = pushFront(blockHistoryQueues[t], CurrentSig(t))
      BY <2>2, <2>3, <2>4 DEF EndEpoch, addSignature
    <2> DEFINE q == blockHistoryQueues[t]
               sig == CurrentSig(t)
               n == IF Len(q) < BLOCK_HISTORY_QUEUE_SIZE
                    THEN Len(q) + 1 ELSE BLOCK_HISTORY_QUEUE_SIZE
    <2>6. q \in Seq(SigRaceData) /\ sig \in SigRaceData
      BY <2>3
    <2>7. pushFront(q, sig) = SubSeq(<<sig>> \o q, 1, n)
      BY DEF pushFront
    <2> HIDE DEF q, sig
    <2>8. n \in 1 .. Len(q) + 1 /\ Len(q) \in Nat
      BY <2>6, QueueSizeAssumption
    <2>9. /\ <<sig>> \o q \in Seq(SigRaceData) /\ Len(<<sig>> \o q) = Len(q) + 1
          /\ (<<sig>> \o q)[1] = sig
      BY <2>6
    <2> HIDE DEF n
    <2>10. pushFront(q, sig) # << >> /\ Head(pushFront(q, sig)) = sig
      BY <2>7, <2>8, <2>9
    <2> QED BY <2>5, <2>10 DEF q, sig
  <1>2. Spec => [][\A t \in Threads :
            (\/ ~ readFilter[t] \subseteq readFilter'[t]
             \/ ~ writeFilter[t] \subseteq writeFilter'[t])
            => /\ blockHistoryQueues'[t] # <<>>
               /\ Head(blockHistoryQueues'[t]) = CurrentSig(t)]_vars
    BY <1>1, TypeCorrect, WaitCorrect, PTL DEF Spec
  <1> QED BY <1>2 DEF NoAccessIsDropped
===============================================================================
