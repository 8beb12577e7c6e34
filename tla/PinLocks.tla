------------------------------- MODULE PinLocks -------------------------------
(***************************************************************************)
(* The Pin locks the handlers of the recording tool take, and the shared   *)
(* data they use under them.                                               *)
(*                                                                         *)
(* PthreadInstrumentation.tla makes a critical section one step.  Here a   *)
(* handler is the sequence of its locks and of its accesses to data that   *)
(* other threads use too; two threads at conflicting accesses at once are  *)
(* a data race in the tool.  What the accesses do is left out, but for     *)
(* lastCreatedThread, on which pthread_create waits.  A thread's filters   *)
(* and log file are used by that thread alone and left out.                *)
(***************************************************************************)
EXTENDS Integers, Sequences, FiniteSets

CONSTANTS Threads, NO_ID,
          Handlers,   \* the handlers that the program's calls reach
          MaxCalls    \* bound on the calls of the program

\* The handlers of the functions that a program calls; the other two are run by
\* Pin when a thread starts and when it ends.
ProgramHandlers ==
    {"pthread_create", "pthread_join", "AfterLock", "AfterCondWait",
     "BeforeCondSignal", "BeforeCondBroadcast", "BeforeBarrierInit",
     "BeforeBarrierWait", "AfterBarrierWait", "Read"}

ASSUME LocksAssumption ==
    /\ Threads \subseteq Nat /\ IsFiniteSet(Threads) /\ 0 \in Threads
    /\ NO_ID \notin Threads
    /\ Handlers \subseteq ProgramHandlers
    /\ MaxCalls \in Nat

VARIABLES
    holder,              \* the thread that has each lock
    todo,                \* todo[t]: what is left of the handler t is in
    inside,              \* inside[t]: the last handler of t
    lastCreatedThread,
    life,                \* of the program's threads
    parent, calls

vars == <<holder, todo, inside, lastCreatedThread, life, parent, calls>>

PinLock ==
    {"rdmLock", "atomicCreate", "barrierLock", "threadIdMapLock", "recordLock"}

Op(do, on, of) == [do |-> do, on |-> on, of |-> of]

\* An access to a global variable, or to one in the storage of thread t.
Uses(do, on) == Op(do, on, NO_ID)

\* Between GetLock and ReleaseLock.
Locked(lock, ops) ==
    <<Uses("get", lock)>> \o ops \o <<Uses("release", lock)>>

Advance(t) == <<Op("write", "vectorClock", t)>>

\* A failed assertion ends the program.
Abort == <<Uses("abort", "tool")>>

PrintRecordInfo == Locked("recordLock", <<Uses("write", "recordFile")>>)

\* addSignature and what else is done to the module in one critical section.
HandOver == Locked("rdmLock", <<Uses("write", "rdm")>>)

\* Mutation: the parent's clock is read when the lock has been released.
ThreadStartReadsLate(t) ==
    Locked("threadIdMapLock",
           PrintRecordInfo \o <<Uses("write", "rdm"), Uses("write", "threadIdMap"),
                                Uses("write", "threadCreateOrder"),
                                Uses("write", "lastCreatedThread")>>)
    \o <<Op("read", "vectorClock", parent[t])>>

ThreadStart(t) ==
    Locked("threadIdMapLock",
           PrintRecordInfo \o <<Uses("write", "rdm"), Uses("write", "threadIdMap"),
                                Uses("write", "threadCreateOrder"),
                                Op("read", "vectorClock", parent[t]),
                                Uses("write", "lastCreatedThread")>>)

\* Mutation: the main thread looks for a parent too.
ThreadFiniOfChild(t) ==
    <<Uses("write", "recordFile")>>
    \o HandOver
    \o Locked("threadIdMapLock", <<Uses("read", "threadIdMap"),
                                   Op("write", "joinVCMap", parent[t]),
                                   Op("write", "finalClock", t)>>)

\* The record is flushed without recordLock.  The assignment to joinVCMap[t] adds
\* an entry to the map of the parent and then writes the clock in that entry.
ThreadFini(t) ==
    <<Uses("write", "recordFile")>>
    \o HandOver
    \o Locked("threadIdMapLock", <<Uses("read", "threadIdMap")>> \o
              (IF parent[t] = NO_ID THEN << >>
               ELSE <<Op("write", "joinVCMap", parent[t]), Op("write", "finalClock", t)>>))

\* Mutation: threadIdMapLock is taken before the loop that waits.
PthreadCreateEagerly(t) ==
    Locked("atomicCreate",
           <<Uses("spawn", "child")>>
           \o Locked("threadIdMapLock", <<Uses("poll", "lastCreatedThread"),
                                          Uses("write", "pthreadPinIdMap"),
                                          Uses("write", "lastCreatedThread")>>)
           \o HandOver
           \o Advance(t))

PthreadCreateReplacement(t) ==
    Locked("atomicCreate",
           <<Uses("spawn", "child"), Uses("poll", "lastCreatedThread")>>
           \o Locked("threadIdMapLock", <<Uses("write", "pthreadPinIdMap"),
                                          Uses("write", "lastCreatedThread")>>)
           \o HandOver
           \o Advance(t))

\* What every join begins with: libpthread waits for thread c.
Joined(c) == <<Op("wait", "thread", c)>> \o HandOver

\* Mutation: the entry is looked up when the lock has been released.
PthreadJoinLooksUpLate(t, c) ==
    Joined(c)
    \o Locked("threadIdMapLock", <<Uses("read", "pthreadPinIdMap")>>)
    \o <<Op("read", "joinVCMap", t), Op("read", "finalClock", c)>>
    \o Advance(t)

\* The clock of c is read when threadIdMapLock has been released.  joinVCMap is a
\* std::map: an entry stays where it is while ThreadFini of others adds more, so
\* that the entry is a piece of data of its own beside the map.
PthreadJoinReplacement(t, c) ==
    Joined(c)
    \o Locked("threadIdMapLock", <<Uses("read", "pthreadPinIdMap"),
                                   Op("read", "joinVCMap", t)>>)
    \o <<Op("read", "finalClock", c)>>
    \o Advance(t)

\* A join of a thread that the joiner did not create.  If its creator has not yet
\* stored the handle, the loop that sleeps never looks again (all its rounds are
\* alike, one is modelled) and the first assertion fails; otherwise the clock is
\* in the storage of the creator and the second assertion fails.
JoinOfUnknownHandle(t, c) ==
    Joined(c)
    \o Locked("threadIdMapLock", <<Uses("read", "pthreadPinIdMap")>>)
    \o Locked("threadIdMapLock", Abort)

JoinOfAnothersChild(t, c) ==
    Joined(c)
    \o Locked("threadIdMapLock", <<Uses("read", "pthreadPinIdMap"),
                                   Op("read", "joinVCMap", t)>> \o Abort)

\* AfterLock, BeforeUnlock and BeforeCondWait use the same data.
AfterLock(t) ==
    PrintRecordInfo
    \o Locked("rdmLock", <<Uses("write", "rdm")>> \o Advance(t)
                         \o <<Uses("write", "unlockedThreadMap")>>)

AfterCondWait(t) ==
    PrintRecordInfo
    \o Locked("rdmLock", <<Uses("read", "notifiedThreadMap")>> \o Advance(t))

BeforeCondSignal(t) ==
    PrintRecordInfo
    \o Locked("rdmLock", <<Uses("write", "rdm")>> \o Advance(t)
                         \o <<Uses("write", "notifiedThreadMap")>>)

\* BeforeCondSignal is called with the thread and the address swapped: it records
\* the event once more, and there is no storage for a thread of that number.
BeforeCondBroadcast(t) == PrintRecordInfo \o PrintRecordInfo \o Abort

BeforeBarrierInit(t) ==
    Locked("barrierLock", <<Uses("write", "barrierData"), Uses("write", "barrierWaitMap")>>)

BeforeBarrierWait(t) ==
    PrintRecordInfo
    \o Locked("barrierLock", <<Uses("read", "barrierWaitMap"), Uses("write", "rdm")>>
                             \o Advance(t) \o <<Uses("write", "barrierData")>>)

AfterBarrierWait(t) ==
    PrintRecordInfo
    \o Locked("barrierLock", <<Uses("read", "barrierWaitMap"),
                               Uses("read", "barrierData")>> \o Advance(t))

\* A memory access of the program goes into the thread's own filter, under rdmLock.
Read(t) == Locked("rdmLock", << >>)

Children(t) == {c \in Threads : parent[c] = t}

\* The other threads that t may have a handle of.
Others(t) == {c \in Threads \ {t} : parent[c] # t /\ life[c] # "absent"}

Joins(t) ==
    {PthreadJoinReplacement(t, c) : c \in Children(t)}
    \cup {JoinOfUnknownHandle(t, c) : c \in Others(t)}
    \cup {JoinOfAnothersChild(t, c) : c \in Others(t)}

\* What thread t does in a handler: one body, but for a join.
Bodies(t, handler) ==
    CASE handler = "pthread_create"    -> {PthreadCreateReplacement(t)}
      [] handler = "pthread_join"      -> Joins(t)
      [] handler = "AfterLock"         -> {AfterLock(t)}
      [] handler = "AfterCondWait"     -> {AfterCondWait(t)}
      [] handler = "BeforeCondSignal"  -> {BeforeCondSignal(t)}
      [] handler = "BeforeCondBroadcast" -> {BeforeCondBroadcast(t)}
      [] handler = "Read"              -> {Read(t)}
      [] handler = "BeforeBarrierInit" -> {BeforeBarrierInit(t)}
      [] handler = "BeforeBarrierWait" -> {BeforeBarrierWait(t)}
      [] handler = "AfterBarrierWait"  -> {AfterBarrierWait(t)}
      [] handler = "ThreadStart"       -> {ThreadStart(t)}
      [] handler = "ThreadFini"        -> {ThreadFini(t)}

TypeOK ==
    /\ holder \in [PinLock -> Threads \cup {NO_ID}]
    /\ \A t \in Threads : \A i \in DOMAIN todo[t] :
          /\ todo[t][i].do \in {"get", "release", "read", "write", "spawn", "poll", "wait",
                                 "abort"}
          /\ todo[t][i].on \in {"vectorClock", "joinVCMap", "finalClock"} =>
                todo[t][i].of \in Threads
    /\ lastCreatedThread \in Threads \cup {NO_ID}
    /\ life \in [Threads -> {"absent", "spawned", "running", "ending", "exited"}]
    /\ parent \in [Threads -> Threads \cup {NO_ID}]
    /\ calls \in 0 .. MaxCalls

\* The main thread has started, alone.
Init ==
    /\ holder = [l \in PinLock |-> NO_ID]
    /\ todo = [t \in Threads |-> << >>]
    /\ inside = [t \in Threads |-> "ThreadStart"]
    /\ lastCreatedThread = NO_ID
    /\ life = [t \in Threads |-> IF t = 0 THEN "running" ELSE "absent"]
    /\ parent = [t \in Threads |-> NO_ID]
    /\ calls = 0

Enter(t, handler) ==
    /\ \E body \in Bodies(t, handler) : todo' = [todo EXCEPT ![t] = body]
    /\ inside' = [inside EXCEPT ![t] = handler]
    /\ UNCHANGED <<holder, lastCreatedThread, parent>>

\* The program creates no more threads than there are.
MayCreate ==
    Cardinality({t \in Threads : \E i \in DOMAIN todo[t] : todo[t][i].do = "spawn"})
        < Cardinality({t \in Threads : life[t] = "absent"})

\* The program calls a function of libpthread.
Call(t) ==
    /\ life[t] = "running" /\ todo[t] = << >> /\ calls < MaxCalls
    /\ \E handler \in Handlers :
          /\ handler = "pthread_create" => MayCreate
          /\ Enter(t, handler)
    /\ calls' = calls + 1
    /\ UNCHANGED life

Start(t) ==
    /\ life[t] = "spawned" /\ todo[t] = << >>
    /\ Enter(t, "ThreadStart")
    /\ life' = [life EXCEPT ![t] = "running"]
    /\ UNCHANGED calls

End(t) ==
    /\ life[t] = "running" /\ todo[t] = << >>
    /\ Enter(t, "ThreadFini")
    /\ life' = [life EXCEPT ![t] = "ending"]
    /\ UNCHANGED calls

Exit(t) ==
    /\ life[t] = "ending" /\ todo[t] = << >>
    /\ life' = [life EXCEPT ![t] = "exited"]
    /\ UNCHANGED <<holder, todo, inside, lastCreatedThread, parent, calls>>

At(t, do) == todo[t] # << >> /\ Head(todo[t]).do = do

Advanced(t) == todo' = [todo EXCEPT ![t] = Tail(@)]

GetLock(t) ==
    /\ At(t, "get") /\ holder[Head(todo[t]).on] = NO_ID
    /\ holder' = [holder EXCEPT ![Head(todo[t]).on] = t]
    /\ Advanced(t)
    /\ UNCHANGED <<inside, lastCreatedThread, life, parent, calls>>

ReleaseLock(t) ==
    /\ At(t, "release")
    /\ holder' = [holder EXCEPT ![Head(todo[t]).on] = NO_ID]
    /\ Advanced(t)
    /\ UNCHANGED <<inside, lastCreatedThread, life, parent, calls>>

Access(t) ==
    /\ At(t, "read") \/ At(t, "write")
    /\ lastCreatedThread' =
          IF Head(todo[t]).on # "lastCreatedThread" THEN lastCreatedThread
          ELSE IF inside[t] = "ThreadStart" THEN t ELSE NO_ID
    /\ Advanced(t)
    /\ UNCHANGED <<holder, inside, life, parent, calls>>

\* pthread_create of libpthread: the next thread is on its way.
Spawn(t) ==
    /\ At(t, "spawn")
    /\ \E c \in Threads :
          /\ life[c] = "absent" /\ \A d \in Threads : d < c => life[d] # "absent"
          /\ life' = [life EXCEPT ![c] = "spawned"]
          /\ parent' = [parent EXCEPT ![c] = t]
    /\ Advanced(t)
    /\ UNCHANGED <<holder, inside, lastCreatedThread, calls>>

\* The loop that polls lastCreatedThread ends.
Poll(t) ==
    /\ At(t, "poll") /\ lastCreatedThread # NO_ID
    /\ Advanced(t)
    /\ UNCHANGED <<holder, inside, lastCreatedThread, life, parent, calls>>

JoinReturns(t) ==
    /\ At(t, "wait") /\ life[Head(todo[t]).of] = "exited"
    /\ Advanced(t)
    /\ UNCHANGED <<holder, inside, lastCreatedThread, life, parent, calls>>

\* A failed assertion: every thread is gone.
Fail(t) ==
    /\ At(t, "abort")
    /\ holder' = [l \in PinLock |-> NO_ID]
    /\ todo' = [u \in Threads |-> << >>]
    /\ life' = [u \in Threads |-> "exited"]
    /\ lastCreatedThread' = NO_ID
    /\ UNCHANGED <<inside, parent, calls>>

Step(t) ==
    \/ Start(t) \/ Exit(t) \/ GetLock(t) \/ ReleaseLock(t) \/ Access(t)
    \/ Spawn(t) \/ Poll(t) \/ JoinReturns(t) \/ Fail(t)

Next == \E t \in Threads : Call(t) \/ End(t) \/ Step(t)

\* A thread that is not stopped by a lock goes on with its handler.
Spec == Init /\ [][Next]_vars /\ \A t \in Threads : WF_vars(Step(t))

-------------------------------------------------------------------------------
\* Two threads are at accesses to the same data, and one of them writes.
Conflict(t, u) ==
    /\ t # u /\ todo[t] # << >> /\ todo[u] # << >>
    /\ LET a == Head(todo[t])
           b == Head(todo[u])
       IN  /\ a.on = b.on /\ a.of = b.of
           /\ a.do = "write" /\ b.do \in {"read", "write", "poll"}

\* The race detection module is used under three locks: addSignature under
\* rdmLock, in BeforeBarrierWait under barrierLock, and addProcessor in
\* ThreadStart under threadIdMapLock.
RdmWithoutItsLock == {"ThreadStart", "BeforeBarrierWait"}

\* The record is written under recordLock, and flushed without it by ThreadFini
\* (the C library locks the FILE for each call).
RecordWithoutItsLock == {"ThreadFini"}

\* Which shared data two handlers use at once, one of them to write it: the module
\* and the record, only where one of the two is a handler that does so without
\* their lock, and lastCreatedThread in the loop that reads it until it is set.
\* All else is kept apart: the maps by their locks, the clock a child reads from
\* its parent by the parent's waiting for it, and the final clock a joiner reads
\* after the lock by the end of the thread that wrote it.
ConflictsAreKnown ==
    \A t, u \in Threads :
        Conflict(t, u) =>
            \/ /\ Head(todo[t]).on = "rdm"
               /\ {inside[t], inside[u]} \cap RdmWithoutItsLock # {}
            \/ /\ Head(todo[t]).on = "recordFile"
               /\ {inside[t], inside[u]} \cap RecordWithoutItsLock # {}
            \/ Head(todo[t]).on = "lastCreatedThread" /\ Head(todo[u]).do = "poll"

\* No handler waits for ever for a lock or for lastCreatedThread: the lock
\* atomicCreate is held while the new thread takes threadIdMapLock and recordLock,
\* and whoever has those comes to release them, or to an assertion that ends the
\* program.  (A join waits for its thread.)
HandlersReturn ==
    \A t \in Threads :
        todo[t] # << >> ~> (todo[t] = << >> \/ At(t, "wait"))
===============================================================================
