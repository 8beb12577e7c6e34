-------------------------------- MODULE Replay --------------------------------
(***************************************************************************)
(* Recording a program and replaying it, with what passes from pin/ to     *)
(* pin-replay/: the epochs of each thread (thread_epochs.<tid>)            *)
(* and the order of the creations (create.txt).                            *)
(*                                                                         *)
(* The recording runs any program of up to MaxThreads threads in which     *)
(* each thread joins the threads it created and may use a mutex.  A        *)
(* thread is named by the id it has in the recording; the steps of the     *)
(* recorder are those of PthreadInstrumentation.tla as far as its clocks   *)
(* and its log go.  The replay runs the same program again: a thread t     *)
(* then has the id tls[t].tid.                                             *)
(***************************************************************************)
EXTENDS VectorClock, Sequences

CONSTANTS MaxThreads,   \* bound on the threads of a program
          MaxCalls,     \* bound on its creations and critical sections together
          NO_ID

ASSUME ReplayAssumption ==
    /\ MaxThreads \in 1 .. MAX_THREAD_COUNT
    /\ MaxCalls \in Nat
    /\ NO_ID \notin Threads

VARIABLES
    phase,          \* "record" or "replay"
    program,        \* program[t]: the calls of thread t, in its order
    vectorClock, log, createOrder,   \* of the recorder
    threadState,    \* of the program, in either phase
    mutex,          \* the thread in its critical section, and the clock left
    pinIds,         \* how many threads Pin has seen start
    tls, GRT,       \* of the replayer
    step,           \* step[t]: how many calls thread t has made again
    creates,        \* globalCreatedThreadId, and where currentCreateOrder is
    atomic_create,  \* the thread between BeforeCreate and AfterCreate
    failed          \* the assertion that ended the replay

recorder == <<program, vectorClock, log, createOrder>>
replayer == <<tls, GRT, step, creates, atomic_create, failed>>
vars == <<phase, recorder, threadState, mutex, pinIds, replayer>>

CallNames == {"create", "join", "lock", "unlock"}

Call(what, who) == [what |-> what, who |-> who]

\* The storage of a thread before its epochs are read.
NewTLS(tid) ==
    [tid |-> tid, epochList |-> << >>, currentVC |-> ZeroClock,
     TRT |-> ZeroClock, childVCMap |-> [c \in Threads |-> ZeroClock]]

TLS == [tid : Threads \cup {NO_ID}, epochList : Seq(Clock), currentVC : Clock,
        TRT : Clock, childVCMap : [Threads -> Clock]]

TypeOK ==
    /\ phase \in {"record", "replay"}
    /\ program \in [Threads -> Seq([what : CallNames, who : Threads])]
    /\ vectorClock \in [Threads -> Clock]
    /\ log \in [Threads -> Seq(Seq(Nat))]
    /\ createOrder \in Seq(Threads)
    /\ threadState \in [Threads -> {"absent", "new", "load", "start", "check",
                           "main", "run", "create", "created", "join", "exited"}]
    /\ mutex \in [holder : Threads \cup {NO_ID}, left : Clock, used : Nat]
    /\ pinIds \in Nat
    /\ tls \in [Threads -> TLS]
    /\ GRT \in Clock
    /\ step \in [Threads -> Nat]
    /\ creates \in Nat
    /\ atomic_create \in Threads \cup {NO_ID}
    /\ failed \in {"", "create.txt", "no epochs", "create order", "child clock",
                   "epochs left"}

FreeMutex == [holder |-> NO_ID, left |-> ZeroClock, used |-> 0]

Init ==
    /\ phase = "record"
    /\ program = [t \in Threads |-> << >>]
    /\ vectorClock = [t \in Threads |-> IF t = 0 THEN FirstClock(0) ELSE ZeroClock]
    /\ log = [t \in Threads |-> << >>]
    /\ createOrder = << >>
    /\ threadState = [t \in Threads |-> IF t = 0 THEN "run" ELSE "absent"]
    /\ mutex = FreeMutex
    /\ pinIds = 1
    /\ tls = [t \in Threads |-> NewTLS(NO_ID)]
    /\ GRT = ZeroClock
    /\ step = [t \in Threads |-> 0]
    /\ creates = 1
    /\ atomic_create = NO_ID
    /\ failed = ""

-------------------------------------------------------------------------------
\* The recording.  Each handler prints the clock, then changes it.

Recording(t) == phase = "record" /\ threadState[t] = "run"

\* A line of the epoch file, which numbers the components from 1, and the clock
\* the constructor from a stream makes of it.
printVector(vc) == [i \in 1 .. MAX_THREAD_COUNT |-> vc[i - 1]]

parseVector(line) == [u \in Threads |-> line[u + 1]]

PrintClock(t) == log' = [log EXCEPT ![t] = Append(@, printVector(vectorClock[t]))]

Calls(t, call) == program' = [program EXCEPT ![t] = Append(@, call)]

\* Another creation or critical section is within the bound.
MayCall == pinIds - 1 + mutex.used < MaxCalls

RecordCreate(t) ==
    /\ Recording(t) /\ MayCall /\ pinIds < MaxThreads
    /\ Calls(t, Call("create", pinIds))
    /\ PrintClock(t)
    /\ vectorClock' = [vectorClock EXCEPT
           ![t] = advance(@, t), ![pinIds] = ChildClock(vectorClock[t], t, pinIds)]
    /\ createOrder' = Append(createOrder, t)
    /\ threadState' = [threadState EXCEPT ![pinIds] = "run"]
    /\ pinIds' = pinIds + 1
    /\ UNCHANGED <<phase, mutex, replayer>>

\* The children of t that it has not joined yet.
Unjoined(t) ==
    {c \in Threads : /\ c \in 1 .. Len(createOrder) /\ createOrder[c] = t
                     /\ \A i \in DOMAIN program[t] :
                            program[t][i] # Call("join", c)}

RecordJoin(t) ==
    /\ Recording(t)
    /\ \E c \in Unjoined(t) :
          /\ threadState[c] = "exited"
          /\ Calls(t, Call("join", c))
          /\ PrintClock(t)
          /\ vectorClock' = [vectorClock EXCEPT
                 ![t] = receiveWithIncrement(@, t, vectorClock[c], c)]
    /\ UNCHANGED <<phase, createOrder, threadState, mutex, pinIds, replayer>>

RecordLock(t) ==
    /\ Recording(t) /\ MayCall /\ mutex.holder = NO_ID
    /\ Calls(t, Call("lock", t))
    /\ PrintClock(t)
    /\ vectorClock' = [vectorClock EXCEPT
           ![t] = receiveAction(advance(@, t), mutex.left)]
    /\ mutex' = [mutex EXCEPT !.holder = t, !.used = @ + 1]
    /\ UNCHANGED <<phase, createOrder, threadState, pinIds, replayer>>

RecordUnlock(t) ==
    /\ Recording(t) /\ mutex.holder = t
    /\ Calls(t, Call("unlock", t))
    /\ PrintClock(t)
    /\ vectorClock' = [vectorClock EXCEPT ![t] = advance(@, t)]
    /\ mutex' = [mutex EXCEPT !.holder = NO_ID, !.left = vectorClock'[t]]
    /\ UNCHANGED <<phase, createOrder, threadState, pinIds, replayer>>

RecordFini(t) ==
    /\ Recording(t) /\ Unjoined(t) = {} /\ mutex.holder # t
    /\ PrintClock(t)
    /\ threadState' = [threadState EXCEPT ![t] = "exited"]
    /\ UNCHANGED <<phase, program, vectorClock, createOrder, mutex, pinIds, replayer>>

\* The program is started again under the replayer.
StartReplay ==
    /\ phase = "record"
    /\ \A t \in Threads : threadState[t] \in {"absent", "exited"}
    /\ phase' = "replay"
    /\ threadState' = [t \in Threads |-> IF t = 0 THEN "load" ELSE "absent"]
    /\ tls' = [tls EXCEPT ![0].tid = 0]
    /\ mutex' = FreeMutex
    /\ pinIds' = 1
    /\ UNCHANGED <<recorder, GRT, step, creates, atomic_create, failed>>

-------------------------------------------------------------------------------
\* The replay.

Replaying(t, state) ==
    /\ phase = "replay" /\ failed = ""
    /\ threadState[t] = state

\* Thread t is about to make this call.
Calling(t, what) ==
    /\ Replaying(t, "run")
    /\ step[t] < Len(program[t])
    /\ program[t][step[t] + 1].what = what

Callee(t) == program[t][step[t] + 1].who

Goto(t, state) == threadState' = [threadState EXCEPT ![t] = state]

Called(t) == step' = [step EXCEPT ![t] = @ + 1]

\* Mutation: the thread's own component is compared too.
lessThanGRTAll(vc, tid) == \A u \in Threads : vc[u] <= GRT[u]

\* Mutation: nobody waits.
lessThanGRTAlways(vc, tid) == TRUE

lessThanGRT(vc, tid) == \A u \in Threads \ {tid} : vc[u] <= GRT[u]

updateGRT(vc, tid) == GRT' = [GRT EXCEPT ![tid] = vc[tid]]

\* The storage after advanceTRT: with no epoch left it stays as it is.
advanceTRT(s) ==
    IF s.epochList = << >> THEN s
    ELSE [s EXCEPT !.currentVC = s.TRT, !.TRT = Head(s.epochList),
                   !.epochList = Tail(s.epochList)]

Fail(why) ==
    /\ failed' = why
    /\ UNCHANGED <<phase, recorder, threadState, mutex, pinIds,
                   tls, GRT, step, creates, atomic_create>>

ReadEpochs(lines) == [k \in DOMAIN lines |-> parseVector(lines[k])]

\* ThreadStart: the epochs are read from the file of this thread id, ...
LoadEpochs(t) ==
    /\ Replaying(t, "load")
    /\ IF log[tls[t].tid] # << >>
       THEN /\ tls' = [tls EXCEPT ![t] = advanceTRT([tls[t] EXCEPT
                                             !.epochList = ReadEpochs(log[tls[t].tid])])]
            /\ Goto(t, "start")
            /\ UNCHANGED <<phase, recorder, mutex, pinIds, GRT, step, creates,
                           atomic_create, failed>>
       ELSE Fail("no epochs")

\* ... the thread waits until it may start, ...
StartGate(t) ==
    /\ Replaying(t, "start")
    /\ lessThanGRT(tls[t].TRT, tls[t].tid)
    /\ updateGRT(tls[t].TRT, tls[t].tid)
    /\ Goto(t, "check")
    /\ UNCHANGED <<phase, recorder, mutex, pinIds, tls, step, creates,
                   atomic_create, failed>>

\* ... its next epoch is made ready, ...
Started(t) == advanceTRT([tls[t] EXCEPT !.currentVC = tls[t].TRT])

StartMain ==
    /\ Replaying(0, "check")
    /\ tls' = [tls EXCEPT ![0] = Started(0)]
    /\ Goto(0, "main")
    /\ UNCHANGED <<phase, recorder, mutex, pinIds, GRT, step, creates,
                   atomic_create, failed>>

\* ... and its clock is compared with the one that its parent's clock gives.
Parent(t) == createOrder[t]

ChildVC(t) == tls[Parent(t)].childVCMap[tls[t].tid]

StartChild(t) ==
    /\ t # 0 /\ Replaying(t, "check")
    /\ IF /\ ChildVC(t) # ZeroClock
          /\ Started(t).currentVC
                = ChildClock(ChildVC(t), tls[Parent(t)].tid, tls[t].tid)
       THEN /\ tls' = [tls EXCEPT ![t] = Started(t),
                        ![Parent(t)].childVCMap[tls[t].tid] = ZeroClock]
            /\ Goto(t, "run")
            /\ UNCHANGED <<phase, recorder, mutex, pinIds, GRT, step, creates,
                           atomic_create, failed>>
       ELSE Fail("child clock")

\* fscanf on an empty create.txt reads nothing, before feof can say so.
BeforeMain ==
    /\ Replaying(0, "main")
    /\ IF createOrder # << >>
       THEN /\ Goto(0, "run")
            /\ UNCHANGED <<phase, recorder, mutex, pinIds, replayer>>
       ELSE Fail("create.txt")

\* Mutation: threads are created in the order in which they come.
MyTurnAlways(t) == TRUE

MyTurn(t) == tls[t].tid = createOrder[creates]

BeforeCreate(t) ==
    /\ Calling(t, "create")
    /\ atomic_create = NO_ID
    /\ IF creates <= Len(createOrder)
       THEN /\ MyTurn(t)
            /\ lessThanGRT(tls[t].TRT, tls[t].tid)
            /\ updateGRT(tls[t].TRT, tls[t].tid)
            /\ tls' = [tls EXCEPT ![t] = advanceTRT([tls[t] EXCEPT
                                       !.childVCMap[creates] = tls[t].currentVC])]
            /\ atomic_create' = t
            /\ Goto(t, "create")
            /\ UNCHANGED <<phase, recorder, mutex, pinIds, step, creates, failed>>
       ELSE Fail("create order")

\* pthread_create: Pin gives the new thread the next id.
Spawn(t) ==
    /\ Replaying(t, "create")
    /\ threadState' = [threadState EXCEPT ![t] = "created", ![Callee(t)] = "load"]
    /\ tls' = [tls EXCEPT ![Callee(t)] = NewTLS(pinIds)]
    /\ pinIds' = pinIds + 1
    /\ UNCHANGED <<phase, recorder, mutex, GRT, step, creates, atomic_create, failed>>

AfterCreate(t) ==
    /\ Replaying(t, "created")
    /\ creates' = creates + 1
    /\ atomic_create' = NO_ID
    /\ Called(t)
    /\ Goto(t, "run")
    /\ UNCHANGED <<phase, recorder, mutex, pinIds, tls, GRT, failed>>

BeforeJoin(t) ==
    /\ Calling(t, "join")
    /\ lessThanGRT(tls[t].TRT, tls[t].tid)
    /\ updateGRT(tls[t].TRT, tls[t].tid)
    /\ tls' = [tls EXCEPT ![t] = advanceTRT(@)]
    /\ Goto(t, "join")
    /\ UNCHANGED <<phase, recorder, mutex, pinIds, step, creates, atomic_create, failed>>

\* pthread_join returns.
JoinReturn(t) ==
    /\ Replaying(t, "join")
    /\ threadState[Callee(t)] = "exited"
    /\ Called(t)
    /\ Goto(t, "run")
    /\ UNCHANGED <<phase, recorder, mutex, pinIds, tls, GRT, creates,
                   atomic_create, failed>>

\* The replayer has no handlers for the mutex calls.
LockCall(t) ==
    /\ \/ /\ Calling(t, "lock") /\ mutex.holder = NO_ID
          /\ mutex' = [mutex EXCEPT !.holder = t]
       \/ /\ Calling(t, "unlock")
          /\ mutex' = [mutex EXCEPT !.holder = NO_ID]
    /\ Called(t)
    /\ UNCHANGED <<phase, recorder, threadState, pinIds, tls, GRT, creates,
                   atomic_create, failed>>

ThreadFini(t) ==
    /\ Replaying(t, "run")
    /\ step[t] = Len(program[t])
    /\ IF tls[t].epochList = << >>
       THEN /\ tls' = [tls EXCEPT ![t].TRT = advance(@, tls[t].tid)]
            /\ updateGRT(tls'[t].TRT, tls[t].tid)
            /\ Goto(t, "exited")
            /\ UNCHANGED <<phase, recorder, mutex, pinIds, step, creates,
                           atomic_create, failed>>
       ELSE Fail("epochs left")

RecordStep(t) ==
    \/ RecordCreate(t) \/ RecordJoin(t) \/ RecordLock(t) \/ RecordUnlock(t)
    \/ RecordFini(t)

ReplayStep(t) ==
    \/ LoadEpochs(t) \/ StartGate(t) \/ StartChild(t) \/ BeforeCreate(t)
    \/ Spawn(t) \/ AfterCreate(t) \/ BeforeJoin(t) \/ JoinReturn(t)
    \/ LockCall(t) \/ ThreadFini(t)

Replayed ==
    /\ phase = "replay"
    /\ \A t \in Threads : threadState[t] \in {"absent", "exited"}

Next ==
    \/ \E t \in Threads : RecordStep(t) \/ ReplayStep(t)
    \/ StartReplay \/ StartMain \/ BeforeMain

\* The threads of the replay run; one that waits for GRT polls it.
Fairness ==
    /\ \A t \in Threads : WF_vars(ReplayStep(t))
    /\ WF_vars(StartMain) /\ WF_vars(BeforeMain)

Spec == Init /\ [][Next]_vars /\ Fairness

-------------------------------------------------------------------------------
\* The threads of the program only create and join each other.
ForkJoin == \A t \in Threads : \A i \in DOMAIN program[t] :
                program[t][i].what \in {"create", "join"}

\* No assertion of the replayer fails on what the recorder wrote of a fork-join
\* program, whatever the recording and however the replay is scheduled: every
\* thread finds its epochs, the clock calculated for a child is the recorded one,
\* and no epoch is left.  (A program without threads leaves an empty create.txt,
\* which is refused; the epochs of mutex calls are never stepped through.)
ReplayAccepts == failed # "" => createOrder = << >> \/ ~ ForkJoin

\* A thread gets the id it had in the recording, on which the names of the epoch
\* files and the components of the clocks depend.
SameIds ==
    phase = "replay" => \A t \in Threads : tls[t].tid \in {t, NO_ID}

\* Nobody waits for ever for a clock that does not come: the replay of a fork-join
\* program with threads ends with all of them finished.
ReplayEnds ==
    phase = "replay" /\ createOrder # << >> /\ ForkJoin ~> Replayed

\* GRT is a consistent cut of the recording: with an epoch it has reached, every
\* epoch of other threads that one knew of.  So what the threads have done again
\* at any moment is a prefix of the recorded execution.
ConsistentCut ==
    phase = "replay" =>
        \A t, u \in Threads : \A i \in DOMAIN log[t] :
            LET vc == parseVector(log[t][i])
            IN  vc[t] <= GRT[t] => vc[u] <= GRT[u]
===============================================================================
