----------------------------- MODULE ReplayProofs -----------------------------
(***************************************************************************)
(* The replay of a recorded program, for any number of threads and calls:  *)
(* every thread gets the id it had, GRT is always a consistent cut of the  *)
(* recording, and no assertion fails on a fork-join program.               *)
(*                                                                         *)
(* The argument has two halves.  LogInv says how the epochs and the order  *)
(* of creation in the files fit the program; it is established while       *)
(* recording (RecordInv) and only read afterwards.  ReplayInv says where a *)
(* replayed thread stands in its file: one line ahead of the epoch it is   *)
(* in, or further back for each mutex call it has made, since those read   *)
(* no line.                                                                *)
(***************************************************************************)
EXTENDS Replay, TLAPS

\* The clock in line i of the file of thread t.
E(t, i) == parseVector(log[t][i])

Lines == [1 .. MAX_THREAD_COUNT -> Nat]

Numbered == 0 .. Len(createOrder)      \* the threads of the recording

Ungated(t) == {i \in DOMAIN program[t] : program[t][i].what \in {"lock", "unlock"}}

-----------------------------------------------------------------------------
\* The invariant, in named parts.

\* The files of the recording.
EpochsInv ==
    \A t \in Threads : \A i \in DOMAIN log[t] :
        /\ log[t][i] \in Lines /\ E(t, i)[t] > 0
        /\ \A j \in DOMAIN log[t] : i < j =>
              E(t, i)[t] < E(t, j)[t] /\ \A u \in Threads : E(t, i)[u] <= E(t, j)[u]

OrderInv ==
    /\ Len(createOrder) < MaxThreads
    /\ \A c \in DOMAIN createOrder :
          /\ createOrder[c] < c
          /\ \E k \in DOMAIN program[createOrder[c]] :
                program[createOrder[c]][k] = Call("create", c)
    /\ \A t \in Threads : \A k \in DOMAIN program[t] :
          program[t][k].what = "create" =>
              /\ program[t][k].who \in DOMAIN createOrder
              /\ createOrder[program[t][k].who] = t
              /\ k \in DOMAIN log[t]
              /\ \A j \in DOMAIN program[t] : (k < j /\ program[t][j].what = "create")
                    => program[t][k].who < program[t][j].who

\* What the parent printed at the creation is what the child starts from.
BirthInv ==
    \A t \in Threads : \A k \in DOMAIN program[t] :
        LET c == program[t][k].who IN
        (program[t][k].what = "create" /\ log[c] # << >>)
        => E(c, 1) = ChildClock(E(t, k), t, c)

LogInv == EpochsInv /\ OrderInv /\ BirthInv

\* While recording, a running thread has printed one line for each call.
FileOf(t) ==
    /\ threadState[t] \in {"absent", "run", "exited"}
    /\ threadState[t] = "absent" <=> t \notin Numbered
    /\ threadState[t] = "absent" => program[t] = << >> /\ log[t] = << >>
    /\ threadState[t] = "run" =>
          /\ vectorClock[t][t] > 0
          /\ Len(log[t]) = Len(program[t])
          /\ \A i \in DOMAIN log[t] :
                /\ E(t, i)[t] < vectorClock[t][t]
                /\ \A u \in Threads : E(t, i)[u] <= vectorClock[t][u]
    /\ threadState[t] = "exited" => Len(log[t]) = Len(program[t]) + 1

SectionsOf(t) ==
    /\ threadState[t] # "run" => mutex.holder # t
    /\ mutex.holder = t => Ungated(t) # {}
    /\ \A i \in Ungated(t) : mutex.holder = t \/ \E j \in Ungated(t) : j # i

BirthsOf(t) ==
    \A k \in DOMAIN program[t] :
        LET c == program[t][k].who IN
        (program[t][k].what = "create" /\ log[c] = << >>)
        => vectorClock[c] = ChildClock(E(t, k), t, c)

\* The replayer has not begun.
Untouched ==
    /\ tls = [t \in Threads |-> NewTLS(NO_ID)] /\ GRT = ZeroClock
    /\ step = [t \in Threads |-> 0] /\ creates = 1
    /\ atomic_create = NO_ID /\ failed = ""

RecordInv ==
    phase = "record" =>
        /\ pinIds = Len(createOrder) + 1 /\ Untouched
        /\ \A t \in Threads : FileOf(t) /\ SectionsOf(t) /\ BirthsOf(t)

\* Afterwards every thread has printed its last epoch too, and has left its
\* critical sections.
DoneInv ==
    phase = "replay" =>
        \A t \in Threads :
            /\ t \in Numbered => Len(log[t]) = Len(program[t]) + 1
            /\ \A i \in Ungated(t) : \E j \in Ungated(t) : j # i

Creators == {"create", "created"}

\* The replay has created the threads below pinIds, and will create the others
\* in the same order.
TurnOf(t) ==
    /\ threadState[t] = "absent" <=> t >= pinIds
    /\ threadState[t] = "absent" => tls[t].tid = NO_ID
    /\ threadState[t] # "absent" => t \in Numbered /\ tls[t].tid = t
    /\ threadState[t] \in Creators <=> atomic_create = t
    /\ threadState[t] \in Creators =>
          step[t] < Len(program[t]) /\ program[t][step[t] + 1] = Call("create", creates)
    /\ threadState[t] = "join" =>
          step[t] < Len(program[t]) /\ program[t][step[t] + 1].what = "join"
    /\ step[t] <= Len(program[t])
    /\ \A k \in DOMAIN program[t] : program[t][k].what = "create" =>
          (k <= step[t] <=> program[t][k].who < creates)

TurnInv ==
    phase = "replay" =>
        /\ creates > 0
        /\ pinIds = creates + (IF \E t \in Threads : threadState[t] = "created"
                               THEN 1 ELSE 0)
        /\ \A t \in Threads : TurnOf(t)

\* The line whose clock is in TRT.
Place(t) == Len(log[t]) - Len(tls[t].epochList)

\* How many calls thread t has made, with the one it is in.
Made(t) == step[t] + IF threadState[t] \in {"create", "created", "join"} THEN 1 ELSE 0

Passed(t) == {i \in Ungated(t) : i <= step[t]}

Going == {"main", "run", "create", "created", "join"}

\* What the thread has read of its file, and not yet.
AtLine(t) ==
    /\ Place(t) \in DOMAIN log[t] /\ tls[t].TRT = E(t, Place(t))
    /\ \A k \in DOMAIN tls[t].epochList : tls[t].epochList[k] = E(t, Place(t) + k)
    /\ GRT[t] <= tls[t].TRT[t]

\* A thread without mutex calls stands one line ahead of the epoch it is in;
\* after one it may be level with it, after two it is behind.
Ahead(t) ==
    /\ \A i \in Passed(t) : /\ Place(t) <= Made(t) + 1
                            /\ \A j \in Passed(t) : i # j => Place(t) <= Made(t)
    /\ Passed(t) = {} =>
          /\ Place(t) = Made(t) + 2
             \/ (Place(t) = Len(log[t]) /\ Made(t) = Len(program[t]))
          /\ GRT[t] >= E(t, Made(t) + 1)[t]
          /\ Made(t) < Len(program[t]) => tls[t].currentVC = E(t, Made(t) + 1)

PlaceOf(t) ==
    /\ threadState[t] \in {"absent", "load", "start", "check", "main"} => step[t] = 0
    /\ threadState[t] \in {"absent", "load", "start"} => GRT[t] = 0
    /\ threadState[t] \in {"start", "check"} \cup Going => AtLine(t)
    /\ threadState[t] \in {"start", "check"} => Place(t) = 1
    /\ threadState[t] = "check" => GRT[t] = E(t, 1)[t]
    /\ threadState[t] \in Going => Ahead(t)

PlaceInv == phase = "replay" => \A t \in Threads : PlaceOf(t)

Newborn == {"load", "start", "check"}

\* The clock a child will be compared with waits in its parent's map.
ChildOf(t) ==
    /\ threadState[t] = "create" => tls[t].childVCMap[creates] = E(t, step[t] + 1)
    /\ \A k \in DOMAIN program[t] :
          LET c == program[t][k].who IN
          (program[t][k].what = "create" /\ threadState[c] \in Newborn)
          => tls[t].childVCMap[c] = E(t, k)

ChildInv == (phase = "replay" /\ ForkJoin) => \A t \in Threads : ChildOf(t)

ReplayInv == TurnInv /\ PlaceInv /\ ChildInv
Inv == LogInv /\ RecordInv /\ DoneInv /\ ReplayInv

-----------------------------------------------------------------------------
\* The operators of the model.

LEMMA Basics ==
    /\ Threads \subseteq Nat /\ 0 \in Threads /\ \A t \in Threads : t # NO_ID
    /\ \A t \in Nat : t < MAX_THREAD_COUNT => t \in Threads
    /\ MaxThreads \in Nat /\ MaxThreads <= MAX_THREAD_COUNT /\ MAX_THREAD_COUNT \in Nat
  BY ThreadCountAssumption, ReplayAssumption DEF Threads

\* Reading a line gives the clock that was printed.
LEMMA PrintParse ==
    ASSUME NEW v \in Clock
    PROVE  printVector(v) \in Lines /\ parseVector(printVector(v)) = v
  <1>1. \A i \in 1 .. MAX_THREAD_COUNT : i - 1 \in Threads
    BY ThreadCountAssumption DEF Threads
  <1>2. printVector(v) \in Lines
    BY <1>1 DEF printVector, Lines, Clock
  <1>3. \A u \in Threads : u + 1 \in 1 .. MAX_THREAD_COUNT
    BY ThreadCountAssumption DEF Threads
  <1>4. ASSUME NEW u \in Threads PROVE parseVector(printVector(v))[u] = v[u]
    <2>1. parseVector(printVector(v))[u] = printVector(v)[u + 1]
      BY DEF parseVector
    <2>2. \A i \in 1 .. MAX_THREAD_COUNT : printVector(v)[i] = v[i - 1]
      BY Zenon DEF printVector
    <2>3. PICK i \in 1 .. MAX_THREAD_COUNT : i = u + 1
      BY <1>3
    <2>4. i - 1 = u
      BY <2>3, Basics
    <2>5. printVector(v)[i] = v[i - 1]
      BY <2>2, Zenon
    <2> QED BY <2>1, <2>3, <2>4, <2>5, Zenon
  <1>5. parseVector(printVector(v)) = [u \in Threads |-> parseVector(printVector(v))[u]]
    BY DEF parseVector
  <1> QED BY <1>2, <1>4, <1>5 DEF Clock

LEMMA ParseType ==
    ASSUME NEW line \in Lines PROVE parseVector(line) \in Clock
  <1>1. \A u \in Threads : u + 1 \in 1 .. MAX_THREAD_COUNT
    BY ThreadCountAssumption DEF Threads
  <1> QED BY <1>1 DEF parseVector, Lines, Clock

LEMMA LineType == ASSUME NEW line \in Lines PROVE line \in Seq(Nat)
  BY ThreadCountAssumption DEF Lines

LEMMA ClockOperations ==
    ASSUME NEW v \in Clock, NEW w \in Clock, NEW t \in Threads, NEW c \in Threads
    PROVE  /\ ZeroClock \in Clock /\ FirstClock(t) \in Clock
           /\ advance(v, t) \in Clock /\ ChildClock(v, t, c) \in Clock
           /\ receiveAction(v, w) \in Clock /\ receiveWithIncrement(v, t, w, c) \in Clock
           /\ advance(v, t)[t] = v[t] + 1 /\ \A u \in Threads \ {t} : advance(v, t)[u] = v[u]
           /\ \A u \in Threads : receiveAction(v, w)[u] >= v[u]
           /\ \A u \in Threads : receiveWithIncrement(v, t, w, c)[u] >= v[u]
           /\ receiveWithIncrement(v, t, w, c)[t] > v[t]
           /\ ChildClock(v, t, c)[c] > 0
  <1>1. \A u \in Threads : v[u] \in Nat /\ w[u] \in Nat
    BY DEF Clock
  <1>2. ZeroClock \in Clock
    BY DEF ZeroClock, Clock
  <1>3. FirstClock(t) \in Clock
    BY <1>2 DEF FirstClock, Clock
  <1>4. /\ advance(v, t) \in Clock
        /\ advance(v, t)[t] = v[t] + 1 /\ \A u \in Threads \ {t} : advance(v, t)[u] = v[u]
    BY <1>1 DEF advance, Clock
  <1>5. ChildClock(v, t, c) \in Clock /\ ChildClock(v, t, c)[c] > 0
    BY <1>1 DEF ChildClock, Clock
  <1>6. /\ receiveAction(v, w) \in Clock
        /\ \A u \in Threads : receiveAction(v, w)[u] >= v[u]
    BY <1>1 DEF receiveAction, Clock
  <1>7. /\ receiveWithIncrement(v, t, w, c) \in Clock
        /\ \A u \in Threads : receiveWithIncrement(v, t, w, c)[u] >= v[u]
        /\ receiveWithIncrement(v, t, w, c)[t] > v[t]
    <2>1. \A u \in Threads : receiveAction(v, w)[u] \in Nat
      BY <1>6 DEF Clock
    <2> QED BY <1>1, <1>6, <2>1 DEF receiveWithIncrement, Clock
  <1> QED BY <1>2, <1>3, <1>4, <1>5, <1>6, <1>7

\* The next line, if there is one.
LEMMA AdvanceTRT ==
    ASSUME NEW s \in TLS
    PROVE  /\ advanceTRT(s) \in TLS
           /\ advanceTRT(s).tid = s.tid /\ advanceTRT(s).childVCMap = s.childVCMap
           /\ s.epochList = << >> => advanceTRT(s) = s
           /\ s.epochList # << >> =>
                 /\ advanceTRT(s).currentVC = s.TRT /\ advanceTRT(s).TRT = s.epochList[1]
                 /\ Len(advanceTRT(s).epochList) = Len(s.epochList) - 1
                 /\ \A k \in DOMAIN advanceTRT(s).epochList :
                       k + 1 \in DOMAIN s.epochList
                       /\ advanceTRT(s).epochList[k] = s.epochList[k + 1]
  <1>1. CASE s.epochList = << >>
    BY <1>1 DEF advanceTRT
  <1>2. CASE s.epochList # << >>
    <2> DEFINE e == s.epochList
    <2>1. e \in Seq(Clock) /\ e # << >> /\ s.TRT \in Clock
      BY <1>2 DEF TLS
    <2>2. Head(e) = e[1] /\ Head(e) \in Clock /\ Tail(e) \in Seq(Clock)
          /\ Len(Tail(e)) = Len(e) - 1
      BY <2>1
    <2>3. \A k \in DOMAIN Tail(e) : k + 1 \in DOMAIN e /\ Tail(e)[k] = e[k + 1]
      BY <2>1
    <2> DEFINE r == [s EXCEPT !.currentVC = s.TRT, !.TRT = Head(e), !.epochList = Tail(e)]
    <2>4. advanceTRT(s) = r
      BY <1>2 DEF advanceTRT
    <2> HIDE DEF e
    <2>5. /\ r \in TLS /\ r.tid = s.tid /\ r.childVCMap = s.childVCMap
          /\ r.currentVC = s.TRT /\ r.TRT = Head(e) /\ r.epochList = Tail(e)
      BY <2>1, <2>2 DEF TLS
    <2> HIDE DEF r
    <2> QED BY <1>2, <2>2, <2>3, <2>4, <2>5 DEF e
  <1> QED BY <1>1, <1>2

\* One more element at the end of a sequence.
LEMMA Appended ==
    ASSUME NEW S, NEW q \in Seq(S), NEW x \in S
    PROVE  /\ Append(q, x) \in Seq(S) /\ Len(Append(q, x)) = Len(q) + 1 /\ Len(q) \in Nat
           /\ DOMAIN q = 1 .. Len(q) /\ DOMAIN Append(q, x) = 1 .. Len(q) + 1
           /\ \A i \in DOMAIN q : Append(q, x)[i] = q[i]
           /\ Append(q, x)[Len(q) + 1] = x
           /\ \A i \in DOMAIN Append(q, x) : i \in DOMAIN q \/ i = Len(q) + 1
           /\ Append(q, x) # << >>
  OBVIOUS

-----------------------------------------------------------------------------
\* Recording.

LEMMA EpochsType ==
    ASSUME EpochsInv, NEW t \in Threads, NEW i \in DOMAIN log[t]
    PROVE  E(t, i) \in Clock
  BY ParseType DEF EpochsInv, E

\* A running thread prints its clock: the file gets one more line, the largest.
Printed(t) ==
    /\ Len(log'[t]) = Len(log[t]) + 1 /\ log'[t] # << >>
    /\ \A i \in DOMAIN log[t] : i \in DOMAIN log'[t] /\ log'[t][i] = log[t][i]
    /\ \A i \in DOMAIN log'[t] : i \in DOMAIN log[t] \/ i = Len(log[t]) + 1
    /\ Len(log[t]) + 1 \in DOMAIN log'[t]
    /\ parseVector(log'[t][Len(log[t]) + 1]) = vectorClock[t]
    /\ log'[t][Len(log[t]) + 1] \in Lines
    /\ \A u \in Threads \ {t} : log'[u] = log[u]

LEMMA PrintStep ==
    ASSUME TypeOK, EpochsInv, RecordInv, NEW t \in Threads, Recording(t), PrintClock(t)
    PROVE  Printed(t) /\ EpochsInv' /\ log' \in [Threads -> Seq(Seq(Nat))]
  <1> DEFINE line == printVector(vectorClock[t])
  <1>0. /\ log \in [Threads -> Seq(Seq(Nat))] /\ vectorClock[t] \in Clock
        /\ log[t] \in Seq(Seq(Nat))
    BY DEF TypeOK
  <1>1. line \in Lines /\ parseVector(line) = vectorClock[t] /\ line \in Seq(Nat)
    BY <1>0, PrintParse, LineType
  <1>2. log' = [log EXCEPT ![t] = Append(@, line)]
    BY DEF PrintClock
  <1> HIDE DEF line
  <1>3. log'[t] = Append(log[t], line) /\ \A u \in Threads \ {t} : log'[u] = log[u]
    BY <1>0, <1>2
  <1>4. /\ Append(log[t], line) \in Seq(Seq(Nat))
        /\ Len(Append(log[t], line)) = Len(log[t]) + 1
        /\ DOMAIN log[t] = 1 .. Len(log[t]) /\ Len(log[t]) \in Nat
        /\ DOMAIN Append(log[t], line) = 1 .. Len(log[t]) + 1
        /\ \A i \in DOMAIN log[t] : Append(log[t], line)[i] = log[t][i]
        /\ Append(log[t], line)[Len(log[t]) + 1] = line
        /\ Append(log[t], line) # << >>
    BY <1>0, <1>1, Appended
  <1>5. log' \in [Threads -> Seq(Seq(Nat))]
    BY <1>0, <1>2, <1>4
  <1>6. Printed(t)
    BY <1>1, <1>3, <1>4 DEF Printed
  <1>7. /\ vectorClock[t][t] > 0
        /\ \A i \in DOMAIN log[t] : /\ E(t, i)[t] < vectorClock[t][t]
                                    /\ \A u \in Threads : E(t, i)[u] <= vectorClock[t][u]
    BY DEF RecordInv, FileOf, Recording
  <1>8. ASSUME NEW u \in Threads, NEW i \in DOMAIN log'[u]
        PROVE  /\ log'[u][i] \in Lines /\ parseVector(log'[u][i])[u] > 0
               /\ \A j \in DOMAIN log'[u] : i < j =>
                     /\ parseVector(log'[u][i])[u] < parseVector(log'[u][j])[u]
                     /\ \A v \in Threads : parseVector(log'[u][i])[v] <= parseVector(log'[u][j])[v]
    <2>1. CASE u # t
      BY <1>3, <1>8, <2>1 DEF EpochsInv, E
    <2>2. CASE u = t
      <3>1. CASE i \in DOMAIN log[t]
        <4>1. log'[t][i] = log[t][i]
          BY <1>6, <3>1 DEF Printed
        <4>2. log[t][i] \in Lines /\ parseVector(log[t][i])[t] > 0
          BY <3>1 DEF EpochsInv, E
        <4>3. ASSUME NEW j \in DOMAIN log'[t], i < j
              PROVE  /\ parseVector(log[t][i])[t] < parseVector(log'[t][j])[t]
                     /\ \A v \in Threads : parseVector(log[t][i])[v] <= parseVector(log'[t][j])[v]
          <5>1. CASE j \in DOMAIN log[t]
            BY <1>6, <3>1, <4>3, <5>1 DEF Printed, EpochsInv, E
          <5>2. CASE j = Len(log[t]) + 1
            BY <1>6, <1>7, <3>1, <5>2 DEF Printed, E
          <5> QED BY <1>6, <5>1, <5>2 DEF Printed
        <4> QED BY <2>2, <4>1, <4>2, <4>3
      <3>2. CASE i = Len(log[t]) + 1
        <4>1. \A j \in DOMAIN log'[t] : ~ (i < j)
          BY <1>3, <1>4, <3>2
        <4> QED BY <1>6, <1>7, <2>2, <3>2, <4>1 DEF Printed
      <3> QED BY <1>6, <1>8, <2>2, <3>1, <3>2 DEF Printed
    <2> QED BY <2>1, <2>2
  <1>9. EpochsInv'
    BY <1>8 DEF EpochsInv, E
  <1> QED BY <1>5, <1>6, <1>9

CallType == [what : CallNames, who : Threads]

Said(t, x) ==
    /\ Len(program'[t]) = Len(program[t]) + 1
    /\ \A i \in DOMAIN program[t] :
          i \in DOMAIN program'[t] /\ program'[t][i] = program[t][i] /\ i <= Len(program[t])
    /\ \A i \in DOMAIN program'[t] : i \in DOMAIN program[t] \/ i = Len(program[t]) + 1
    /\ Len(program[t]) + 1 \in DOMAIN program'[t]
    /\ program'[t][Len(program[t]) + 1] = x
    /\ \A u \in Threads \ {t} : program'[u] = program[u]

LEMMA CallStep ==
    ASSUME TypeOK, NEW t \in Threads, NEW x \in CallType, Calls(t, x)
    PROVE  Said(t, x) /\ program' \in [Threads -> Seq(CallType)]
  <1>0. program \in [Threads -> Seq(CallType)] /\ program[t] \in Seq(CallType)
    BY DEF TypeOK, CallType
  <1>1. program' = [program EXCEPT ![t] = Append(@, x)]
    BY DEF Calls
  <1>2. /\ program'[t] = Append(program[t], x)
        /\ \A u \in Threads \ {t} : program'[u] = program[u]
    BY <1>0, <1>1
  <1>3. /\ Append(program[t], x) \in Seq(CallType)
        /\ Len(Append(program[t], x)) = Len(program[t]) + 1
        /\ DOMAIN program[t] = 1 .. Len(program[t]) /\ Len(program[t]) \in Nat
        /\ DOMAIN Append(program[t], x) = 1 .. Len(program[t]) + 1
        /\ \A i \in DOMAIN program[t] : Append(program[t], x)[i] = program[t][i]
        /\ Append(program[t], x)[Len(program[t]) + 1] = x
    BY <1>0, Appended
  <1>4. program' \in [Threads -> Seq(CallType)]
    BY <1>0, <1>1, <1>3
  <1> QED BY <1>2, <1>3, <1>4 DEF Said

LEMMA CallsType ==
    ASSUME TypeOK, NEW u \in Threads
    PROVE  /\ DOMAIN program[u] = 1 .. Len(program[u]) /\ Len(program[u]) \in Nat
           /\ \A k \in DOMAIN program[u] :
                 /\ program[u][k].who \in Threads /\ program[u][k].what \in CallNames
                 /\ program[u][k] = Call(program[u][k].what, program[u][k].who)
  <1>1. program[u] \in Seq(CallType)
    BY DEF TypeOK, CallType
  <1>2. \A k \in DOMAIN program[u] : program[u][k] \in CallType
    BY <1>1
  <1>3. \A x \in CallType : /\ x.who \in Threads /\ x.what \in CallNames
                            /\ x = Call(x.what, x.who)
    BY DEF CallType, Call
  <1> QED BY <1>1, <1>2, <1>3

LEMMA NextCall ==
    ASSUME TypeOK, NEW t \in Threads, step[t] < Len(program[t])
    PROVE  /\ step[t] + 1 \in DOMAIN program[t] /\ program[t][step[t] + 1].who \in Threads
           /\ step[t] \in Nat
  <1>1. step[t] \in Nat /\ Len(program[t]) \in Nat /\ DOMAIN program[t] = 1 .. Len(program[t])
    BY CallsType DEF TypeOK
  <1>2. step[t] + 1 \in DOMAIN program[t]
    BY <1>1
  <1> QED BY <1>1, <1>2, CallsType

LEMMA OrderType ==
    ASSUME TypeOK
    PROVE  /\ DOMAIN createOrder = 1 .. Len(createOrder) /\ Len(createOrder) \in Nat
           /\ \A c \in DOMAIN createOrder : createOrder[c] \in Threads
  <1>1. createOrder \in Seq(Threads)
    BY DEF TypeOK
  <1> QED BY <1>1

\* The calls that a program gains are at the end; those it had are printed.
LEMMA PrintedEarlier ==
    ASSUME TypeOK, OrderInv, NEW t \in Threads, Printed(t),
           NEW u \in Threads, NEW k \in DOMAIN program[u], program[u][k].what = "create"
    PROVE  /\ program[u][k].who \in DOMAIN createOrder /\ program[u][k].who \in Threads
           /\ createOrder[program[u][k].who] = u
           /\ k \in DOMAIN log[u] /\ k \in DOMAIN log'[u] /\ E(u, k)' = E(u, k)
  <1>1. /\ program[u][k].who \in DOMAIN createOrder
        /\ createOrder[program[u][k].who] = u /\ k \in DOMAIN log[u]
    BY DEF OrderInv
  <1>2. k \in DOMAIN log'[u] /\ log'[u][k] = log[u][k]
    BY <1>1 DEF Printed
  <1>4. program[u][k].who \in Threads
    BY CallsType
  <1> QED BY <1>1, <1>2, <1>4 DEF E

\* The other threads of the recording keep their clocks.
ClocksStay(t) ==
    \A u \in Threads \ {t} : u \in DOMAIN createOrder => vectorClock'[u] = vectorClock[u]

\* For the creations there were, child and parent still agree.
LEMMA BirthsKept ==
    ASSUME TypeOK, EpochsInv, OrderInv, BirthInv, RecordInv, NEW t \in Threads,
           Recording(t), Printed(t), ClocksStay(t),
           NEW u \in Threads, NEW k \in DOMAIN program[u], program[u][k].what = "create",
           NEW c, c = program[u][k].who
    PROVE  /\ log'[c] # << >> => parseVector(log'[c][1]) = ChildClock(E(u, k), u, c)
           /\ log'[c] = << >> => vectorClock'[c] = ChildClock(E(u, k), u, c)
  <1>0. c \in Threads /\ c \in DOMAIN createOrder /\ log[c] \in Seq(Seq(Nat))
    BY PrintedEarlier DEF TypeOK
  <1>1. CASE log[c] # << >>
    <2>1. 1 \in DOMAIN log[c]
      BY <1>0, <1>1
    <2>2. E(c, 1) = ChildClock(E(u, k), u, c)
      BY <1>1 DEF BirthInv
    <2>3. log'[c] = log[c] \/ (c = t /\ 1 \in DOMAIN log'[c] /\ log'[c][1] = log[c][1])
      BY <1>0, <2>1 DEF Printed
    <2>4. parseVector(log'[c][1]) = ChildClock(E(u, k), u, c)
      BY <2>2, <2>3 DEF E
    <2>5. log'[c] # << >>
      BY <1>0, <1>1 DEF Printed
    <2> QED BY <2>4, <2>5
  <1>2. CASE log[c] = << >>
    <2>1. vectorClock[c] = ChildClock(E(u, k), u, c)
      BY <1>2 DEF RecordInv, BirthsOf, Recording
    <2>2. CASE c = t
      <3>1. parseVector(log'[t][Len(log[t]) + 1]) = vectorClock[t] /\ log'[t] # << >>
        BY DEF Printed
      <3>2. Len(log[t]) + 1 = 1
        BY <1>2, <2>2
      <3> QED BY <2>1, <2>2, <3>1, <3>2
    <2>3. CASE c # t
      <3>1. log'[c] = log[c] /\ vectorClock'[c] = vectorClock[c]
        BY <1>0, <2>3 DEF Printed, ClocksStay
      <3> QED BY <1>2, <2>1, <3>1
    <2> QED BY <2>2, <2>3
  <1> QED BY <1>1, <1>2

\* A call that creates no thread.
Moves(t, x, w) ==
    /\ Recording(t) /\ PrintClock(t) /\ Calls(t, x) /\ x \in CallType
    /\ w \in Clock /\ w[t] > vectorClock[t][t]
    /\ \A u \in Threads : w[u] >= vectorClock[t][u]
    /\ vectorClock' = [vectorClock EXCEPT ![t] = w]
    /\ \/ x.what = "join" /\ UNCHANGED mutex
       \/ /\ x.what = "lock" /\ mutex.holder = NO_ID
          /\ mutex' = [mutex EXCEPT !.holder = t, !.used = @ + 1]
       \/ /\ x.what = "unlock" /\ mutex.holder = t
          /\ mutex' = [mutex EXCEPT !.holder = NO_ID, !.left = w]
    /\ UNCHANGED <<phase, createOrder, threadState, pinIds, replayer>>

LEMMA MovesKeep ==
    ASSUME TypeOK, LogInv, RecordInv, NEW t \in Threads, NEW x, NEW w, Moves(t, x, w)
    PROVE  TypeOK' /\ LogInv' /\ RecordInv'
  <1>0. /\ EpochsInv /\ OrderInv /\ BirthInv /\ x \in CallType /\ x.what # "create"
        /\ vectorClock \in [Threads -> Clock] /\ w \in Clock /\ phase = "record"
        /\ mutex \in [holder : Threads \cup {NO_ID}, left : Clock, used : Nat]
        /\ threadState[t] = "run"
    BY DEF LogInv, Moves, TypeOK, Recording
  <1>1. Printed(t) /\ EpochsInv' /\ log' \in [Threads -> Seq(Seq(Nat))]
    BY <1>0, PrintStep DEF Moves
  <1>2. Said(t, x) /\ program' \in [Threads -> Seq(CallType)]
    BY <1>0, CallStep DEF Moves
  <1>3. vectorClock'[t] = w /\ \A u \in Threads \ {t} : vectorClock'[u] = vectorClock[u]
    BY <1>0 DEF Moves
  <1>4. TypeOK'
    <2>1. vectorClock' \in [Threads -> Clock]
      BY <1>0 DEF Moves
    <2>2. mutex' \in [holder : Threads \cup {NO_ID}, left : Clock, used : Nat]
      <3>1. CASE mutex' = [mutex EXCEPT !.holder = t, !.used = @ + 1]
        <4>1. mutex.used + 1 \in Nat
          BY <1>0
        <4>2. mutex' = [mutex EXCEPT !.holder = t, !.used = mutex.used + 1]
          BY <3>1
        <4> QED BY <1>0, <4>1, <4>2
      <3>2. CASE mutex' = [mutex EXCEPT !.holder = NO_ID, !.left = w]
        BY <1>0, <3>2
      <3> QED BY <1>0, <3>1, <3>2 DEF Moves
    <2> QED BY <1>1, <1>2, <2>1, <2>2 DEF TypeOK, Moves, replayer, CallType
  <1>5. ASSUME NEW u \in Threads, NEW k \in DOMAIN program'[u],
               program'[u][k].what = "create"
        PROVE  /\ k \in DOMAIN program[u] /\ program'[u][k] = program[u][k]
               /\ program[u][k].what = "create"
    BY <1>0, <1>2, <1>5 DEF Said
  <1>6. OrderInv'
    <2>1. ASSUME NEW c \in DOMAIN createOrder
          PROVE  /\ createOrder[c] < c
                 /\ \E k \in DOMAIN program'[createOrder[c]] :
                       program'[createOrder[c]][k] = Call("create", c)
      <3>1. PICK k \in DOMAIN program[createOrder[c]] :
               createOrder[c] < c /\ program[createOrder[c]][k] = Call("create", c)
        BY <1>0 DEF OrderInv
      <3>2. createOrder[c] \in Threads
        BY OrderType
      <3>3. k \in DOMAIN program'[createOrder[c]]
            /\ program'[createOrder[c]][k] = program[createOrder[c]][k]
        BY <1>2, <3>1, <3>2 DEF Said
      <3> QED BY <3>1, <3>3
    <2>2. ASSUME NEW u \in Threads, NEW k \in DOMAIN program'[u],
                 program'[u][k].what = "create"
          PROVE  /\ program'[u][k].who \in DOMAIN createOrder
                 /\ createOrder[program'[u][k].who] = u /\ k \in DOMAIN log'[u]
                 /\ \A j \in DOMAIN program'[u] :
                       (k < j /\ program'[u][j].what = "create")
                       => program'[u][k].who < program'[u][j].who
      <3>1. k \in DOMAIN program[u] /\ program'[u][k] = program[u][k]
            /\ program[u][k].what = "create"
        BY <1>5, <2>2
      <3>2. \A j \in DOMAIN program'[u] : program'[u][j].what = "create" =>
               /\ j \in DOMAIN program[u] /\ program'[u][j] = program[u][j]
               /\ program[u][j].what = "create"
        BY <1>5
      <3>3. /\ program[u][k].who \in DOMAIN createOrder
            /\ createOrder[program[u][k].who] = u /\ k \in DOMAIN log'[u]
        BY <1>0, <1>1, <3>1, PrintedEarlier
      <3>4. \A j \in DOMAIN program[u] : (k < j /\ program[u][j].what = "create")
                       => program[u][k].who < program[u][j].who
        BY <1>0, <3>1 DEF OrderInv
      <3> QED BY <3>1, <3>2, <3>3, <3>4
    <2>3. createOrder' = createOrder /\ Len(createOrder) < MaxThreads
      BY <1>0 DEF Moves, OrderInv
    <2> QED BY <2>1, <2>2, <2>3 DEF OrderInv
  <1>7. ASSUME NEW u \in Threads, NEW k \in DOMAIN program'[u],
               program'[u][k].what = "create", NEW c, c = program'[u][k].who
        PROVE  /\ log'[c] # << >> => E(c, 1)' = ChildClock(E(u, k)', u, c)
               /\ log'[c] = << >> => vectorClock'[c] = ChildClock(E(u, k)', u, c)
    <2>1. k \in DOMAIN program[u] /\ c = program[u][k].who /\ program[u][k].what = "create"
      BY <1>5, <1>7
    <2>2. E(u, k)' = E(u, k)
      BY <1>0, <1>1, <2>1, PrintedEarlier
    <2>3. /\ log'[c] # << >> => parseVector(log'[c][1]) = ChildClock(E(u, k), u, c)
          /\ log'[c] = << >> => vectorClock'[c] = ChildClock(E(u, k), u, c)
      BY <1>0, <1>1, <1>3, <2>1, BirthsKept DEF Moves, ClocksStay
    <2> QED BY <2>2, <2>3 DEF E
  <1>8. BirthInv'
    BY <1>7 DEF BirthInv
  <1>9. RecordInv'
    <2>0. threadState' = threadState /\ Numbered' = Numbered
      BY DEF Moves, Numbered
    <2>1. ASSUME NEW u \in Threads PROVE FileOf(u)'
      <3>0. FileOf(u)
        BY <1>0 DEF RecordInv
      <3>1. CASE u # t
        BY <1>1, <1>2, <1>3, <2>0, <3>0, <3>1 DEF Printed, Said, E, FileOf
      <3>2. CASE u = t
        <4>1. Len(log'[t]) = Len(program'[t])
          BY <1>0, <1>1, <1>2, <3>0, <3>2 DEF Printed, Said, FileOf
        <4>2. \A v \in Threads : vectorClock[t][v] \in Nat /\ w[v] \in Nat
          BY <1>0 DEF Clock
        <4>3. w[t] > vectorClock[t][t] /\ \A v \in Threads : w[v] >= vectorClock[t][v]
          BY DEF Moves
        <4>4. ASSUME NEW i \in DOMAIN log'[t]
              PROVE  /\ E(t, i)'[t] < w[t]
                     /\ \A v \in Threads : E(t, i)'[v] <= w[v]
          <5>1. CASE i \in DOMAIN log[t]
            <6>1. E(t, i)' = E(t, i) /\ E(t, i) \in Clock
              BY <1>0, <1>1, <5>1, EpochsType DEF Printed, E
            <6>2. \A v \in Threads : E(t, i)[v] \in Nat
              BY <6>1 DEF Clock
            <6> HIDE DEF E
            <6> QED BY <1>0, <3>0, <3>2, <4>2, <4>3, <5>1, <6>1, <6>2 DEF FileOf
          <5>2. CASE i = Len(log[t]) + 1
            <6>1. E(t, i)' = vectorClock[t]
              BY <1>1, <5>2 DEF Printed, E
            <6> QED BY <4>2, <4>3, <6>1
          <5> QED BY <1>1, <5>1, <5>2 DEF Printed
        <4>5. w[t] > 0
          BY <4>2, <4>3
        <4> QED BY <1>0, <1>3, <2>0, <3>0, <3>2, <4>1, <4>4, <4>5 DEF FileOf
      <3> QED BY <3>1, <3>2
    <2>2. ASSUME NEW u \in Threads PROVE SectionsOf(u)'
      <3>0. SectionsOf(u)
        BY <1>0 DEF RecordInv
      <3>1. CASE u # t
        <4>1. Ungated(u)' = Ungated(u)
          BY <1>2, <3>1 DEF Said, Ungated
        <4>2. mutex'.holder = u <=> mutex.holder = u
          BY <1>0, <3>1, Basics DEF Moves
        <4> QED BY <2>0, <3>0, <4>1, <4>2 DEF SectionsOf
      <3>2. CASE u = t
        <4> DEFINE n == Len(program[t]) + 1
        <4>1. /\ Ungated(t) \subseteq Ungated(t)' /\ n \notin Ungated(t)
              /\ \A i \in Ungated(t)' : i \in Ungated(t) \/ (i = n /\ x.what # "join")
              /\ x.what \in {"lock", "unlock"} => n \in Ungated(t)'
          <5>1. Len(program[t]) \in Nat
            BY CallsType
          <5>2. \A i \in DOMAIN program[t] : i <= Len(program[t])
            BY <1>2 DEF Said
          <5>3. n \notin DOMAIN program[t]
            BY <5>1, <5>2
          <5> HIDE DEF n
          <5>4. /\ \A i \in DOMAIN program[t] :
                      i \in DOMAIN program'[t] /\ program'[t][i] = program[t][i]
                /\ \A i \in DOMAIN program'[t] : i \in DOMAIN program[t] \/ i = n
                /\ n \in DOMAIN program'[t] /\ program'[t][n] = x
            BY <1>2 DEF Said, n
          <5> QED BY <5>3, <5>4 DEF Ungated
        <4> HIDE DEF n
        <4>2. CASE x.what = "join" /\ UNCHANGED mutex
          <5>1. Ungated(t)' = Ungated(t)
            BY <4>1, <4>2
          <5> QED BY <2>0, <3>0, <3>2, <4>2, <5>1 DEF SectionsOf
        <4>3. CASE x.what = "lock" /\ mutex' = [mutex EXCEPT !.holder = t, !.used = @ + 1]
          <5>1. mutex'.holder = t
            BY <1>0, <4>3
          <5>2. n \in Ungated(t)'
            BY <4>1, <4>3
          <5> QED BY <1>0, <2>0, <3>2, <5>1, <5>2 DEF SectionsOf
        <4>4. CASE /\ x.what = "unlock" /\ mutex.holder = t
                   /\ mutex' = [mutex EXCEPT !.holder = NO_ID, !.left = w]
          <5>1. mutex'.holder = NO_ID /\ NO_ID # t
            BY <1>0, <4>4, Basics
          <5>2. PICK j \in Ungated(t) : TRUE
            BY <3>0, <3>2, <4>4 DEF SectionsOf
          <5>3. j \in Ungated(t)' /\ n \in Ungated(t)' /\ j # n
            BY <4>1, <4>4, <5>2
          <5>4. \A i \in Ungated(t)' : \E l \in Ungated(t)' : l # i
            BY <5>3
          <5> QED BY <3>2, <5>1, <5>4 DEF SectionsOf
        <4> QED BY <4>2, <4>3, <4>4 DEF Moves
      <3> QED BY <3>1, <3>2
    <2>3. pinIds' = Len(createOrder') + 1 /\ Untouched'
      BY <1>0 DEF Moves, RecordInv, replayer, Untouched
    <2>4. ASSUME NEW u \in Threads PROVE BirthsOf(u)'
      BY <1>7 DEF BirthsOf
    <2> QED BY <2>1, <2>2, <2>3, <2>4 DEF RecordInv
  <1> QED BY <1>1, <1>4, <1>6, <1>8, <1>9 DEF LogInv

LEMMA JoinLockKeep ==
    ASSUME TypeOK, LogInv, RecordInv, NEW t \in Threads,
           RecordJoin(t) \/ RecordLock(t) \/ RecordUnlock(t)
    PROVE  TypeOK' /\ LogInv' /\ RecordInv'
  <1>0. /\ vectorClock \in [Threads -> Clock] /\ vectorClock[t] \in Clock
        /\ vectorClock[t][t] \in Nat /\ mutex.left \in Clock
    <2>1. vectorClock \in [Threads -> Clock] /\ vectorClock[t] \in Clock
      BY DEF TypeOK
    <2>2. mutex.left \in Clock
      BY DEF TypeOK
    <2> QED BY <2>1, <2>2 DEF Clock
  <1>1. \A u \in Threads : vectorClock[t][u] \in Nat
    BY <1>0 DEF Clock
  <1> DEFINE a == advance(vectorClock[t], t)
  <1>2. a \in Clock /\ a[t] > vectorClock[t][t] /\ \A u \in Threads : a[u] >= vectorClock[t][u]
    <2>1. /\ a \in Clock /\ a[t] = vectorClock[t][t] + 1
          /\ \A u \in Threads \ {t} : a[u] = vectorClock[t][u]
      BY <1>0, ClockOperations
    <2> HIDE DEF a
    <2> QED BY <1>0, <1>1, <2>1
  <1> HIDE DEF a
  <1>3. CASE RecordJoin(t)
    <2>1. PICK c \in Unjoined(t) :
             /\ threadState[c] = "exited" /\ Calls(t, Call("join", c)) /\ PrintClock(t)
             /\ vectorClock' = [vectorClock EXCEPT
                    ![t] = receiveWithIncrement(@, t, vectorClock[c], c)]
      BY <1>3 DEF RecordJoin
    <2> DEFINE w == receiveWithIncrement(vectorClock[t], t, vectorClock[c], c)
               x == Call("join", c)
    <2>2. c \in Threads /\ vectorClock[c] \in Clock
      BY <1>0 DEF Unjoined
    <2>3. /\ w \in Clock /\ w[t] > vectorClock[t][t]
          /\ \A u \in Threads : w[u] >= vectorClock[t][u]
      BY <1>0, <2>2, ClockOperations
    <2>4. x \in CallType /\ x.what = "join"
      BY <2>2 DEF Call, CallType, CallNames
    <2>5. vectorClock' = [vectorClock EXCEPT ![t] = w]
      BY <2>1
    <2>6. /\ UNCHANGED <<phase, createOrder, threadState, mutex, pinIds, replayer>>
          /\ Recording(t)
      BY <1>3 DEF RecordJoin
    <2> HIDE DEF w, x
    <2>7. Moves(t, x, w)
      BY <2>1, <2>3, <2>4, <2>5, <2>6 DEF Moves, x
    <2> QED BY <2>7, MovesKeep
  <1>4. CASE RecordLock(t)
    <2> DEFINE w == receiveAction(a, mutex.left)
               x == Call("lock", t)
    <2>1. w \in Clock /\ \A u \in Threads : w[u] >= a[u]
      BY <1>0, <1>2, ClockOperations
    <2>2. /\ Recording(t) /\ PrintClock(t) /\ Calls(t, x) /\ mutex.holder = NO_ID
          /\ vectorClock' = [vectorClock EXCEPT ![t] = w]
          /\ mutex' = [mutex EXCEPT !.holder = t, !.used = @ + 1]
          /\ UNCHANGED <<phase, createOrder, threadState, pinIds, replayer>>
      BY <1>4 DEF RecordLock, a
    <2>3. x \in CallType /\ x.what = "lock"
      BY DEF Call, CallType, CallNames
    <2> HIDE DEF w, x
    <2>4. \A u \in Threads : w[u] \in Nat /\ a[u] \in Nat
      BY <1>2, <2>1 DEF Clock
    <2>5. w[t] > vectorClock[t][t] /\ \A u \in Threads : w[u] >= vectorClock[t][u]
      BY <1>1, <1>2, <2>1, <2>4
    <2>6. Moves(t, x, w)
      BY <2>1, <2>2, <2>3, <2>5 DEF Moves
    <2> QED BY <2>6, MovesKeep
  <1>5. CASE RecordUnlock(t)
    <2> DEFINE x == Call("unlock", t)
    <2>1. /\ Recording(t) /\ PrintClock(t) /\ Calls(t, x) /\ mutex.holder = t
          /\ vectorClock' = [vectorClock EXCEPT ![t] = a]
          /\ mutex' = [mutex EXCEPT !.holder = NO_ID, !.left = vectorClock'[t]]
          /\ UNCHANGED <<phase, createOrder, threadState, pinIds, replayer>>
      BY <1>5 DEF RecordUnlock, a
    <2>2. x \in CallType /\ x.what = "unlock"
      BY DEF Call, CallType, CallNames
    <2>3. vectorClock'[t] = a
      BY <1>0, <2>1
    <2> HIDE DEF x
    <2>4. Moves(t, x, a)
      BY <1>2, <2>1, <2>2, <2>3 DEF Moves
    <2> QED BY <2>4, MovesKeep
  <1> QED BY <1>3, <1>4, <1>5

LEMMA FiniKeeps ==
    ASSUME TypeOK, LogInv, RecordInv, NEW t \in Threads, RecordFini(t)
    PROVE  TypeOK' /\ LogInv' /\ RecordInv'
  <1>0. /\ EpochsInv /\ OrderInv /\ BirthInv /\ phase = "record" /\ threadState[t] = "run"
        /\ Recording(t) /\ PrintClock(t) /\ mutex.holder # t
        /\ threadState' = [threadState EXCEPT ![t] = "exited"]
        /\ UNCHANGED <<phase, program, vectorClock, createOrder, mutex, pinIds, replayer>>
    BY DEF LogInv, RecordFini, Recording
  <1>1. Printed(t) /\ EpochsInv' /\ log' \in [Threads -> Seq(Seq(Nat))]
    BY <1>0, PrintStep
  <1>2. threadState'[t] = "exited" /\ \A u \in Threads \ {t} : threadState'[u] = threadState[u]
    BY <1>0 DEF TypeOK
  <1>3. TypeOK'
    BY <1>0, <1>1 DEF TypeOK, replayer
  <1>4. OrderInv'
    <2>1. ASSUME NEW u \in Threads, NEW k \in DOMAIN program[u], program[u][k].what = "create"
          PROVE  k \in DOMAIN log'[u]
      BY <1>0, <1>1, <2>1, PrintedEarlier
    <2> QED BY <1>0, <2>1 DEF OrderInv
  <1>5. ASSUME NEW u \in Threads, NEW k \in DOMAIN program[u],
               program[u][k].what = "create", NEW c, c = program[u][k].who
        PROVE  /\ log'[c] # << >> => E(c, 1)' = ChildClock(E(u, k)', u, c)
               /\ log'[c] = << >> => vectorClock'[c] = ChildClock(E(u, k)', u, c)
    <2>1. E(u, k)' = E(u, k)
      BY <1>0, <1>1, <1>5, PrintedEarlier
    <2>2. /\ log'[c] # << >> => parseVector(log'[c][1]) = ChildClock(E(u, k), u, c)
          /\ log'[c] = << >> => vectorClock'[c] = ChildClock(E(u, k), u, c)
      BY <1>0, <1>1, <1>5, BirthsKept DEF ClocksStay
    <2> QED BY <2>1, <2>2 DEF E
  <1>6. BirthInv'
    BY <1>0, <1>5 DEF BirthInv
  <1>7. ASSUME NEW u \in Threads PROVE FileOf(u)'
    <2>0. FileOf(u) /\ Numbered' = Numbered
      BY <1>0 DEF RecordInv, Numbered
    <2>1. CASE u # t
      BY <1>0, <1>1, <1>2, <2>0, <2>1 DEF FileOf, Printed, E
    <2>2. CASE u = t
      <3>1. Len(log'[t]) = Len(program'[t]) + 1
        BY <1>0, <1>1, <2>0, <2>2 DEF FileOf, Printed
      <3>2. t \in Numbered'
        BY <1>0, <2>0, <2>2 DEF FileOf
      <3> QED BY <1>2, <2>2, <3>1, <3>2 DEF FileOf
    <2> QED BY <2>1, <2>2
  <1>8. ASSUME NEW u \in Threads PROVE SectionsOf(u)'
    <2>0. SectionsOf(u) /\ Ungated(u)' = Ungated(u)
      BY <1>0 DEF RecordInv, Ungated
    <2> QED BY <1>0, <1>2, <2>0 DEF SectionsOf
  <1>9. ASSUME NEW u \in Threads PROVE BirthsOf(u)'
    BY <1>0, <1>5 DEF BirthsOf
  <1>10. pinIds' = Len(createOrder') + 1 /\ Untouched'
    BY <1>0 DEF RecordInv, replayer, Untouched
  <1> QED BY <1>1, <1>3, <1>4, <1>6, <1>7, <1>8, <1>9, <1>10 DEF LogInv, RecordInv

LEMMA CreateKeeps ==
    ASSUME TypeOK, LogInv, RecordInv, NEW t \in Threads, RecordCreate(t)
    PROVE  TypeOK' /\ LogInv' /\ RecordInv'
  <1> DEFINE c == pinIds
             x == Call("create", c)
             n == Len(program[t]) + 1
             a == advance(vectorClock[t], t)
             b == ChildClock(vectorClock[t], t, c)
  <1>0. /\ EpochsInv /\ OrderInv /\ BirthInv /\ phase = "record" /\ threadState[t] = "run"
        /\ Recording(t) /\ PrintClock(t) /\ Calls(t, x) /\ pinIds < MaxThreads
        /\ vectorClock' = [vectorClock EXCEPT ![t] = a, ![c] = b]
        /\ createOrder' = Append(createOrder, t)
        /\ threadState' = [threadState EXCEPT ![c] = "run"]
        /\ pinIds' = pinIds + 1
        /\ UNCHANGED <<phase, mutex, replayer>>
    BY DEF LogInv, RecordCreate, Recording
  <1>1. /\ c = Len(createOrder) + 1 /\ Len(createOrder) \in Nat
        /\ DOMAIN createOrder = 1 .. Len(createOrder)
        /\ \A d \in DOMAIN createOrder : createOrder[d] \in Threads
        /\ createOrder \in Seq(Threads)
    BY <1>0, OrderType DEF RecordInv, TypeOK
  <1>2. c \in Threads /\ c \in Nat /\ c > 0 /\ c \notin DOMAIN createOrder /\ c \notin Numbered
    BY <1>0, <1>1, Basics DEF Numbered
  <1>3. threadState[c] = "absent" /\ t \in Numbered /\ program[c] = << >> /\ log[c] = << >>
    BY <1>0, <1>2 DEF RecordInv, FileOf
  <1>4. t # c /\ t < c
    BY <1>1, <1>2, <1>3, Basics DEF Numbered
  <1>5. Printed(t) /\ EpochsInv' /\ log' \in [Threads -> Seq(Seq(Nat))]
    BY <1>0, PrintStep
  <1>6. x \in CallType /\ x.what = "create" /\ x.who = c
    BY <1>2 DEF Call, CallType, CallNames
  <1>7. Said(t, x) /\ program' \in [Threads -> Seq(CallType)]
    BY <1>0, <1>6, CallStep
  <1>8. vectorClock \in [Threads -> Clock] /\ vectorClock[t] \in Clock
    BY DEF TypeOK
  <1>9. /\ a \in Clock /\ b \in Clock /\ b[c] > 0
        /\ a[t] = vectorClock[t][t] + 1 /\ \A u \in Threads \ {t} : a[u] = vectorClock[t][u]
    BY <1>2, <1>8, ClockOperations
  <1> HIDE DEF a, b, c, x
  <1>10. /\ vectorClock'[t] = a /\ vectorClock'[c] = b
         /\ \A u \in Threads \ {t, c} : vectorClock'[u] = vectorClock[u]
    BY <1>0, <1>2, <1>4, <1>8
  <1>11. threadState'[c] = "run" /\ \A u \in Threads \ {c} : threadState'[u] = threadState[u]
    BY <1>0, <1>2 DEF TypeOK
  <1>12. /\ createOrder' \in Seq(Threads) /\ Len(createOrder') = c
         /\ DOMAIN createOrder' = 1 .. c /\ createOrder'[c] = t
         /\ \A d \in DOMAIN createOrder : d \in DOMAIN createOrder'
                                          /\ createOrder'[d] = createOrder[d]
         /\ \A d \in DOMAIN createOrder' : d \in DOMAIN createOrder \/ d = c
    BY <1>0, <1>1, <1>2
  <1>13. TypeOK'
    <2>1. vectorClock' \in [Threads -> Clock]
      BY <1>0, <1>8, <1>9
    <2>2. threadState' \in [Threads -> {"absent", "new", "load", "start", "check",
                           "main", "run", "create", "created", "join", "exited"}]
      BY <1>0 DEF TypeOK
    <2>3. pinIds' \in Nat
      BY <1>0, <1>2 DEF c
    <2> QED BY <1>0, <1>5, <1>7, <1>12, <2>1, <2>2, <2>3 DEF TypeOK, replayer, CallType
  <1>14. n \in Nat /\ Len(log[t]) + 1 = n /\ n \in DOMAIN program'[t] /\ program'[t][n] = x
         /\ n \in DOMAIN log'[t] /\ parseVector(log'[t][n]) = vectorClock[t]
    <2>1. Len(log[t]) = Len(program[t]) /\ Len(program[t]) \in Nat
      BY <1>0, CallsType DEF RecordInv, FileOf
    <2>2. n \in DOMAIN program'[t] /\ program'[t][n] = x
      BY <1>7 DEF Said
    <2>3. n = Len(log[t]) + 1 /\ n \in Nat
      BY <2>1
    <2> HIDE DEF n
    <2>4. n \in DOMAIN log'[t] /\ parseVector(log'[t][n]) = vectorClock[t]
      BY <1>5, <2>3 DEF Printed
    <2> QED BY <2>2, <2>3, <2>4
  <1>15. ASSUME NEW u \in Threads, NEW k \in DOMAIN program'[u]
         PROVE  \/ k \in DOMAIN program[u] /\ program'[u][k] = program[u][k]
                \/ u = t /\ k = n
    BY <1>7, <1>15 DEF Said
  <1>16. \A i \in DOMAIN program[t] : i < n /\ i \in Nat
    <2>1. DOMAIN program[t] = 1 .. Len(program[t]) /\ Len(program[t]) \in Nat
      BY CallsType
    <2> QED BY <2>1
  <1> HIDE DEF n
  <1>17. OrderInv'
    <2>1. ASSUME NEW d \in DOMAIN createOrder'
          PROVE  /\ createOrder'[d] < d
                 /\ \E k \in DOMAIN program'[createOrder'[d]] :
                       program'[createOrder'[d]][k] = Call("create", d)
      <3>1. CASE d = c
        BY <1>4, <1>12, <1>14, <3>1 DEF x
      <3>2. CASE d \in DOMAIN createOrder
        <4>1. PICK k \in DOMAIN program[createOrder[d]] :
               createOrder[d] < d /\ program[createOrder[d]][k] = Call("create", d)
          BY <1>0, <3>2 DEF OrderInv
        <4>2. createOrder[d] \in Threads /\ createOrder'[d] = createOrder[d]
          BY <1>1, <1>12, <3>2
        <4>3. k \in DOMAIN program'[createOrder[d]]
              /\ program'[createOrder[d]][k] = program[createOrder[d]][k]
          BY <1>7, <4>1, <4>2 DEF Said
        <4> QED BY <4>1, <4>2, <4>3
      <3> QED BY <1>12, <3>1, <3>2
    <2>2. ASSUME NEW u \in Threads, NEW k \in DOMAIN program'[u],
                 program'[u][k].what = "create"
          PROVE  /\ program'[u][k].who \in DOMAIN createOrder'
                 /\ createOrder'[program'[u][k].who] = u /\ k \in DOMAIN log'[u]
                 /\ \A j \in DOMAIN program'[u] :
                       (k < j /\ program'[u][j].what = "create")
                       => program'[u][k].who < program'[u][j].who
      <3>1. CASE u = t /\ k = n
        <4>1. \A j \in DOMAIN program'[t] : ~ (n < j)
          BY <1>14, <1>15, <1>16
        <4>2. c \in DOMAIN createOrder'
          BY <1>2, <1>12
        <4> QED BY <1>6, <1>12, <1>14, <3>1, <4>1, <4>2
      <3>2. CASE k \in DOMAIN program[u] /\ program'[u][k] = program[u][k]
        <4>1. /\ program[u][k].who \in DOMAIN createOrder
              /\ createOrder[program[u][k].who] = u /\ k \in DOMAIN log'[u]
          BY <1>0, <1>5, <2>2, <3>2, PrintedEarlier
        <4>2. ASSUME NEW j \in DOMAIN program'[u], k < j, program'[u][j].what = "create"
              PROVE  program[u][k].who < program'[u][j].who
          <5>1. CASE j \in DOMAIN program[u] /\ program'[u][j] = program[u][j]
            BY <1>0, <2>2, <3>2, <4>2, <5>1 DEF OrderInv
          <5>2. CASE u = t /\ j = n
            <6>1. program'[u][j].who = c
              BY <1>6, <1>14, <5>2
            <6> QED BY <1>1, <4>1, <6>1 DEF c
          <5> QED BY <1>15, <5>1, <5>2
        <4> QED BY <1>12, <3>2, <4>1, <4>2
      <3> QED BY <1>15, <3>1, <3>2
    <2>3. Len(createOrder') < MaxThreads
      BY <1>0, <1>12 DEF c
    <2> QED BY <2>1, <2>2, <2>3 DEF OrderInv
  <1>18. ASSUME NEW u \in Threads, NEW k \in DOMAIN program'[u],
                program'[u][k].what = "create", NEW d, d = program'[u][k].who
         PROVE  /\ log'[d] # << >> => E(d, 1)' = ChildClock(E(u, k)', u, d)
                /\ log'[d] = << >> => vectorClock'[d] = ChildClock(E(u, k)', u, d)
    <2>1. CASE u = t /\ k = n
      <3>1. d = c /\ log'[d] = << >>
        BY <1>2, <1>3, <1>4, <1>5, <1>6, <1>14, <1>18, <2>1 DEF Printed
      <3>2. E(u, k)' = vectorClock[t]
        BY <1>14, <2>1 DEF E
      <3>3. vectorClock'[d] = ChildClock(vectorClock[t], t, d)
        BY <1>10, <3>1 DEF b
      <3> QED BY <2>1, <3>1, <3>2, <3>3, Zenon
    <2>2. CASE k \in DOMAIN program[u] /\ program'[u][k] = program[u][k]
      <3>1. d = program[u][k].who /\ program[u][k].what = "create"
        BY <1>18, <2>2
      <3>2. E(u, k)' = E(u, k)
        BY <1>0, <1>5, <2>2, <3>1, PrintedEarlier
      <3>3. ClocksStay(t)
        BY <1>2, <1>10 DEF ClocksStay
      <3>4. /\ log'[d] # << >> => parseVector(log'[d][1]) = ChildClock(E(u, k), u, d)
            /\ log'[d] = << >> => vectorClock'[d] = ChildClock(E(u, k), u, d)
        <4>1. EpochsInv /\ OrderInv /\ BirthInv /\ Recording(t) /\ Printed(t)
          BY <1>0, <1>5
        <4>2. k \in DOMAIN program[u]
          BY <2>2
        <4> QED BY <3>1, <3>3, <4>1, <4>2, BirthsKept
      <3> QED BY <3>2, <3>4 DEF E
    <2> QED BY <1>15, <2>1, <2>2
  <1>19. BirthInv'
    BY <1>18 DEF BirthInv
  <1>20. ASSUME NEW u \in Threads PROVE FileOf(u)'
    <2>0. FileOf(u) /\ u \in Nat
      BY <1>0, Basics DEF RecordInv
    <2>1. Numbered' = Numbered \cup {c}
      BY <1>1, <1>12 DEF Numbered, c
    <2>2. CASE u = c
      <3>1. program'[c] = << >> /\ log'[c] = << >>
        BY <1>2, <1>3, <1>4, <1>5, <1>7 DEF Said, Printed
      <3>2. Len(log'[c]) = Len(program'[c]) /\ DOMAIN log'[c] = {}
        BY <3>1
      <3> QED BY <1>9, <1>10, <1>11, <2>1, <2>2, <3>2 DEF FileOf
    <2>3. CASE u = t
      <3>1. Len(log'[t]) = Len(program'[t])
        BY <1>0, <1>5, <1>7, <2>0, <2>3 DEF Printed, Said, FileOf
      <3>2. \A v \in Threads : vectorClock[t][v] \in Nat /\ a[v] \in Nat
        BY <1>8, <1>9 DEF Clock
      <3>3. a[t] > vectorClock[t][t] /\ \A v \in Threads : a[v] >= vectorClock[t][v]
        BY <1>9, <3>2
      <3>4. ASSUME NEW i \in DOMAIN log'[t]
            PROVE  E(t, i)'[t] < a[t] /\ \A v \in Threads : E(t, i)'[v] <= a[v]
        <4>1. CASE i \in DOMAIN log[t]
          <5>1. E(t, i)' = E(t, i) /\ E(t, i) \in Clock
            BY <1>0, <1>5, <4>1, EpochsType DEF Printed, E
          <5>2. \A v \in Threads : E(t, i)[v] \in Nat
            BY <5>1 DEF Clock
          <5> QED BY <1>0, <2>0, <2>3, <3>2, <3>3, <4>1, <5>1, <5>2 DEF FileOf
        <4>2. CASE i = n
          <5>1. E(t, i)' = vectorClock[t]
            BY <1>14, <4>2 DEF E
          <5> QED BY <3>2, <3>3, <5>1
        <4> QED BY <1>5, <1>14, <4>1, <4>2 DEF Printed
      <3>5. a[t] > 0
        BY <3>2, <3>3
      <3> QED BY <1>0, <1>3, <1>4, <1>10, <1>11, <2>1, <2>3, <3>1, <3>4, <3>5 DEF FileOf
    <2>4. CASE u \notin {t, c}
      BY <1>5, <1>7, <1>10, <1>11, <2>0, <2>1, <2>4 DEF FileOf, Printed, Said, E
    <2> QED BY <2>2, <2>3, <2>4
  <1>21. ASSUME NEW u \in Threads PROVE SectionsOf(u)'
    <2>0. SectionsOf(u) /\ mutex' = mutex
      BY <1>0 DEF RecordInv
    <2>1. Ungated(u)' = Ungated(u)
      <3>1. CASE u # t
        BY <1>7, <3>1 DEF Said, Ungated
      <3>2. CASE u = t
        <4>1. x.what \notin {"lock", "unlock"}
          BY <1>6
        <4> QED BY <1>7, <1>14, <1>15, <3>2, <4>1 DEF Said, Ungated
      <3> QED BY <3>1, <3>2
    <2>2. threadState'[u] # "run" => threadState[u] # "run"
      BY <1>3, <1>11
    <2> QED BY <2>0, <2>1, <2>2 DEF SectionsOf
  <1>22. ASSUME NEW u \in Threads PROVE BirthsOf(u)'
    BY <1>18 DEF BirthsOf
  <1>23. pinIds' = Len(createOrder') + 1 /\ Untouched'
    BY <1>0, <1>12 DEF RecordInv, replayer, Untouched, c
  <1> QED BY <1>0, <1>5, <1>13, <1>17, <1>19, <1>20, <1>21, <1>22, <1>23 DEF LogInv, RecordInv

-----------------------------------------------------------------------------
\* From the recording to the replay.

LEMMA InitHolds == Init => TypeOK /\ Inv
  <1> SUFFICES ASSUME Init PROVE TypeOK /\ Inv
    OBVIOUS
  <1>0. ZeroClock \in Clock /\ FirstClock(0) \in Clock
    BY Basics DEF ZeroClock, FirstClock, Clock
  <1>1. \A t \in Threads : program[t] = << >> /\ log[t] = << >>
    BY DEF Init
  <1>2. \A t \in Threads : DOMAIN program[t] = {} /\ DOMAIN log[t] = {} /\ Ungated(t) = {}
    BY <1>1 DEF Ungated
  <1>6. createOrder = << >>
    BY DEF Init
  <1>3. TypeOK
    <2>1. NewTLS(NO_ID) \in TLS
      BY <1>0 DEF NewTLS, TLS
    <2>2. FreeMutex \in [holder : Threads \cup {NO_ID}, left : Clock, used : Nat]
      BY <1>0 DEF FreeMutex
    <2>3. /\ program \in [Threads -> Seq([what : CallNames, who : Threads])]
          /\ log \in [Threads -> Seq(Seq(Nat))]
      <3>1. program = [t \in Threads |-> << >>] /\ log = [t \in Threads |-> << >>]
        BY Zenon DEF Init
      <3> QED BY <3>1
    <2>4. vectorClock \in [Threads -> Clock]
      <3>1. vectorClock = [t \in Threads |-> IF t = 0 THEN FirstClock(0) ELSE ZeroClock]
        BY DEF Init
      <3> QED BY <1>0, <3>1
    <2>5. createOrder \in Seq(Threads)
      BY <1>6
    <2>6. mutex = FreeMutex /\ GRT = ZeroClock /\ tls \in [Threads -> TLS]
      BY <2>1 DEF Init
    <2> QED BY <1>0, <2>2, <2>3, <2>4, <2>5, <2>6 DEF Init, TypeOK
  <1>4. LogInv
    <2>1. Len(createOrder) = 0 /\ DOMAIN createOrder = {}
      BY <1>6
    <2> QED BY <1>2, <2>1, ReplayAssumption DEF LogInv, EpochsInv, OrderInv, BirthInv
  <1>5. RecordInv
    <2>1. ASSUME NEW t \in Threads PROVE FileOf(t)
      <3>1. Len(log[t]) = 0 /\ Len(program[t]) = 0
        BY <1>1
      <3>2. Numbered = {0} /\ vectorClock[0][0] = 1
        <4>1. vectorClock[0] = FirstClock(0) /\ Len(createOrder) = 0
          BY <1>6, Basics DEF Init
        <4> QED BY <4>1, Basics DEF Numbered, FirstClock, ZeroClock
      <3>3. threadState[t] = IF t = 0 THEN "run" ELSE "absent"
        BY DEF Init
      <3> QED BY <1>1, <1>2, <3>1, <3>2, <3>3 DEF FileOf
    <2>2. ASSUME NEW t \in Threads PROVE SectionsOf(t)
      BY <1>2, Basics DEF SectionsOf, Init, FreeMutex
    <2>3. ASSUME NEW t \in Threads PROVE BirthsOf(t)
      BY <1>2 DEF BirthsOf
    <2>4. pinIds = Len(createOrder) + 1 /\ Untouched
      <3>1. Len(createOrder) = 0 /\ pinIds = 1
        BY <1>6 DEF Init
      <3>2. Untouched
        BY DEF Init, Untouched
      <3> QED BY <3>1, <3>2
    <2> QED BY <2>1, <2>2, <2>3, <2>4 DEF RecordInv
  <1> QED BY <1>3, <1>4, <1>5 DEF Inv, DoneInv, ReplayInv, TurnInv, PlaceInv, ChildInv, Init

LEMMA RecordStepKeeps ==
    ASSUME TypeOK, Inv, NEW t \in Threads, RecordStep(t)
    PROVE  TypeOK' /\ Inv' /\ phase' = "record"
  <1>1. LogInv /\ RecordInv
    BY DEF Inv
  <1>2. phase' = "record"
    BY DEF RecordStep, RecordCreate, RecordJoin, RecordLock, RecordUnlock, RecordFini,
           Recording
  <1>3. TypeOK' /\ LogInv' /\ RecordInv'
    BY <1>1, CreateKeeps, JoinLockKeep, FiniKeeps DEF RecordStep
  <1> QED BY <1>2, <1>3 DEF Inv, DoneInv, ReplayInv, TurnInv, PlaceInv, ChildInv

LEMMA StartKeeps ==
    ASSUME TypeOK, Inv, StartReplay
    PROVE  TypeOK' /\ Inv'
  <1>0. /\ LogInv /\ RecordInv /\ phase = "record" /\ phase' = "replay"
        /\ \A t \in Threads : threadState[t] \in {"absent", "exited"}
        /\ threadState' = [t \in Threads |-> IF t = 0 THEN "load" ELSE "absent"]
        /\ tls' = [tls EXCEPT ![0].tid = 0] /\ mutex' = FreeMutex /\ pinIds' = 1
        /\ UNCHANGED <<recorder, GRT, step, creates, atomic_create, failed>>
    BY DEF Inv, StartReplay
  <1>1. UNCHANGED <<program, vectorClock, log, createOrder>>
    BY <1>0 DEF recorder
  <1>2. Untouched /\ \A t \in Threads : FileOf(t) /\ SectionsOf(t)
    BY <1>0 DEF RecordInv
  <1>3. /\ tls'[0].tid = 0 /\ tls'[0] \in TLS
        /\ \A t \in Threads \ {0} : tls'[t].tid = NO_ID
        /\ tls' \in [Threads -> TLS]
    <2>1. tls \in [Threads -> TLS] /\ tls[0] \in TLS
      BY Basics DEF TypeOK
    <2>2. [tls[0] EXCEPT !.tid = 0] \in TLS /\ [tls[0] EXCEPT !.tid = 0].tid = 0
      BY <2>1, Basics DEF TLS
    <2>3. tls' = [tls EXCEPT ![0] = [tls[0] EXCEPT !.tid = 0]]
      BY <1>0, <2>1
    <2>4. \A t \in Threads : tls[t].tid = NO_ID
      BY <1>2 DEF Untouched, NewTLS
    <2> QED BY <2>1, <2>2, <2>3, <2>4, Basics
  <1>4. TypeOK'
    <2>1. FreeMutex \in [holder : Threads \cup {NO_ID}, left : Clock, used : Nat]
      BY DEF FreeMutex, ZeroClock, Clock
    <2> QED BY <1>0, <1>1, <1>3, <2>1 DEF TypeOK
  <1>5. LogInv'
    BY <1>0, <1>1 DEF LogInv, EpochsInv, OrderInv, BirthInv, E
  <1>6. DoneInv'
    <2>1. ASSUME NEW t \in Threads
          PROVE  /\ t \in Numbered => Len(log[t]) = Len(program[t]) + 1
                 /\ \A i \in Ungated(t) : \E j \in Ungated(t) : j # i
      BY <1>0, <1>2 DEF FileOf, SectionsOf
    <2> QED BY <1>1, <2>1 DEF DoneInv, Numbered, Ungated
  <1>7. TurnInv'
    <2>1. ASSUME NEW t \in Threads PROVE TurnOf(t)'
      <3>1. t \in Nat /\ t # NO_ID /\ step'[t] = 0 /\ creates' = 1 /\ atomic_create' = NO_ID
        BY <1>0, <1>2, Basics DEF Untouched
      <3>2. threadState'[t] = IF t = 0 THEN "load" ELSE "absent"
        BY <1>0
      <3>3. 0 \in Numbered'
        BY <1>1, OrderType DEF Numbered
      <3>4. DOMAIN program[t] = 1 .. Len(program[t]) /\ Len(program[t]) \in Nat
        BY CallsType
      <3>5. ASSUME NEW k \in DOMAIN program[t], program[t][k].what = "create"
            PROVE  ~ (program[t][k].who < 1) /\ ~ (k <= 0)
        <4>1. program[t][k].who \in DOMAIN createOrder
          BY <1>0, <3>5 DEF LogInv, OrderInv
        <4> QED BY <3>4, <4>1, OrderType
      <3> QED BY <1>0, <1>1, <1>3, <3>1, <3>2, <3>3, <3>4, <3>5 DEF TurnOf, Creators
    <2>2. creates' = 1 /\ pinIds' = 1 /\ ~ \E t \in Threads : threadState'[t] = "created"
      BY <1>0, <1>2 DEF Untouched
    <2> QED BY <2>1, <2>2 DEF TurnInv
  <1>8. PlaceInv'
    <2>1. ASSUME NEW t \in Threads
          PROVE  threadState'[t] \in {"load", "absent"} /\ step'[t] = 0 /\ GRT'[t] = 0
      BY <1>0, <1>2 DEF Untouched, ZeroClock
    <2> QED BY <2>1 DEF PlaceInv, PlaceOf, Going
  <1>9. ChildInv'
    <2>1. ASSUME NEW t \in Threads, NEW k \in DOMAIN program[t], program[t][k].what = "create"
          PROVE  threadState'[program[t][k].who] = "absent"
      <3>1. program[t][k].who \in DOMAIN createOrder /\ program[t][k].who \in Threads
        BY <1>0, <2>1, CallsType DEF LogInv, OrderInv
      <3>2. program[t][k].who # 0
        BY <3>1, OrderType
      <3> QED BY <1>0, <3>1, <3>2
    <2>2. \A t \in Threads : threadState'[t] # "create"
      BY <1>0
    <2> QED BY <1>1, <2>1, <2>2 DEF ChildInv, ChildOf, Newborn
  <1> QED BY <1>0, <1>4, <1>5, <1>6, <1>7, <1>8, <1>9 DEF Inv, RecordInv, ReplayInv

-----------------------------------------------------------------------------
\* Replaying.

\* What the steps of the replay have in common: the recording is only read.
Reading == phase = "replay" /\ UNCHANGED <<phase, recorder>>

LEMMA Recorded ==
    ASSUME Reading, LogInv, DoneInv
    PROVE  /\ UNCHANGED <<phase, program, log, createOrder, ForkJoin, Numbered>>
           /\ \A t, i : parseVector(log'[t][i]) = E(t, i)
           /\ \A t \in Threads : Ungated(t)' = Ungated(t)
           /\ LogInv' /\ RecordInv' /\ DoneInv'
  <1>1. UNCHANGED <<phase, program, vectorClock, log, createOrder>> /\ phase = "replay"
    BY DEF Reading, recorder
  <1>2. LogInv'
    BY <1>1 DEF LogInv, EpochsInv, OrderInv, BirthInv, E
  <1>3. DoneInv'
    BY <1>1 DEF DoneInv, Numbered, Ungated
  <1>4. UNCHANGED <<ForkJoin, Numbered>> /\ \A t \in Threads : Ungated(t)' = Ungated(t)
    BY <1>1 DEF ForkJoin, Numbered, Ungated
  <1>5. \A t, i : parseVector(log'[t][i]) = E(t, i)
    BY <1>1 DEF E
  <1> QED BY <1>1, <1>2, <1>3, <1>4, <1>5 DEF RecordInv

\* A thread that a step leaves where it is in its file.
Stays(u) ==
    /\ threadState'[u] = threadState[u] /\ step'[u] = step[u] /\ GRT'[u] = GRT[u]
    /\ tls'[u].epochList = tls[u].epochList /\ tls'[u].TRT = tls[u].TRT
    /\ tls'[u].currentVC = tls[u].currentVC

LEMMA StaysKeeps ==
    ASSUME Reading, LogInv, DoneInv, NEW u \in Threads, PlaceOf(u), Stays(u)
    PROVE  PlaceOf(u)'
  <1>1. log' = log /\ program' = program /\ Ungated(u)' = Ungated(u)
    BY Recorded
  <1>2. Place(u)' = Place(u) /\ Made(u)' = Made(u) /\ Passed(u)' = Passed(u)
    BY <1>1 DEF Stays, Place, Made, Passed
  <1>3. AtLine(u)' <=> AtLine(u)
    BY <1>1, <1>2 DEF Stays, AtLine, E
  <1>4. Ahead(u)' <=> Ahead(u)
    BY <1>1, <1>2 DEF Stays, Ahead, E
  <1> QED BY <1>1, <1>2, <1>3, <1>4 DEF Stays, PlaceOf, E

LEMMA FileType ==
    ASSUME TypeOK, NEW t \in Threads
    PROVE  /\ Len(log[t]) \in Nat /\ DOMAIN log[t] = 1 .. Len(log[t])
           /\ tls[t] \in TLS /\ tls[t].epochList \in Seq(Clock) /\ tls[t].TRT \in Clock
           /\ Len(tls[t].epochList) \in Nat
           /\ DOMAIN tls[t].epochList = 1 .. Len(tls[t].epochList)
           /\ step[t] \in Nat /\ GRT[t] \in Nat /\ tls[t].TRT[t] \in Nat
           /\ Place(t) \in Int /\ Made(t) \in Nat
           /\ (tls[t].epochList = << >>) <=> (Place(t) = Len(log[t]))
  <1>1. log[t] \in Seq(Seq(Nat)) /\ tls[t] \in TLS /\ step[t] \in Nat /\ GRT \in Clock
    BY DEF TypeOK
  <1>2. tls[t].epochList \in Seq(Clock) /\ tls[t].TRT \in Clock
    BY <1>1 DEF TLS
  <1>3. GRT[t] \in Nat /\ tls[t].TRT[t] \in Nat
    BY <1>1, <1>2 DEF Clock
  <1>4. Len(log[t]) \in Nat /\ Len(tls[t].epochList) \in Nat
    BY <1>1, <1>2
  <1>5. Place(t) \in Int /\ Made(t) \in Nat
    BY <1>1, <1>4 DEF Place, Made
  <1>6. (tls[t].epochList = << >>) <=> (Len(tls[t].epochList) = 0)
    BY <1>2
  <1>7. (tls[t].epochList = << >>) <=> (Place(t) = Len(log[t]))
    <2>1. \A m, n \in Nat : (m - n = m) <=> (n = 0)
      OBVIOUS
    <2>2. (Place(t) = Len(log[t])) <=> (Len(tls[t].epochList) = 0)
      BY <1>4, <2>1, Zenon DEF Place
    <2> QED BY <1>6, <2>2, Zenon
  <1>8. DOMAIN log[t] = 1 .. Len(log[t]) /\ DOMAIN tls[t].epochList = 1 .. Len(tls[t].epochList)
    BY <1>1, <1>2
  <1> QED BY <1>1, <1>2, <1>3, <1>4, <1>5, <1>7, <1>8

\* The next line of the file is read into TRT, where there is one.
ReadsNext(t, s) ==
    LET r == advanceTRT(s)
        p == Len(log[t]) - Len(r.epochList)
    IN  /\ p = IF Place(t) = Len(log[t]) THEN Place(t) ELSE Place(t) + 1
        /\ p \in DOMAIN log[t] /\ r.TRT = E(t, p)
        /\ \A k \in DOMAIN r.epochList : r.epochList[k] = E(t, p + k)
        /\ r.currentVC = IF Place(t) = Len(log[t]) THEN s.currentVC ELSE E(t, Place(t))
        /\ tls[t].TRT[t] <= r.TRT[t]

LEMMA NextLine ==
    ASSUME TypeOK, LogInv, NEW t \in Threads, AtLine(t), NEW s \in TLS,
           s.epochList = tls[t].epochList, s.TRT = tls[t].TRT
    PROVE  ReadsNext(t, s)
  <1> DEFINE r == advanceTRT(s)
             p == Len(log[t]) - Len(r.epochList)
  <1>1. /\ Len(log[t]) \in Nat /\ DOMAIN log[t] = 1 .. Len(log[t]) /\ Place(t) \in Int
        /\ Len(tls[t].epochList) \in Nat /\ tls[t].TRT[t] \in Nat
        /\ DOMAIN tls[t].epochList = 1 .. Len(tls[t].epochList)
        /\ (tls[t].epochList = << >>) <=> (Place(t) = Len(log[t]))
    BY FileType
  <1>2. CASE s.epochList = << >>
    <2>1. r = s
      BY <1>2, AdvanceTRT
    <2>2. p = Place(t)
      BY <2>1 DEF Place
    <2>3. s.TRT[t] <= s.TRT[t]
      BY <1>1
    <2> HIDE DEF r, p
    <2> QED BY <1>1, <1>2, <2>1, <2>2, <2>3 DEF AtLine, ReadsNext, r, p
  <1>3. CASE s.epochList # << >>
    <2>1. /\ r.currentVC = s.TRT /\ r.TRT = s.epochList[1]
          /\ Len(r.epochList) = Len(s.epochList) - 1
          /\ \A k \in DOMAIN r.epochList : /\ k + 1 \in DOMAIN s.epochList
                                           /\ r.epochList[k] = s.epochList[k + 1]
          /\ r \in TLS
      BY <1>3, AdvanceTRT
    <2> HIDE DEF r
    <2>9. /\ Len(s.epochList) \in Nat /\ DOMAIN s.epochList = 1 .. Len(s.epochList)
          /\ Place(t) = Len(log[t]) - Len(s.epochList) /\ Place(t) # Len(log[t])
      BY <1>1, <1>3 DEF Place
    <2>2. p = Place(t) + 1 /\ 1 \in DOMAIN s.epochList /\ Place(t) # Len(log[t])
      <3>1. \A l, m \in Nat : (l - m # l) => m > 0 /\ l - (m - 1) = (l - m) + 1 /\ 1 \in 1 .. m
        OBVIOUS
      <3>2. p = Len(log[t]) - (Len(s.epochList) - 1)
        BY <2>1
      <3> HIDE DEF p
      <3> QED BY <1>1, <2>9, <3>1, <3>2
    <2>3. p \in DOMAIN log[t] /\ Place(t) \in DOMAIN log[t] /\ Place(t) < p
      <3>1. Place(t) \in DOMAIN log[t]
        BY DEF AtLine
      <3>2. \A q \in 1 .. Len(log[t]) : q # Len(log[t]) => q + 1 \in 1 .. Len(log[t]) /\ q < q + 1
        BY <1>1
      <3> HIDE DEF p
      <3> QED BY <1>1, <2>2, <3>1, <3>2, Zenon
    <2> HIDE DEF p
    <2>4. \A k \in DOMAIN s.epochList : s.epochList[k] = E(t, Place(t) + k)
      BY DEF AtLine
    <2>5. r.TRT = E(t, p)
      BY <2>1, <2>2, <2>4
    <2>6. ASSUME NEW k \in DOMAIN r.epochList PROVE r.epochList[k] = E(t, p + k)
      <3>1. k \in Nat
        BY <2>1 DEF TLS
      <3>2. r.epochList[k] = E(t, Place(t) + (k + 1))
        BY <2>1, <2>4
      <3>3. Place(t) + (k + 1) = p + k
        BY <1>1, <2>2, <3>1
      <3> QED BY <3>2, <3>3
    <2>7. tls[t].TRT = E(t, Place(t))
      BY DEF AtLine
    <2>8. E(t, Place(t))[t] <= E(t, p)[t]
      BY <2>3 DEF LogInv, EpochsInv
    <2> QED BY <2>1, <2>2, <2>3, <2>5, <2>6, <2>7, <2>8 DEF ReadsNext, r, p
  <1> QED BY <1>2, <1>3

\* A thread that runs has its recorded id, and a file with a line for each call
\* and one for its end.
LEMMA Present ==
    ASSUME TypeOK, Inv, phase = "replay", NEW t \in Threads, threadState[t] # "absent"
    PROVE  /\ tls[t].tid = t /\ t \in Numbered
           /\ Len(log[t]) = Len(program[t]) + 1 /\ log[t] # << >>
           /\ step[t] <= Len(program[t])
  <1>1. /\ tls[t].tid = t /\ t \in Numbered /\ step[t] <= Len(program[t])
        /\ Len(log[t]) = Len(program[t]) + 1
    BY DEF Inv, ReplayInv, TurnInv, TurnOf, DoneInv
  <1>2. Len(program[t]) \in Nat
    BY CallsType
  <1>3. log[t] # << >>
    BY <1>1, <1>2
  <1> QED BY <1>1, <1>3

\* A step of thread t that is not part of a creation.
Quiet(t) ==
    /\ UNCHANGED <<pinIds, creates, atomic_create>>
    /\ \A u \in Threads : tls'[u].tid = tls[u].tid
    /\ \A u \in Threads \ {t} : threadState'[u] = threadState[u] /\ step'[u] = step[u]
    /\ threadState[t] \notin Creators \cup {"absent"}
    /\ threadState'[t] \notin Creators \cup {"absent"}
    /\ \/ /\ step'[t] = step[t]
          /\ threadState'[t] = "join" =>
                step[t] < Len(program[t]) /\ program[t][step[t] + 1].what = "join"
       \/ /\ step'[t] = step[t] + 1 /\ step[t] < Len(program[t])
          /\ program[t][step[t] + 1].what # "create" /\ threadState'[t] # "join"

LEMMA QuietKeeps ==
    ASSUME TypeOK, Inv, Reading, NEW t \in Threads, Quiet(t)
    PROVE  TurnInv'
  <1>0. /\ LogInv /\ DoneInv /\ phase = "replay" /\ creates > 0
        /\ pinIds = creates + (IF \E u \in Threads : threadState[u] = "created" THEN 1 ELSE 0)
        /\ \A u \in Threads : TurnOf(u)
    BY DEF Inv, ReplayInv, TurnInv, Reading
  <1>1. UNCHANGED <<phase, program, Numbered>>
    BY <1>0, Recorded
  <1>2. UNCHANGED <<pinIds, creates, atomic_create>>
    BY DEF Quiet
  <1>3. \A u \in Threads : threadState'[u] = "created" <=> threadState[u] = "created"
    BY DEF Quiet, Creators
  <1>4. ASSUME NEW u \in Threads PROVE TurnOf(u)'
    <2>1. CASE u # t
      BY <1>0, <1>1, <1>2, <2>1 DEF Quiet, TurnOf
    <2>2. CASE u = t
      <3>1. step[t] \in Nat /\ Len(program[t]) \in Nat /\ DOMAIN program[t] = 1 .. Len(program[t])
        BY CallsType DEF TypeOK
      <3>2. step'[t] <= Len(program[t])
        BY <1>0, <3>1 DEF Quiet, TurnOf
      <3>3. ASSUME NEW k \in DOMAIN program[t], program[t][k].what = "create"
            PROVE  k <= step'[t] <=> k <= step[t]
        BY <3>1, <3>3 DEF Quiet
      <3>4. threadState'[t] = "join" =>
              step'[t] < Len(program[t]) /\ program[t][step'[t] + 1].what = "join"
        BY DEF Quiet
      <3>5. threadState'[t] # "absent" /\ threadState[t] # "absent"
            /\ threadState'[t] \notin Creators /\ threadState[t] \notin Creators
            /\ tls'[t].tid = tls[t].tid
        BY DEF Quiet
      <3>6. TurnOf(t)
        BY <1>0
      <3>7. /\ ~ (t >= pinIds) /\ t \in Numbered /\ tls[t].tid = t /\ atomic_create # t
            /\ \A k \in DOMAIN program[t] : program[t][k].what = "create" =>
                  (k <= step[t] <=> program[t][k].who < creates)
        BY <3>5, <3>6 DEF TurnOf
      <3> QED BY <1>1, <1>2, <2>2, <3>2, <3>3, <3>4, <3>5, <3>7 DEF TurnOf
    <2> QED BY <2>1, <2>2
  <1> QED BY <1>0, <1>1, <1>2, <1>3, <1>4 DEF TurnInv

\* What waits in the maps is not disturbed by a step that leaves them, and the
\* newborn threads, as they are.
LEMMA MapsKept ==
    ASSUME TypeOK, Inv, Reading,
           \A u \in Threads : /\ tls'[u].childVCMap = tls[u].childVCMap
                              /\ threadState'[u] = "create" =>
                                   /\ threadState[u] = "create"
                                   /\ step'[u] = step[u] /\ creates' = creates
                              /\ threadState'[u] \in Newborn => threadState[u] \in Newborn
    PROVE  ChildInv'
  <1>0. LogInv /\ DoneInv /\ phase = "replay" /\ (ForkJoin => \A u \in Threads : ChildOf(u))
    BY DEF Inv, ReplayInv, ChildInv, Reading
  <1>1. UNCHANGED <<program, log, ForkJoin>>
    BY <1>0, Recorded
  <1>2. ASSUME NEW u \in Threads, ChildOf(u) PROVE ChildOf(u)'
    <2>1. \A k \in DOMAIN program[u] : program[u][k].who \in Threads
      BY CallsType
    <2> QED BY <1>1, <1>2, <2>1 DEF ChildOf, E
  <1> QED BY <1>0, <1>1, <1>2 DEF ChildInv

-----------------------------------------------------------------------------
\* One lemma for each step of the replay.

Whole == TypeOK /\ Inv /\ ReplayAccepts

LEMMA Collected ==
    ASSUME Whole, Reading, UNCHANGED failed, TypeOK', TurnInv', ChildInv',
           NEW t \in Threads, PlaceOf(t)', \A u \in Threads \ {t} : Stays(u)
    PROVE  Whole'
  <1>1. /\ LogInv /\ DoneInv /\ phase = "replay" /\ ReplayAccepts
        /\ \A u \in Threads : PlaceOf(u)
    BY DEF Whole, Inv, ReplayInv, PlaceInv, Reading
  <1>2. LogInv' /\ RecordInv' /\ DoneInv' /\ UNCHANGED <<createOrder, ForkJoin>>
    BY <1>1, Recorded
  <1>3. \A u \in Threads : PlaceOf(u)'
    BY <1>1, StaysKeeps
  <1> QED BY <1>1, <1>2, <1>3 DEF Whole, Inv, ReplayInv, PlaceInv, ReplayAccepts

\* The replay may stop at an assertion where the program has no threads, or uses
\* the mutex.
LEMMA FailKeeps ==
    ASSUME Whole, phase = "replay", NEW why, Fail(why),
           why \in {"create.txt", "no epochs", "create order", "child clock", "epochs left"},
           createOrder = << >> \/ ~ ForkJoin
    PROVE  Whole' /\ GRT' = GRT
  <1>1. /\ UNCHANGED <<phase, recorder, threadState, mutex, pinIds,
                       tls, GRT, step, creates, atomic_create>> /\ failed' = why
    BY DEF Fail
  <1>2. Reading /\ LogInv /\ DoneInv
    BY <1>1 DEF Reading, Whole, Inv
  <1>3. UNCHANGED <<phase, program, log, createOrder, ForkJoin, Numbered>>
        /\ LogInv' /\ RecordInv' /\ DoneInv'
    BY <1>2, Recorded
  <1>4. TypeOK'
    BY <1>1, <1>3 DEF Whole, TypeOK, recorder
  <1>5. TurnInv'
    BY <1>1, <1>3 DEF Whole, Inv, ReplayInv, TurnInv, TurnOf
  <1>6. PlaceInv'
    <2>1. \A u \in Threads : PlaceOf(u) /\ Stays(u)
      BY <1>1 DEF Whole, Inv, ReplayInv, PlaceInv, Stays
    <2> QED BY <1>2, <2>1, StaysKeeps DEF PlaceInv
  <1>7. ChildInv'
    BY <1>1, <1>3 DEF Whole, Inv, ReplayInv, ChildInv, ChildOf, E
  <1> QED BY <1>1, <1>3, <1>4, <1>5, <1>6, <1>7 DEF Whole, Inv, ReplayInv, ReplayAccepts

\* After the step, line p of its file is in the TRT of thread t.
Reads(t, p) ==
    /\ p = Len(log[t]) - Len(tls'[t].epochList) /\ p \in DOMAIN log[t]
    /\ tls'[t].TRT = E(t, p) /\ GRT'[t] <= tls'[t].TRT[t]
    /\ \A k \in DOMAIN tls'[t].epochList : tls'[t].epochList[k] = E(t, p + k)

LEMMA AtLineNext ==
    ASSUME log' = log, NEW t \in Threads, NEW p, Reads(t, p)
    PROVE  AtLine(t)' /\ Place(t)' = p
  <1>1. Place(t)' = p
    BY DEF Place, Reads
  <1> QED BY <1>1 DEF AtLine, E, Reads

LEMMA LoadKeeps ==
    ASSUME Whole, NEW t \in Threads, LoadEpochs(t)
    PROVE  Whole' /\ GRT' = GRT
  <1>0. /\ TypeOK /\ Inv /\ LogInv /\ DoneInv /\ phase = "replay" /\ threadState[t] = "load"
        /\ PlaceOf(t) /\ GRT[t] = 0 /\ step[t] = 0
    BY DEF Whole, Inv, LoadEpochs, Replaying, ReplayInv, PlaceInv, PlaceOf
  <1>1. tls[t].tid = t /\ log[t] # << >>
    BY <1>0, Present
  <1> DEFINE s == [tls[t] EXCEPT !.epochList = ReadEpochs(log[t])]
             r == advanceTRT(s)
  <1>2. /\ tls' = [tls EXCEPT ![t] = r]
        /\ threadState' = [threadState EXCEPT ![t] = "start"]
        /\ UNCHANGED <<phase, recorder, mutex, pinIds, GRT, step, creates,
                       atomic_create, failed>>
    BY <1>1 DEF LoadEpochs, Goto
  <1>3. Reading
    BY <1>0, <1>2 DEF Reading
  <1>4. /\ Len(log[t]) \in Nat /\ DOMAIN log[t] = 1 .. Len(log[t]) /\ tls[t] \in TLS
        /\ tls \in [Threads -> TLS]
        /\ threadState \in [Threads -> {"absent", "new", "load", "start", "check",
                           "main", "run", "create", "created", "join", "exited"}]
    BY <1>0, FileType DEF TypeOK
  <1>5. /\ ReadEpochs(log[t]) \in Seq(Clock) /\ Len(ReadEpochs(log[t])) = Len(log[t])
        /\ \A k \in DOMAIN log[t] : ReadEpochs(log[t])[k] = E(t, k)
    <2>1. \A k \in DOMAIN log[t] : parseVector(log[t][k]) \in Clock
      BY <1>0, EpochsType DEF LogInv, E
    <2> QED BY <1>4, <2>1 DEF ReadEpochs, E
  <1>6. s \in TLS /\ s.tid = t /\ s.epochList = ReadEpochs(log[t])
        /\ s.childVCMap = tls[t].childVCMap
    BY <1>1, <1>4, <1>5 DEF TLS
  <1> HIDE DEF s
  <1>7. 1 \in DOMAIN log[t] /\ s.epochList # << >>
    <2>1. log[t] \in Seq(Seq(Nat))
      BY <1>0 DEF TypeOK
    <2>2. Len(log[t]) > 0
      BY <1>1, <2>1
    <2> QED BY <1>4, <1>5, <1>6, <2>2
  <1>8. /\ r \in TLS /\ r.tid = t /\ r.TRT = E(t, 1) /\ r.childVCMap = tls[t].childVCMap
        /\ Len(r.epochList) = Len(log[t]) - 1
        /\ \A k \in DOMAIN r.epochList : r.epochList[k] = E(t, 1 + k)
    <2>1. /\ r \in TLS /\ r.tid = s.tid /\ r.childVCMap = s.childVCMap
          /\ r.TRT = s.epochList[1] /\ Len(r.epochList) = Len(s.epochList) - 1
          /\ \A k \in DOMAIN r.epochList :
                k + 1 \in DOMAIN s.epochList /\ r.epochList[k] = s.epochList[k + 1]
      BY <1>6, <1>7, AdvanceTRT
    <2> HIDE DEF r
    <2>2. DOMAIN s.epochList = DOMAIN log[t]
      BY <1>4, <1>5, <1>6
    <2>3. ASSUME NEW k \in DOMAIN r.epochList PROVE r.epochList[k] = E(t, 1 + k)
      <3>1. k \in Int /\ 1 + k = k + 1
        BY <2>1 DEF TLS
      <3>2. k + 1 \in DOMAIN log[t] /\ r.epochList[k] = s.epochList[k + 1]
        BY <2>1, <2>2
      <3> QED BY <1>5, <1>6, <3>1, <3>2
    <2> QED BY <1>5, <1>6, <1>7, <2>1, <2>3
  <1> HIDE DEF r
  <1>9. /\ tls'[t] = r /\ threadState'[t] = "start"
        /\ \A u \in Threads \ {t} : tls'[u] = tls[u] /\ threadState'[u] = threadState[u]
    BY <1>2, <1>4
  <1>10. TypeOK'
    <2>1. tls' \in [Threads -> TLS]
      BY <1>2, <1>4, <1>8
    <2> QED BY <1>0, <1>2, <2>1 DEF TypeOK, recorder
  <1>11. TurnInv'
    <2>1. Quiet(t)
      BY <1>0, <1>1, <1>2, <1>8, <1>9 DEF Quiet, Creators
    <2> QED BY <1>0, <1>3, <2>1, QuietKeeps
  <1>12. ChildInv'
    BY <1>0, <1>2, <1>3, <1>8, <1>9, MapsKept DEF Newborn
  <1>13. PlaceOf(t)'
    <2>1. log' = log /\ GRT' = GRT /\ step' = step
      BY <1>2 DEF recorder
    <2>2. E(t, 1)[t] \in Nat
      BY <1>0, <1>7, EpochsType DEF LogInv, Clock
    <2>3. GRT'[t] <= tls'[t].TRT[t] /\ 1 = Len(log[t]) - Len(tls'[t].epochList)
      BY <1>0, <1>4, <1>8, <1>9, <2>1, <2>2
    <2>4. AtLine(t)' /\ Place(t)' = 1
      <3>1. Reads(t, 1)
        BY <1>7, <1>8, <1>9, <2>3 DEF Reads
      <3> QED BY <2>1, <3>1, AtLineNext
    <2> QED BY <1>0, <1>9, <2>1, <2>4 DEF PlaceOf, Going
  <1>14. \A u \in Threads \ {t} : Stays(u)
    BY <1>2, <1>9 DEF Stays
  <1> QED BY <1>2, <1>3, <1>10, <1>11, <1>12, <1>13, <1>14, Collected

LEMMA GateKeeps ==
    ASSUME Whole, NEW t \in Threads, StartGate(t)
    PROVE  Whole'
  <1>0. /\ TypeOK /\ Inv /\ LogInv /\ DoneInv /\ phase = "replay" /\ threadState[t] = "start"
        /\ PlaceOf(t) /\ AtLine(t) /\ Place(t) = 1 /\ step[t] = 0
    BY DEF Whole, Inv, StartGate, Replaying, ReplayInv, PlaceInv, PlaceOf
  <1>1. tls[t].tid = t
    BY <1>0, Present
  <1>2. /\ GRT' = [GRT EXCEPT ![t] = tls[t].TRT[t]]
        /\ threadState' = [threadState EXCEPT ![t] = "check"]
        /\ UNCHANGED <<phase, recorder, mutex, pinIds, tls, step, creates,
                       atomic_create, failed>>
    BY <1>1 DEF StartGate, Goto, updateGRT
  <1>3. Reading
    BY <1>0, <1>2 DEF Reading
  <1>4. tls[t].TRT \in Clock /\ GRT \in Clock /\ tls[t].TRT[t] \in Nat
        /\ threadState \in [Threads -> {"absent", "new", "load", "start", "check",
                           "main", "run", "create", "created", "join", "exited"}]
    BY <1>0, FileType DEF TypeOK
  <1>5. /\ GRT'[t] = tls[t].TRT[t] /\ threadState'[t] = "check" /\ GRT' \in Clock
        /\ \A u \in Threads \ {t} : GRT'[u] = GRT[u] /\ threadState'[u] = threadState[u]
    BY <1>2, <1>4 DEF Clock
  <1>6. TypeOK'
    BY <1>0, <1>2, <1>5 DEF TypeOK, recorder
  <1>7. TurnInv'
    <2>1. Quiet(t)
      BY <1>0, <1>2, <1>5 DEF Quiet, Creators
    <2> QED BY <1>0, <1>3, <2>1, QuietKeeps
  <1>8. ChildInv'
    BY <1>0, <1>2, <1>3, <1>5, MapsKept DEF Newborn
  <1>9. PlaceOf(t)'
    <2>1. log' = log /\ tls' = tls /\ step' = step
      BY <1>2 DEF recorder
    <2>2. Place(t)' = 1 /\ E(t, 1)' = E(t, 1) /\ tls[t].TRT = E(t, 1)
      BY <1>0, <2>1 DEF Place, E, AtLine
    <2>3. GRT'[t] <= tls'[t].TRT[t]
      BY <1>4, <1>5, <2>1
    <2>4. AtLine(t)'
      BY <1>0, <2>1, <2>2, <2>3 DEF AtLine, E
    <2> QED BY <1>0, <1>5, <2>1, <2>2, <2>4 DEF PlaceOf, Going
  <1>10. \A u \in Threads \ {t} : Stays(u)
    BY <1>2, <1>5 DEF Stays
  <1> QED BY <1>2, <1>3, <1>6, <1>7, <1>8, <1>9, <1>10, Collected

\* The epoch after the first is made ready.
StartsAt(t, p) ==
    /\ p = Len(log[t]) - Len(Started(t).epochList)
    /\ p = IF 1 = Len(log[t]) THEN 1 ELSE 2
    /\ p \in DOMAIN log[t] /\ Started(t).TRT = E(t, p)
    /\ \A k \in DOMAIN Started(t).epochList : Started(t).epochList[k] = E(t, p + k)
    /\ E(t, 1)[t] <= Started(t).TRT[t]

LEMMA StartedClock ==
    ASSUME TypeOK, Inv, phase = "replay", NEW t \in Threads, threadState[t] = "check"
    PROVE  /\ Started(t) \in TLS /\ Started(t).tid = t
           /\ Started(t).childVCMap = tls[t].childVCMap
           /\ Started(t).currentVC = E(t, 1) /\ \E p \in Nat : StartsAt(t, p)
  <1>0. LogInv /\ DoneInv /\ PlaceOf(t) /\ AtLine(t) /\ Place(t) = 1
    BY DEF Inv, ReplayInv, PlaceInv, PlaceOf
  <1>1. /\ tls[t].tid = t /\ tls[t] \in TLS /\ tls[t].TRT \in Clock /\ tls[t].TRT[t] \in Nat
        /\ DOMAIN log[t] = 1 .. Len(log[t])
    BY <1>0, Present, FileType
  <1> DEFINE s == [tls[t] EXCEPT !.currentVC = tls[t].TRT]
  <1>2. /\ s \in TLS /\ s.tid = t /\ s.childVCMap = tls[t].childVCMap
        /\ s.epochList = tls[t].epochList /\ s.TRT = tls[t].TRT /\ s.currentVC = tls[t].TRT
    BY <1>1 DEF TLS
  <1>3. Started(t) = advanceTRT(s)
    BY DEF Started
  <1> HIDE DEF s
  <1> DEFINE r == advanceTRT(s)
             p == Len(log[t]) - Len(r.epochList)
  <1>4. r \in TLS /\ r.tid = t /\ r.childVCMap = tls[t].childVCMap
    BY <1>2, AdvanceTRT
  <1>5. /\ p = IF 1 = Len(log[t]) THEN 1 ELSE 2
        /\ p \in DOMAIN log[t] /\ r.TRT = E(t, p)
        /\ \A k \in DOMAIN r.epochList : r.epochList[k] = E(t, p + k)
        /\ r.currentVC = IF 1 = Len(log[t]) THEN s.currentVC ELSE E(t, 1)
        /\ tls[t].TRT[t] <= r.TRT[t]
    <2>1. ReadsNext(t, s)
      BY <1>0, <1>2, NextLine
    <2>2. /\ p = IF Place(t) = Len(log[t]) THEN Place(t) ELSE Place(t) + 1
          /\ p \in DOMAIN log[t] /\ r.TRT = E(t, p)
          /\ \A k \in DOMAIN r.epochList : r.epochList[k] = E(t, p + k)
          /\ r.currentVC = IF Place(t) = Len(log[t]) THEN s.currentVC ELSE E(t, Place(t))
          /\ tls[t].TRT[t] <= r.TRT[t]
      BY <2>1, Zenon DEF ReadsNext
    <2> HIDE DEF r, p
    <2>3. r.currentVC = IF 1 = Len(log[t]) THEN s.currentVC ELSE E(t, 1)
      BY <1>0, <2>2, Zenon
    <2>4. p = IF 1 = Len(log[t]) THEN 1 ELSE 2
      BY <1>0, <2>2
    <2> QED BY <2>2, <2>3, <2>4
  <1>6. r.currentVC = E(t, 1) /\ E(t, 1) = tls[t].TRT
    BY <1>0, <1>2, <1>5 DEF AtLine
  <1>7. StartsAt(t, p) /\ p \in Nat
    <2>1. p = Len(log[t]) - Len(r.epochList)
      OBVIOUS
    <2> HIDE DEF r, p
    <2>2. Started(t) = r
      BY <1>3 DEF r
    <2>3. p \in Nat
      BY <1>5
    <2>4. E(t, 1)[t] <= r.TRT[t]
      BY <1>5, <1>6
    <2>5. StartsAt(t, p)
      BY <1>5, <2>1, <2>2, <2>4, Zenon DEF StartsAt
    <2> QED BY <2>3, <2>5
  <1> HIDE DEF r, p
  <1> QED BY <1>3, <1>4, <1>6, <1>7 DEF r

LEMMA StartedAhead ==
    ASSUME TypeOK, Inv, Reading, NEW t \in Threads, threadState[t] = "check",
           tls'[t] = Started(t), threadState'[t] \in {"main", "run"},
           UNCHANGED <<GRT, step>>
    PROVE  PlaceOf(t)'
  <1>0. /\ LogInv /\ DoneInv /\ phase = "replay" /\ PlaceOf(t)
        /\ step[t] = 0 /\ GRT[t] = E(t, 1)[t]
    BY DEF Inv, ReplayInv, PlaceInv, PlaceOf, Reading
  <1>1. /\ Len(log[t]) = Len(program[t]) + 1
        /\ Len(program[t]) \in Nat /\ DOMAIN program[t] = 1 .. Len(program[t])
        /\ DOMAIN log[t] = 1 .. Len(log[t]) /\ GRT[t] \in Nat
    BY <1>0, Present, CallsType, FileType
  <1>2. PICK p \in Nat : StartsAt(t, p) /\ Started(t).currentVC = E(t, 1)
    BY <1>0, StartedClock
  <1>3. log' = log /\ program' = program /\ Ungated(t)' = Ungated(t)
    BY <1>0, Recorded
  <1>4. GRT'[t] = E(t, 1)[t] /\ step'[t] = 0
    BY <1>0
  <1>5. AtLine(t)' /\ Place(t)' = p
    <2>1. Reads(t, p)
      BY <1>2, <1>4 DEF Reads, StartsAt
    <2> QED BY <1>3, <2>1, AtLineNext
  <1>6. Made(t)' = 0 /\ Passed(t)' = {}
    <2>1. Ungated(t) \subseteq 1 .. Len(program[t])
      BY <1>1 DEF Ungated
    <2> QED BY <1>1, <1>3, <1>4, <2>1 DEF Made, Passed
  <1>7. Ahead(t)'
    <2>1. Place(t)' = 2 \/ (Place(t)' = Len(log'[t]) /\ Len(program'[t]) = 0)
      BY <1>1, <1>2, <1>3, <1>5 DEF StartsAt
    <2>2. E(t, 1)' = E(t, 1) /\ GRT'[t] >= E(t, 1)[t]
      BY <1>0, <1>1, <1>3, <1>4 DEF E
    <2>3. Made(t)' + 1 = 1 /\ Made(t)' + 2 = 2
      BY <1>6
    <2>4. E(t, Made(t) + 1)' = E(t, 1)
      BY <1>3, <2>3 DEF E
    <2> QED BY <1>2, <1>6, <2>1, <2>2, <2>3, <2>4 DEF Ahead
  <1> QED BY <1>4, <1>5, <1>7 DEF PlaceOf, Going

LEMMA StartMainKeeps ==
    ASSUME Whole, StartMain
    PROVE  Whole' /\ GRT' = GRT
  <1>0. /\ TypeOK /\ Inv /\ LogInv /\ DoneInv /\ phase = "replay" /\ threadState[0] = "check"
        /\ 0 \in Threads
    BY Basics DEF Whole, Inv, StartMain, Replaying
  <1>1. /\ tls' = [tls EXCEPT ![0] = Started(0)]
        /\ threadState' = [threadState EXCEPT ![0] = "main"]
        /\ UNCHANGED <<phase, recorder, mutex, pinIds, GRT, step, creates,
                       atomic_create, failed>>
    BY DEF StartMain, Goto
  <1>2. Reading
    BY <1>0, <1>1 DEF Reading
  <1>3. /\ tls \in [Threads -> TLS]
        /\ threadState \in [Threads -> {"absent", "new", "load", "start", "check",
                           "main", "run", "create", "created", "join", "exited"}]
    BY <1>0 DEF TypeOK
  <1>4. /\ tls'[0] = Started(0) /\ threadState'[0] = "main"
        /\ \A u \in Threads \ {0} : tls'[u] = tls[u] /\ threadState'[u] = threadState[u]
    BY <1>0, <1>1, <1>3
  <1>5. /\ PlaceOf(0)' /\ Started(0) \in TLS /\ Started(0).tid = 0
        /\ Started(0).childVCMap = tls[0].childVCMap
    BY <1>0, <1>1, <1>2, <1>4, StartedAhead, StartedClock
  <1>6. TypeOK'
    <2>1. tls' \in [Threads -> TLS]
      BY <1>1, <1>3, <1>5
    <2> QED BY <1>0, <1>1, <2>1 DEF TypeOK, recorder
  <1>7. TurnInv'
    <2>1. tls[0].tid = 0
      BY <1>0, Present
    <2>2. Quiet(0)
      BY <1>0, <1>1, <1>4, <1>5, <2>1 DEF Quiet, Creators
    <2> QED BY <1>0, <1>2, <2>2, QuietKeeps
  <1>8. ChildInv'
    BY <1>0, <1>1, <1>2, <1>4, <1>5, MapsKept DEF Newborn
  <1>9. \A u \in Threads \ {0} : Stays(u)
    BY <1>1, <1>4 DEF Stays
  <1> QED BY <1>0, <1>1, <1>2, <1>5, <1>6, <1>7, <1>8, <1>9, Collected

LEMMA BeforeMainKeeps ==
    ASSUME Whole, BeforeMain
    PROVE  Whole' /\ GRT' = GRT
  <1>0. /\ TypeOK /\ Inv /\ LogInv /\ DoneInv /\ phase = "replay" /\ threadState[0] = "main"
        /\ 0 \in Threads
    BY Basics DEF Whole, Inv, BeforeMain, Replaying
  <1>1. CASE createOrder = << >>
    BY <1>0, <1>1, FailKeeps DEF BeforeMain
  <1>2. CASE createOrder # << >>
    <2>1. /\ threadState' = [threadState EXCEPT ![0] = "run"]
          /\ UNCHANGED <<phase, recorder, mutex, pinIds, tls, GRT, step, creates,
                         atomic_create, failed>>
      BY <1>2 DEF BeforeMain, Goto, replayer
    <2>2. Reading
      BY <1>0, <2>1 DEF Reading
    <2>3. /\ threadState'[0] = "run"
          /\ \A u \in Threads \ {0} : threadState'[u] = threadState[u]
      BY <1>0, <2>1 DEF TypeOK
    <2>4. TypeOK'
      BY <1>0, <2>1 DEF TypeOK, recorder
    <2>5. TurnInv'
      <3>1. Quiet(0)
        BY <1>0, <2>1, <2>3 DEF Quiet, Creators
      <3> QED BY <1>0, <2>2, <3>1, QuietKeeps
    <2>6. ChildInv'
      BY <1>0, <2>1, <2>2, <2>3, MapsKept DEF Newborn
    <2>7. PlaceOf(0)'
      <3>1. PlaceOf(0) /\ AtLine(0) /\ Ahead(0)
        BY <1>0 DEF Inv, ReplayInv, PlaceInv, PlaceOf, Going
      <3>2. log' = log /\ program' = program /\ Ungated(0)' = Ungated(0)
        BY <1>0, <2>2, Recorded
      <3>3. Made(0)' = Made(0) /\ Place(0)' = Place(0) /\ Passed(0)' = Passed(0)
        BY <1>0, <2>1, <2>3, <3>2 DEF Made, Place, Passed
      <3>4. AtLine(0)' /\ Ahead(0)'
        BY <2>1, <3>1, <3>2, <3>3 DEF AtLine, Ahead, E
      <3> QED BY <2>3, <3>4 DEF PlaceOf, Going
    <2>8. \A u \in Threads \ {0} : Stays(u)
      BY <2>1, <2>3 DEF Stays
    <2> QED BY <1>0, <2>1, <2>2, <2>4, <2>5, <2>6, <2>7, <2>8, Collected
  <1> QED BY <1>1, <1>2

\* The parent of a thread that runs has been created before it.
LEMMA ParentThere ==
    ASSUME TypeOK, Inv, phase = "replay", NEW t \in Threads, t # 0, threadState[t] # "absent"
    PROVE  /\ t \in DOMAIN createOrder /\ Parent(t) \in Threads /\ Parent(t) < t
           /\ threadState[Parent(t)] # "absent" /\ tls[Parent(t)].tid = Parent(t)
           /\ \E k \in DOMAIN program[Parent(t)] : program[Parent(t)][k] = Call("create", t)
  <1>1. t \in Numbered /\ t \in Nat
    BY Present, Basics
  <1>2. t \in DOMAIN createOrder /\ Parent(t) \in Threads
    BY <1>1, OrderType DEF Numbered, Parent
  <1>3. /\ Parent(t) < t
        /\ \E k \in DOMAIN program[Parent(t)] : program[Parent(t)][k] = Call("create", t)
    BY <1>2 DEF Inv, LogInv, OrderInv, Parent
  <1>4. pinIds \in Nat /\ Parent(t) \in Nat
    BY <1>2, Basics DEF TypeOK
  <1>5. TurnOf(t) /\ TurnOf(Parent(t))
    BY <1>2 DEF Inv, ReplayInv, TurnInv
  <1>6. threadState[Parent(t)] # "absent"
    BY <1>1, <1>3, <1>4, <1>5 DEF TurnOf
  <1> QED BY <1>2, <1>3, <1>5, <1>6 DEF TurnOf

\* While a thread is about to create another, that one does not exist.
LEMMA NextAbsent ==
    ASSUME TypeOK, Inv, phase = "replay", NEW c \in Threads, threadState[c] # "absent",
           \A u \in Threads : threadState[u] # "created"
    PROVE  c # creates
  <1>1. creates \in Nat /\ pinIds \in Nat /\ c \in Nat
    BY Basics DEF TypeOK
  <1>2. /\ pinIds = creates + (IF \E u \in Threads : threadState[u] = "created" THEN 1 ELSE 0)
        /\ TurnOf(c)
    BY DEF Inv, ReplayInv, TurnInv
  <1>3. pinIds = creates
    BY <1>1, <1>2
  <1>4. ~ (c >= pinIds)
    BY <1>2 DEF TurnOf
  <1> QED BY <1>1, <1>3, <1>4

\* Only one thread is between BeforeCreate and AfterCreate.
LEMMA OneCreator ==
    ASSUME TypeOK, Inv, phase = "replay", NEW t \in Threads, NEW u \in Threads,
           threadState[t] \in Creators, threadState[u] \in Creators
    PROVE  t = u
  BY DEF Inv, ReplayInv, TurnInv, TurnOf

LEMMA StartChildKeeps ==
    ASSUME Whole, NEW t \in Threads, StartChild(t)
    PROVE  Whole' /\ GRT' = GRT
  <1> DEFINE p == Parent(t)
             S == Started(t)
  <1>0. /\ TypeOK /\ Inv /\ LogInv /\ DoneInv /\ phase = "replay" /\ threadState[t] = "check"
        /\ t # 0
    BY DEF Whole, Inv, StartChild, Replaying
  <1>1. /\ p \in Threads /\ p # t /\ threadState[p] # "absent" /\ tls[p].tid = p
        /\ tls[t].tid = t
    <2>1. p < t /\ t \in Nat
      BY <1>0, ParentThere, Basics
    <2> QED BY <1>0, <2>1, ParentThere, Present
  <1>2. /\ tls \in [Threads -> TLS] /\ tls[p] \in TLS /\ tls[t] \in TLS
        /\ threadState \in [Threads -> {"absent", "new", "load", "start", "check",
                           "main", "run", "create", "created", "join", "exited"}]
    BY <1>0, <1>1 DEF TypeOK
  <1>3. CASE /\ tls' = [tls EXCEPT ![t] = S, ![p].childVCMap[t] = ZeroClock]
             /\ threadState' = [threadState EXCEPT ![t] = "run"]
             /\ UNCHANGED <<phase, recorder, mutex, pinIds, GRT, step, creates,
                            atomic_create, failed>>
    <2> HIDE DEF p, S
    <2>1. Reading
      BY <1>0, <1>3 DEF Reading
    <2> DEFINE m == [tls[p].childVCMap EXCEPT ![t] = ZeroClock]
               q == [tls[p] EXCEPT !.childVCMap = m]
    <2>2. m \in [Threads -> Clock] /\ \A c \in Threads \ {t} : m[c] = tls[p].childVCMap[c]
      <3>1. tls[p].childVCMap \in [Threads -> Clock] /\ ZeroClock \in Clock
        BY <1>2 DEF TLS, ZeroClock, Clock
      <3> QED BY <3>1
    <2>3. tls' = [tls EXCEPT ![t] = S, ![p] = q]
      BY <1>1, <1>2, <1>3
    <2> HIDE DEF m
    <2>4. /\ q \in TLS /\ q.tid = tls[p].tid /\ q.epochList = tls[p].epochList
          /\ q.TRT = tls[p].TRT /\ q.currentVC = tls[p].currentVC /\ q.childVCMap = m
      BY <1>2, <2>2 DEF TLS
    <2> HIDE DEF q
    <2>5. /\ tls'[t] = S /\ tls'[p] = q
          /\ \A u \in Threads \ {t, p} : tls'[u] = tls[u]
      BY <1>1, <1>2, <2>3
    <2>6. /\ threadState'[t] = "run"
          /\ \A u \in Threads \ {t} : threadState'[u] = threadState[u]
      BY <1>2, <1>3
    <2>7. PlaceOf(t)' /\ S \in TLS /\ S.tid = t /\ S.childVCMap = tls[t].childVCMap
      <3>1. tls'[t] = Started(t) /\ threadState'[t] \in {"main", "run"}
        BY <2>5, <2>6 DEF S
      <3>2. GRT' = GRT /\ step' = step
        BY <1>3
      <3> QED BY <1>0, <2>1, <3>1, <3>2, StartedAhead, StartedClock DEF S
    <2>8. TypeOK'
      <3>1. tls' \in [Threads -> TLS]
        BY <1>2, <2>3, <2>4, <2>7
      <3> QED BY <1>0, <1>3, <3>1 DEF TypeOK, recorder
    <2>9. TurnInv'
      <3>1. \A u \in Threads : tls'[u].tid = tls[u].tid
        BY <1>1, <2>4, <2>5, <2>7
      <3>2. Quiet(t)
        BY <1>0, <1>3, <2>6, <3>1 DEF Quiet, Creators
      <3> QED BY <1>0, <2>1, <3>2, QuietKeeps
    <2>10. \A u \in Threads \ {t} : Stays(u)
      BY <1>3, <2>4, <2>5, <2>6 DEF Stays
    <2>11. ChildInv'
      <3>1. UNCHANGED <<program, log, ForkJoin, creates>>
        BY <1>0, <1>3, <2>1, Recorded
      <3>2. ASSUME NEW u \in Threads, NEW c \in Threads, c # t
            PROVE  tls'[u].childVCMap[c] = tls[u].childVCMap[c]
        <4>1. CASE u = p
          BY <2>2, <2>4, <2>5, <3>2, <4>1
        <4>2. CASE u # p
          BY <2>5, <2>7, <4>2
        <4> QED BY <4>1, <4>2
      <3>3. ASSUME NEW u \in Threads, ChildOf(u) PROVE ChildOf(u)'
        <4>1. ASSUME threadState'[u] = "create"
              PROVE  tls'[u].childVCMap[creates] = E(u, step[u] + 1)
          <5>1. threadState[u] = "create"
            BY <2>6, <4>1
          <5>2. creates # t
            <6>1. \A v \in Threads : threadState[v] # "created"
              BY <1>0, <5>1, OneCreator DEF Creators
            <6> QED BY <1>0, <6>1, NextAbsent
          <5>3. creates \in Threads
            <6>1. step[u] < Len(program[u]) /\ program[u][step[u] + 1] = Call("create", creates)
              BY <1>0, <5>1 DEF Inv, ReplayInv, TurnInv, TurnOf, Creators
            <6>2. program[u][step[u] + 1].who \in Threads
              BY <1>0, <6>1, NextCall
            <6> QED BY <6>1, <6>2 DEF Call
          <5>4. tls[u].childVCMap[creates] = E(u, step[u] + 1)
            BY <3>3, <5>1 DEF ChildOf
          <5> QED BY <3>2, <5>2, <5>3, <5>4
        <4>2. ASSUME NEW k \in DOMAIN program[u], program[u][k].what = "create",
                     threadState'[program[u][k].who] \in Newborn
              PROVE  tls'[u].childVCMap[program[u][k].who] = E(u, k)
          <5>1. program[u][k].who \in Threads /\ program[u][k].who # t
            BY <1>0, <2>6, <4>2, CallsType DEF Newborn
          <5>2. threadState[program[u][k].who] \in Newborn
            BY <2>6, <4>2, <5>1
          <5>3. tls[u].childVCMap[program[u][k].who] = E(u, k)
            BY <3>3, <4>2, <5>2 DEF ChildOf
          <5> QED BY <3>2, <5>1, <5>3
        <4>3. step' = step
          BY <1>3
        <4> QED BY <3>1, <4>1, <4>2, <4>3 DEF ChildOf, E
      <3> QED BY <1>0, <3>1, <3>3 DEF ChildInv, Inv, ReplayInv
    <2> QED BY <1>3, <2>1, <2>7, <2>8, <2>9, <2>10, <2>11, Collected
  <1>4. CASE Fail("child clock") /\ ForkJoin /\ ~ (/\ ChildVC(t) # ZeroClock
                /\ S.currentVC = ChildClock(ChildVC(t), p, t))
    <2>1. PICK k \in DOMAIN program[p] : program[p][k] = Call("create", t)
      BY <1>0, ParentThere
    <2>2. program[p][k].what = "create" /\ program[p][k].who = t
      BY <2>1 DEF Call
    <2>3. ChildVC(t) = E(p, k)
      <3>1. ChildOf(p)
        BY <1>0, <1>1, <1>4 DEF Inv, ReplayInv, ChildInv
      <3>2. tls[p].childVCMap[t] = E(p, k)
        BY <1>0, <2>1, <2>2, <3>1 DEF ChildOf, Newborn
      <3> QED BY <1>1, <3>2 DEF ChildVC
    <2>4. E(p, k)[p] > 0
      <3>1. k \in DOMAIN log[p]
        BY <1>0, <1>1, <2>2 DEF LogInv, OrderInv
      <3> QED BY <1>0, <1>1, <3>1 DEF LogInv, EpochsInv
    <2>5. E(p, k) # ZeroClock
      BY <1>1, <2>4 DEF ZeroClock
    <2>6. E(t, 1) = ChildClock(E(p, k), p, t)
      <3>1. log[t] # << >>
        BY <1>0, Present
      <3> QED BY <1>0, <1>1, <2>2, <3>1 DEF LogInv, BirthInv
    <2>7. S.currentVC = E(t, 1)
      BY <1>0, StartedClock
    <2> QED BY <1>4, <2>3, <2>5, <2>6, <2>7
  <1>5. CASE Fail("child clock") /\ ~ ForkJoin
    BY <1>0, <1>5, FailKeeps
  <1> QED BY <1>1, <1>3, <1>4, <1>5 DEF StartChild, Goto

\* A call with a gate: the line in TRT is the epoch that begins, and the next one
\* is read.
LEMMA GatedCall ==
    ASSUME TypeOK, Inv, Reading, NEW t \in Threads, threadState[t] = "run",
           step[t] < Len(program[t]), threadState'[t] \in {"create", "join"},
           step'[t] = step[t], GRT'[t] = tls[t].TRT[t],
           NEW s \in TLS, s.epochList = tls[t].epochList, s.TRT = tls[t].TRT,
           tls'[t] = advanceTRT(s)
    PROVE  PlaceOf(t)'
  <1>0. LogInv /\ DoneInv /\ phase = "replay" /\ AtLine(t) /\ Ahead(t)
    BY DEF Inv, ReplayInv, PlaceInv, PlaceOf, Reading, Going
  <1>1. /\ Len(log[t]) = Len(program[t]) + 1 /\ Len(program[t]) \in Nat
        /\ step[t] \in Nat /\ tls[t].TRT[t] \in Nat /\ Place(t) \in Int
    BY <1>0, Present, CallsType, FileType
  <1>2. log' = log /\ program' = program /\ Ungated(t)' = Ungated(t)
    BY <1>0, Recorded
  <1>3. Made(t) = step[t] /\ Made(t)' = step[t] + 1 /\ Passed(t)' = Passed(t)
    BY <1>1, <1>2 DEF Made, Passed
  <1> DEFINE r == advanceTRT(s)
             p == Len(log[t]) - Len(r.epochList)
  <1>4. /\ p = IF Place(t) = Len(log[t]) THEN Place(t) ELSE Place(t) + 1
        /\ p \in DOMAIN log[t] /\ r.TRT = E(t, p)
        /\ \A k \in DOMAIN r.epochList : r.epochList[k] = E(t, p + k)
        /\ r.currentVC = IF Place(t) = Len(log[t]) THEN s.currentVC ELSE E(t, Place(t))
        /\ tls[t].TRT[t] <= r.TRT[t]
    <2>1. ReadsNext(t, s)
      BY <1>0, NextLine
    <2> QED BY <2>1, Zenon DEF ReadsNext
  <1>5. tls'[t] = r /\ p = Len(log[t]) - Len(r.epochList)
    OBVIOUS
  <1> HIDE DEF r, p
  <1>6. AtLine(t)' /\ Place(t)' = p
    <2>1. Reads(t, p)
      BY <1>4, <1>5, Zenon DEF Reads
    <2> QED BY <1>2, <2>1, AtLineNext
  <1>7. p <= Place(t) + 1 /\ p \in Int
    BY <1>1, <1>4
  <1>8. Ahead(t)'
    <2>1. ASSUME NEW i \in Passed(t)
          PROVE  /\ p <= step[t] + 2
                 /\ \A j \in Passed(t) : i # j => p <= step[t] + 1
      BY <1>0, <1>1, <1>3, <1>7, <2>1 DEF Ahead
    <2>2. ASSUME Passed(t) = {}
          PROVE  /\ \/ p = step[t] + 3
                    \/ (p = Len(log[t]) /\ step[t] + 1 = Len(program[t]))
                 /\ GRT'[t] >= E(t, step[t] + 2)[t]
                 /\ step[t] + 1 < Len(program[t]) => r.currentVC = E(t, step[t] + 2)
      <3>1. Place(t) = step[t] + 2
        <4>1. \/ Place(t) = Made(t) + 2
              \/ (Place(t) = Len(log[t]) /\ Made(t) = Len(program[t]))
          BY <1>0, <2>2 DEF Ahead
        <4> QED BY <1>1, <1>3, <4>1
      <3>2. E(t, step[t] + 2) = tls[t].TRT
        BY <1>0, <3>1 DEF AtLine
      <3>3. GRT'[t] >= E(t, step[t] + 2)[t]
        BY <1>1, <3>2
      <3>4. CASE Place(t) = Len(log[t])
        BY <1>1, <1>4, <3>1, <3>3, <3>4
      <3>5. CASE Place(t) # Len(log[t])
        <4>1. r.currentVC = E(t, step[t] + 2) /\ p = step[t] + 3
          BY <1>1, <1>4, <3>1, <3>5
        <4> QED BY <3>3, <4>1
      <3> QED BY <3>4, <3>5
    <2>3. /\ Made(t)' + 1 = step[t] + 2 /\ Made(t)' + 2 = step[t] + 3
      BY <1>1, <1>3
    <2>4. E(t, Made(t) + 1)' = E(t, step[t] + 2)
      BY <1>2, <2>3 DEF E
    <2> QED BY <1>2, <1>3, <1>5, <1>6, <2>1, <2>2, <2>3, <2>4 DEF Ahead
  <1> QED BY <1>6, <1>8 DEF PlaceOf, Going

\* A call with a gate returns.
LEMMA CallReturns ==
    ASSUME TypeOK, Inv, Reading, NEW t \in Threads,
           threadState[t] \in {"created", "join"}, threadState'[t] = "run",
           step[t] < Len(program[t]), program[t][step[t] + 1].what \in {"create", "join"},
           step'[t] = step[t] + 1, GRT'[t] = GRT[t], tls'[t] = tls[t]
    PROVE  PlaceOf(t)'
  <1>0. LogInv /\ DoneInv /\ phase = "replay" /\ AtLine(t) /\ Ahead(t)
    BY DEF Inv, ReplayInv, PlaceInv, PlaceOf, Reading, Going
  <1>1. log' = log /\ program' = program /\ Ungated(t)' = Ungated(t) /\ step[t] \in Nat
    BY <1>0, Recorded, FileType
  <1>2. Place(t)' = Place(t) /\ Made(t)' = Made(t)
    BY <1>1 DEF Place, Made
  <1>3. Passed(t)' = Passed(t)
    <2>1. step[t] + 1 \notin Ungated(t)
      BY DEF Ungated
    <2>2. \A i \in Ungated(t) : i \in Nat
      BY CallsType DEF Ungated
    <2> QED BY <1>1, <2>1, <2>2 DEF Passed
  <1>4. AtLine(t)' /\ Ahead(t)'
    BY <1>0, <1>1, <1>2, <1>3 DEF AtLine, Ahead, E
  <1> QED BY <1>4 DEF PlaceOf, Going

\* The thread whose turn it is creates the thread that it created then.
LEMMA MyTurnIsRight ==
    ASSUME TypeOK, Inv, phase = "replay", NEW t \in Threads, step[t] < Len(program[t]),
           program[t][step[t] + 1].what = "create"
    PROVE  /\ creates \in DOMAIN createOrder /\ creates <= Len(createOrder)
           /\ createOrder[creates] = t => program[t][step[t] + 1] = Call("create", creates)
  <1> DEFINE c == program[t][step[t] + 1].who
  <1>0. /\ OrderInv /\ creates > 0 /\ TurnOf(t) /\ creates \in Nat
        /\ DOMAIN createOrder = 1 .. Len(createOrder) /\ Len(createOrder) \in Nat
    BY OrderType DEF Inv, LogInv, ReplayInv, TurnInv, TypeOK
  <1>1. step[t] + 1 \in DOMAIN program[t] /\ step[t] \in Nat
    BY NextCall
  <1>2. c \in DOMAIN createOrder /\ c \in Nat
    BY <1>0, <1>1 DEF OrderInv
  <1>3. ~ (c < creates)
    <2>1. ~ (step[t] + 1 <= step[t])
      BY <1>1
    <2> QED BY <1>0, <1>1, <2>1 DEF TurnOf
  <1>4. creates \in DOMAIN createOrder /\ creates <= Len(createOrder)
    BY <1>0, <1>2, <1>3
  <1>5. ASSUME createOrder[creates] = t
        PROVE  program[t][step[t] + 1] = Call("create", creates)
    <2>1. PICK k \in DOMAIN program[t] : program[t][k] = Call("create", creates)
      BY <1>0, <1>4, <1>5 DEF OrderInv
    <2>2. k \in Nat /\ program[t][k].what = "create" /\ program[t][k].who = creates
      BY <2>1, CallsType DEF Call
    <2>3. ~ (k <= step[t])
      <3>1. ~ (creates < creates)
        BY <1>0
      <3> QED BY <1>0, <2>1, <2>2, <3>1 DEF TurnOf
    <2>4. ~ (step[t] + 1 < k)
      <3>1. ASSUME step[t] + 1 < k PROVE c < creates
        BY <1>0, <1>1, <2>1, <2>2, <3>1 DEF OrderInv
      <3> QED BY <1>3, <3>1
    <2>5. k = step[t] + 1
      BY <1>1, <2>2, <2>3, <2>4
    <2> QED BY <2>1, <2>5
  <1> QED BY <1>4, <1>5

LEMMA NobodyCreates ==
    ASSUME TypeOK, Inv, phase = "replay", atomic_create = NO_ID
    PROVE  pinIds = creates /\ \A u \in Threads : threadState[u] \notin Creators
  <1>1. \A u \in Threads : threadState[u] \notin Creators
    BY Basics DEF Inv, ReplayInv, TurnInv, TurnOf
  <1>2. creates \in Nat
    BY DEF TypeOK
  <1>3. pinIds = creates + (IF \E u \in Threads : threadState[u] = "created" THEN 1 ELSE 0)
    BY DEF Inv, ReplayInv, TurnInv
  <1> QED BY <1>1, <1>2, <1>3 DEF Creators

LEMMA BeforeCreateKeeps ==
    ASSUME Whole, NEW t \in Threads, BeforeCreate(t)
    PROVE  Whole'
  <1>0. /\ TypeOK /\ Inv /\ LogInv /\ DoneInv /\ phase = "replay" /\ threadState[t] = "run"
        /\ step[t] < Len(program[t]) /\ program[t][step[t] + 1].what = "create"
        /\ atomic_create = NO_ID
    BY DEF Whole, Inv, BeforeCreate, Calling, Replaying
  <1>1. tls[t].tid = t /\ creates <= Len(createOrder)
    BY <1>0, Present, MyTurnIsRight
  <1> DEFINE m == [tls[t].childVCMap EXCEPT ![creates] = tls[t].currentVC]
             s == [tls[t] EXCEPT !.childVCMap = m]
             r == advanceTRT(s)
  <1>2. /\ tls[t].tid = createOrder[creates]
        /\ GRT' = [GRT EXCEPT ![t] = tls[t].TRT[t]]
        /\ tls' = [tls EXCEPT ![t] = r]
        /\ atomic_create' = t /\ threadState' = [threadState EXCEPT ![t] = "create"]
        /\ UNCHANGED <<phase, recorder, mutex, pinIds, step, creates, failed>>
    BY <1>1 DEF BeforeCreate, Goto, updateGRT, MyTurn
  <1>3. program[t][step[t] + 1] = Call("create", creates) /\ creates \in Threads
    <2>1. program[t][step[t] + 1] = Call("create", creates)
      BY <1>0, <1>1, <1>2, MyTurnIsRight
    <2>2. program[t][step[t] + 1].who \in Threads
      BY <1>0, NextCall
    <2> QED BY <2>1, <2>2 DEF Call
  <1>4. /\ tls \in [Threads -> TLS] /\ tls[t] \in TLS /\ GRT \in Clock /\ tls[t].TRT[t] \in Nat
        /\ threadState \in [Threads -> {"absent", "new", "load", "start", "check",
                           "main", "run", "create", "created", "join", "exited"}]
    BY <1>0, FileType DEF TypeOK
  <1>5. /\ m \in [Threads -> Clock] /\ m[creates] = tls[t].currentVC
        /\ \A c \in Threads : c # creates => m[c] = tls[t].childVCMap[c]
    <2>1. tls[t].childVCMap \in [Threads -> Clock] /\ tls[t].currentVC \in Clock
      BY <1>4 DEF TLS
    <2> QED BY <1>3, <2>1
  <1> HIDE DEF m
  <1>6. /\ s \in TLS /\ s.tid = t /\ s.epochList = tls[t].epochList /\ s.TRT = tls[t].TRT
        /\ s.childVCMap = m
    BY <1>1, <1>4, <1>5 DEF TLS
  <1> HIDE DEF s
  <1>7. r \in TLS /\ r.tid = t /\ r.childVCMap = m
    BY <1>6, AdvanceTRT
  <1>8. /\ tls'[t] = r /\ threadState'[t] = "create" /\ GRT'[t] = tls[t].TRT[t]
        /\ \A u \in Threads \ {t} : /\ tls'[u] = tls[u] /\ threadState'[u] = threadState[u]
                                    /\ GRT'[u] = GRT[u]
        /\ GRT' \in Clock
    <2> HIDE DEF r
    <2> QED BY <1>2, <1>4 DEF Clock
  <1>9. Reading
    BY <1>0, <1>2 DEF Reading
  <1>10. PlaceOf(t)'
    <2>1. tls'[t] = advanceTRT(s) /\ step'[t] = step[t]
      BY <1>2, <1>8
    <2> QED BY <1>0, <1>6, <1>8, <1>9, <2>1, GatedCall
  <1> HIDE DEF r
  <1>11. TypeOK'
    <2>1. tls' \in [Threads -> TLS]
      BY <1>2, <1>4, <1>7
    <2> QED BY <1>0, <1>2, <1>8, <2>1 DEF TypeOK, recorder
  <1>12. UNCHANGED <<phase, program, log, createOrder, ForkJoin, Numbered>>
    BY <1>0, <1>9, Recorded
  <1>13. pinIds = creates /\ \A u \in Threads : threadState[u] \notin Creators
    BY <1>0, NobodyCreates
  <1>14. TurnInv'
    <2>0. UNCHANGED <<pinIds, creates, step>> /\ atomic_create' = t
      BY <1>2
    <2>1. ASSUME NEW u \in Threads PROVE TurnOf(u)'
      <3>0. TurnOf(u)
        BY <1>0 DEF Inv, ReplayInv, TurnInv
      <3>1. CASE u # t
        BY <1>8, <1>12, <1>13, <2>0, <3>0, <3>1 DEF TurnOf
      <3>2. CASE u = t
        BY <1>0, <1>3, <1>7, <1>8, <1>12, <2>0, <3>0, <3>2 DEF TurnOf, Creators
      <3> QED BY <3>1, <3>2
    <2>2. \A u \in Threads : threadState'[u] # "created"
      BY <1>8, <1>13 DEF Creators
    <2>3. creates > 0 /\ creates \in Nat
      BY <1>0 DEF Inv, ReplayInv, TurnInv, TypeOK
    <2> QED BY <1>13, <2>0, <2>1, <2>2, <2>3 DEF TurnInv
  <1>15. ChildInv'
    <2>1. ASSUME ForkJoin, NEW u \in Threads PROVE ChildOf(u)'
      <3>0. ChildOf(u)
        BY <1>0, <2>1 DEF Inv, ReplayInv, ChildInv
      <3>1. ASSUME threadState'[u] = "create"
            PROVE  tls'[u].childVCMap[creates] = E(u, step[u] + 1)
        <4>1. u = t
          BY <1>8, <1>13, <3>1 DEF Creators
        <4>2. Passed(t) = {}
          BY <2>1 DEF ForkJoin, Passed, Ungated
        <4>3. Made(t) = step[t] /\ Ahead(t)
          <5>1. step[t] \in Nat
            BY <1>0, FileType
          <5>2. Made(t) = step[t]
            BY <1>0, <5>1 DEF Made
          <5>3. PlaceOf(t)
            BY <1>0 DEF Inv, ReplayInv, PlaceInv
          <5> QED BY <1>0, <5>2, <5>3 DEF PlaceOf, Going
        <4>4. tls[t].currentVC = E(t, step[t] + 1)
          BY <1>0, <4>2, <4>3 DEF Ahead
        <4> QED BY <1>5, <1>7, <1>8, <4>1, <4>4
      <3>2. ASSUME NEW k \in DOMAIN program[u], program[u][k].what = "create",
                   threadState'[program[u][k].who] \in Newborn
            PROVE  tls'[u].childVCMap[program[u][k].who] = E(u, k)
        <4> DEFINE c == program[u][k].who
        <4>1. c \in Threads /\ c # t
          BY <1>0, <1>8, <3>2, CallsType DEF Newborn
        <4>2. threadState[c] \in Newborn
          BY <1>8, <3>2, <4>1
        <4>3. c # creates
          BY <1>0, <1>13, <4>1, <4>2, NextAbsent DEF Newborn, Creators
        <4>4. tls[u].childVCMap[c] = E(u, k)
          BY <3>0, <3>2, <4>2 DEF ChildOf
        <4>5. tls'[u].childVCMap[c] = tls[u].childVCMap[c]
          BY <1>5, <1>7, <1>8, <4>1, <4>3
        <4> QED BY <4>4, <4>5
      <3>3. UNCHANGED <<step, creates>>
        BY <1>2
      <3> QED BY <1>12, <3>1, <3>2, <3>3 DEF ChildOf, E
    <2> QED BY <1>12, <2>1 DEF ChildInv
  <1>16. \A u \in Threads \ {t} : Stays(u)
    BY <1>2, <1>8 DEF Stays
  <1> QED BY <1>2, <1>9, <1>10, <1>11, <1>14, <1>15, <1>16, Collected

LEMMA SpawnKeeps ==
    ASSUME Whole, NEW t \in Threads, Spawn(t)
    PROVE  Whole' /\ GRT' = GRT
  <1> DEFINE c == creates
  <1>0. /\ TypeOK /\ Inv /\ LogInv /\ DoneInv /\ phase = "replay" /\ threadState[t] = "create"
        /\ OrderInv
    BY DEF Whole, Inv, LogInv, Spawn, Replaying
  <1>1. /\ step[t] < Len(program[t]) /\ program[t][step[t] + 1] = Call("create", c)
        /\ atomic_create = t
    BY <1>0 DEF Inv, ReplayInv, TurnInv, TurnOf, Creators
  <1>2. /\ step[t] + 1 \in DOMAIN program[t] /\ c \in Threads /\ Callee(t) = c /\ step[t] \in Nat
        /\ program[t][step[t] + 1].what = "create" /\ program[t][step[t] + 1].who = c
    <2>1. /\ step[t] + 1 \in DOMAIN program[t] /\ program[t][step[t] + 1].who \in Threads
          /\ step[t] \in Nat
      BY <1>0, <1>1, NextCall
    <2>2. program[t][step[t] + 1].what = "create" /\ program[t][step[t] + 1].who = c
      BY <1>1 DEF Call
    <2> QED BY <2>1, <2>2 DEF Callee
  <1>3. c \in DOMAIN createOrder /\ createOrder[c] = t /\ c \in Numbered /\ c \in Nat
    <2>1. c \in DOMAIN createOrder /\ createOrder[c] = t
      BY <1>0, <1>2 DEF OrderInv
    <2> QED BY <1>0, <1>2, <2>1, OrderType, Basics DEF Numbered
  <1>4. \A u \in Threads \ {t} : threadState[u] \notin Creators
    BY <1>0, OneCreator DEF Creators
  <1>5. pinIds = c
    <2>1. ~ \E u \in Threads : threadState[u] = "created"
      BY <1>0, <1>4 DEF Creators
    <2>2. pinIds = creates + (IF \E u \in Threads : threadState[u] = "created" THEN 1 ELSE 0)
      BY <1>0 DEF Inv, ReplayInv, TurnInv
    <2> QED BY <1>3, <2>1, <2>2
  <1>6. threadState[c] = "absent" /\ t # c
    <2>1. c >= pinIds
      BY <1>3, <1>5
    <2>2. TurnOf(c)
      BY <1>0, <1>2 DEF Inv, ReplayInv, TurnInv
    <2> QED BY <1>0, <2>1, <2>2 DEF TurnOf
  <1>7. /\ threadState' = [threadState EXCEPT ![t] = "created", ![c] = "load"]
        /\ tls' = [tls EXCEPT ![c] = NewTLS(c)] /\ pinIds' = c + 1
        /\ UNCHANGED <<phase, recorder, mutex, GRT, step, creates, atomic_create, failed>>
    BY <1>2, <1>5 DEF Spawn
  <1>8. NewTLS(c) \in TLS /\ NewTLS(c).tid = c
    BY <1>2 DEF NewTLS, TLS, ZeroClock, Clock
  <1>9. /\ tls \in [Threads -> TLS]
        /\ threadState \in [Threads -> {"absent", "new", "load", "start", "check",
                           "main", "run", "create", "created", "join", "exited"}]
    BY <1>0 DEF TypeOK
  <1> HIDE DEF c
  <1>10. /\ threadState'[t] = "created" /\ threadState'[c] = "load"
         /\ \A u \in Threads \ {t, c} : threadState'[u] = threadState[u]
         /\ tls'[c] = NewTLS(c) /\ \A u \in Threads \ {c} : tls'[u] = tls[u]
    BY <1>2, <1>6, <1>7, <1>9
  <1>11. Reading
    BY <1>0, <1>7 DEF Reading
  <1>12. /\ UNCHANGED <<phase, program, log, createOrder, ForkJoin, Numbered>>
         /\ Ungated(t)' = Ungated(t) /\ LogInv' /\ RecordInv' /\ DoneInv'
    BY <1>0, <1>11, Recorded
  <1>13. TypeOK'
    <2>1. tls' \in [Threads -> TLS]
      BY <1>7, <1>8, <1>9
    <2>2. threadState' \in [Threads -> {"absent", "new", "load", "start", "check",
                           "main", "run", "create", "created", "join", "exited"}]
      BY <1>7, <1>9
    <2>3. pinIds' \in Nat
      BY <1>3, <1>7
    <2> QED BY <1>0, <1>7, <2>1, <2>2, <2>3 DEF TypeOK, recorder
  <1>14. TurnInv'
    <2>0. UNCHANGED <<creates, step, atomic_create>> /\ pinIds' = c + 1
      BY <1>7
    <2>1. ASSUME NEW u \in Threads PROVE TurnOf(u)'
      <3>0. TurnOf(u) /\ u \in Nat
        BY <1>0, Basics DEF Inv, ReplayInv, TurnInv
      <3>1. CASE u = c
        <4>1. ~ (u >= pinIds')
          BY <1>3, <2>0, <3>1
        <4> QED BY <1>1, <1>3, <1>6, <1>8, <1>10, <1>12, <2>0, <3>0, <3>1, <4>1
               DEF TurnOf, Creators
      <3>2. CASE u = t
        <4>1. ~ (u >= pinIds) /\ ~ (u >= pinIds')
          BY <1>0, <1>3, <1>5, <2>0, <3>0, <3>2 DEF TurnOf
        <4> QED BY <1>0, <1>6, <1>10, <1>12, <2>0, <3>0, <3>2, <4>1 DEF TurnOf, Creators
      <3>3. CASE u \notin {t, c}
        <4>1. u >= pinIds <=> u >= pinIds'
          BY <1>3, <1>5, <2>0, <3>0, <3>3
        <4> QED BY <1>10, <1>12, <2>0, <3>0, <3>3, <4>1 DEF TurnOf
      <3> QED BY <3>1, <3>2, <3>3
    <2>2. \E u \in Threads : threadState'[u] = "created"
      BY <1>10
    <2>3. creates > 0
      BY <1>0 DEF Inv, ReplayInv, TurnInv
    <2> QED BY <2>0, <2>1, <2>2, <2>3 DEF TurnInv, c
  <1>15. PlaceInv'
    <2>0. UNCHANGED <<GRT, step>> /\ \A u \in Threads : PlaceOf(u)
      BY <1>0, <1>7 DEF Inv, ReplayInv, PlaceInv
    <2>1. ASSUME NEW u \in Threads PROVE PlaceOf(u)'
      <3>1. CASE u = c
        BY <1>6, <1>10, <2>0, <3>1 DEF PlaceOf, Going
      <3>2. CASE u = t
        <4>1. AtLine(t) /\ Ahead(t)
          BY <1>0, <2>0 DEF PlaceOf, Going
        <4>2. tls'[t] = tls[t]
          BY <1>6, <1>10
        <4>3. Made(t)' = Made(t) /\ Place(t)' = Place(t) /\ Passed(t)' = Passed(t)
          BY <1>0, <1>10, <1>12, <2>0, <4>2 DEF Made, Place, Passed
        <4>4. AtLine(t)' /\ Ahead(t)'
          BY <1>12, <2>0, <4>1, <4>2, <4>3 DEF AtLine, Ahead, E
        <4> QED BY <1>10, <3>2, <4>4 DEF PlaceOf, Going
      <3>3. CASE u \notin {t, c}
        <4>1. Stays(u)
          BY <1>10, <2>0, <3>3 DEF Stays
        <4> QED BY <1>0, <1>11, <2>0, <4>1, StaysKeeps
      <3> QED BY <3>1, <3>2, <3>3
    <2> QED BY <2>1 DEF PlaceInv
  <1>16. ChildInv'
    <2>1. ASSUME ForkJoin, NEW u \in Threads PROVE ChildOf(u)'
      <3>0. ChildOf(u)
        BY <1>0, <2>1 DEF Inv, ReplayInv, ChildInv
      <3>1. threadState'[u] # "create"
        BY <1>4, <1>10 DEF Creators
      <3>2. ASSUME NEW k \in DOMAIN program[u], program[u][k].what = "create",
                   threadState'[program[u][k].who] \in Newborn
            PROVE  tls'[u].childVCMap[program[u][k].who] = E(u, k)
        <4> DEFINE d == program[u][k].who
        <4>1. /\ d \in Threads /\ d \in DOMAIN createOrder /\ createOrder[d] = u
              /\ k \in Nat /\ d \in Nat
          BY <1>0, <3>2, CallsType, Basics DEF OrderInv
        <4>2. CASE d = c
          <5>1. u = t
            BY <1>3, <4>1, <4>2
          <5>2. ~ (k < step[t] + 1)
            <6>1. ASSUME k < step[t] + 1 PROVE d < c
              BY <1>0, <1>2, <3>2, <5>1, <6>1 DEF OrderInv
            <6> QED BY <1>3, <4>2, <6>1
          <5>3. ~ (step[t] + 1 < k)
            <6>1. ASSUME step[t] + 1 < k PROVE c < d
              BY <1>0, <1>2, <3>2, <5>1, <6>1 DEF OrderInv
            <6> QED BY <1>3, <4>2, <6>1
          <5>4. k = step[t] + 1
            BY <1>2, <4>1, <5>2, <5>3
          <5>5. tls[t].childVCMap[c] = E(t, step[t] + 1)
            BY <1>0, <3>0, <5>1 DEF ChildOf, c
          <5>6. tls'[t] = tls[t]
            BY <1>6, <1>10
          <5> QED BY <4>2, <5>1, <5>4, <5>5, <5>6
        <4>3. CASE d # c
          <5>1. d # t
            BY <1>10, <3>2 DEF Newborn
          <5>2. threadState[d] \in Newborn
            BY <1>10, <3>2, <4>1, <4>3, <5>1
          <5>3. u # c
            <6>1. ASSUME u = c PROVE threadState[d] = "absent"
              <7>1. c < d
                BY <1>0, <4>1, <6>1 DEF OrderInv
              <7>2. d >= pinIds
                BY <1>3, <1>5, <4>1, <7>1
              <7>3. TurnOf(d)
                BY <1>0, <4>1 DEF Inv, ReplayInv, TurnInv
              <7> QED BY <7>2, <7>3 DEF TurnOf
            <6> QED BY <5>2, <6>1 DEF Newborn
          <5>4. tls[u].childVCMap[d] = E(u, k)
            BY <3>0, <3>2, <5>2 DEF ChildOf
          <5>5. tls'[u] = tls[u]
            BY <1>10, <5>3
          <5> QED BY <5>4, <5>5
        <4> QED BY <4>2, <4>3
      <3> QED BY <1>12, <3>1, <3>2 DEF ChildOf, E
    <2> QED BY <1>12, <2>1 DEF ChildInv
  <1>17. ReplayAccepts'
    BY <1>7, <1>12 DEF Whole, ReplayAccepts
  <1> QED BY <1>7, <1>12, <1>13, <1>14, <1>15, <1>16, <1>17 DEF Whole, Inv, ReplayInv

LEMMA AfterCreateKeeps ==
    ASSUME Whole, NEW t \in Threads, AfterCreate(t)
    PROVE  Whole' /\ GRT' = GRT
  <1>0. /\ TypeOK /\ Inv /\ LogInv /\ DoneInv /\ phase = "replay" /\ threadState[t] = "created"
        /\ OrderInv /\ creates \in Nat
    BY DEF Whole, Inv, LogInv, AfterCreate, Replaying, TypeOK
  <1>1. /\ step[t] < Len(program[t]) /\ program[t][step[t] + 1] = Call("create", creates)
    BY <1>0 DEF Inv, ReplayInv, TurnInv, TurnOf, Creators
  <1>2. /\ step[t] + 1 \in DOMAIN program[t] /\ step[t] \in Nat /\ Len(program[t]) \in Nat
        /\ program[t][step[t] + 1].what = "create" /\ program[t][step[t] + 1].who = creates
    BY <1>0, <1>1, NextCall, CallsType DEF Call
  <1>3. creates \in DOMAIN createOrder /\ createOrder[creates] = t
    BY <1>0, <1>2 DEF OrderInv
  <1>4. \A u \in Threads \ {t} : threadState[u] \notin Creators
    BY <1>0, OneCreator DEF Creators
  <1>5. pinIds = creates + 1
    <2>1. pinIds = creates + (IF \E u \in Threads : threadState[u] = "created" THEN 1 ELSE 0)
      BY <1>0 DEF Inv, ReplayInv, TurnInv
    <2> QED BY <1>0, <2>1
  <1>6. /\ creates' = creates + 1 /\ atomic_create' = NO_ID
        /\ step' = [step EXCEPT ![t] = step[t] + 1]
        /\ threadState' = [threadState EXCEPT ![t] = "run"]
        /\ UNCHANGED <<phase, recorder, mutex, pinIds, tls, GRT, failed>>
    BY DEF AfterCreate, Called, Goto
  <1>7. /\ step'[t] = step[t] + 1 /\ threadState'[t] = "run"
        /\ \A u \in Threads \ {t} : step'[u] = step[u] /\ threadState'[u] = threadState[u]
    BY <1>0, <1>6 DEF TypeOK
  <1>8. Reading
    BY <1>0, <1>6 DEF Reading
  <1>9. UNCHANGED <<phase, program, log, createOrder, ForkJoin, Numbered>>
    BY <1>0, <1>8, Recorded
  <1>10. TypeOK'
    <2>1. step' \in [Threads -> Nat]
      <3>1. step[t] + 1 \in Nat
        BY <1>2
      <3> QED BY <1>0, <1>6, <3>1 DEF TypeOK
    <2>2. creates' \in Nat
      BY <1>0, <1>6
    <2> QED BY <1>0, <1>6, <2>1, <2>2 DEF TypeOK, recorder
  <1>11. TurnInv'
    <2>1. ASSUME NEW u \in Threads PROVE TurnOf(u)'
      <3>0. TurnOf(u) /\ u # NO_ID
        BY <1>0, Basics DEF Inv, ReplayInv, TurnInv
      <3>1. ASSUME NEW k \in DOMAIN program[u], program[u][k].what = "create"
            PROVE  k <= step'[u] <=> program[u][k].who < creates + 1
        <4> DEFINE d == program[u][k].who
        <4>1. d \in DOMAIN createOrder /\ createOrder[d] = u /\ k \in Nat /\ d \in Nat
          BY <1>0, <3>1, CallsType, Basics DEF OrderInv
        <4>2. k <= step[u] <=> d < creates
          BY <3>0, <3>1 DEF TurnOf
        <4>3. CASE u # t
          <5>1. d # creates
            BY <1>3, <4>1, <4>3
          <5> QED BY <1>0, <1>7, <4>1, <4>2, <4>3, <5>1
        <4>4. CASE u = t
          <5>1. k = step[t] + 1 => d = creates
            BY <1>2, <4>4
          <5>2. step[t] + 1 < k => creates < d
            BY <1>0, <1>2, <3>1, <4>4 DEF OrderInv
          <5> HIDE DEF d
          <5> QED BY <1>0, <1>2, <1>7, <4>1, <4>2, <4>4, <5>1, <5>2 DEF d
        <4> QED BY <4>3, <4>4
      <3>2. CASE u # t
        BY <1>4, <1>6, <1>7, <1>9, <3>0, <3>1, <3>2 DEF TurnOf
      <3>3. CASE u = t
        <4>1. step'[t] <= Len(program[t])
          BY <1>1, <1>2, <1>7
        <4> QED BY <1>0, <1>6, <1>7, <1>9, <3>0, <3>1, <3>3, <4>1 DEF TurnOf, Creators
      <3> QED BY <3>2, <3>3
    <2>2. \A u \in Threads : threadState'[u] # "created"
      BY <1>4, <1>7 DEF Creators
    <2>3. creates' > 0 /\ pinIds' = creates' /\ creates' \in Nat
      BY <1>0, <1>5, <1>6
    <2>4. pinIds' = creates' + (IF \E u \in Threads : threadState'[u] = "created"
                                THEN 1 ELSE 0)
      <3>1. ~ \E u \in Threads : threadState'[u] = "created"
        BY <2>2
      <3>2. \A i \in Nat : i = i + 0
        OBVIOUS
      <3>3. creates' = creates' + 0
        BY <2>3, <3>2, Zenon
      <3> QED BY <2>3, <3>1, <3>3, Zenon
    <2> QED BY <2>1, <2>3, <2>4 DEF TurnInv
  <1>12. ChildInv'
    <2>1. \A u \in Threads : threadState'[u] # "create"
      BY <1>4, <1>7 DEF Creators
    <2> QED BY <1>0, <1>6, <1>7, <1>8, <2>1, MapsKept DEF Newborn
  <1>13. PlaceOf(t)'
    <2>1. GRT'[t] = GRT[t] /\ tls'[t] = tls[t]
      BY <1>6
    <2> QED BY <1>0, <1>1, <1>2, <1>7, <1>8, <2>1, CallReturns
  <1>14. \A u \in Threads \ {t} : Stays(u)
    BY <1>6, <1>7 DEF Stays
  <1> QED BY <1>6, <1>8, <1>10, <1>11, <1>12, <1>13, <1>14, Collected

LEMMA BeforeJoinKeeps ==
    ASSUME Whole, NEW t \in Threads, BeforeJoin(t)
    PROVE  Whole'
  <1>0. /\ TypeOK /\ Inv /\ LogInv /\ DoneInv /\ phase = "replay" /\ threadState[t] = "run"
        /\ step[t] < Len(program[t]) /\ program[t][step[t] + 1].what = "join"
    BY DEF Whole, Inv, BeforeJoin, Calling, Replaying
  <1>1. tls[t].tid = t
    BY <1>0, Present
  <1> DEFINE r == advanceTRT(tls[t])
  <1>2. /\ GRT' = [GRT EXCEPT ![t] = tls[t].TRT[t]] /\ tls' = [tls EXCEPT ![t] = r]
        /\ threadState' = [threadState EXCEPT ![t] = "join"]
        /\ UNCHANGED <<phase, recorder, mutex, pinIds, step, creates, atomic_create, failed>>
    BY <1>1 DEF BeforeJoin, Goto, updateGRT
  <1>3. /\ tls \in [Threads -> TLS] /\ tls[t] \in TLS /\ GRT \in Clock /\ tls[t].TRT[t] \in Nat
        /\ threadState \in [Threads -> {"absent", "new", "load", "start", "check",
                           "main", "run", "create", "created", "join", "exited"}]
    BY <1>0, FileType DEF TypeOK
  <1>4. r \in TLS /\ r.tid = t /\ r.childVCMap = tls[t].childVCMap
    BY <1>1, <1>3, AdvanceTRT
  <1>5. /\ tls'[t] = r /\ threadState'[t] = "join" /\ GRT'[t] = tls[t].TRT[t]
        /\ \A u \in Threads \ {t} : /\ tls'[u] = tls[u] /\ threadState'[u] = threadState[u]
                                    /\ GRT'[u] = GRT[u]
        /\ GRT' \in Clock
    <2> HIDE DEF r
    <2> QED BY <1>2, <1>3 DEF Clock
  <1>6. Reading
    BY <1>0, <1>2 DEF Reading
  <1>7. PlaceOf(t)'
    <2>1. tls'[t] = advanceTRT(tls[t]) /\ step'[t] = step[t]
      BY <1>2, <1>5
    <2> QED BY <1>0, <1>3, <1>5, <1>6, <2>1, GatedCall
  <1> HIDE DEF r
  <1>8. TypeOK'
    <2>1. tls' \in [Threads -> TLS]
      BY <1>2, <1>3, <1>4
    <2> QED BY <1>0, <1>2, <1>5, <2>1 DEF TypeOK, recorder
  <1>9. TurnInv'
    <2>1. Quiet(t)
      BY <1>0, <1>1, <1>2, <1>4, <1>5 DEF Quiet, Creators
    <2> QED BY <1>0, <1>6, <2>1, QuietKeeps
  <1>10. ChildInv'
    BY <1>0, <1>2, <1>4, <1>5, <1>6, MapsKept DEF Newborn
  <1>11. \A u \in Threads \ {t} : Stays(u)
    BY <1>2, <1>5 DEF Stays
  <1> QED BY <1>2, <1>6, <1>7, <1>8, <1>9, <1>10, <1>11, Collected

LEMMA JoinReturnKeeps ==
    ASSUME Whole, NEW t \in Threads, JoinReturn(t)
    PROVE  Whole' /\ GRT' = GRT
  <1>0. /\ TypeOK /\ Inv /\ LogInv /\ DoneInv /\ phase = "replay" /\ threadState[t] = "join"
    BY DEF Whole, Inv, JoinReturn, Replaying
  <1>1. step[t] < Len(program[t]) /\ program[t][step[t] + 1].what = "join" /\ step[t] \in Nat
    BY <1>0, FileType DEF Inv, ReplayInv, TurnInv, TurnOf
  <1>2. /\ step' = [step EXCEPT ![t] = step[t] + 1]
        /\ threadState' = [threadState EXCEPT ![t] = "run"]
        /\ UNCHANGED <<phase, recorder, mutex, pinIds, tls, GRT, creates, atomic_create, failed>>
    BY DEF JoinReturn, Called, Goto
  <1>3. /\ step'[t] = step[t] + 1 /\ threadState'[t] = "run"
        /\ \A u \in Threads \ {t} : step'[u] = step[u] /\ threadState'[u] = threadState[u]
    BY <1>0, <1>2 DEF TypeOK
  <1>4. Reading
    BY <1>0, <1>2 DEF Reading
  <1>5. TypeOK'
    <2>1. step' \in [Threads -> Nat]
      <3>1. step[t] + 1 \in Nat
        BY <1>1
      <3> QED BY <1>0, <1>2, <3>1 DEF TypeOK
    <2> QED BY <1>0, <1>2, <2>1 DEF TypeOK, recorder
  <1>6. TurnInv'
    <2>1. Quiet(t)
      BY <1>0, <1>1, <1>2, <1>3 DEF Quiet, Creators
    <2> QED BY <1>0, <1>4, <2>1, QuietKeeps
  <1>7. ChildInv'
    BY <1>0, <1>2, <1>3, <1>4, MapsKept DEF Newborn
  <1>8. PlaceOf(t)'
    <2>1. GRT'[t] = GRT[t] /\ tls'[t] = tls[t]
      BY <1>2
    <2> QED BY <1>0, <1>1, <1>3, <1>4, <2>1, CallReturns
  <1>9. \A u \in Threads \ {t} : Stays(u)
    BY <1>2, <1>3 DEF Stays
  <1> QED BY <1>2, <1>4, <1>5, <1>6, <1>7, <1>8, <1>9, Collected

\* A mutex call reads no line: the thread falls back by one.
LEMMA LockCallKeeps ==
    ASSUME Whole, NEW t \in Threads, LockCall(t)
    PROVE  Whole' /\ GRT' = GRT
  <1>0. /\ TypeOK /\ Inv /\ LogInv /\ DoneInv /\ phase = "replay" /\ threadState[t] = "run"
        /\ step[t] < Len(program[t]) /\ program[t][step[t] + 1].what \in {"lock", "unlock"}
    BY DEF Whole, Inv, LockCall, Calling, Replaying
  <1>1. /\ step' = [step EXCEPT ![t] = step[t] + 1]
        /\ \/ mutex' = [mutex EXCEPT !.holder = t]
           \/ mutex' = [mutex EXCEPT !.holder = NO_ID]
        /\ UNCHANGED <<phase, recorder, threadState, pinIds, tls, GRT, creates,
                       atomic_create, failed>>
    BY DEF LockCall, Called
  <1>2. /\ step[t] + 1 \in DOMAIN program[t] /\ step[t] \in Nat /\ Len(program[t]) \in Nat
        /\ Place(t) \in Int /\ Len(log[t]) = Len(program[t]) + 1
    BY <1>0, NextCall, CallsType, FileType, Present
  <1>3. step'[t] = step[t] + 1 /\ \A u \in Threads \ {t} : step'[u] = step[u]
    BY <1>0, <1>1 DEF TypeOK
  <1>4. Reading
    BY <1>0, <1>1 DEF Reading
  <1>5. TypeOK'
    <2>1. step' \in [Threads -> Nat]
      <3>1. step[t] + 1 \in Nat
        BY <1>2
      <3> QED BY <1>0, <1>1, <3>1 DEF TypeOK
    <2>2. mutex' \in [holder : Threads \cup {NO_ID}, left : Clock, used : Nat]
      BY <1>0, <1>1 DEF TypeOK
    <2> QED BY <1>0, <1>1, <2>1, <2>2 DEF TypeOK, recorder
  <1>6. TurnInv'
    <2>1. Quiet(t)
      BY <1>0, <1>1, <1>3 DEF Quiet, Creators
    <2> QED BY <1>0, <1>4, <2>1, QuietKeeps
  <1>7. ChildInv'
    BY <1>0, <1>1, <1>3, <1>4, MapsKept DEF Newborn
  <1>8. PlaceOf(t)'
    <2>0. AtLine(t) /\ Ahead(t)
      BY <1>0 DEF Inv, ReplayInv, PlaceInv, PlaceOf, Going
    <2>1. log' = log /\ program' = program /\ Ungated(t)' = Ungated(t)
      BY <1>0, <1>4, Recorded
    <2>2. Place(t)' = Place(t) /\ Made(t) = step[t] /\ Made(t)' = step[t] + 1
      BY <1>0, <1>1, <1>2, <1>3, <2>1 DEF Place, Made
    <2>3. /\ Passed(t)' = Passed(t) \cup {step[t] + 1} /\ step[t] + 1 \notin Passed(t)
      <3>1. step[t] + 1 \in Ungated(t)
        BY <1>0, <1>2 DEF Ungated
      <3>2. \A i \in Ungated(t) : i \in Nat
        BY <1>0, CallsType DEF Ungated
      <3> QED BY <1>2, <1>3, <2>1, <3>1, <3>2 DEF Passed
    <2>4. Place(t) <= step[t] + 2
      <3>1. CASE Passed(t) = {}
        BY <1>0, <1>2, <2>0, <2>2, <3>1 DEF Ahead
      <3>2. CASE Passed(t) # {}
        <4>1. PICK i \in Passed(t) : TRUE
          BY <3>2
        <4> QED BY <1>2, <2>0, <2>2, <4>1 DEF Ahead
      <3> QED BY <3>1, <3>2
    <2>5. ASSUME NEW i \in Passed(t)', NEW j \in Passed(t)', i # j
          PROVE  Place(t) <= step[t] + 1
      <3>1. PICK l \in Passed(t) : TRUE
        BY <2>3, <2>5
      <3> QED BY <2>0, <2>2, <3>1 DEF Ahead
    <2>6. AtLine(t)'
      BY <1>1, <2>0, <2>1, <2>2 DEF AtLine, E
    <2>7. Made(t)' + 1 = step[t] + 2
      BY <1>2, <2>2
    <2>8. Ahead(t)'
      <3>1. Passed(t)' # {}
        BY <2>3
      <3> QED BY <2>2, <2>4, <2>5, <2>7, <3>1 DEF Ahead
    <2> QED BY <1>0, <1>1, <2>6, <2>8 DEF PlaceOf, Going
  <1>9. \A u \in Threads \ {t} : Stays(u)
    BY <1>1, <1>3 DEF Stays
  <1> QED BY <1>1, <1>4, <1>5, <1>6, <1>7, <1>8, <1>9, Collected

\* At its end a thread that has read its whole file has reached its last line.
LEMMA LastLine ==
    ASSUME TypeOK, Inv, phase = "replay", NEW t \in Threads, threadState[t] = "run",
           step[t] = Len(program[t])
    PROVE  /\ ForkJoin => tls[t].epochList = << >>
           /\ tls[t].epochList = << >> => Len(log[t]) \in DOMAIN log[t]
                                          /\ GRT[t] >= E(t, Len(log[t]))[t]
  <1>0. AtLine(t) /\ Ahead(t)
    BY DEF Inv, ReplayInv, PlaceInv, PlaceOf, Going
  <1>1. /\ Len(log[t]) = Len(program[t]) + 1 /\ Len(program[t]) \in Nat /\ Place(t) \in Int
        /\ DOMAIN log[t] = 1 .. Len(log[t]) /\ DOMAIN program[t] = 1 .. Len(program[t])
        /\ (tls[t].epochList = << >>) <=> (Place(t) = Len(log[t]))
    BY Present, CallsType, FileType
  <1>2. Made(t) = Len(program[t])
    BY <1>1 DEF Made
  <1>3. Passed(t) = Ungated(t)
    BY <1>1 DEF Passed, Ungated
  <1>4. ASSUME Passed(t) = {}
        PROVE  Place(t) = Len(log[t]) /\ GRT[t] >= E(t, Len(log[t]))[t]
    <2>1. /\ \/ Place(t) = Made(t) + 2
             \/ (Place(t) = Len(log[t]) /\ Made(t) = Len(program[t]))
          /\ GRT[t] >= E(t, Made(t) + 1)[t] /\ Place(t) \in DOMAIN log[t]
      BY <1>0, <1>4 DEF Ahead, AtLine
    <2>2. Made(t) + 1 = Len(log[t]) /\ Place(t) = Len(log[t])
      BY <1>1, <1>2, <2>1
    <2> QED BY <2>1, <2>2
  <1>5. ForkJoin => Passed(t) = {}
    BY <1>3 DEF ForkJoin, Ungated
  <1>6. ASSUME Passed(t) # {} PROVE Place(t) # Len(log[t])
    <2>1. PICK i \in Passed(t) : TRUE
      BY <1>6
    <2>2. PICK j \in Passed(t) : j # i
      BY <1>3, <2>1 DEF Inv, DoneInv
    <2>3. Place(t) <= Made(t)
      BY <1>0, <2>1, <2>2 DEF Ahead
    <2> QED BY <1>1, <1>2, <2>3
  <1> QED BY <1>1, <1>4, <1>5, <1>6

LEMMA FiniEnds ==
    ASSUME Whole, NEW t \in Threads, ThreadFini(t), tls[t].epochList = << >>
    PROVE  /\ Whole' /\ tls[t].TRT[t] + 1 = GRT'[t]
           /\ \A u \in Threads \ {t} : GRT'[u] = GRT[u]
  <1>0. /\ TypeOK /\ Inv /\ LogInv /\ DoneInv /\ phase = "replay" /\ threadState[t] = "run"
        /\ step[t] = Len(program[t])
    BY DEF Whole, Inv, ThreadFini, Replaying
  <1>1. tls[t].tid = t
    BY <1>0, Present
  <1> DEFINE a == advance(tls[t].TRT, t)
             r == [tls[t] EXCEPT !.TRT = a]
  <1>2. /\ tls' = [tls EXCEPT ![t].TRT = advance(@, t)]
        /\ GRT' = [GRT EXCEPT ![t] = tls'[t].TRT[t]]
        /\ threadState' = [threadState EXCEPT ![t] = "exited"]
        /\ UNCHANGED <<phase, recorder, mutex, pinIds, step, creates, atomic_create, failed>>
    BY <1>1 DEF ThreadFini, Goto, updateGRT
  <1>3. /\ tls \in [Threads -> TLS] /\ tls[t] \in TLS /\ GRT \in Clock /\ tls[t].TRT \in Clock
        /\ threadState \in [Threads -> {"absent", "new", "load", "start", "check",
                           "main", "run", "create", "created", "join", "exited"}]
    BY <1>0, FileType DEF TypeOK
  <1>4. a \in Clock /\ a[t] = tls[t].TRT[t] + 1 /\ a[t] \in Nat
    <2>1. a \in Clock /\ a[t] = tls[t].TRT[t] + 1
      BY <1>3, ClockOperations
    <2> HIDE DEF a
    <2> QED BY <2>1 DEF Clock
  <1>5. tls' = [tls EXCEPT ![t] = r]
    BY <1>2, <1>3
  <1> HIDE DEF a
  <1>6. r \in TLS /\ r.tid = t /\ r.childVCMap = tls[t].childVCMap /\ r.TRT = a
    BY <1>1, <1>3, <1>4 DEF TLS
  <1> HIDE DEF r
  <1>7. /\ tls'[t] = r /\ threadState'[t] = "exited"
        /\ \A u \in Threads \ {t} : tls'[u] = tls[u] /\ threadState'[u] = threadState[u]
    BY <1>2, <1>3, <1>5
  <1>8. GRT' = [GRT EXCEPT ![t] = a[t]]
    BY <1>2, <1>6, <1>7
  <1>9. GRT' \in Clock /\ GRT'[t] = a[t] /\ \A u \in Threads \ {t} : GRT'[u] = GRT[u]
    BY <1>3, <1>4, <1>8 DEF Clock
  <1>10. Reading
    BY <1>0, <1>2 DEF Reading
  <1>11. TypeOK'
    <2>1. tls' \in [Threads -> TLS]
      BY <1>3, <1>5, <1>6
    <2> QED BY <1>0, <1>2, <1>9, <2>1 DEF TypeOK, recorder
  <1>12. TurnInv'
    <2>1. Quiet(t)
      BY <1>0, <1>1, <1>2, <1>6, <1>7 DEF Quiet, Creators
    <2> QED BY <1>0, <1>10, <2>1, QuietKeeps
  <1>13. ChildInv'
    BY <1>0, <1>2, <1>6, <1>7, <1>10, MapsKept DEF Newborn
  <1>14. PlaceOf(t)'
    BY <1>7 DEF PlaceOf, Going
  <1>15. \A u \in Threads \ {t} : Stays(u)
    BY <1>2, <1>7, <1>9 DEF Stays
  <1>16. Whole'
    BY <1>2, <1>10, <1>11, <1>12, <1>13, <1>14, <1>15, Collected
  <1> QED BY <1>4, <1>9, <1>16

LEMMA FiniFails ==
    ASSUME Whole, NEW t \in Threads, ThreadFini(t), tls[t].epochList # << >>
    PROVE  Whole' /\ GRT' = GRT
  <1>0. /\ TypeOK /\ Inv /\ phase = "replay" /\ threadState[t] = "run"
        /\ step[t] = Len(program[t])
    BY DEF Whole, ThreadFini, Replaying
  <1>1. ~ ForkJoin
    BY <1>0, LastLine
  <1> QED BY <1>0, <1>1, FailKeeps DEF ThreadFini

LEMMA WholeKept == ASSUME Whole, [Next]_vars PROVE Whole'
  <1>0. TypeOK /\ Inv /\ ReplayAccepts
    BY DEF Whole
  <1>1. ASSUME NEW t \in Threads, RecordStep(t) PROVE Whole'
    <2>1. TypeOK' /\ Inv' /\ phase' = "record"
      BY <1>0, <1>1, RecordStepKeeps
    <2>2. failed' = ""
      BY <2>1 DEF Inv, RecordInv, Untouched
    <2> QED BY <2>1, <2>2 DEF Whole, ReplayAccepts
  <1>2. CASE StartReplay
    <2>1. TypeOK' /\ Inv'
      BY <1>0, <1>2, StartKeeps
    <2>2. failed' = ""
      BY <1>0, <1>2 DEF StartReplay, Inv, RecordInv, Untouched
    <2> QED BY <2>1, <2>2 DEF Whole, ReplayAccepts
  <1>3. ASSUME NEW t \in Threads, ReplayStep(t) PROVE Whole'
    BY <1>3, LoadKeeps, GateKeeps, StartChildKeeps, BeforeCreateKeeps, SpawnKeeps,
       AfterCreateKeeps, BeforeJoinKeeps, JoinReturnKeeps, LockCallKeeps, FiniEnds,
       FiniFails DEF ReplayStep
  <1>4. CASE UNCHANGED vars
    <2>1. UNCHANGED <<phase, program, vectorClock, log, createOrder, threadState, mutex,
                      pinIds, tls, GRT, step, creates, atomic_create, failed>>
      BY <1>4 DEF vars, recorder, replayer
    <2>2. TypeOK' /\ ReplayAccepts'
      BY <1>0, <2>1 DEF TypeOK, ReplayAccepts, ForkJoin
    <2>3. LogInv' /\ DoneInv'
      BY <1>0, <2>1 DEF Inv, LogInv, EpochsInv, OrderInv, BirthInv, DoneInv, E, Numbered, Ungated
    <2>4. RecordInv'
      <3>1. Untouched' <=> Untouched
        BY <2>1 DEF Untouched
      <3>2. ASSUME NEW u \in Threads, FileOf(u), SectionsOf(u), BirthsOf(u)
            PROVE  FileOf(u)' /\ SectionsOf(u)' /\ BirthsOf(u)'
        <4>1. FileOf(u)'
          BY <2>1, <3>2 DEF FileOf, E, Numbered
        <4>2. SectionsOf(u)'
          BY <2>1, <3>2 DEF SectionsOf, Ungated
        <4>3. BirthsOf(u)'
          BY <2>1, <3>2 DEF BirthsOf, E
        <4> QED BY <4>1, <4>2, <4>3
      <3> QED BY <1>0, <2>1, <3>1, <3>2 DEF Inv, RecordInv
    <2>5. TurnInv' /\ ChildInv'
      BY <1>0, <2>1 DEF Inv, ReplayInv, TurnInv, TurnOf, ChildInv, ChildOf, E, Numbered,
                        ForkJoin
    <2>6. PlaceInv'
      <3>1. ASSUME phase = "replay", NEW u \in Threads PROVE PlaceOf(u)'
        <4>1. Reading /\ Stays(u)
          BY <1>4, <2>1, <3>1 DEF Reading, Stays, vars
        <4>2. LogInv /\ DoneInv /\ PlaceOf(u)
          BY <1>0, <3>1 DEF Inv, ReplayInv, PlaceInv
        <4> QED BY <4>1, <4>2, StaysKeeps
      <3> QED BY <2>1, <3>1 DEF PlaceInv
    <2> QED BY <2>2, <2>3, <2>4, <2>5, <2>6 DEF Whole, Inv, ReplayInv
  <1> QED BY <1>1, <1>2, <1>3, <1>4, StartMainKeeps, BeforeMainKeeps DEF Next

-----------------------------------------------------------------------------
\* The cut.

LEMMA EpochNat ==
    ASSUME EpochsInv, NEW t \in Threads, NEW i \in DOMAIN log[t], NEW u \in Threads
    PROVE  E(t, i)[u] \in Nat
  BY EpochsType DEF Clock

LEMMA CutStays == ASSUME ConsistentCut, phase = "replay", UNCHANGED <<phase, log, GRT>>
                  PROVE  ConsistentCut'
  BY DEF ConsistentCut

\* A gate lets the cut grow by the line in TRT and by those before it.
LEMMA GateGrows ==
    ASSUME TypeOK, LogInv, phase = "replay", ConsistentCut, NEW t \in Threads, AtLine(t),
           lessThanGRT(tls[t].TRT, t), UNCHANGED <<phase, log>>,
           GRT' = [GRT EXCEPT ![t] = tls[t].TRT[t]]
    PROVE  ConsistentCut'
  <1>0. EpochsInv /\ GRT \in Clock
    BY DEF LogInv, TypeOK
  <1>1. /\ \A u \in Threads : GRT[u] \in Nat
        /\ GRT'[t] = tls[t].TRT[t] /\ \A u \in Threads \ {t} : GRT'[u] = GRT[u]
    BY <1>0 DEF Clock
  <1> DEFINE p == Place(t)
  <1>2. /\ p \in DOMAIN log[t] /\ tls[t].TRT = E(t, p) /\ GRT[t] <= E(t, p)[t]
    BY DEF AtLine
  <1>3. \A u \in Threads : E(t, p)[u] \in Nat
    BY <1>0, <1>2, EpochNat
  <1>4. \A u \in Threads : GRT[u] <= GRT'[u] /\ GRT'[u] \in Nat
    BY <1>1, <1>2, <1>3
  <1>5. \A u \in Threads : E(t, p)[u] <= GRT'[u]
    BY <1>1, <1>2, <1>3 DEF lessThanGRT
  <1> HIDE DEF p
  <1>6. ASSUME NEW u \in Threads, NEW v \in Threads, NEW i \in DOMAIN log[u],
               E(u, i)[u] <= GRT'[u]
        PROVE  E(u, i)[v] <= GRT'[v]
    <2>1. E(u, i)[v] \in Nat /\ E(u, i)[u] \in Nat
      BY <1>0, EpochNat
    <2>2. CASE u # t
      <3>1. E(u, i)[u] <= GRT[u]
        BY <1>1, <1>6, <2>2
      <3>2. E(u, i)[v] <= GRT[v]
        BY <3>1 DEF ConsistentCut, E
      <3> QED BY <1>1, <1>4, <2>1, <3>2
    <2>3. CASE u = t
      <3>1. ~ (p < i)
        <4>1. ASSUME p < i PROVE E(t, p)[t] < E(t, i)[t]
          BY <1>0, <1>2, <2>3, <4>1 DEF EpochsInv
        <4>2. E(t, i)[t] <= E(t, p)[t]
          BY <1>1, <1>2, <1>6, <2>3
        <4> QED BY <1>3, <2>1, <2>3, <4>1, <4>2
      <3>2. p \in Int /\ i \in Int
        BY <1>2, <2>3, FileType DEF p
      <3>3. E(t, i)[v] <= E(t, p)[v]
        <4>1. CASE i = p
          BY <1>3, <4>1
        <4>2. CASE i < p
          BY <1>0, <1>2, <2>3, <4>2 DEF EpochsInv
        <4> QED BY <3>1, <3>2, <4>1, <4>2
      <3> QED BY <1>3, <1>4, <1>5, <2>1, <2>3, <3>3
    <2> QED BY <2>2, <2>3
  <1> QED BY <1>6 DEF ConsistentCut, E

\* A thread ends with its component beyond its last line, which was reached.
LEMMA EndGrows ==
    ASSUME TypeOK, LogInv, phase = "replay", ConsistentCut, NEW t \in Threads,
           Len(log[t]) \in DOMAIN log[t], GRT[t] >= E(t, Len(log[t]))[t],
           UNCHANGED <<phase, log>>, E(t, Len(log[t]))[t] + 1 = GRT'[t],
           GRT[t] <= E(t, Len(log[t]))[t], \A u \in Threads \ {t} : GRT'[u] = GRT[u]
    PROVE  ConsistentCut'
  <1> DEFINE n == Len(log[t])
  <1>0. EpochsInv /\ \A u \in Threads : GRT[u] \in Nat
    BY DEF LogInv, TypeOK, Clock
  <1>1. /\ \A u \in Threads : E(t, n)[u] \in Nat
        /\ n \in Nat /\ DOMAIN log[t] = 1 .. n
    BY <1>0, EpochNat, FileType
  <1>2. \A u \in Threads : GRT[u] <= GRT'[u] /\ GRT'[u] \in Nat
    BY <1>0, <1>1
  <1>3. \A v \in Threads : E(t, n)[v] <= GRT[v]
    <2>1. E(t, n)[t] <= GRT[t]
      BY <1>0, <1>1
    <2> QED BY <2>1 DEF ConsistentCut, E
  <1> HIDE DEF n
  <1>4. ASSUME NEW u \in Threads, NEW v \in Threads, NEW i \in DOMAIN log[u],
               E(u, i)[u] <= GRT'[u]
        PROVE  E(u, i)[v] <= GRT'[v]
    <2>1. E(u, i)[v] \in Nat /\ E(u, i)[u] \in Nat
      BY <1>0, EpochNat
    <2>2. E(u, i)[v] <= GRT[v]
      <3>1. CASE u # t
        <4>1. E(u, i)[u] <= GRT[u]
          BY <1>4, <3>1
        <4> QED BY <4>1 DEF ConsistentCut, E
      <3>2. CASE u = t
        <4>1. CASE i = n
          BY <1>3, <3>2, <4>1
        <4>2. CASE i < n
          <5>1. E(t, i)[v] <= E(t, n)[v]
            BY <1>0, <3>2, <4>2 DEF EpochsInv, n
          <5> QED BY <1>0, <1>1, <1>3, <2>1, <3>2, <5>1
        <4> QED BY <1>1, <3>2, <4>1, <4>2
      <3> QED BY <3>1, <3>2
    <2> QED BY <1>0, <1>2, <2>1, <2>2
  <1> QED BY <1>4 DEF ConsistentCut, E

LEMMA CutKept == ASSUME Whole, ConsistentCut, [Next]_vars PROVE ConsistentCut'
  <1>0. TypeOK /\ Inv /\ LogInv
    BY DEF Whole, Inv
  <1>1. ASSUME NEW t \in Threads, RecordStep(t) PROVE ConsistentCut'
    BY <1>0, <1>1, RecordStepKeeps DEF ConsistentCut
  <1>2. CASE StartReplay
    <2>1. log' = log /\ GRT' = ZeroClock
      BY <1>0, <1>2 DEF StartReplay, recorder, Inv, RecordInv, Untouched
    <2>2. \A t \in Threads : GRT'[t] = 0
      BY <2>1 DEF ZeroClock
    <2>3. \A t \in Threads : \A i \in DOMAIN log[t] : E(t, i)[t] > 0 /\ E(t, i)[t] \in Nat
      BY <1>0, EpochNat DEF LogInv, EpochsInv
    <2>4. \A t \in Threads : \A i \in DOMAIN log[t] : ~ (E(t, i)[t] <= GRT'[t])
      BY <2>2, <2>3
    <2> QED BY <2>1, <2>4 DEF ConsistentCut, E
  <1>3. ASSUME NEW t \in Threads, ReplayStep(t) PROVE ConsistentCut'
    <2>0. phase = "replay" /\ threadState[t] # "absent"
      BY <1>3 DEF ReplayStep, LoadEpochs, StartGate, StartChild, BeforeCreate, Spawn,
                  AfterCreate, BeforeJoin, JoinReturn, LockCall, ThreadFini, Calling, Replaying
    <2>1. tls[t].tid = t
      BY <1>0, <2>0, Present
    <2>2. UNCHANGED <<phase, log>>
      BY <1>3 DEF ReplayStep, LoadEpochs, StartGate, StartChild, BeforeCreate, Spawn,
                  AfterCreate, BeforeJoin, JoinReturn, LockCall, ThreadFini, Fail, recorder
    <2>3. ASSUME GRT' = GRT PROVE ConsistentCut'
      BY <2>0, <2>2, <2>3, CutStays
    <2>4. ASSUME threadState[t] \in {"start", "run"}, lessThanGRT(tls[t].TRT, t),
                 GRT' = [GRT EXCEPT ![t] = tls[t].TRT[t]]
          PROVE  ConsistentCut'
      <3>1. AtLine(t)
        BY <1>0, <2>0, <2>4 DEF Inv, ReplayInv, PlaceInv, PlaceOf, Going
      <3> QED BY <1>0, <2>0, <2>2, <2>4, <3>1, GateGrows
    <2>5. CASE StartGate(t)
      BY <2>1, <2>4, <2>5 DEF StartGate, Replaying, updateGRT
    <2>6. CASE BeforeCreate(t)
      BY <2>1, <2>3, <2>4, <2>6 DEF BeforeCreate, Calling, Replaying, updateGRT, Fail
    <2>7. CASE BeforeJoin(t)
      BY <2>1, <2>4, <2>7 DEF BeforeJoin, Calling, Replaying, updateGRT
    <2>8. CASE ThreadFini(t) /\ tls[t].epochList = << >>
      <3>0. threadState[t] = "run" /\ step[t] = Len(program[t])
        BY <2>8 DEF ThreadFini, Replaying
      <3>1. tls[t].TRT[t] + 1 = GRT'[t] /\ \A u \in Threads \ {t} : GRT'[u] = GRT[u]
        BY <2>8, FiniEnds
      <3>2. Len(log[t]) \in DOMAIN log[t] /\ GRT[t] >= E(t, Len(log[t]))[t]
        BY <1>0, <2>0, <2>8, <3>0, LastLine
      <3>3. AtLine(t) /\ Place(t) = Len(log[t])
        <4>1. AtLine(t)
          BY <1>0, <2>0, <3>0 DEF Inv, ReplayInv, PlaceInv, PlaceOf, Going
        <4> QED BY <1>0, <2>8, <4>1, FileType
      <3>4. tls[t].TRT = E(t, Len(log[t])) /\ GRT[t] <= E(t, Len(log[t]))[t]
        BY <3>3 DEF AtLine
      <3> QED BY <1>0, <2>0, <2>2, <3>1, <3>2, <3>4, EndGrows
    <2>9. CASE ThreadFini(t) /\ tls[t].epochList # << >>
      BY <2>3, <2>9, FiniFails
    <2> QED BY <1>3, <2>3, <2>5, <2>6, <2>7, <2>8, <2>9, LoadKeeps, StartChildKeeps,
               SpawnKeeps, AfterCreateKeeps, JoinReturnKeeps, LockCallKeeps DEF ReplayStep
  <1>4. ASSUME StartMain \/ BeforeMain PROVE ConsistentCut'
    <2>1. phase = "replay" /\ UNCHANGED <<phase, log>>
      BY <1>4 DEF StartMain, BeforeMain, Replaying, recorder, Fail
    <2>2. GRT' = GRT
      BY <1>4, StartMainKeeps, BeforeMainKeeps
    <2> QED BY <2>1, <2>2, CutStays
  <1>5. CASE UNCHANGED vars
    <2>1. UNCHANGED <<phase, log, GRT>>
      BY <1>5 DEF vars, recorder, replayer
    <2> QED BY <2>1 DEF ConsistentCut
  <1> QED BY <1>1, <1>2, <1>3, <1>4, <1>5 DEF Next

-----------------------------------------------------------------------------
\* The theorems.

LEMMA WholeIsInvariant == Spec => [](Whole /\ ConsistentCut)
  <1>1. Init => Whole /\ ConsistentCut
    BY InitHolds DEF Whole, Init, ReplayAccepts, ConsistentCut
  <1>2. Whole /\ ConsistentCut /\ [Next]_vars => (Whole /\ ConsistentCut)'
    BY WholeKept, CutKept
  <1> QED BY <1>1, <1>2, PTL DEF Spec

\* The variables of recorder and replayer keep their types: what is read from a
\* file is a clock, and every index is that of a thread.
THEOREM ReplayTypes == Spec => []TypeOK
  <1>1. Whole /\ ConsistentCut => TypeOK
    BY DEF Whole
  <1> QED BY <1>1, WholeIsInvariant, PTL

\* A replayed thread gets the id it had in the recording, for any number of
\* threads: BeforeCreate lets a thread create only in the recorded order, and no
\* other thread comes between it and the start of the new thread.
THEOREM IdsAreKept == Spec => []SameIds
  <1>1. Whole /\ ConsistentCut => SameIds
    BY DEF Whole, Inv, ReplayInv, TurnInv, TurnOf, SameIds
  <1> QED BY <1>1, WholeIsInvariant, PTL

\* No assertion of the replayer fails on the recording of a fork-join program with
\* at least one creation.
THEOREM NoAssertionFails == Spec => []ReplayAccepts
  <1>1. Whole /\ ConsistentCut => ReplayAccepts
    BY DEF Whole
  <1> QED BY <1>1, WholeIsInvariant, PTL

\* GRT is a consistent cut of the recording at every moment of the replay, also
\* for programs that use the mutex, whose replay may stop at an assertion.
THEOREM CutIsConsistent == Spec => []ConsistentCut
  <1>1. Whole /\ ConsistentCut => ConsistentCut
    OBVIOUS
  <1> QED BY <1>1, WholeIsInvariant, PTL
===============================================================================
