---------------------------- MODULE PinLocksProofs ----------------------------
(***************************************************************************)
(* Proofs about PinLocks: every lock has the owner its handler expects,    *)
(* and shared data is used under its lock, for every number of threads.    *)
(***************************************************************************)
EXTENDS PinLocks, SequenceTheorems, TLAPS

-----------------------------------------------------------------------------
\* The operations handlers are made of, and the lock of each piece of data.

Data ==
    {"recordFile", "rdm", "threadIdMap", "threadCreateOrder", "joinVCMap",
     "finalClock", "lastCreatedThread", "pthreadPinIdMap", "unlockedThreadMap",
     "notifiedThreadMap", "barrierWaitMap", "barrierData", "vectorClock"}

Ops == [do : {"get", "release", "read", "write", "spawn", "poll", "wait", "abort"},
        on : PinLock \cup Data \cup {"child", "thread", "tool"},
        of : Threads \cup {NO_ID}]

LockOf ==
    [d \in Data |->
        CASE d = "recordFile" -> "recordLock"
          [] d \in {"rdm", "unlockedThreadMap", "notifiedThreadMap"} -> "rdmLock"
          [] d \in {"barrierWaitMap", "barrierData"} -> "barrierLock"
          [] OTHER -> "threadIdMapLock"]

\* Handler h uses d under the lock of d.  The clocks have none.
Guarded(h, d) ==
    /\ d \in Data \ {"vectorClock", "finalClock"}
    /\ d = "rdm" => h \notin RdmWithoutItsLock
    /\ d = "recordFile" => h \notin RecordWithoutItsLock

IsUse(x) == x.do \in {"read", "write"}

\* An operation that sets lastCreatedThread.
Announces(x) == x.do = "write" /\ x.on = "lastCreatedThread"

\* What handler h of thread t, whose parent is p, may do at all.  A clock is
\* written by its own thread, and read by the child only, in ThreadStart; a final
\* clock is written by its own thread and read in a join only.
MayDo(t, p, h, x) ==
    /\ x.do \in {"get", "release"} <=> x.on \in PinLock
    /\ x.on = "vectorClock" =>
          \/ x.do = "write" /\ x.of = t
          \/ x.do = "read" /\ x.of = p /\ p \in Threads /\ h = "ThreadStart"
    /\ x.on = "joinVCMap" => x.of \in Threads
    /\ x.on = "finalClock" =>
          /\ x.of \in Threads
          /\ x.do = "write" => x.of = t
          /\ x.do = "read" => h = "pthread_join"
    /\ x.do = "poll" => x.on = "lastCreatedThread"
    /\ x.do = "spawn" <=> x.on = "child"
    /\ x.do = "wait" <=> x.on = "thread"
    /\ x.do = "abort" <=> x.on = "tool"
    /\ x.on \in {"child", "atomicCreate"} => h = "pthread_create"
    /\ x.do = "poll" => h = "pthread_create"
    /\ x.on = "lastCreatedThread" =>
          h \in {"pthread_create", "ThreadStart"} /\ x.do \in {"write", "poll"}

-----------------------------------------------------------------------------
\* Sequences of operations.

Gets(s, i, l) == s[i].do = "get" /\ s[i].on = l
Releases(s, i, l) == s[i].do = "release" /\ s[i].on = l

\* From i on, s releases l before it takes it: l is held at i.
Held(s, i, l) ==
    \E k \in i .. Len(s) :
        Releases(s, k, l) /\ \A j \in i .. k : ~ Gets(s, j, l)

\* The rest s of a handler, entered with the locks of H for its whole length,
\* takes no lock twice, has what it takes until it releases it, and uses data
\* under the lock of the data.
Disciplined(h, s, H) ==
    \A i \in 1 .. Len(s) :
        /\ s[i].do = "get" => s[i].on \notin H /\ Held(s, i + 1, s[i].on)
        /\ s[i].do = "release" => s[i].on \notin H /\ ~ Held(s, i + 1, s[i].on)
        /\ (IsUse(s[i]) /\ Guarded(h, s[i].on)) =>
              LockOf[s[i].on] \in H \/ Held(s, i, LockOf[s[i].on])

Allowed(t, p, h, s) == \A i \in 1 .. Len(s) : MayDo(t, p, h, s[i])

\* A whole handler, or a part of it, that gives back all it takes.
Balanced(t, p, h, s, H) ==
    /\ s \in Seq(Ops)
    /\ Disciplined(h, s, H) /\ Allowed(t, p, h, s)
    /\ \A l \in PinLock : ~ Held(s, 1, l)

LEMMA NothingIsBalanced ==
    ASSUME NEW t, NEW p, NEW h, NEW H
    PROVE  Balanced(t, p, h, << >>, H)
  BY DEF Balanced, Disciplined, Allowed, Held

\* An access that handler h may make where the locks of H are held.
Fits(t, p, h, H, x) ==
    /\ x \in Ops /\ x.do \notin {"get", "release"} /\ MayDo(t, p, h, x)
    /\ (IsUse(x) /\ Guarded(h, x.on)) => LockOf[x.on] \in H

LEMMA AccessesAreBalanced ==
    ASSUME NEW t, NEW p, NEW h, NEW H, NEW s \in Seq(Ops),
           \A i \in 1 .. Len(s) : Fits(t, p, h, H, s[i])
    PROVE  Balanced(t, p, h, s, H)
  <1>1. \A l : ~ Held(s, 1, l)
    BY DEF Held, Releases, Fits
  <1>2. Disciplined(h, s, H)
    BY DEF Disciplined, Fits
  <1>3. Allowed(t, p, h, s)
    BY DEF Allowed, Fits
  <1> QED
    BY <1>1, <1>2, <1>3 DEF Balanced

LEMMA AccessIsBalanced ==
    ASSUME NEW t, NEW p, NEW h, NEW H, NEW x, Fits(t, p, h, H, x)
    PROVE  Balanced(t, p, h, <<x>>, H)
  <1> DEFINE s == <<x>>
  <1>1. s \in Seq(Ops) /\ Len(s) = 1 /\ s[1] = x
    BY DEF Fits
  <1> HIDE DEF s
  <1>2. Balanced(t, p, h, s, H)
    BY <1>1, AccessesAreBalanced
  <1> QED
    BY <1>2 DEF s

LEMMA PairIsBalanced ==
    ASSUME NEW t, NEW p, NEW h, NEW H, NEW x, NEW y,
           Fits(t, p, h, H, x), Fits(t, p, h, H, y)
    PROVE  Balanced(t, p, h, <<x, y>>, H)
  <1> DEFINE s == <<x, y>>
  <1>1. s \in Seq(Ops) /\ Len(s) = 2 /\ s[1] = x /\ s[2] = y
    BY DEF Fits
  <1> HIDE DEF s
  <1>2. \A i \in 1 .. Len(s) : Fits(t, p, h, H, s[i])
    <2>1. \A i \in 1 .. Len(s) : i = 1 \/ i = 2
      BY <1>1
    <2> QED
      BY <1>1, <2>1
  <1>3. Balanced(t, p, h, s, H)
    BY <1>1, <1>2, AccessesAreBalanced
  <1> QED
    BY <1>3 DEF s

\* What is held in the two parts of a sequence.
LEMMA HeldInConcat ==
    ASSUME NEW a \in Seq(Ops), NEW b \in Seq(Ops), NEW l
    PROVE  /\ \A i \in 1 .. Len(a) : Held(a, i, l) => Held(a \o b, i, l)
           /\ \A i \in 1 .. Len(a) + 1 : Held(a \o b, i, l) => Held(a, i, l) \/ Held(b, 1, l)
           /\ \A i \in 1 .. Len(b) + 1 : Held(a \o b, Len(a) + i, l) <=> Held(b, i, l)
  <1> DEFINE c == a \o b
  <1>1. /\ c \in Seq(Ops) /\ Len(c) = Len(a) + Len(b)
        /\ Len(a) \in Nat /\ Len(b) \in Nat
        /\ \A i \in 1 .. Len(a) : c[i] = a[i]
        /\ \A i \in 1 .. Len(b) : c[Len(a) + i] = b[i]
    BY ConcatProperties, LenProperties
  <1> HIDE DEF c
  <1>2. ASSUME NEW i \in 1 .. Len(a), Held(a, i, l)
        PROVE  Held(c, i, l)
    <2>1. PICK k \in i .. Len(a) :
            Releases(a, k, l) /\ \A j \in i .. k : ~ Gets(a, j, l)
      BY <1>2 DEF Held
    <2>2. k \in i .. Len(c) /\ k \in 1 .. Len(a)
      BY <1>1, <2>1
    <2>3. Releases(c, k, l)
      BY <1>1, <2>1, <2>2 DEF Releases
    <2>4. ASSUME NEW j \in i .. k PROVE ~ Gets(c, j, l)
      <3>1. j \in 1 .. Len(a)
        BY <1>1, <2>2
      <3> QED
        BY <1>1, <2>1, <3>1 DEF Gets
    <2> QED
      BY <2>2, <2>3, <2>4 DEF Held
  <1>3. ASSUME NEW i \in 1 .. Len(a) + 1, Held(c, i, l), ~ Held(a, i, l)
        PROVE  Held(b, 1, l)
    <2>1. PICK k \in i .. Len(c) :
            Releases(c, k, l) /\ \A j \in i .. k : ~ Gets(c, j, l)
      BY <1>3 DEF Held
    <2>2. k > Len(a)
      <3> SUFFICES ASSUME k <= Len(a) PROVE FALSE
        BY <1>1, <2>1
      <3>1. k \in 1 .. Len(a) /\ k \in i .. Len(a)
        BY <1>1, <2>1
      <3>2. Releases(a, k, l)
        BY <1>1, <2>1, <3>1 DEF Releases
      <3>3. ASSUME NEW j \in i .. k PROVE ~ Gets(a, j, l)
        <4>1. j \in 1 .. Len(a)
          BY <1>1, <3>1
        <4> QED
          BY <1>1, <2>1, <4>1 DEF Gets
      <3> QED
        BY <3>1, <3>2, <3>3, <1>3 DEF Held
    <2> DEFINE m == k - Len(a)
    <2>3. m \in 1 .. Len(b) /\ k = Len(a) + m
      BY <1>1, <2>1, <2>2
    <2>4. Releases(b, m, l)
      BY <1>1, <2>1, <2>3 DEF Releases
    <2>5. ASSUME NEW j \in 1 .. m PROVE ~ Gets(b, j, l)
      <3>1. Len(a) + j \in i .. k /\ c[Len(a) + j] = b[j]
        BY <1>1, <2>3
      <3> QED
        BY <3>1, <2>1 DEF Gets
    <2> QED
      BY <2>3, <2>4, <2>5 DEF Held
  <1>4. ASSUME NEW i \in 1 .. Len(b) + 1
        PROVE  Held(c, Len(a) + i, l) <=> Held(b, i, l)
    <2>1. ASSUME Held(b, i, l) PROVE Held(c, Len(a) + i, l)
      <3>1. PICK k \in i .. Len(b) :
              Releases(b, k, l) /\ \A j \in i .. k : ~ Gets(b, j, l)
        BY <2>1 DEF Held
      <3>2. Len(a) + k \in Len(a) + i .. Len(c) /\ Releases(c, Len(a) + k, l)
        BY <1>1, <3>1 DEF Releases
      <3>3. ASSUME NEW j \in Len(a) + i .. Len(a) + k PROVE ~ Gets(c, j, l)
        <4>1. j - Len(a) \in i .. k /\ j = Len(a) + (j - Len(a))
          BY <1>1, <3>1
        <4>2. c[j] = b[j - Len(a)]
          BY <1>1, <4>1, <3>1
        <4> QED
          BY <4>1, <4>2, <3>1 DEF Gets
      <3> QED
        BY <3>2, <3>3 DEF Held
    <2>2. ASSUME Held(c, Len(a) + i, l) PROVE Held(b, i, l)
      <3>1. PICK k \in Len(a) + i .. Len(c) :
              Releases(c, k, l) /\ \A j \in Len(a) + i .. k : ~ Gets(c, j, l)
        BY <2>2 DEF Held
      <3> DEFINE m == k - Len(a)
      <3>2. m \in i .. Len(b) /\ k = Len(a) + m
        BY <1>1, <3>1
      <3>3. Releases(b, m, l)
        BY <1>1, <3>1, <3>2 DEF Releases
      <3>4. ASSUME NEW j \in i .. m PROVE ~ Gets(b, j, l)
        <4>1. Len(a) + j \in Len(a) + i .. k /\ c[Len(a) + j] = b[j]
          BY <1>1, <3>2
        <4> QED
          BY <4>1, <3>1 DEF Gets
      <3> QED
        BY <3>2, <3>3, <3>4 DEF Held
    <2> QED
      BY <2>1, <2>2
  <1> QED
    BY <1>2, <1>3, <1>4 DEF c

\* One part after the other.
LEMMA ConcatIsBalanced ==
    ASSUME NEW t, NEW p, NEW h, NEW H, NEW a, NEW b,
           Balanced(t, p, h, a, H), Balanced(t, p, h, b, H), H \subseteq PinLock
    PROVE  Balanced(t, p, h, a \o b, H)
  <1> DEFINE c == a \o b
  <1>1. /\ c \in Seq(Ops) /\ a \in Seq(Ops) /\ b \in Seq(Ops)
        /\ Len(c) = Len(a) + Len(b)
        /\ Len(a) \in Nat /\ Len(b) \in Nat
        /\ \A i \in 1 .. Len(a) : c[i] = a[i]
        /\ \A i \in 1 .. Len(b) : c[Len(a) + i] = b[i]
    BY ConcatProperties, LenProperties DEF Balanced
  <1>2. \A l :
          /\ \A i \in 1 .. Len(a) : Held(a, i, l) => Held(c, i, l)
          /\ \A i \in 1 .. Len(a) + 1 : Held(c, i, l) => Held(a, i, l) \/ Held(b, 1, l)
          /\ \A i \in 1 .. Len(b) + 1 : Held(c, Len(a) + i, l) <=> Held(b, i, l)
    BY <1>1, HeldInConcat
  <1> HIDE DEF c
  <1>3. ASSUME NEW i \in 1 .. Len(c)
        PROVE  \/ i \in 1 .. Len(a) /\ c[i] = a[i]
               \/ \E m \in 1 .. Len(b) : i = Len(a) + m /\ c[i] = b[m]
    <2>1. CASE i <= Len(a)
      BY <1>1, <2>1
    <2>2. CASE i > Len(a)
      <3>1. i - Len(a) \in 1 .. Len(b) /\ i = Len(a) + (i - Len(a))
        BY <1>1, <2>2
      <3> QED
        BY <3>1, <1>1
    <2> QED
      BY <1>1, <2>1, <2>2
  <1>4. Allowed(t, p, h, c)
    BY <1>3 DEF Allowed, Balanced
  <1>5. \A l \in PinLock : ~ Held(c, 1, l)
    <2> SUFFICES ASSUME NEW l \in PinLock PROVE ~ Held(c, 1, l)
      OBVIOUS
    <2>1. ~ Held(a, 1, l) /\ ~ Held(b, 1, l)
      BY DEF Balanced
    <2> QED
      BY <1>1, <1>2, <2>1
  <1>6. \A x \in Ops : MayDo(t, p, h, x) /\ x.do \in {"get", "release"} => x.on \in PinLock
    BY DEF MayDo
  <1>7. ASSUME NEW i \in 1 .. Len(c)
        PROVE  /\ c[i].do = "get" => c[i].on \notin H /\ Held(c, i + 1, c[i].on)
               /\ c[i].do = "release" => c[i].on \notin H /\ ~ Held(c, i + 1, c[i].on)
               /\ (IsUse(c[i]) /\ Guarded(h, c[i].on)) =>
                     LockOf[c[i].on] \in H \/ Held(c, i, LockOf[c[i].on])
    <2>0. MayDo(t, p, h, c[i])
      BY <1>4 DEF Allowed
    <2>1. CASE i \in 1 .. Len(a) /\ c[i] = a[i]
      <3>1. /\ a[i].do = "get" => a[i].on \notin H /\ Held(a, i + 1, a[i].on)
            /\ a[i].do = "release" => a[i].on \notin H /\ ~ Held(a, i + 1, a[i].on)
            /\ (IsUse(a[i]) /\ Guarded(h, a[i].on)) =>
                  LockOf[a[i].on] \in H \/ Held(a, i, LockOf[a[i].on])
        BY <2>1 DEF Balanced, Disciplined
      <3>2. ASSUME c[i].do = "get" PROVE Held(c, i + 1, c[i].on)
        <4>1. Held(a, i + 1, a[i].on)
          BY <2>1, <3>1, <3>2
        <4>2. i + 1 \in 1 .. Len(a)
          BY <1>1, <2>1, <4>1 DEF Held
        <4> QED
          BY <4>1, <4>2, <1>2, <2>1
      <3>3. ASSUME c[i].do = "release" PROVE ~ Held(c, i + 1, c[i].on)
        <4>1. ~ Held(a, i + 1, a[i].on)
          BY <2>1, <3>1, <3>3
        <4>2. i + 1 \in 1 .. Len(a) + 1
          BY <1>1, <2>1
        <4>3. ~ Held(b, 1, a[i].on)
          BY <2>0, <2>1, <3>3 DEF Balanced, MayDo
        <4> QED
          BY <4>1, <4>2, <4>3, <1>2, <2>1
      <3> QED
        BY <2>1, <3>1, <3>2, <3>3, <1>2
    <2>2. CASE \E m \in 1 .. Len(b) : i = Len(a) + m /\ c[i] = b[m]
      <3>1. PICK m \in 1 .. Len(b) : i = Len(a) + m /\ c[i] = b[m]
        BY <2>2
      <3>2. /\ b[m].do = "get" => b[m].on \notin H /\ Held(b, m + 1, b[m].on)
            /\ b[m].do = "release" => b[m].on \notin H /\ ~ Held(b, m + 1, b[m].on)
            /\ (IsUse(b[m]) /\ Guarded(h, b[m].on)) =>
                  LockOf[b[m].on] \in H \/ Held(b, m, LockOf[b[m].on])
        BY DEF Balanced, Disciplined
      <3>3. /\ m \in 1 .. Len(b) + 1 /\ m + 1 \in 1 .. Len(b) + 1
            /\ i + 1 = Len(a) + (m + 1)
        BY <1>1, <3>1
      <3>4. \A l : (Held(c, i, l) <=> Held(b, m, l)) /\ (Held(c, i + 1, l) <=> Held(b, m + 1, l))
        BY <1>2, <3>1, <3>3
      <3> QED
        BY <3>1, <3>2, <3>4
    <2> QED
      BY <1>3, <2>1, <2>2
  <1>8. Disciplined(h, c, H)
    BY <1>7 DEF Disciplined
  <1>9. Balanced(t, p, h, c, H)
    BY <1>1, <1>4, <1>5, <1>8 DEF Balanced
  <1> QED
    BY <1>9 DEF c

\* A part between GetLock and ReleaseLock.
LEMMA LockedIsBalanced ==
    ASSUME NEW t, NEW p, NEW h, NEW H, NEW G, NEW l \in PinLock, NEW s,
           H \subseteq PinLock, l \notin H, G = H \cup {l},
           l = "atomicCreate" => h = "pthread_create",
           Balanced(t, p, h, s, G)
    PROVE  Balanced(t, p, h, Locked(l, s), H)
  <1> DEFINE g == Uses("get", l)
             r == Uses("release", l)
             c == Locked(l, s)
             n == Len(s)
  <1>1. g \in Ops /\ r \in Ops /\ s \in Seq(Ops) /\ n \in Nat
    BY LenProperties DEF Balanced, Uses, Op, Ops
  <1>2. <<g>> \o s \in Seq(Ops) /\ Len(<<g>> \o s) = n + 1
        /\ (<<g>> \o s)[1] = g
        /\ \A i \in 1 .. n : (<<g>> \o s)[i + 1] = s[i]
    BY <1>1, SMT
  <1>3. /\ c \in Seq(Ops) /\ Len(c) = n + 2
        /\ c[1] = g /\ c[n + 2] = r
        /\ \A i \in 1 .. n : c[i + 1] = s[i]
    <2>1. c = (<<g>> \o s) \o <<r>>
      BY DEF Locked
    <2> HIDE DEF c
    <2> DEFINE a == <<g>> \o s
    <2> HIDE DEF a
    <2>2. /\ a \o <<r>> \in Seq(Ops) /\ Len(a \o <<r>>) = Len(a) + 1
          /\ \A i \in 1 .. Len(a) : (a \o <<r>>)[i] = a[i]
          /\ (a \o <<r>>)[Len(a) + 1] = r
      BY <1>1, <1>2, SMT DEF a
    <2> QED
      BY <2>1, <2>2, <1>1, <1>2 DEF a
  <1>4. g.do = "get" /\ g.on = l /\ r.do = "release" /\ r.on = l
    BY DEF Uses, Op
  <1>5. MayDo(t, p, h, g) /\ MayDo(t, p, h, r)
    BY DEF MayDo, Uses, Op, PinLock
  <1> HIDE DEF g, r, c
  <1>6. \A i \in 1 .. n : s[i].on # l \/ s[i].do \notin {"get", "release"}
    BY DEF Balanced, Disciplined, n
  <1>7. ASSUME NEW i \in 2 .. n + 2 PROVE Held(c, i, l)
    <2>1. n + 2 \in i .. Len(c) /\ Releases(c, n + 2, l)
      BY <1>1, <1>3, <1>4 DEF Releases
    <2>2. ASSUME NEW j \in i .. n + 2 PROVE ~ Gets(c, j, l)
      <3>1. CASE j = n + 2
        BY <3>1, <1>3, <1>4 DEF Gets
      <3>2. CASE j # n + 2
        <4>1. j - 1 \in 1 .. n /\ j = (j - 1) + 1
          BY <3>2, <1>1
        <4>2. c[j] = s[j - 1]
          BY <4>1, <1>3
        <4> QED
          BY <4>1, <4>2, <1>6 DEF Gets
      <3> QED
        BY <3>1, <3>2
    <2> QED
      BY <2>1, <2>2 DEF Held
  <1>8. ASSUME NEW x, x # l, NEW i \in 1 .. n + 1
        PROVE  Held(c, i + 1, x) <=> Held(s, i, x)
    <2>1. ASSUME Held(s, i, x) PROVE Held(c, i + 1, x)
      <3>1. PICK k \in i .. n : Releases(s, k, x) /\ \A j \in i .. k : ~ Gets(s, j, x)
        BY <2>1 DEF Held
      <3>2. k \in 1 .. n /\ k + 1 \in i + 1 .. Len(c)
        BY <1>1, <1>3, <3>1
      <3>3. Releases(c, k + 1, x)
        BY <1>3, <3>1, <3>2 DEF Releases
      <3>4. ASSUME NEW j \in i + 1 .. k + 1 PROVE ~ Gets(c, j, x)
        <4>1. j - 1 \in i .. k /\ j - 1 \in 1 .. n /\ j = (j - 1) + 1
          BY <1>1, <3>1, <3>2
        <4>2. c[j] = s[j - 1]
          BY <4>1, <1>3
        <4> QED
          BY <4>1, <4>2, <3>1 DEF Gets
      <3> QED
        BY <3>2, <3>3, <3>4 DEF Held
    <2>2. ASSUME Held(c, i + 1, x) PROVE Held(s, i, x)
      <3>1. PICK k \in i + 1 .. Len(c) :
              Releases(c, k, x) /\ \A j \in i + 1 .. k : ~ Gets(c, j, x)
        BY <2>2 DEF Held
      <3>2. k # n + 2
        BY <3>1, <2>2, <1>3, <1>4, <1>8 DEF Releases
      <3>3. k - 1 \in i .. n /\ k - 1 \in 1 .. n /\ k = (k - 1) + 1
        BY <1>1, <1>3, <3>1, <3>2
      <3>4. Releases(s, k - 1, x)
        BY <1>3, <3>1, <3>3 DEF Releases
      <3>5. ASSUME NEW j \in i .. k - 1 PROVE ~ Gets(s, j, x)
        <4>1. j + 1 \in i + 1 .. k /\ j \in 1 .. n
          BY <1>1, <3>1, <3>3
        <4>2. c[j + 1] = s[j]
          BY <4>1, <1>3
        <4> QED
          BY <4>1, <4>2, <3>1 DEF Gets
      <3> QED
        BY <3>3, <3>4, <3>5 DEF Held
    <2> QED
      BY <2>1, <2>2
  <1>9. ~ Held(c, 1, l) /\ ~ Held(c, n + 3, l)
    <2>1. Gets(c, 1, l)
      BY <1>3, <1>4 DEF Gets
    <2>2. \A k \in 1 .. Len(c) : 1 \in 1 .. k
      BY <1>1, <1>3
    <2> QED
      BY <2>1, <2>2, <1>1, <1>3 DEF Held
  <1>10. ASSUME NEW x, x # l PROVE Held(c, 1, x) => Held(s, 1, x)
    <2>1. SUFFICES ASSUME Held(c, 1, x) PROVE Held(c, 1 + 1, x)
      BY <1>1, <1>8, <1>10
    <2>2. PICK k \in 1 .. Len(c) : Releases(c, k, x) /\ \A j \in 1 .. k : ~ Gets(c, j, x)
      BY <2>1 DEF Held
    <2>3. k # 1
      BY <2>2, <1>3, <1>4 DEF Releases
    <2> QED
      BY <2>2, <2>3, <1>1, <1>3 DEF Held
  <1>11. \A x \in PinLock : ~ Held(c, 1, x)
    BY <1>9, <1>10 DEF Balanced
  <1>12. ASSUME NEW i \in 1 .. Len(c)
         PROVE  i = 1 \/ i = n + 2 \/ \E m \in 1 .. n : i = m + 1
    <2>1. i = 1 \/ i = n + 2 \/ (i - 1 \in 1 .. n /\ i = (i - 1) + 1)
      BY <1>1, <1>3
    <2> QED
      BY <2>1
  <1>13. Allowed(t, p, h, c)
    BY <1>3, <1>5, <1>12 DEF Allowed, Balanced, n
  <1>14. ASSUME NEW i \in 1 .. Len(c)
         PROVE  /\ c[i].do = "get" => c[i].on \notin H /\ Held(c, i + 1, c[i].on)
                /\ c[i].do = "release" => c[i].on \notin H /\ ~ Held(c, i + 1, c[i].on)
                /\ (IsUse(c[i]) /\ Guarded(h, c[i].on)) =>
                      LockOf[c[i].on] \in H \/ Held(c, i, LockOf[c[i].on])
    <2>1. CASE i = 1
      <3>1. Held(c, i + 1, l)
        BY <2>1, <1>1, <1>7
      <3> QED
        BY <2>1, <3>1, <1>3, <1>4 DEF IsUse
    <2>2. CASE i = n + 2
      <3>1. ~ Held(c, i + 1, l)
        BY <2>2, <1>1, <1>9
      <3> QED
        BY <2>2, <3>1, <1>3, <1>4 DEF IsUse
    <2>3. CASE \E m \in 1 .. n : i = m + 1
      <3>1. PICK m \in 1 .. n : i = m + 1
        BY <2>3
      <3>2. c[i] = s[m] /\ m \in 1 .. Len(s)
        BY <3>1, <1>3 DEF n
      <3>3. /\ s[m].do = "get" => s[m].on \notin H \cup {l} /\ Held(s, m + 1, s[m].on)
            /\ s[m].do = "release" => s[m].on \notin H \cup {l} /\ ~ Held(s, m + 1, s[m].on)
            /\ (IsUse(s[m]) /\ Guarded(h, s[m].on)) =>
                  LockOf[s[m].on] \in H \cup {l} \/ Held(s, m, LockOf[s[m].on])
        BY <3>2 DEF Balanced, Disciplined
      <3>4. /\ m \in 1 .. n + 1 /\ m + 1 \in 1 .. n + 1 /\ i = m + 1
            /\ i + 1 = (m + 1) + 1 /\ i \in 2 .. n + 2
        BY <3>1, <1>1
      <3>5. \A x : x # l => /\ Held(c, i, x) <=> Held(s, m, x)
                            /\ Held(c, i + 1, x) <=> Held(s, m + 1, x)
        BY <3>4, <1>8
      <3>6. Held(c, i, l)
        BY <3>4, <1>7
      <3> QED
        BY <3>2, <3>3, <3>5, <3>6
    <2> QED
      BY <1>12, <2>1, <2>2, <2>3
  <1>15. Disciplined(h, c, H)
    BY <1>14 DEF Disciplined
  <1>16. Balanced(t, p, h, c, H)
    BY <1>3, <1>11, <1>13, <1>15 DEF Balanced
  <1> QED
    BY <1>16 DEF c

-----------------------------------------------------------------------------
\* Every handler is balanced.

\* An access to data under its lock.
LEMMA UseFits ==
    ASSUME NEW t, NEW p, NEW h, NEW H,
           NEW do \in {"read", "write"}, NEW on \in Data \ {"vectorClock", "joinVCMap", "finalClock"},
           on = "lastCreatedThread" =>
              h \in {"pthread_create", "ThreadStart"} /\ do = "write",
           Guarded(h, on) => LockOf[on] \in H
    PROVE  Fits(t, p, h, H, Uses(do, on))
  <1>1. Uses(do, on) \in Ops /\ Uses(do, on).do = do /\ Uses(do, on).on = on
    BY DEF Op, Uses, Ops
  <1>2. MayDo(t, p, h, Uses(do, on))
    BY <1>1 DEF MayDo, Data, PinLock
  <1> QED
    BY <1>1, <1>2 DEF Fits

\* A thread advances its own clock.
LEMMA AdvanceFits ==
    ASSUME NEW t \in Threads, NEW p, NEW h, NEW H
    PROVE  Fits(t, p, h, H, Op("write", "vectorClock", t))
  <1> DEFINE x == Op("write", "vectorClock", t)
  <1>1. x \in Ops /\ x.do = "write" /\ x.on = "vectorClock" /\ x.of = t
    BY DEF Op, Ops, Data
  <1>2. MayDo(t, p, h, x) /\ ~ Guarded(h, x.on)
    BY <1>1 DEF MayDo, PinLock, Guarded
  <1> QED
    BY <1>1, <1>2 DEF Fits

\* The map of final clocks in the storage of thread u.
LEMMA JoinMapFits ==
    ASSUME NEW t, NEW p, NEW h, NEW H, NEW do \in {"read", "write"},
           NEW u \in Threads, "threadIdMapLock" \in H
    PROVE  Fits(t, p, h, H, Op(do, "joinVCMap", u))
  <1> DEFINE x == Op(do, "joinVCMap", u)
  <1>1. x \in Ops /\ x.do = do /\ x.on = "joinVCMap" /\ x.of = u
    BY DEF Op, Ops, Data
  <1>2. MayDo(t, p, h, x) /\ LockOf[x.on] = "threadIdMapLock"
    BY <1>1 DEF MayDo, PinLock, LockOf, Data
  <1> QED
    BY <1>1, <1>2 DEF Fits

\* An entry of such a map: thread u's final clock.
LEMMA FinalClockFits ==
    ASSUME NEW t, NEW p, NEW h, NEW H, NEW do \in {"read", "write"},
           NEW u \in Threads, do = "write" => u = t, do = "read" => h = "pthread_join"
    PROVE  Fits(t, p, h, H, Op(do, "finalClock", u))
  <1> DEFINE x == Op(do, "finalClock", u)
  <1>1. x \in Ops /\ x.do = do /\ x.on = "finalClock" /\ x.of = u
    BY DEF Op, Ops, Data
  <1>2. MayDo(t, p, h, x) /\ ~ Guarded(h, x.on)
    BY <1>1 DEF MayDo, PinLock, Guarded
  <1> QED
    BY <1>1, <1>2 DEF Fits

\* A wait for a thread, and the end of the program.
LEMMA WaitFits ==
    ASSUME NEW t, NEW p, NEW h, NEW H, NEW c \in Threads
    PROVE  Fits(t, p, h, H, Op("wait", "thread", c))
  BY DEF Fits, MayDo, IsUse, Op, Ops, PinLock

LEMMA AbortIsBalanced ==
    ASSUME NEW t, NEW p, NEW h, NEW H
    PROVE  Balanced(t, p, h, Abort, H)
  <1>1. Fits(t, p, h, H, Uses("abort", "tool"))
    BY DEF Fits, MayDo, IsUse, Uses, Op, Ops, PinLock
  <1> QED
    BY <1>1, AccessIsBalanced DEF Abort

\* The lock of each piece of data, and the data that has one.
LEMMA LocksOfData ==
    /\ LockOf["recordFile"] = "recordLock"
    /\ \A d \in {"rdm", "unlockedThreadMap", "notifiedThreadMap"} : LockOf[d] = "rdmLock"
    /\ \A d \in {"barrierWaitMap", "barrierData"} : LockOf[d] = "barrierLock"
    /\ \A d \in {"threadIdMap", "threadCreateOrder", "joinVCMap", "lastCreatedThread",
                  "pthreadPinIdMap"} : LockOf[d] = "threadIdMapLock"
    /\ {"recordFile", "rdm", "unlockedThreadMap", "notifiedThreadMap", "barrierWaitMap",
         "barrierData", "threadIdMap", "threadCreateOrder", "lastCreatedThread",
         "pthreadPinIdMap"} \subseteq Data \ {"vectorClock", "joinVCMap", "finalClock"}
    /\ {"rdmLock", "atomicCreate", "barrierLock", "threadIdMapLock", "recordLock"}
         = PinLock
  BY DEF LockOf, Data, PinLock

LEMMA PrintRecordInfoIsBalanced ==
    ASSUME NEW t, NEW p, NEW h, NEW H, H \subseteq PinLock, "recordLock" \notin H
    PROVE  Balanced(t, p, h, PrintRecordInfo, H)
  <1> DEFINE G == H \cup {"recordLock"}
             x == Uses("write", "recordFile")
  <1>1. Fits(t, p, h, G, x)
    BY LocksOfData, UseFits
  <1> HIDE DEF x, G
  <1>2. Balanced(t, p, h, <<x>>, G)
    BY <1>1, AccessIsBalanced
  <1>3. "recordLock" \in PinLock /\ G = H \cup {"recordLock"}
    BY DEF PinLock, G
  <1>4. Balanced(t, p, h, Locked("recordLock", <<x>>), H)
    BY <1>2, <1>3, LockedIsBalanced
  <1> QED
    BY <1>4 DEF PrintRecordInfo, x

\* rdmLock and what is done to the module under it.
LEMMA ModuleIsBalanced ==
    ASSUME NEW t, NEW p, NEW h, NEW H, H \subseteq PinLock, "rdmLock" \notin H
    PROVE  Balanced(t, p, h, HandOver, H)
  <1> DEFINE G == H \cup {"rdmLock"}
             x == Uses("write", "rdm")
  <1>1. Fits(t, p, h, G, x)
    BY LocksOfData, UseFits
  <1> HIDE DEF x, G
  <1>2. Balanced(t, p, h, <<x>>, G)
    BY <1>1, AccessIsBalanced
  <1>3. "rdmLock" \in PinLock /\ G = H \cup {"rdmLock"}
    BY DEF PinLock, G
  <1>4. Balanced(t, p, h, Locked("rdmLock", <<x>>), H)
    BY <1>2, <1>3, LockedIsBalanced
  <1> QED
    BY <1>4 DEF HandOver, x

LEMMA AdvanceIsBalanced ==
    ASSUME NEW t \in Threads, NEW p, NEW h, NEW H
    PROVE  Balanced(t, p, h, Advance(t), H)
  BY AdvanceFits, AccessIsBalanced DEF Advance

\* printRecordInfo and then a part under one lock.
LEMMA RecordedIsBalanced ==
    ASSUME NEW t, NEW p, NEW h, NEW l \in PinLock \ {"atomicCreate"}, NEW s,
           Balanced(t, p, h, s, {l})
    PROVE  Balanced(t, p, h, PrintRecordInfo \o Locked(l, s), {})
  <1>1. Balanced(t, p, h, PrintRecordInfo, {})
    BY PrintRecordInfoIsBalanced
  <1>2. Balanced(t, p, h, Locked(l, s), {})
    BY LockedIsBalanced
  <1> QED
    BY <1>1, <1>2, ConcatIsBalanced

LEMMA AfterLockIsBalanced ==
    ASSUME NEW t \in Threads, NEW p
    PROVE  Balanced(t, p, "AfterLock", AfterLock(t), {})
  <1> DEFINE h == "AfterLock"
             G == {"rdmLock"}
             x == Uses("write", "rdm")
             y == Uses("write", "unlockedThreadMap")
  <1>1. Fits(t, p, h, G, x) /\ Fits(t, p, h, G, y)
    BY LocksOfData, UseFits
  <1>2. G \subseteq PinLock /\ "rdmLock" \in PinLock \ {"atomicCreate"}
    BY DEF PinLock
  <1>3. Balanced(t, p, h, Advance(t), G)
    BY AdvanceIsBalanced
  <1> HIDE DEF x, y
  <1>4. Balanced(t, p, h, <<x>>, G) /\ Balanced(t, p, h, <<y>>, G)
    BY <1>1, AccessIsBalanced
  <1>5. Balanced(t, p, h, <<x>> \o Advance(t) \o <<y>>, G)
    BY <1>2, <1>3, <1>4, ConcatIsBalanced
  <1> QED
    BY <1>2, <1>5, RecordedIsBalanced DEF AfterLock, x, y

LEMMA AfterCondWaitIsBalanced ==
    ASSUME NEW t \in Threads, NEW p
    PROVE  Balanced(t, p, "AfterCondWait", AfterCondWait(t), {})
  <1> DEFINE h == "AfterCondWait"
             G == {"rdmLock"}
             x == Uses("read", "notifiedThreadMap")
  <1>1. Fits(t, p, h, G, x)
    BY LocksOfData, UseFits
  <1>2. G \subseteq PinLock /\ "rdmLock" \in PinLock \ {"atomicCreate"}
    BY DEF PinLock
  <1>3. Balanced(t, p, h, Advance(t), G)
    BY AdvanceIsBalanced
  <1> HIDE DEF x
  <1>4. Balanced(t, p, h, <<x>>, G)
    BY <1>1, AccessIsBalanced
  <1>5. Balanced(t, p, h, <<x>> \o Advance(t), G)
    BY <1>2, <1>3, <1>4, ConcatIsBalanced
  <1> QED
    BY <1>2, <1>5, RecordedIsBalanced DEF AfterCondWait, x

LEMMA BeforeCondSignalIsBalanced ==
    ASSUME NEW t \in Threads, NEW p
    PROVE  Balanced(t, p, "BeforeCondSignal", BeforeCondSignal(t), {})
  <1> DEFINE h == "BeforeCondSignal"
             G == {"rdmLock"}
             x == Uses("write", "rdm")
             y == Uses("write", "notifiedThreadMap")
  <1>1. Fits(t, p, h, G, x) /\ Fits(t, p, h, G, y)
    BY LocksOfData, UseFits
  <1>2. G \subseteq PinLock /\ "rdmLock" \in PinLock \ {"atomicCreate"}
    BY DEF PinLock
  <1>3. Balanced(t, p, h, Advance(t), G)
    BY AdvanceIsBalanced
  <1> HIDE DEF x, y
  <1>4. Balanced(t, p, h, <<x>>, G) /\ Balanced(t, p, h, <<y>>, G)
    BY <1>1, AccessIsBalanced
  <1>5. Balanced(t, p, h, <<x>> \o Advance(t) \o <<y>>, G)
    BY <1>2, <1>3, <1>4, ConcatIsBalanced
  <1> QED
    BY <1>2, <1>5, RecordedIsBalanced DEF BeforeCondSignal, x, y

LEMMA BroadcastIsBalanced ==
    ASSUME NEW t \in Threads, NEW p
    PROVE  Balanced(t, p, "BeforeCondBroadcast", BeforeCondBroadcast(t), {})
  <1> DEFINE h == "BeforeCondBroadcast"
  <1>1. Balanced(t, p, h, PrintRecordInfo, {}) /\ Balanced(t, p, h, Abort, {})
    BY PrintRecordInfoIsBalanced, AbortIsBalanced
  <1>2. Balanced(t, p, h, PrintRecordInfo \o PrintRecordInfo \o Abort, {})
    BY <1>1, ConcatIsBalanced
  <1> QED
    BY <1>2 DEF BeforeCondBroadcast

LEMMA ReadIsBalanced ==
    ASSUME NEW t \in Threads, NEW p
    PROVE  Balanced(t, p, "Read", Read(t), {})
  <1>1. Balanced(t, p, "Read", << >>, {"rdmLock"})
    BY NothingIsBalanced
  <1>2. "rdmLock" \in PinLock
    BY DEF PinLock
  <1>3. Balanced(t, p, "Read", Locked("rdmLock", << >>), {})
    BY <1>1, <1>2, LockedIsBalanced
  <1> QED
    BY <1>3 DEF Read

LEMMA BeforeBarrierInitIsBalanced ==
    ASSUME NEW t \in Threads, NEW p
    PROVE  Balanced(t, p, "BeforeBarrierInit", BeforeBarrierInit(t), {})
  <1> DEFINE h == "BeforeBarrierInit"
             G == {"barrierLock"}
             x == Uses("write", "barrierData")
             y == Uses("write", "barrierWaitMap")
  <1>1. Fits(t, p, h, G, x) /\ Fits(t, p, h, G, y)
    BY LocksOfData, UseFits
  <1>2. G \subseteq PinLock /\ "barrierLock" \in PinLock \ {"atomicCreate"}
    BY DEF PinLock
  <1> HIDE DEF x, y
  <1>3. Balanced(t, p, h, <<x, y>>, G)
    BY <1>1, PairIsBalanced
  <1>4. Balanced(t, p, h, Locked("barrierLock", <<x, y>>), {})
    BY <1>2, <1>3, LockedIsBalanced
  <1> QED
    BY <1>4 DEF BeforeBarrierInit, x, y

LEMMA BeforeBarrierWaitIsBalanced ==
    ASSUME NEW t \in Threads, NEW p
    PROVE  Balanced(t, p, "BeforeBarrierWait", BeforeBarrierWait(t), {})
  <1> DEFINE h == "BeforeBarrierWait"
             G == {"barrierLock"}
             x == Uses("read", "barrierWaitMap")
             y == Uses("write", "rdm")
             z == Uses("write", "barrierData")
  <1>1. ~ Guarded(h, "rdm")
    BY DEF Guarded, RdmWithoutItsLock
  <1>2. Fits(t, p, h, G, x) /\ Fits(t, p, h, G, y) /\ Fits(t, p, h, G, z)
    BY <1>1, LocksOfData, UseFits
  <1>3. G \subseteq PinLock /\ "barrierLock" \in PinLock \ {"atomicCreate"}
    BY DEF PinLock
  <1>4. Balanced(t, p, h, Advance(t), G)
    BY AdvanceIsBalanced
  <1> HIDE DEF x, y, z
  <1>5. Balanced(t, p, h, <<x, y>>, G) /\ Balanced(t, p, h, <<z>>, G)
    BY <1>2, AccessIsBalanced, PairIsBalanced
  <1>6. Balanced(t, p, h, <<x, y>> \o Advance(t) \o <<z>>, G)
    BY <1>3, <1>4, <1>5, ConcatIsBalanced
  <1> QED
    BY <1>3, <1>6, RecordedIsBalanced DEF BeforeBarrierWait, x, y, z

LEMMA AfterBarrierWaitIsBalanced ==
    ASSUME NEW t \in Threads, NEW p
    PROVE  Balanced(t, p, "AfterBarrierWait", AfterBarrierWait(t), {})
  <1> DEFINE h == "AfterBarrierWait"
             G == {"barrierLock"}
             x == Uses("read", "barrierWaitMap")
             y == Uses("read", "barrierData")
  <1>1. Fits(t, p, h, G, x) /\ Fits(t, p, h, G, y)
    BY LocksOfData, UseFits
  <1>2. G \subseteq PinLock /\ "barrierLock" \in PinLock \ {"atomicCreate"}
    BY DEF PinLock
  <1>3. Balanced(t, p, h, Advance(t), G)
    BY AdvanceIsBalanced
  <1> HIDE DEF x, y
  <1>4. Balanced(t, p, h, <<x, y>>, G)
    BY <1>1, PairIsBalanced
  <1>5. Balanced(t, p, h, <<x, y>> \o Advance(t), G)
    BY <1>2, <1>3, <1>4, ConcatIsBalanced
  <1> QED
    BY <1>2, <1>5, RecordedIsBalanced DEF AfterBarrierWait, x, y

\* What every join begins with, and the look at the two maps.
LEMMA JoinedIsBalanced ==
    ASSUME NEW t, NEW p, NEW h, NEW c \in Threads
    PROVE  Balanced(t, p, h, Joined(c), {})
  <1> DEFINE w == Op("wait", "thread", c)
  <1>1. Balanced(t, p, h, HandOver, {})
    BY ModuleIsBalanced
  <1>2. Fits(t, p, h, {}, w)
    BY WaitFits
  <1> HIDE DEF w
  <1>3. Balanced(t, p, h, <<w>>, {})
    BY <1>2, AccessIsBalanced
  <1>4. Balanced(t, p, h, <<w>> \o HandOver, {})
    BY <1>1, <1>3, ConcatIsBalanced
  <1> QED
    BY <1>4 DEF Joined, w

LEMMA LookUpIsBalanced ==
    ASSUME NEW t \in Threads, NEW p, NEW h
    PROVE  Balanced(t, p, h,
                    <<Uses("read", "pthreadPinIdMap"), Op("read", "joinVCMap", t)>>,
                    {"threadIdMapLock"})
  <1> DEFINE G == {"threadIdMapLock"}
             x == Uses("read", "pthreadPinIdMap")
             y == Op("read", "joinVCMap", t)
  <1>1. Fits(t, p, h, G, x) /\ Fits(t, p, h, G, y)
    BY LocksOfData, UseFits, JoinMapFits
  <1> HIDE DEF x, y
  <1>2. Balanced(t, p, h, <<x, y>>, G)
    BY <1>1, PairIsBalanced
  <1> QED
    BY <1>2 DEF x, y

LEMMA JoinIsBalanced ==
    ASSUME NEW t \in Threads, NEW p, NEW c \in Threads
    PROVE  Balanced(t, p, "pthread_join", PthreadJoinReplacement(t, c), {})
  <1> DEFINE h == "pthread_join"
             x == <<Uses("read", "pthreadPinIdMap"), Op("read", "joinVCMap", t)>>
             y == Op("read", "finalClock", c)
  <1>1. Balanced(t, p, h, Joined(c), {}) /\ Balanced(t, p, h, Advance(t), {})
    BY JoinedIsBalanced, AdvanceIsBalanced
  <1>2. Fits(t, p, h, {}, y)
    BY FinalClockFits
  <1>3. "threadIdMapLock" \in PinLock /\ Balanced(t, p, h, x, {"threadIdMapLock"})
    BY LookUpIsBalanced DEF PinLock
  <1> HIDE DEF x, y
  <1>4. Balanced(t, p, h, Locked("threadIdMapLock", x), {}) /\ Balanced(t, p, h, <<y>>, {})
    BY <1>2, <1>3, LockedIsBalanced, AccessIsBalanced
  <1>5. Balanced(t, p, h, Joined(c) \o Locked("threadIdMapLock", x) \o <<y>> \o Advance(t), {})
    BY <1>1, <1>4, ConcatIsBalanced
  <1> QED
    BY <1>5 DEF PthreadJoinReplacement, x, y

LEMMA JoinOfUnknownIsBalanced ==
    ASSUME NEW t \in Threads, NEW p, NEW h, NEW c \in Threads
    PROVE  Balanced(t, p, h, JoinOfUnknownHandle(t, c), {})
  <1> DEFINE G == {"threadIdMapLock"}
             x == Uses("read", "pthreadPinIdMap")
  <1>1. Balanced(t, p, h, Joined(c), {}) /\ Balanced(t, p, h, Abort, G)
    BY JoinedIsBalanced, AbortIsBalanced
  <1>2. Fits(t, p, h, G, x) /\ "threadIdMapLock" \in PinLock
    BY LocksOfData, UseFits
  <1> HIDE DEF x
  <1>3. Balanced(t, p, h, <<x>>, G)
    BY <1>2, AccessIsBalanced
  <1>4. /\ Balanced(t, p, h, Locked("threadIdMapLock", <<x>>), {})
        /\ Balanced(t, p, h, Locked("threadIdMapLock", Abort), {})
    BY <1>1, <1>2, <1>3, LockedIsBalanced
  <1>5. Balanced(t, p, h, Joined(c) \o Locked("threadIdMapLock", <<x>>)
                            \o Locked("threadIdMapLock", Abort), {})
    BY <1>1, <1>4, ConcatIsBalanced
  <1> QED
    BY <1>5 DEF JoinOfUnknownHandle, x

LEMMA JoinOfAnothersIsBalanced ==
    ASSUME NEW t \in Threads, NEW p, NEW h, NEW c \in Threads
    PROVE  Balanced(t, p, h, JoinOfAnothersChild(t, c), {})
  <1> DEFINE G == {"threadIdMapLock"}
             x == <<Uses("read", "pthreadPinIdMap"), Op("read", "joinVCMap", t)>>
  <1>1. Balanced(t, p, h, Joined(c), {}) /\ Balanced(t, p, h, Abort, G)
    BY JoinedIsBalanced, AbortIsBalanced
  <1>2. Balanced(t, p, h, x, G) /\ "threadIdMapLock" \in PinLock /\ G \subseteq PinLock
    BY LookUpIsBalanced DEF PinLock
  <1> HIDE DEF x
  <1>3. Balanced(t, p, h, x \o Abort, G)
    BY <1>1, <1>2, ConcatIsBalanced
  <1>4. Balanced(t, p, h, Locked("threadIdMapLock", x \o Abort), {})
    BY <1>2, <1>3, LockedIsBalanced
  <1>5. Balanced(t, p, h, Joined(c) \o Locked("threadIdMapLock", x \o Abort), {})
    BY <1>1, <1>4, ConcatIsBalanced
  <1> QED
    BY <1>5 DEF JoinOfAnothersChild, x

LEMMA ThreadFiniIsBalanced ==
    ASSUME NEW t \in Threads, parent[t] \in Threads \cup {NO_ID}
    PROVE  Balanced(t, parent[t], "ThreadFini", ThreadFini(t), {})
  <1> DEFINE h == "ThreadFini"
             G == {"threadIdMapLock"}
             f == Uses("write", "recordFile")
             x == Uses("read", "threadIdMap")
             y == Op("write", "joinVCMap", parent[t])
             z == Op("write", "finalClock", t)
             rest == IF parent[t] = NO_ID THEN << >> ELSE <<y, z>>
  <1>1. /\ Fits(t, parent[t], h, G, x) /\ Fits(t, parent[t], h, G, z)
        /\ parent[t] # NO_ID => Fits(t, parent[t], h, G, y)
    BY LocksOfData, UseFits, JoinMapFits, FinalClockFits
  <1>2. ~ Guarded(h, "recordFile")
    BY DEF Guarded, RecordWithoutItsLock
  <1>3. Fits(t, parent[t], h, {}, f)
    BY <1>2, LocksOfData, UseFits
  <1>4. G \subseteq PinLock /\ "threadIdMapLock" \in PinLock
    BY DEF PinLock
  <1>5. Balanced(t, parent[t], h, HandOver, {})
    BY ModuleIsBalanced
  <1> HIDE DEF f, x, y, z
  <1>6. Balanced(t, parent[t], h, <<f>>, {}) /\ Balanced(t, parent[t], h, <<x>>, G)
    BY <1>1, <1>3, AccessIsBalanced
  <1>7. Balanced(t, parent[t], h, rest, G)
    BY <1>1, PairIsBalanced, NothingIsBalanced
  <1> HIDE DEF rest
  <1>8. Balanced(t, parent[t], h, <<x>> \o rest, G)
    BY <1>4, <1>6, <1>7, ConcatIsBalanced
  <1>9. Balanced(t, parent[t], h, Locked("threadIdMapLock", <<x>> \o rest), {})
    BY <1>4, <1>8, LockedIsBalanced
  <1>10. Balanced(t, parent[t], h, <<f>> \o HandOver
                    \o Locked("threadIdMapLock", <<x>> \o rest), {})
    BY <1>5, <1>6, <1>9, ConcatIsBalanced
  <1> QED
    BY <1>10 DEF ThreadFini, f, x, y, z, rest

LEMMA ThreadStartIsBalanced ==
    ASSUME NEW t \in Threads, parent[t] \in Threads
    PROVE  Balanced(t, parent[t], "ThreadStart", ThreadStart(t), {})
  <1> DEFINE h == "ThreadStart"
             G == {"threadIdMapLock"}
             a == Uses("write", "rdm")
             b == Uses("write", "threadIdMap")
             c == Uses("write", "threadCreateOrder")
             d == Op("read", "vectorClock", parent[t])
             e == Uses("write", "lastCreatedThread")
             s == <<a, b, c, d, e>>
  <1>1. ~ Guarded(h, "rdm")
    BY DEF Guarded, RdmWithoutItsLock
  <1>2. /\ Fits(t, parent[t], h, G, a) /\ Fits(t, parent[t], h, G, b)
        /\ Fits(t, parent[t], h, G, c) /\ Fits(t, parent[t], h, G, e)
    BY <1>1, LocksOfData, UseFits
  <1>3. Fits(t, parent[t], h, G, d)
    BY DEF Fits, MayDo, Guarded, Op, Ops, PinLock, Data
  <1>4. G \subseteq PinLock /\ "threadIdMapLock" \in PinLock
    BY DEF PinLock
  <1> HIDE DEF a, b, c, d, e
  <1>5. /\ s \in Seq(Ops) /\ Len(s) = 5
        /\ s[1] = a /\ s[2] = b /\ s[3] = c /\ s[4] = d /\ s[5] = e
    BY <1>2, <1>3 DEF Fits
  <1> HIDE DEF s
  <1>6. \A i \in 1 .. Len(s) : Fits(t, parent[t], h, G, s[i])
    <2>1. \A i \in 1 .. Len(s) : i \in {1, 2, 3, 4, 5}
      BY <1>5
    <2> QED
      BY <1>2, <1>3, <1>5, <2>1
  <1>7. Balanced(t, parent[t], h, s, G)
    BY <1>5, <1>6, AccessesAreBalanced
  <1>8. Balanced(t, parent[t], h, PrintRecordInfo, G)
    BY <1>4, PrintRecordInfoIsBalanced
  <1>9. Balanced(t, parent[t], h, PrintRecordInfo \o s, G)
    BY <1>4, <1>7, <1>8, ConcatIsBalanced
  <1>10. Balanced(t, parent[t], h, Locked("threadIdMapLock", PrintRecordInfo \o s), {})
    BY <1>4, <1>9, LockedIsBalanced
  <1> QED
    BY <1>10 DEF ThreadStart, a, b, c, d, e, s

LEMMA CreateIsBalanced ==
    ASSUME NEW t \in Threads, NEW p
    PROVE  Balanced(t, p, "pthread_create", PthreadCreateReplacement(t), {})
  <1> DEFINE h == "pthread_create"
             A == {"atomicCreate"}
             G == {"atomicCreate", "threadIdMapLock"}
             a == Uses("spawn", "child")
             b == Uses("poll", "lastCreatedThread")
             c == Uses("write", "pthreadPinIdMap")
             d == Uses("write", "lastCreatedThread")
             m == HandOver
  <1>1. Fits(t, p, h, G, c) /\ Fits(t, p, h, G, d)
    BY LocksOfData, UseFits
  <1>2. Fits(t, p, h, A, a) /\ Fits(t, p, h, A, b)
    BY DEF Fits, MayDo, IsUse, Uses, Op, Ops, PinLock, Data
  <1>3. /\ A \subseteq PinLock /\ "threadIdMapLock" \in PinLock
        /\ "atomicCreate" \in PinLock /\ G = A \cup {"threadIdMapLock"}
    BY DEF PinLock
  <1>4. Balanced(t, p, h, Advance(t), A) /\ Balanced(t, p, h, m, A)
    BY <1>3, AdvanceIsBalanced, ModuleIsBalanced
  <1> HIDE DEF a, b, c, d, m
  <1>5. Balanced(t, p, h, <<a, b>>, A) /\ Balanced(t, p, h, <<c, d>>, G)
    BY <1>1, <1>2, PairIsBalanced
  <1>6. Balanced(t, p, h, Locked("threadIdMapLock", <<c, d>>), A)
    BY <1>3, <1>5, LockedIsBalanced
  <1>7. Balanced(t, p, h, <<a, b>> \o Locked("threadIdMapLock", <<c, d>>) \o m \o Advance(t), A)
    BY <1>3, <1>4, <1>5, <1>6, ConcatIsBalanced
  <1>8. Balanced(t, p, h, Locked("atomicCreate", <<a, b>>
                            \o Locked("threadIdMapLock", <<c, d>>) \o m \o Advance(t)), {})
    BY <1>3, <1>7, LockedIsBalanced
  <1> QED
    BY <1>8 DEF PthreadCreateReplacement, a, b, c, d, m

-----------------------------------------------------------------------------
\* The order of the operations of pthread_create and ThreadStart.

ReadsClock(x) == x.do = "read" /\ x.on = "vectorClock"

\* A spawn is followed at once by the loop that polls; a poll, and the look at
\* the parent's clock, come before the write of lastCreatedThread, of which a
\* handler has one; atomicCreate is taken first and given back last.
Ordered(h, s) ==
    /\ \A i \in 1 .. Len(s) :
        /\ Announces(s[i]) => \A j \in i + 1 .. Len(s) :
              ~ Announces(s[j]) /\ ~ ReadsClock(s[j]) /\ s[j].do \notin {"spawn", "poll"}
        /\ s[i].do = "spawn" => i + 1 \in 1 .. Len(s) /\ s[i + 1].do = "poll"
        /\ s[i].do = "poll" => \A j \in i + 1 .. Len(s) : s[j].do \notin {"spawn", "poll"}
        /\ (s[i].do = "poll" \/ ReadsClock(s[i])) => \E j \in i + 1 .. Len(s) : Announces(s[j])
        /\ Releases(s, i, "atomicCreate") => i = Len(s)
        /\ Gets(s, i, "atomicCreate") =>
              i = 1 /\ i + 1 \in 1 .. Len(s) /\ s[i + 1].do = "spawn"
    /\ (h = "pthread_create" /\ Len(s) > 0) => Releases(s, Len(s), "atomicCreate")

LEMMA LockedElements ==
    ASSUME NEW l \in PinLock, NEW s \in Seq(Ops)
    PROVE  /\ Locked(l, s) \in Seq(Ops)
           /\ Len(Locked(l, s)) = Len(s) + 2
           /\ Locked(l, s)[1] = Uses("get", l)
           /\ Locked(l, s)[Len(s) + 2] = Uses("release", l)
           /\ \A i \in 1 .. Len(s) : Locked(l, s)[i + 1] = s[i]
  <1> DEFINE g == Uses("get", l)
             r == Uses("release", l)
             a == <<g>> \o s
  <1>1. g \in Ops /\ r \in Ops /\ Len(s) \in Nat
    BY LenProperties DEF Uses, Op, Ops
  <1> HIDE DEF g, r
  <1>2. a \in Seq(Ops) /\ Len(a) = Len(s) + 1
        /\ a[1] = g
        /\ \A i \in 1 .. Len(s) : a[i + 1] = s[i]
    BY <1>1, SMT
  <1> HIDE DEF a
  <1>3. /\ a \o <<r>> \in Seq(Ops) /\ Len(a \o <<r>>) = Len(a) + 1
        /\ \A i \in 1 .. Len(a) : (a \o <<r>>)[i] = a[i]
        /\ (a \o <<r>>)[Len(a) + 1] = r
    BY <1>1, <1>2, SMT
  <1>4. Locked(l, s) = a \o <<r>>
    BY DEF Locked, a, g, r
  <1>5. \A i \in 1 .. Len(s) : i + 1 \in 1 .. Len(a)
    BY <1>1, <1>2
  <1>6. Len(s) + 2 = Len(a) + 1 /\ 1 \in 1 .. Len(a)
    BY <1>1, <1>2
  <1> QED
    BY <1>2, <1>3, <1>4, <1>5, <1>6 DEF g, r

LEMMA ConcatElements ==
    ASSUME NEW a \in Seq(Ops), NEW b \in Seq(Ops)
    PROVE  /\ a \o b \in Seq(Ops)
           /\ Len(a \o b) = Len(a) + Len(b)
           /\ \A i \in 1 .. Len(a) : (a \o b)[i] = a[i]
           /\ \A i \in 1 .. Len(b) : (a \o b)[Len(a) + i] = b[i]
  BY ConcatProperties, LenProperties

\* pthread_create, operation by operation.
LEMMA CreateElements ==
    ASSUME NEW t \in Threads, NEW s, s = PthreadCreateReplacement(t)
    PROVE  /\ s \in Seq(Ops) /\ Len(s) = 12
           /\ s[1] = Uses("get", "atomicCreate") /\ s[2] = Uses("spawn", "child")
           /\ s[3] = Uses("poll", "lastCreatedThread") /\ s[4] = Uses("get", "threadIdMapLock")
           /\ s[5] = Uses("write", "pthreadPinIdMap") /\ s[6] = Uses("write", "lastCreatedThread")
           /\ s[7] = Uses("release", "threadIdMapLock") /\ s[8] = Uses("get", "rdmLock")
           /\ s[9] = Uses("write", "rdm") /\ s[10] = Uses("release", "rdmLock")
           /\ s[11] = Op("write", "vectorClock", t) /\ s[12] = Uses("release", "atomicCreate")
  <1> DEFINE a == Uses("spawn", "child")
             b == Uses("poll", "lastCreatedThread")
             c == Uses("write", "pthreadPinIdMap")
             d == Uses("write", "lastCreatedThread")
             e == Uses("write", "rdm")
             f == Op("write", "vectorClock", t)
             p == <<a, b>>
             q == Locked("threadIdMapLock", <<c, d>>)
             m == Locked("rdmLock", <<e>>)
             v == <<f>>
  <1>1. a \in Ops /\ b \in Ops /\ c \in Ops /\ d \in Ops /\ e \in Ops /\ f \in Ops
    BY DEF Uses, Op, Ops, Data
  <1>2. s = Locked("atomicCreate", p \o q \o m \o v)
    BY DEF PthreadCreateReplacement, Advance, HandOver
  <1> HIDE DEF a, b, c, d, e, f
  <1>3. p \in Seq(Ops) /\ Len(p) = 2 /\ p[1] = a /\ p[2] = b
        /\ v \in Seq(Ops) /\ Len(v) = 1 /\ v[1] = f
    BY <1>1
  <1>4. /\ q \in Seq(Ops) /\ Len(q) = 4 /\ q[1] = Uses("get", "threadIdMapLock")
        /\ q[2] = c /\ q[3] = d /\ q[4] = Uses("release", "threadIdMapLock")
    <2> DEFINE r == <<c, d>>
    <2>1. r \in Seq(Ops) /\ Len(r) = 2 /\ r[1] = c /\ r[2] = d
      BY <1>1
    <2> HIDE DEF r
    <2>2. /\ Locked("threadIdMapLock", r) \in Seq(Ops)
          /\ Len(Locked("threadIdMapLock", r)) = Len(r) + 2
          /\ Locked("threadIdMapLock", r)[1] = Uses("get", "threadIdMapLock")
          /\ Locked("threadIdMapLock", r)[Len(r) + 2] = Uses("release", "threadIdMapLock")
          /\ \A i \in 1 .. Len(r) : Locked("threadIdMapLock", r)[i + 1] = r[i]
      BY <2>1, LockedElements DEF PinLock
    <2>3. 1 \in 1 .. Len(r) /\ 2 \in 1 .. Len(r) /\ 1 + 1 = 2 /\ 2 + 1 = 3 /\ Len(r) + 2 = 4
      BY <2>1
    <2> QED
      BY <2>1, <2>2, <2>3 DEF r
  <1>5. /\ m \in Seq(Ops) /\ Len(m) = 3 /\ m[1] = Uses("get", "rdmLock")
        /\ m[2] = e /\ m[3] = Uses("release", "rdmLock")
    <2> DEFINE r == <<e>>
    <2>1. r \in Seq(Ops) /\ Len(r) = 1 /\ r[1] = e
      BY <1>1
    <2> HIDE DEF r
    <2>2. /\ Locked("rdmLock", r) \in Seq(Ops)
          /\ Len(Locked("rdmLock", r)) = Len(r) + 2
          /\ Locked("rdmLock", r)[1] = Uses("get", "rdmLock")
          /\ Locked("rdmLock", r)[Len(r) + 2] = Uses("release", "rdmLock")
          /\ \A i \in 1 .. Len(r) : Locked("rdmLock", r)[i + 1] = r[i]
      BY <2>1, LockedElements DEF PinLock
    <2>3. 1 \in 1 .. Len(r) /\ 1 + 1 = 2 /\ Len(r) + 2 = 3
      BY <2>1
    <2> QED
      BY <2>1, <2>2, <2>3 DEF r
  <1> HIDE DEF p, q, m, v
  <1> DEFINE x == p \o q
             y == x \o m
             z == y \o v
  <1>6. /\ x \in Seq(Ops) /\ Len(x) = 6 /\ x[1] = p[1] /\ x[2] = p[2]
        /\ x[3] = q[1] /\ x[4] = q[2] /\ x[5] = q[3] /\ x[6] = q[4]
    <2>1. /\ x \in Seq(Ops) /\ Len(x) = Len(p) + Len(q)
          /\ \A i \in 1 .. Len(p) : x[i] = p[i]
          /\ \A i \in 1 .. Len(q) : x[Len(p) + i] = q[i]
      BY <1>3, <1>4, ConcatElements
    <2>2. 2 + 1 = 3 /\ 2 + 2 = 4 /\ 2 + 3 = 5 /\ 2 + 4 = 6
      OBVIOUS
    <2> HIDE DEF x
    <2> QED
      BY <1>3, <1>4, <2>1, <2>2
  <1> HIDE DEF x
  <1>7. /\ y \in Seq(Ops) /\ Len(y) = 9 /\ \A i \in 1 .. 6 : y[i] = x[i]
        /\ y[7] = m[1] /\ y[8] = m[2] /\ y[9] = m[3]
    <2>1. /\ y \in Seq(Ops) /\ Len(y) = Len(x) + Len(m)
          /\ \A i \in 1 .. Len(x) : y[i] = x[i]
          /\ \A i \in 1 .. Len(m) : y[Len(x) + i] = m[i]
      BY <1>5, <1>6, ConcatElements
    <2>2. 6 + 1 = 7 /\ 6 + 2 = 8 /\ 6 + 3 = 9
      OBVIOUS
    <2> HIDE DEF y
    <2> QED
      BY <1>5, <1>6, <2>1, <2>2
  <1> HIDE DEF y
  <1>8. z \in Seq(Ops) /\ Len(z) = 10 /\ z[10] = v[1] /\ \A i \in 1 .. 9 : z[i] = y[i]
    <2>1. /\ z \in Seq(Ops) /\ Len(z) = Len(y) + Len(v)
          /\ \A i \in 1 .. Len(y) : z[i] = y[i]
          /\ \A i \in 1 .. Len(v) : z[Len(y) + i] = v[i]
      BY <1>3, <1>7, ConcatElements
    <2> HIDE DEF z
    <2> QED
      BY <1>3, <1>7, <2>1
  <1>9. s = Locked("atomicCreate", z)
    BY <1>2 DEF z, y, x
  <1> HIDE DEF z
  <1>10. /\ s \in Seq(Ops) /\ Len(s) = Len(z) + 2 /\ s[1] = Uses("get", "atomicCreate")
         /\ s[Len(z) + 2] = Uses("release", "atomicCreate")
         /\ \A i \in 1 .. Len(z) : s[i + 1] = z[i]
    <2>1. "atomicCreate" \in PinLock
      BY DEF PinLock
    <2> DEFINE y2 == Locked("atomicCreate", z)
    <2>2. /\ y2 \in Seq(Ops) /\ Len(y2) = Len(z) + 2 /\ y2[1] = Uses("get", "atomicCreate")
          /\ y2[Len(z) + 2] = Uses("release", "atomicCreate")
          /\ \A i \in 1 .. Len(z) : y2[i + 1] = z[i]
      BY <1>8, <2>1, LockedElements
    <2>3. s = y2
      BY <1>9
    <2> HIDE DEF y2
    <2> QED
      BY <2>2, <2>3
  <1>11. /\ Len(s) = 12 /\ s[12] = Uses("release", "atomicCreate")
         /\ s[2] = z[1] /\ s[3] = z[2] /\ s[4] = z[3] /\ s[5] = z[4] /\ s[6] = z[5]
         /\ s[7] = z[6] /\ s[8] = z[7] /\ s[9] = z[8] /\ s[10] = z[9] /\ s[11] = z[10]
    <2>1. \A i \in 1 .. 10 : s[i + 1] = z[i]
      BY <1>8, <1>10
    <2>2. /\ 1 + 1 = 2 /\ 2 + 1 = 3 /\ 3 + 1 = 4 /\ 4 + 1 = 5 /\ 5 + 1 = 6
          /\ 6 + 1 = 7 /\ 7 + 1 = 8 /\ 8 + 1 = 9 /\ 9 + 1 = 10 /\ 10 + 1 = 11
          /\ {1, 2, 3, 4, 5, 6, 7, 8, 9, 10} \subseteq 1 .. 10 /\ 10 + 2 = 12
      OBVIOUS
    <2> QED
      BY <1>8, <1>10, <2>1, <2>2
  <1>12. /\ z[1] = p[1] /\ z[2] = p[2] /\ z[3] = q[1] /\ z[4] = q[2] /\ z[5] = q[3]
         /\ z[6] = q[4] /\ z[7] = m[1] /\ z[8] = m[2] /\ z[9] = m[3] /\ z[10] = v[1]
    BY <1>6, <1>7, <1>8
  <1> QED
    BY <1>3, <1>4, <1>5, <1>10, <1>11, <1>12 DEF a, b, c, d, e, f

LEMMA CreateIsOrdered ==
    ASSUME NEW t \in Threads
    PROVE  Ordered("pthread_create", PthreadCreateReplacement(t))
  <1> DEFINE s == PthreadCreateReplacement(t)
  <1>0. /\ Len(s) = 12
        /\ s[1] = Uses("get", "atomicCreate") /\ s[2] = Uses("spawn", "child")
        /\ s[3] = Uses("poll", "lastCreatedThread") /\ s[4] = Uses("get", "threadIdMapLock")
        /\ s[5] = Uses("write", "pthreadPinIdMap") /\ s[6] = Uses("write", "lastCreatedThread")
        /\ s[7] = Uses("release", "threadIdMapLock") /\ s[8] = Uses("get", "rdmLock")
        /\ s[9] = Uses("write", "rdm") /\ s[10] = Uses("release", "rdmLock")
        /\ s[11] = Op("write", "vectorClock", t) /\ s[12] = Uses("release", "atomicCreate")
    BY CreateElements
  <1> HIDE DEF s
  <1>1. /\ Len(s) = 12
        /\ s[1].do = "get" /\ s[2].do = "spawn" /\ s[3].do = "poll" /\ s[4].do = "get"
        /\ s[5].do = "write" /\ s[6].do = "write" /\ s[7].do = "release" /\ s[8].do = "get"
        /\ s[9].do = "write" /\ s[10].do = "release" /\ s[11].do = "write"
        /\ s[12].do = "release"
        /\ s[1].on = "atomicCreate" /\ s[4].on = "threadIdMapLock"
        /\ s[5].on = "pthreadPinIdMap" /\ s[6].on = "lastCreatedThread"
        /\ s[7].on = "threadIdMapLock" /\ s[8].on = "rdmLock" /\ s[9].on = "rdm"
        /\ s[10].on = "rdmLock" /\ s[11].on = "vectorClock" /\ s[12].on = "atomicCreate"
    BY <1>0 DEF Uses, Op
  <1>2. \A i \in 1 .. 12 : i \in {1, 2, 3, 4, 5, 6, 7, 8, 9, 10, 11, 12}
    OBVIOUS
  <1>3. ASSUME NEW i \in 1 .. 12
        PROVE  /\ Announces(s[i]) <=> i = 6
               /\ s[i].do = "spawn" <=> i = 2
               /\ s[i].do = "poll" <=> i = 3
               /\ ~ ReadsClock(s[i])
               /\ Releases(s, i, "atomicCreate") <=> i = 12
               /\ Gets(s, i, "atomicCreate") <=> i = 1
    BY <1>1, <1>2 DEF Announces, ReadsClock, Releases, Gets
  <1>4. Ordered("pthread_create", s)
    BY <1>1, <1>3 DEF Ordered
  <1> QED
    BY <1>4 DEF s

\* ThreadStart, operation by operation, but for what it prints.
LEMMA StartElements ==
    ASSUME NEW t \in Threads, parent[t] \in Threads
    PROVE  LET s == ThreadStart(t) IN
           /\ s \in Seq(Ops) /\ Len(s) = 10
           /\ s[1] = Uses("get", "threadIdMapLock") /\ s[2] = Uses("get", "recordLock")
           /\ s[3] = Uses("write", "recordFile") /\ s[4] = Uses("release", "recordLock")
           /\ s[5] = Uses("write", "rdm") /\ s[6] = Uses("write", "threadIdMap")
           /\ s[7] = Uses("write", "threadCreateOrder")
           /\ s[8] = Op("read", "vectorClock", parent[t])
           /\ s[9] = Uses("write", "lastCreatedThread")
           /\ s[10] = Uses("release", "threadIdMapLock")
  <1> DEFINE s == ThreadStart(t)
             a == Uses("write", "rdm")
             b == Uses("write", "threadIdMap")
             c == Uses("write", "threadCreateOrder")
             d == Op("read", "vectorClock", parent[t])
             e == Uses("write", "lastCreatedThread")
             f == Uses("write", "recordFile")
             p == PrintRecordInfo
             q == <<a, b, c, d, e>>
  <1>1. a \in Ops /\ b \in Ops /\ c \in Ops /\ d \in Ops /\ e \in Ops /\ f \in Ops
    BY DEF Uses, Op, Ops, Data
  <1>2. s = Locked("threadIdMapLock", p \o q)
    BY DEF ThreadStart
  <1> HIDE DEF a, b, c, d, e
  <1>3. /\ q \in Seq(Ops) /\ Len(q) = 5
        /\ q[1] = a /\ q[2] = b /\ q[3] = c /\ q[4] = d /\ q[5] = e
    BY <1>1
  <1>4. /\ p \in Seq(Ops) /\ Len(p) = 3 /\ p[1] = Uses("get", "recordLock")
        /\ p[2] = f /\ p[3] = Uses("release", "recordLock")
    <2> DEFINE r == <<f>>
    <2>0. p = Locked("recordLock", r)
      BY DEF PrintRecordInfo
    <2>1. r \in Seq(Ops) /\ Len(r) = 1 /\ r[1] = f
      BY <1>1
    <2> HIDE DEF r, f
    <2>2. /\ Locked("recordLock", r) \in Seq(Ops)
          /\ Len(Locked("recordLock", r)) = Len(r) + 2
          /\ Locked("recordLock", r)[1] = Uses("get", "recordLock")
          /\ Locked("recordLock", r)[Len(r) + 2] = Uses("release", "recordLock")
          /\ \A i \in 1 .. Len(r) : Locked("recordLock", r)[i + 1] = r[i]
      BY <2>1, LockedElements DEF PinLock
    <2>3. 1 \in 1 .. Len(r) /\ 1 + 1 = 2 /\ Len(r) + 2 = 3
      BY <2>1
    <2> QED
      BY <2>0, <2>1, <2>2, <2>3
  <1> HIDE DEF p, q, f
  <1> DEFINE x == p \o q
  <1>5. /\ x \in Seq(Ops) /\ Len(x) = 8 /\ x[1] = p[1] /\ x[2] = p[2] /\ x[3] = p[3]
        /\ x[4] = q[1] /\ x[5] = q[2] /\ x[6] = q[3] /\ x[7] = q[4] /\ x[8] = q[5]
    <2>1. /\ x \in Seq(Ops) /\ Len(x) = Len(p) + Len(q)
          /\ \A i \in 1 .. Len(p) : x[i] = p[i]
          /\ \A i \in 1 .. Len(q) : x[Len(p) + i] = q[i]
      BY <1>3, <1>4, ConcatElements
    <2>2. 3 + 1 = 4 /\ 3 + 2 = 5 /\ 3 + 3 = 6 /\ 3 + 4 = 7 /\ 3 + 5 = 8
      OBVIOUS
    <2> HIDE DEF x
    <2> QED
      BY <1>3, <1>4, <2>1, <2>2
  <1>6. s = Locked("threadIdMapLock", x)
    BY <1>2 DEF x
  <1> HIDE DEF x
  <1>7. /\ s \in Seq(Ops) /\ Len(s) = Len(x) + 2 /\ s[1] = Uses("get", "threadIdMapLock")
        /\ s[Len(x) + 2] = Uses("release", "threadIdMapLock")
        /\ \A i \in 1 .. Len(x) : s[i + 1] = x[i]
    <2> DEFINE y == Locked("threadIdMapLock", x)
    <2>1. "threadIdMapLock" \in PinLock
      BY DEF PinLock
    <2>2. /\ y \in Seq(Ops) /\ Len(y) = Len(x) + 2 /\ y[1] = Uses("get", "threadIdMapLock")
          /\ y[Len(x) + 2] = Uses("release", "threadIdMapLock")
          /\ \A i \in 1 .. Len(x) : y[i + 1] = x[i]
      BY <1>5, <2>1, LockedElements
    <2>3. s = y
      BY <1>6
    <2> HIDE DEF y, s
    <2> QED
      BY <2>2, <2>3
  <1> HIDE DEF s
  <1>8. /\ Len(s) = 10 /\ s[10] = Uses("release", "threadIdMapLock")
        /\ s[2] = x[1] /\ s[3] = x[2] /\ s[4] = x[3] /\ s[5] = x[4] /\ s[6] = x[5]
        /\ s[7] = x[6] /\ s[8] = x[7] /\ s[9] = x[8]
    <2>1. \A i \in 1 .. 8 : s[i + 1] = x[i]
      BY <1>5, <1>7
    <2>2. /\ 1 + 1 = 2 /\ 2 + 1 = 3 /\ 3 + 1 = 4 /\ 4 + 1 = 5 /\ 5 + 1 = 6
          /\ 6 + 1 = 7 /\ 7 + 1 = 8 /\ 8 + 1 = 9
          /\ {1, 2, 3, 4, 5, 6, 7, 8} \subseteq 1 .. 8 /\ 8 + 2 = 10
      OBVIOUS
    <2> QED
      BY <1>5, <1>7, <2>1, <2>2
  <1> QED
    BY <1>3, <1>4, <1>5, <1>7, <1>8 DEF a, b, c, d, e, f, s

LEMMA StartIsOrdered ==
    ASSUME NEW t \in Threads, parent[t] \in Threads
    PROVE  /\ Ordered("ThreadStart", ThreadStart(t))
           /\ \E i \in 1 .. Len(ThreadStart(t)) : Announces(ThreadStart(t)[i])
  <1> DEFINE s == ThreadStart(t)
  <1>0. /\ Len(s) = 10
        /\ s[1] = Uses("get", "threadIdMapLock") /\ s[2] = Uses("get", "recordLock")
        /\ s[3] = Uses("write", "recordFile") /\ s[4] = Uses("release", "recordLock")
        /\ s[5] = Uses("write", "rdm") /\ s[6] = Uses("write", "threadIdMap")
        /\ s[7] = Uses("write", "threadCreateOrder")
        /\ s[8] = Op("read", "vectorClock", parent[t])
        /\ s[9] = Uses("write", "lastCreatedThread")
        /\ s[10] = Uses("release", "threadIdMapLock")
    BY StartElements
  <1> HIDE DEF s
  <1>1. /\ Len(s) = 10
        /\ s[1].do = "get" /\ s[2].do = "get" /\ s[3].do = "write" /\ s[4].do = "release"
        /\ s[5].do = "write" /\ s[6].do = "write" /\ s[7].do = "write" /\ s[8].do = "read"
        /\ s[9].do = "write" /\ s[10].do = "release"
        /\ s[1].on = "threadIdMapLock" /\ s[2].on = "recordLock" /\ s[3].on = "recordFile"
        /\ s[4].on = "recordLock" /\ s[5].on = "rdm" /\ s[6].on = "threadIdMap"
        /\ s[7].on = "threadCreateOrder" /\ s[8].on = "vectorClock"
        /\ s[9].on = "lastCreatedThread" /\ s[10].on = "threadIdMapLock"
    BY <1>0 DEF Uses, Op
  <1>2. \A i \in 1 .. 10 : i \in {1, 2, 3, 4, 5, 6, 7, 8, 9, 10}
    OBVIOUS
  <1>3. ASSUME NEW i \in 1 .. 10
        PROVE  /\ Announces(s[i]) <=> i = 9
               /\ s[i].do \notin {"spawn", "poll"}
               /\ ReadsClock(s[i]) <=> i = 8
               /\ ~ Releases(s, i, "atomicCreate") /\ ~ Gets(s, i, "atomicCreate")
    BY <1>1, <1>2 DEF Announces, ReadsClock, Releases, Gets
  <1>4. Ordered("ThreadStart", s)
    BY <1>1, <1>3 DEF Ordered
  <1>5. \E i \in 1 .. Len(s) : Announces(s[i])
    BY <1>1, <1>3
  <1> QED
    BY <1>4, <1>5 DEF s

\* No other handler spawns, polls, announces or reads another thread's clock.
LEMMA OthersAreOrdered ==
    ASSUME NEW t, NEW p, NEW h, NEW s, h \notin {"pthread_create", "ThreadStart"},
           Balanced(t, p, h, s, {})
    PROVE  /\ Ordered(h, s)
           /\ \A i \in 1 .. Len(s) : ~ Announces(s[i])
  <1>1. ASSUME NEW i \in 1 .. Len(s)
        PROVE  /\ ~ Announces(s[i]) /\ ~ ReadsClock(s[i])
               /\ s[i].do \notin {"spawn", "poll"}
               /\ s[i].on # "atomicCreate"
    BY DEF Balanced, Allowed, MayDo, Announces, ReadsClock
  <1> QED
    BY <1>1 DEF Ordered, Releases, Gets

\* What a thread enters is balanced and in order.
LEMMA BodiesAreGood ==
    ASSUME NEW t \in Threads, parent \in [Threads -> Threads \cup {NO_ID}],
           NEW h \in ProgramHandlers \cup {"ThreadStart", "ThreadFini"},
           h = "ThreadStart" => parent[t] \in Threads,
           NEW body \in Bodies(t, h)
    PROVE  Balanced(t, parent[t], h, body, {}) /\ Ordered(h, body)
  <1>1. Balanced(t, parent[t], h, body, {})
    <2>1. CASE h = "pthread_create"
      BY <2>1, CreateIsBalanced DEF Bodies
    <2>2. CASE h = "pthread_join"
      <3>1. PICK c \in Threads :
              body \in {PthreadJoinReplacement(t, c), JoinOfUnknownHandle(t, c),
                        JoinOfAnothersChild(t, c)}
        BY <2>2 DEF Bodies, Joins, Children, Others
      <3> QED
        BY <2>2, <3>1, JoinIsBalanced, JoinOfUnknownIsBalanced, JoinOfAnothersIsBalanced
    <2>3. CASE h = "AfterLock"
      BY <2>3, AfterLockIsBalanced DEF Bodies
    <2>4. CASE h = "AfterCondWait"
      BY <2>4, AfterCondWaitIsBalanced DEF Bodies
    <2>5. CASE h = "BeforeCondSignal"
      BY <2>5, BeforeCondSignalIsBalanced DEF Bodies
    <2>6. CASE h = "BeforeBarrierInit"
      BY <2>6, BeforeBarrierInitIsBalanced DEF Bodies
    <2>7. CASE h = "BeforeBarrierWait"
      BY <2>7, BeforeBarrierWaitIsBalanced DEF Bodies
    <2>8. CASE h = "AfterBarrierWait"
      BY <2>8, AfterBarrierWaitIsBalanced DEF Bodies
    <2>9. CASE h = "ThreadStart"
      BY <2>9, ThreadStartIsBalanced DEF Bodies
    <2>10. CASE h = "ThreadFini"
      BY <2>10, ThreadFiniIsBalanced DEF Bodies
    <2>11. CASE h = "BeforeCondBroadcast"
      BY <2>11, BroadcastIsBalanced DEF Bodies
    <2>12. CASE h = "Read"
      BY <2>12, ReadIsBalanced DEF Bodies
    <2> QED
      BY <2>1, <2>2, <2>3, <2>4, <2>5, <2>6, <2>7, <2>8, <2>9, <2>10, <2>11, <2>12
      DEF ProgramHandlers
  <1>2. CASE h = "pthread_create"
    BY <1>1, <1>2, CreateIsOrdered DEF Bodies
  <1>3. CASE h = "ThreadStart"
    BY <1>1, <1>3, StartIsOrdered DEF Bodies
  <1>4. CASE h \notin {"pthread_create", "ThreadStart"}
    BY <1>1, <1>4, OthersAreOrdered
  <1> QED
    BY <1>1, <1>2, <1>3, <1>4

-----------------------------------------------------------------------------
\* A join reads the final clock of the thread it has waited for.

ReadsFinal(x) == x.do = "read" /\ x.on = "finalClock"

\* Before i, s waits for the thread whose clock it reads at i.
WaitsBefore(s, i) == \E j \in 1 .. i - 1 : s[j].do = "wait" /\ s[j].of = s[i].of

LEMMA JoinWaitsFirst ==
    ASSUME NEW t \in Threads, NEW c \in Threads
    PROVE  LET s == PthreadJoinReplacement(t, c)
           IN  \A i \in 1 .. Len(s) : ReadsFinal(s[i]) => WaitsBefore(s, i)
  <1> DEFINE h == "AfterLock"
             l == Locked("threadIdMapLock",
                         <<Uses("read", "pthreadPinIdMap"), Op("read", "joinVCMap", t)>>)
             w == Op("wait", "thread", c)
             y == Op("read", "finalClock", c)
             v == Advance(t)
             a == Joined(c) \o l
             b == a \o <<y>>
             s == b \o v
  <1>1. s = PthreadJoinReplacement(t, c)
    BY DEF PthreadJoinReplacement
  <1>2. /\ Balanced(t, c, h, Joined(c), {}) /\ Balanced(t, c, h, HandOver, {})
        /\ Balanced(t, c, h, v, {})
    BY JoinedIsBalanced, ModuleIsBalanced, AdvanceIsBalanced
  <1>3. Balanced(t, c, h, l, {})
    <2> DEFINE x == <<Uses("read", "pthreadPinIdMap"), Op("read", "joinVCMap", t)>>
    <2>1. Balanced(t, c, h, x, {"threadIdMapLock"}) /\ "threadIdMapLock" \in PinLock
      BY LookUpIsBalanced DEF PinLock
    <2> HIDE DEF x
    <2>2. Balanced(t, c, h, Locked("threadIdMapLock", x), {})
      BY <2>1, LockedIsBalanced
    <2> QED
      BY <2>2 DEF x
  <1>4. w \in Ops /\ w.do = "wait" /\ w.of = c /\ y \in Ops /\ y.of = c
    BY DEF Op, Ops, Data
  <1>5. Joined(c) = <<w>> \o HandOver
    BY DEF Joined
  <1> HIDE DEF l, w, y, v
  <1>6. Balanced(t, c, h, a, {})
    BY <1>2, <1>3, ConcatIsBalanced
  <1>7. Len(a) \in Nat /\ Len(a) > 0 /\ a[1] = w
    <2>1. /\ <<w>> \in Seq(Ops) /\ Len(<<w>>) = 1 /\ <<w>>[1] = w
          /\ HandOver \in Seq(Ops) /\ l \in Seq(Ops)
          /\ Len(HandOver) \in Nat /\ Len(l) \in Nat
      BY <1>2, <1>3, <1>4, LenProperties DEF Balanced
    <2> DEFINE d == <<w>> \o HandOver
    <2>2. d \in Seq(Ops) /\ Len(d) = 1 + Len(HandOver) /\ d[1] = w
      BY <2>1, ConcatElements
    <2> HIDE DEF d
    <2>3. a = d \o l
      BY <1>5 DEF d
    <2> HIDE DEF a
    <2>4. /\ a \in Seq(Ops) /\ Len(a) = Len(d) + Len(l)
          /\ \A i \in 1 .. Len(d) : a[i] = d[i]
      BY <2>1, <2>2, <2>3, ConcatElements
    <2>5. 1 \in 1 .. Len(d)
      BY <2>1, <2>2
    <2> QED
      BY <2>1, <2>2, <2>4, <2>5
  <1> HIDE DEF a
  <1>8. /\ a \in Seq(Ops) /\ v \in Seq(Ops) /\ Len(v) \in Nat
        /\ \A i \in 1 .. Len(a) : ~ ReadsFinal(a[i])
        /\ \A i \in 1 .. Len(v) : ~ ReadsFinal(v[i])
    BY <1>2, <1>6, LenProperties DEF Balanced, Allowed, MayDo, ReadsFinal
  <1>9. /\ b \in Seq(Ops) /\ Len(b) = Len(a) + 1 /\ b[Len(a) + 1] = y
        /\ \A i \in 1 .. Len(a) : b[i] = a[i]
    <2>1. <<y>> \in Seq(Ops) /\ Len(<<y>>) = 1 /\ <<y>>[1] = y
      BY <1>4
    <2> QED
      BY <2>1, <1>8, ConcatElements
  <1> HIDE DEF b
  <1>10. /\ s \in Seq(Ops) /\ Len(s) = Len(b) + Len(v)
         /\ \A i \in 1 .. Len(b) : s[i] = b[i]
         /\ \A i \in 1 .. Len(v) : s[Len(b) + i] = v[i]
    BY <1>8, <1>9, ConcatElements
  <1> HIDE DEF s
  <1>11. ASSUME NEW i \in 1 .. Len(s), ReadsFinal(s[i]) PROVE WaitsBefore(s, i)
    <2>1. CASE i <= Len(a)
      <3>1. i \in 1 .. Len(a) /\ i \in 1 .. Len(b)
        BY <2>1, <1>7, <1>9
      <3> QED
        BY <3>1, <1>8, <1>9, <1>10, <1>11
    <2>2. CASE i = Len(a) + 1
      <3>1. i \in 1 .. Len(b) /\ 1 \in 1 .. Len(b) /\ 1 \in 1 .. Len(a) /\ 1 \in 1 .. i - 1
        BY <2>2, <1>7, <1>9
      <3>2. s[i] = y /\ s[1] = w
        BY <2>2, <3>1, <1>7, <1>9, <1>10
      <3> QED
        BY <3>1, <3>2, <1>4 DEF WaitsBefore
    <2>3. CASE i > Len(a) + 1
      <3>1. i - Len(b) \in 1 .. Len(v) /\ i = Len(b) + (i - Len(b))
        BY <2>3, <1>7, <1>8, <1>9, <1>10
      <3> QED
        BY <3>1, <1>8, <1>10, <1>11
    <2> QED
      BY <2>1, <2>2, <2>3, <1>7
  <1> QED
    BY <1>1, <1>11

LEMMA BodiesWaitFirst ==
    ASSUME NEW t \in Threads, parent \in [Threads -> Threads \cup {NO_ID}],
           NEW h \in ProgramHandlers \cup {"ThreadStart", "ThreadFini"},
           h = "ThreadStart" => parent[t] \in Threads,
           NEW body \in Bodies(t, h),
           NEW i \in 1 .. Len(body), ReadsFinal(body[i])
    PROVE  WaitsBefore(body, i)
  <1>1. Balanced(t, parent[t], h, body, {})
    BY BodiesAreGood
  <1>2. h = "pthread_join"
    BY <1>1 DEF Balanced, Allowed, MayDo, ReadsFinal
  <1>3. PICK c \in Threads :
          body \in {PthreadJoinReplacement(t, c), JoinOfUnknownHandle(t, c),
                    JoinOfAnothersChild(t, c)}
    BY <1>2 DEF Bodies, Joins, Children, Others
  <1>4. CASE body = PthreadJoinReplacement(t, c)
    BY <1>4, JoinWaitsFirst
  <1>5. CASE body \in {JoinOfUnknownHandle(t, c), JoinOfAnothersChild(t, c)}
    <2>1. Balanced(t, parent[t], "AfterLock", body, {})
      BY <1>5, JoinOfUnknownIsBalanced, JoinOfAnothersIsBalanced
    <2> QED
      BY <2>1 DEF Balanced, Allowed, MayDo, ReadsFinal
  <1> QED
    BY <1>3, <1>4, <1>5

-----------------------------------------------------------------------------
\* The inductive invariant, in named parts.

\* What is left of each handler is disciplined, allowed and in order.
TodoInv ==
    /\ todo \in [Threads -> Seq(Ops)]
    /\ \A t \in Threads :
        /\ Disciplined(inside[t], todo[t], {})
        /\ Allowed(t, parent[t], inside[t], todo[t])
        /\ Ordered(inside[t], todo[t])

\* A lock belongs to the thread that is going to release it.
HolderInv ==
    /\ holder \in [PinLock -> Threads \cup {NO_ID}]
    /\ \A l \in PinLock, t \in Threads : holder[l] = t <=> Held(todo[t], 1, l)

LifeInv ==
    /\ inside \in [Threads -> ProgramHandlers \cup {"ThreadStart", "ThreadFini"}]
    /\ lastCreatedThread \in Threads \cup {NO_ID}
    /\ life \in [Threads -> {"absent", "spawned", "running", "ending", "exited"}]
    /\ parent \in [Threads -> Threads \cup {NO_ID}]
    /\ calls \in 0 .. MaxCalls
    /\ \A t \in Threads : life[t] \in {"absent", "spawned"} => todo[t] = << >>

WillAnnounce(t) == \E i \in 1 .. Len(todo[t]) : Announces(todo[t][i])

\* A thread that was spawned and has not yet set lastCreatedThread.
Starting(c) == life[c] = "spawned" \/ (inside[c] = "ThreadStart" /\ WillAnnounce(c))

\* A creator that is going to take and reset lastCreatedThread.
Taking(p) ==
    /\ inside[p] = "pthread_create" /\ WillAnnounce(p)
    /\ \A i \in 1 .. Len(todo[p]) : todo[p][i].do # "spawn"

\* While a thread starts, its creator polls; there is one such thread at most.
StartInv ==
    /\ \A c \in Threads : Starting(c) =>
          parent[c] \in Threads /\ At(parent[c], "poll") /\ lastCreatedThread = NO_ID
    /\ \A c, d \in Threads : Starting(c) /\ Starting(d) => c = d
    /\ lastCreatedThread # NO_ID => \E p \in Threads : Taking(p)

\* A thread that has ended does nothing, and its final clock is read only after a
\* wait for it, or when it has ended.
JoinInv ==
    /\ \A t \in Threads : life[t] = "exited" => todo[t] = << >>
    /\ \A t \in Threads : \A i \in 1 .. Len(todo[t]) :
          ReadsFinal(todo[t][i]) =>
             life[todo[t][i].of] = "exited" \/ WaitsBefore(todo[t], i)

LocksInv == TodoInv /\ HolderInv /\ LifeInv /\ StartInv /\ JoinInv

LEMMA InitLocks == Init => LocksInv
  <1> SUFFICES ASSUME Init PROVE LocksInv
    OBVIOUS
  <1>1. \A t \in Threads : todo[t] = << >> /\ Len(todo[t]) = 0
    BY DEF Init
  <1>2. todo \in [Threads -> Seq(Ops)]
    BY DEF Init
  <1>3. TodoInv
    BY <1>1, <1>2 DEF TodoInv, Disciplined, Allowed, Ordered
  <1>4. HolderInv
    BY <1>1, LocksAssumption DEF Init, HolderInv, Held
  <1>5. LifeInv
    BY <1>1, LocksAssumption DEF Init, LifeInv
  <1>6. \A c \in Threads : ~ Starting(c)
    BY <1>1 DEF Init, Starting, WillAnnounce
  <1>7. StartInv
    BY <1>6 DEF Init, StartInv
  <1>8. JoinInv
    BY <1>1 DEF JoinInv
  <1> QED
    BY <1>3, <1>4, <1>5, <1>7, <1>8 DEF LocksInv

\* The tail of a sequence of operations.
LEMMA TailIndices ==
    ASSUME NEW s \in Seq(Ops), s # << >>
    PROVE  /\ Tail(s) \in Seq(Ops) /\ Len(s) \in Nat /\ Len(s) > 0
           /\ Len(Tail(s)) = Len(s) - 1
           /\ Head(s) = s[1] /\ s[1] \in Ops
           /\ \A i \in 1 .. Len(Tail(s)) : i + 1 \in 1 .. Len(s) /\ Tail(s)[i] = s[i + 1]
  <1>1. Tail(s) \in Seq(Ops) /\ Len(s) \in Nat /\ Len(s) > 0 /\ Len(Tail(s)) = Len(s) - 1
    BY HeadTailProperties, LenProperties, EmptySeq
  <1>2. Head(s) = s[1] /\ s[1] \in Ops
    BY HeadTailProperties, <1>1
  <1>3. \A i \in 1 .. Len(Tail(s)) : Tail(s)[i] = s[i + 1]
    BY HeadTailProperties
  <1>4. \A i \in 1 .. Len(Tail(s)) : i + 1 \in 1 .. Len(s)
    BY <1>1
  <1> QED
    BY <1>1, <1>2, <1>3, <1>4

LEMMA HeldInTail ==
    ASSUME NEW s \in Seq(Ops), s # << >>, NEW l
    PROVE  \A i \in 1 .. Len(s) : Held(Tail(s), i, l) <=> Held(s, i + 1, l)
  <1> DEFINE r == Tail(s)
  <1>1. /\ Len(s) \in Nat /\ Len(r) = Len(s) - 1
        /\ \A i \in 1 .. Len(r) : r[i] = s[i + 1]
    BY TailIndices
  <1> HIDE DEF r
  <1>2. ASSUME NEW i \in 1 .. Len(s), Held(r, i, l) PROVE Held(s, i + 1, l)
    <2>1. PICK k \in i .. Len(r) : Releases(r, k, l) /\ \A j \in i .. k : ~ Gets(r, j, l)
      BY <1>2 DEF Held
    <2>2. k \in 1 .. Len(r) /\ k + 1 \in i + 1 .. Len(s)
      BY <1>1, <2>1
    <2>3. Releases(s, k + 1, l)
      BY <1>1, <2>1, <2>2 DEF Releases
    <2>4. ASSUME NEW j \in i + 1 .. k + 1 PROVE ~ Gets(s, j, l)
      <3>1. j - 1 \in i .. k /\ j - 1 \in 1 .. Len(r) /\ j = (j - 1) + 1
        BY <1>1, <2>1, <2>2
      <3>2. s[j] = r[j - 1]
        BY <3>1, <1>1
      <3> QED
        BY <3>1, <3>2, <2>1 DEF Gets
    <2> QED
      BY <2>2, <2>3, <2>4 DEF Held
  <1>3. ASSUME NEW i \in 1 .. Len(s), Held(s, i + 1, l) PROVE Held(r, i, l)
    <2>1. PICK k \in i + 1 .. Len(s) :
            Releases(s, k, l) /\ \A j \in i + 1 .. k : ~ Gets(s, j, l)
      BY <1>3 DEF Held
    <2>2. k - 1 \in i .. Len(r) /\ k - 1 \in 1 .. Len(r) /\ k = (k - 1) + 1
      BY <1>1, <2>1
    <2>3. Releases(r, k - 1, l)
      BY <1>1, <2>1, <2>2 DEF Releases
    <2>4. ASSUME NEW j \in i .. k - 1 PROVE ~ Gets(r, j, l)
      <3>1. j + 1 \in i + 1 .. k /\ j \in 1 .. Len(r)
        BY <1>1, <2>1, <2>2
      <3>2. s[j + 1] = r[j]
        BY <3>1, <1>1
      <3> QED
        BY <3>1, <3>2, <2>1 DEF Gets
    <2> QED
      BY <2>2, <2>3, <2>4 DEF Held
  <1> QED
    BY <1>2, <1>3 DEF r

\* What is held before and after the first operation.
LEMMA HeldAtHead ==
    ASSUME NEW s \in Seq(Ops), s # << >>, NEW h, Disciplined(h, s, {}), NEW l
    PROVE  /\ Gets(s, 1, l) => ~ Held(s, 1, l) /\ Held(s, 2, l)
           /\ Releases(s, 1, l) => Held(s, 1, l) /\ ~ Held(s, 2, l)
           /\ (~ Gets(s, 1, l) /\ ~ Releases(s, 1, l)) => (Held(s, 1, l) <=> Held(s, 2, l))
  <1>1. Len(s) \in Nat /\ Len(s) > 0 /\ 1 \in 1 .. Len(s)
    BY TailIndices
  <1>2. ASSUME Gets(s, 1, l) PROVE ~ Held(s, 1, l) /\ Held(s, 2, l)
    <2>1. \A k \in 1 .. Len(s) : 1 \in 1 .. k
      OBVIOUS
    <2> QED
      BY <1>1, <1>2, <2>1 DEF Held, Disciplined, Gets
  <1>3. ASSUME Releases(s, 1, l) PROVE Held(s, 1, l) /\ ~ Held(s, 2, l)
    <2>1. 1 \in 1 .. Len(s) /\ \A j \in 1 .. 1 : ~ Gets(s, j, l)
      BY <1>1, <1>3 DEF Gets, Releases
    <2> QED
      BY <1>1, <1>3, <2>1 DEF Held, Disciplined, Releases
  <1>4. ASSUME ~ Gets(s, 1, l), ~ Releases(s, 1, l)
        PROVE  Held(s, 1, l) <=> Held(s, 2, l)
    <2>1. ASSUME Held(s, 1, l) PROVE Held(s, 2, l)
      <3>1. PICK k \in 1 .. Len(s) : Releases(s, k, l) /\ \A j \in 1 .. k : ~ Gets(s, j, l)
        BY <2>1 DEF Held
      <3>2. k \in 2 .. Len(s)
        BY <3>1, <1>4, <1>1
      <3> QED
        BY <3>1, <3>2 DEF Held
    <2>2. ASSUME Held(s, 2, l) PROVE Held(s, 1, l)
      <3>1. PICK k \in 2 .. Len(s) : Releases(s, k, l) /\ \A j \in 2 .. k : ~ Gets(s, j, l)
        BY <2>2 DEF Held
      <3>2. \A j \in 1 .. k : j = 1 \/ j \in 2 .. k
        BY <3>1
      <3> QED
        BY <3>1, <3>2, <1>4 DEF Held
    <2> QED
      BY <2>1, <2>2
  <1> QED
    BY <1>2, <1>3, <1>4

-----------------------------------------------------------------------------
\* What every step of a handler keeps.

LEMMA TailKeeps ==
    ASSUME NEW s \in Seq(Ops), s # << >>, NEW t, NEW p, NEW h,
           Disciplined(h, s, {}), Allowed(t, p, h, s), Ordered(h, s)
    PROVE  /\ Disciplined(h, Tail(s), {}) /\ Allowed(t, p, h, Tail(s))
           /\ Ordered(h, Tail(s))
           /\ \A l : Held(Tail(s), 1, l) <=> Held(s, 2, l)
  <1> DEFINE r == Tail(s)
  <1>1. /\ r \in Seq(Ops) /\ Len(s) \in Nat /\ Len(s) > 0 /\ Len(r) = Len(s) - 1
        /\ \A i \in 1 .. Len(r) : i + 1 \in 1 .. Len(s) /\ r[i] = s[i + 1]
    BY TailIndices
  <1>2. \A l : \A i \in 1 .. Len(s) : Held(r, i, l) <=> Held(s, i + 1, l)
    BY HeldInTail
  <1> HIDE DEF r
  <1>3. Disciplined(h, r, {})
    <2> SUFFICES ASSUME NEW i \in 1 .. Len(r)
                 PROVE  /\ r[i].do = "get" => Held(r, i + 1, r[i].on)
                        /\ r[i].do = "release" => ~ Held(r, i + 1, r[i].on)
                        /\ (IsUse(r[i]) /\ Guarded(h, r[i].on)) => Held(r, i, LockOf[r[i].on])
      BY DEF Disciplined
    <2>1. i \in 1 .. Len(s) /\ i + 1 \in 1 .. Len(s) /\ r[i] = s[i + 1]
      BY <1>1
    <2> DEFINE k == i + 1
    <2>2. k \in 1 .. Len(s) /\ r[i] = s[k]
      BY <2>1
    <2>3. /\ s[k].do = "get" => Held(s, k + 1, s[k].on)
          /\ s[k].do = "release" => ~ Held(s, k + 1, s[k].on)
          /\ (IsUse(s[k]) /\ Guarded(h, s[k].on)) => Held(s, k, LockOf[s[k].on])
      BY <2>2 DEF Disciplined
    <2>4. \A l : /\ Held(r, i, l) <=> Held(s, k, l)
                 /\ Held(r, k, l) <=> Held(s, k + 1, l)
      BY <1>2, <2>1, <2>2
    <2> QED
      BY <2>2, <2>3, <2>4
  <1>4. Allowed(t, p, h, r)
    BY <1>1 DEF Allowed
  <1>5. Ordered(h, r)
    <2>1. ASSUME NEW i \in 1 .. Len(r)
          PROVE  /\ Announces(r[i]) => \A j \in i + 1 .. Len(r) :
                       ~ Announces(r[j]) /\ ~ ReadsClock(r[j]) /\ r[j].do \notin {"spawn", "poll"}
                 /\ r[i].do = "spawn" => i + 1 \in 1 .. Len(r) /\ r[i + 1].do = "poll"
                 /\ r[i].do = "poll" => \A j \in i + 1 .. Len(r) : r[j].do \notin {"spawn", "poll"}
                 /\ (r[i].do = "poll" \/ ReadsClock(r[i])) => \E j \in i + 1 .. Len(r) : Announces(r[j])
                 /\ Releases(r, i, "atomicCreate") => i = Len(r)
                 /\ ~ Gets(r, i, "atomicCreate")
      <3> DEFINE k == i + 1
      <3>1. k \in 1 .. Len(s) /\ r[i] = s[k] /\ k # 1 /\ i \in Nat
        BY <1>1
      <3>2. \A j \in i + 1 .. Len(r) : j + 1 \in k + 1 .. Len(s) /\ r[j] = s[j + 1]
        BY <1>1, <3>1
      <3>3. \A j \in k + 1 .. Len(s) : j - 1 \in i + 1 .. Len(r) /\ r[j - 1] = s[j]
        <4> TAKE j \in k + 1 .. Len(s)
        <4>1. j - 1 \in i + 1 .. Len(r) /\ j - 1 \in 1 .. Len(r) /\ (j - 1) + 1 = j
          BY <1>1, <3>1
        <4> QED
          BY <4>1, <1>1
      <3>4. /\ Announces(s[k]) => \A j \in k + 1 .. Len(s) :
                  ~ Announces(s[j]) /\ ~ ReadsClock(s[j]) /\ s[j].do \notin {"spawn", "poll"}
            /\ s[k].do = "spawn" => k + 1 \in 1 .. Len(s) /\ s[k + 1].do = "poll"
            /\ s[k].do = "poll" => \A j \in k + 1 .. Len(s) : s[j].do \notin {"spawn", "poll"}
            /\ (s[k].do = "poll" \/ ReadsClock(s[k])) => \E j \in k + 1 .. Len(s) : Announces(s[j])
            /\ Releases(s, k, "atomicCreate") => k = Len(s)
            /\ Gets(s, k, "atomicCreate") => k = 1
        BY <3>1 DEF Ordered
      <3> HIDE DEF k
      <3>5. Announces(r[i]) => \A j \in i + 1 .. Len(r) :
                ~ Announces(r[j]) /\ ~ ReadsClock(r[j]) /\ r[j].do \notin {"spawn", "poll"}
        BY <3>1, <3>2, <3>4
      <3>6. r[i].do = "spawn" => i + 1 \in 1 .. Len(r) /\ r[i + 1].do = "poll"
        <4> SUFFICES ASSUME r[i].do = "spawn"
                     PROVE  i + 1 \in 1 .. Len(r) /\ r[i + 1].do = "poll"
          OBVIOUS
        <4>1. k + 1 \in k + 1 .. Len(s) /\ s[k + 1].do = "poll"
          BY <3>1, <3>4, <1>1
        <4>2. (k + 1) - 1 = i + 1
          BY <3>1 DEF k
        <4>3. i + 1 \in i + 1 .. Len(r) /\ r[i + 1] = s[k + 1]
          BY <3>3, <4>1, <4>2
        <4> QED
          BY <4>1, <4>3, <3>1
      <3>7. r[i].do = "poll" => \A j \in i + 1 .. Len(r) : r[j].do \notin {"spawn", "poll"}
        BY <3>1, <3>2, <3>4
      <3>8. (r[i].do = "poll" \/ ReadsClock(r[i])) => \E j \in i + 1 .. Len(r) : Announces(r[j])
        BY <3>1, <3>3, <3>4
      <3>9. Releases(r, i, "atomicCreate") => i = Len(r)
        BY <3>1, <3>4, <1>1 DEF Releases, k
      <3>10. ~ Gets(r, i, "atomicCreate")
        BY <3>1, <3>4 DEF Gets
      <3> QED
        BY <3>5, <3>6, <3>7, <3>8, <3>9, <3>10
    <2>2. (h = "pthread_create" /\ Len(r) > 0) => Releases(r, Len(r), "atomicCreate")
      <3> SUFFICES ASSUME h = "pthread_create", Len(r) > 0
                   PROVE  Releases(r, Len(r), "atomicCreate")
        OBVIOUS
      <3>1. Releases(s, Len(s), "atomicCreate")
        BY <1>1 DEF Ordered
      <3>2. Len(r) \in 1 .. Len(r) /\ Len(r) + 1 = Len(s)
        BY <1>1
      <3> QED
        BY <3>1, <3>2, <1>1 DEF Releases
    <2> QED
      BY <2>1, <2>2 DEF Ordered
  <1>6. 1 \in 1 .. Len(s)
    BY <1>1
  <1> QED
    BY <1>2, <1>3, <1>4, <1>5, <1>6 DEF r

LEMMA TailTodo ==
    ASSUME TodoInv, NEW t \in Threads, todo[t] # << >>, Advanced(t),
           UNCHANGED <<inside, parent>>
    PROVE  TodoInv'
  <1>1. /\ todo[t] \in Seq(Ops) /\ Tail(todo[t]) \in Seq(Ops)
        /\ Disciplined(inside[t], todo[t], {})
        /\ Allowed(t, parent[t], inside[t], todo[t])
        /\ Ordered(inside[t], todo[t])
    BY TailIndices DEF TodoInv
  <1>2. /\ Disciplined(inside[t], Tail(todo[t]), {})
        /\ Allowed(t, parent[t], inside[t], Tail(todo[t]))
        /\ Ordered(inside[t], Tail(todo[t]))
    BY <1>1, TailKeeps
  <1>3. /\ todo' \in [Threads -> Seq(Ops)] /\ todo'[t] = Tail(todo[t])
        /\ \A u \in Threads \ {t} : todo'[u] = todo[u]
    BY <1>1 DEF TodoInv, Advanced
  <1>4. ASSUME NEW u \in Threads
        PROVE  /\ Disciplined(inside[u], todo'[u], {})
               /\ Allowed(u, parent[u], inside[u], todo'[u])
               /\ Ordered(inside[u], todo'[u])
    <2>1. CASE u = t
      BY <2>1, <1>2, <1>3
    <2>2. CASE u # t
      BY <2>2, <1>3 DEF TodoInv
    <2> QED
      BY <2>1, <2>2
  <1> QED
    BY <1>3, <1>4 DEF TodoInv

\* The holders after an operation that is not about a lock.
LEMMA TailHolder ==
    ASSUME TodoInv, HolderInv, NEW t \in Threads, todo[t] # << >>, Advanced(t),
           Head(todo[t]).do \notin {"get", "release"}, UNCHANGED holder
    PROVE  HolderInv'
  <1> DEFINE s == todo[t]
  <1>1. s \in Seq(Ops) /\ Disciplined(inside[t], s, {}) /\ Head(s) = s[1]
        /\ Allowed(t, parent[t], inside[t], s) /\ Ordered(inside[t], s)
    BY TailIndices DEF TodoInv
  <1>2. \A l : Held(Tail(s), 1, l) <=> Held(s, 1, l)
    BY <1>1, HeldAtHead, TailKeeps DEF Gets, Releases
  <1>3. todo'[t] = Tail(s) /\ \A u \in Threads \ {t} : todo'[u] = todo[u]
    BY DEF TodoInv, Advanced
  <1> QED
    BY <1>2, <1>3 DEF HolderInv

LEMMA TailStart ==
    ASSUME LocksInv, NEW t \in Threads, todo[t] # << >>, Advanced(t),
           ~ Announces(Head(todo[t])),
           Head(todo[t]).do = "poll" => lastCreatedThread # NO_ID,
           UNCHANGED <<life, inside, parent, lastCreatedThread>>
    PROVE  StartInv'
  <1> DEFINE s == todo[t]
  <1>1. /\ s \in Seq(Ops) /\ Head(s) = s[1] /\ Len(s) \in Nat /\ Len(s) > 0
        /\ Len(Tail(s)) = Len(s) - 1
        /\ \A i \in 1 .. Len(Tail(s)) : i + 1 \in 1 .. Len(s) /\ Tail(s)[i] = s[i + 1]
    BY TailIndices DEF LocksInv, TodoInv
  <1>2. todo'[t] = Tail(s) /\ \A u \in Threads \ {t} : todo'[u] = todo[u]
    BY DEF LocksInv, TodoInv, Advanced
  <1>3. WillAnnounce(t)' <=> WillAnnounce(t)
    <2>1. WillAnnounce(t)' => WillAnnounce(t)
      BY <1>1, <1>2 DEF WillAnnounce
    <2>2. ASSUME WillAnnounce(t) PROVE WillAnnounce(t)'
      <3>1. PICK i \in 1 .. Len(s) : Announces(s[i])
        BY <2>2 DEF WillAnnounce
      <3>2. i # 1
        BY <3>1, <1>1
      <3>3. i - 1 \in 1 .. Len(Tail(s)) /\ (i - 1) + 1 = i
        BY <3>2, <1>1
      <3>4. Announces(Tail(s)[i - 1])
        BY <3>1, <3>3, <1>1
      <3> QED
        BY <3>3, <3>4, <1>2 DEF WillAnnounce
    <2> QED
      BY <2>1, <2>2
  <1>4. \A c \in Threads : Starting(c)' <=> Starting(c)
    BY <1>2, <1>3 DEF Starting, WillAnnounce
  <1>5. ASSUME NEW c \in Threads, Starting(c)
        PROVE  parent[c] # t
    BY <1>5 DEF LocksInv, StartInv, At
  <1>6. \A c \in Threads : Starting(c) => (At(parent[c], "poll"))'
    BY <1>2, <1>5 DEF LocksInv, StartInv, At
  <1>7. \A p \in Threads : Taking(p) => Taking(p)'
    <2> SUFFICES ASSUME NEW p \in Threads, Taking(p) PROVE Taking(p)'
      OBVIOUS
    <2>1. WillAnnounce(p)'
      BY <1>2, <1>3 DEF Taking, WillAnnounce
    <2>2. \A i \in 1 .. Len(todo'[p]) : todo'[p][i].do # "spawn"
      <3> SUFFICES ASSUME NEW i \in 1 .. Len(todo'[p]) PROVE todo'[p][i].do # "spawn"
        OBVIOUS
      <3>1. CASE p = t
        BY <3>1, <1>1, <1>2 DEF Taking
      <3>2. CASE p # t
        BY <3>2, <1>2 DEF Taking
      <3> QED
        BY <3>1, <3>2
    <2>3. inside'[p] = "pthread_create"
      BY DEF Taking
    <2> QED
      BY <2>1, <2>2, <2>3 DEF Taking
  <1> QED
    BY <1>4, <1>6, <1>7 DEF LocksInv, StartInv

\* A wait is left behind only when its thread has ended, and that lasts.
LEMMA TailJoin ==
    ASSUME LocksInv, NEW t \in Threads, todo[t] # << >>, Advanced(t),
           Head(todo[t]).do = "wait" => life[Head(todo[t]).of] = "exited",
           \A u \in Threads : life'[u] = "exited" <=> life[u] = "exited"
    PROVE  JoinInv'
  <1> DEFINE s == todo[t]
  <1>1. /\ s \in Seq(Ops) /\ Head(s) = s[1] /\ Len(s) \in Nat /\ Len(s) > 0
        /\ Len(Tail(s)) = Len(s) - 1
        /\ \A i \in 1 .. Len(Tail(s)) : i + 1 \in 1 .. Len(s) /\ Tail(s)[i] = s[i + 1]
        /\ Allowed(t, parent[t], inside[t], s)
    BY TailIndices DEF LocksInv, TodoInv
  <1>2. todo'[t] = Tail(s) /\ \A u \in Threads \ {t} : todo'[u] = todo[u]
    BY DEF LocksInv, TodoInv, Advanced
  <1>3. life[t] # "exited"
    BY DEF LocksInv, JoinInv
  <1>4. ASSUME NEW i \in 1 .. Len(Tail(s)), ReadsFinal(Tail(s)[i])
        PROVE  life[Tail(s)[i].of] = "exited" \/ WaitsBefore(Tail(s), i)
    <2>1. i + 1 \in 1 .. Len(s) /\ Tail(s)[i] = s[i + 1] /\ i \in Nat
      BY <1>1
    <2>2. CASE life[s[i + 1].of] = "exited"
      BY <2>1, <2>2
    <2>3. CASE WaitsBefore(s, i + 1)
      <3>1. PICK j \in 1 .. i : s[j].do = "wait" /\ s[j].of = s[i + 1].of
        BY <2>1, <2>3 DEF WaitsBefore
      <3>2. CASE j = 1
        BY <3>1, <3>2, <2>1, <1>1
      <3>3. CASE j # 1
        <4>1. j - 1 \in 1 .. i - 1 /\ j - 1 \in 1 .. Len(Tail(s)) /\ (j - 1) + 1 = j
          BY <3>1, <3>3, <2>1, <1>1
        <4>2. Tail(s)[j - 1] = s[j]
          BY <4>1, <1>1
        <4> QED
          BY <3>1, <4>1, <4>2, <2>1 DEF WaitsBefore
      <3> QED
        BY <3>2, <3>3
    <2> QED
      BY <2>1, <2>2, <2>3, <1>4 DEF LocksInv, JoinInv
  <1>5. ASSUME NEW u \in Threads, NEW i \in 1 .. Len(todo'[u]), ReadsFinal(todo'[u][i])
        PROVE  life'[todo'[u][i].of] = "exited" \/ WaitsBefore(todo'[u], i)
    <2>1. todo'[u][i].of \in Threads
      <3>1. CASE u = t
        BY <3>1, <1>1, <1>2, <1>5 DEF Allowed, MayDo, ReadsFinal
      <3>2. CASE u # t
        BY <3>2, <1>2, <1>5 DEF LocksInv, TodoInv, Allowed, MayDo, ReadsFinal
      <3> QED
        BY <3>1, <3>2
    <2>2. CASE u = t
      BY <2>1, <2>2, <1>2, <1>4, <1>5
    <2>3. CASE u # t
      BY <2>1, <2>3, <1>2, <1>5 DEF LocksInv, JoinInv
    <2> QED
      BY <2>2, <2>3
  <1> QED
    BY <1>2, <1>3, <1>5 DEF LocksInv, JoinInv, WaitsBefore

-----------------------------------------------------------------------------
\* Every action keeps the invariant.

\* A creator past the first operation of its handler has atomicCreate.
LEMMA CreatorHasLock ==
    ASSUME TodoInv, HolderInv, NEW t \in Threads, inside[t] = "pthread_create",
           todo[t] # << >>, ~ Gets(todo[t], 1, "atomicCreate")
    PROVE  holder["atomicCreate"] = t
  <1> DEFINE s == todo[t]
  <1>1. s \in Seq(Ops) /\ Len(s) \in Nat /\ Len(s) > 0 /\ Ordered(inside[t], s)
    BY TailIndices DEF TodoInv
  <1>2. Releases(s, Len(s), "atomicCreate")
    BY <1>1 DEF Ordered
  <1>3. \A j \in 1 .. Len(s) : ~ Gets(s, j, "atomicCreate")
    BY <1>1 DEF Ordered
  <1>4. Held(s, 1, "atomicCreate")
    BY <1>1, <1>2, <1>3 DEF Held
  <1> QED
    BY <1>4 DEF HolderInv, PinLock

\* A thread that enters a handler.
LEMMA EnterKeeps ==
    ASSUME LocksInv, NEW t \in Threads, todo[t] = << >>,
           NEW h \in ProgramHandlers \cup {"ThreadStart", "ThreadFini"}, Enter(t, h),
           h = "ThreadStart" => life[t] = "spawned",
           h # "ThreadStart" => life[t] = "running" /\ life'[t] # "spawned",
           life' \in [Threads -> {"absent", "spawned", "running", "ending", "exited"}],
           life'[t] \in {"running", "ending"},
           \A u \in Threads \ {t} : life'[u] = life[u],
           calls' \in 0 .. MaxCalls
    PROVE  LocksInv'
  <1>1. PICK body \in Bodies(t, h) : todo' = [todo EXCEPT ![t] = body]
    BY DEF Enter
  <1>2. parent \in [Threads -> Threads \cup {NO_ID}] /\ (h = "ThreadStart" => parent[t] \in Threads)
    BY DEF LocksInv, LifeInv, StartInv, Starting
  <1>3. Balanced(t, parent[t], h, body, {}) /\ Ordered(h, body)
    BY <1>2, BodiesAreGood
  <1>4. /\ todo' \in [Threads -> Seq(Ops)] /\ todo'[t] = body
        /\ \A u \in Threads \ {t} : todo'[u] = todo[u]
    BY <1>1, <1>3 DEF LocksInv, TodoInv, Balanced
  <1>5. /\ inside' \in [Threads -> ProgramHandlers \cup {"ThreadStart", "ThreadFini"}]
        /\ inside'[t] = h /\ \A u \in Threads \ {t} : inside'[u] = inside[u]
        /\ UNCHANGED <<holder, lastCreatedThread, parent>>
    BY DEF Enter, LocksInv, LifeInv
  <1>6. TodoInv'
    <2>1. ASSUME NEW u \in Threads
          PROVE  /\ Disciplined(inside'[u], todo'[u], {})
                 /\ Allowed(u, parent[u], inside'[u], todo'[u])
                 /\ Ordered(inside'[u], todo'[u])
      <3>1. CASE u = t
        BY <3>1, <1>3, <1>4, <1>5 DEF Balanced
      <3>2. CASE u # t
        BY <3>2, <1>4, <1>5 DEF LocksInv, TodoInv
      <3> QED
        BY <3>1, <3>2
    <2> QED
      BY <2>1, <1>4, <1>5 DEF TodoInv
  <1>7. HolderInv'
    <2>1. \A l \in PinLock : ~ Held(todo[t], 1, l) /\ ~ Held(todo'[t], 1, l)
      BY <1>3, <1>4 DEF Balanced, Held
    <2> QED
      BY <2>1, <1>4, <1>5 DEF LocksInv, HolderInv
  <1>8. LifeInv'
    BY <1>4, <1>5 DEF LocksInv, LifeInv
  <1>9. \A c \in Threads : Starting(c)' => Starting(c)
    <2> SUFFICES ASSUME NEW c \in Threads, Starting(c)' PROVE Starting(c)
      OBVIOUS
    <2>1. CASE c = t
      BY <2>1, <1>5 DEF Starting
    <2>2. CASE c # t
      BY <2>2, <1>4, <1>5 DEF Starting, WillAnnounce
    <2> QED
      BY <2>1, <2>2
  <1>10. \A c \in Threads : Starting(c) => parent[c] # t
    BY DEF LocksInv, StartInv, At
  <1>11. \A c \in Threads : Starting(c)' => (At(parent[c], "poll"))'
    BY <1>4, <1>5, <1>9, <1>10 DEF LocksInv, StartInv, At
  <1>12. ASSUME NEW p \in Threads, Taking(p) PROVE Taking(p)'
    <2>1. p # t
      BY <1>12 DEF Taking, WillAnnounce
    <2> QED
      BY <1>12, <2>1, <1>4, <1>5 DEF Taking, WillAnnounce
  <1>13. StartInv'
    BY <1>5, <1>9, <1>11, <1>12 DEF LocksInv, StartInv
  <1>14. JoinInv'
    <2>1. \A u \in Threads : life[u] = "exited" => life'[u] = "exited" /\ todo'[u] = << >>
      BY <1>4 DEF LocksInv, JoinInv
    <2>2. \A u \in Threads : life'[u] = "exited" => life[u] = "exited"
      OBVIOUS
    <2>3. ASSUME NEW u \in Threads, NEW i \in 1 .. Len(todo'[u]), ReadsFinal(todo'[u][i])
          PROVE  life'[todo'[u][i].of] = "exited" \/ WaitsBefore(todo'[u], i)
      <3>1. CASE u = t
        BY <3>1, <2>3, <1>2, <1>4, BodiesWaitFirst
      <3>2. CASE u # t
        <4>1. todo'[u] = todo[u]
          BY <3>2, <1>4
        <4>2. i \in 1 .. Len(todo[u]) /\ ReadsFinal(todo[u][i])
          BY <4>1, <2>3
        <4>3. todo[u][i].of \in Threads
          BY <4>2 DEF LocksInv, TodoInv, Allowed, MayDo, ReadsFinal
        <4>4. life[todo[u][i].of] = "exited" \/ WaitsBefore(todo[u], i)
          BY <4>2 DEF LocksInv, JoinInv
        <4> QED
          BY <4>1, <4>3, <4>4, <2>1
      <3> QED
        BY <3>1, <3>2
    <2> QED
      BY <2>1, <2>2, <2>3 DEF JoinInv, WaitsBefore
  <1> QED
    BY <1>6, <1>7, <1>8, <1>13, <1>14 DEF LocksInv

LEMMA CallKeeps ==
    ASSUME LocksInv, NEW t \in Threads, Call(t) PROVE LocksInv'
  <1>1. PICK h \in Handlers : Enter(t, h)
    BY DEF Call
  <1>2. h \in ProgramHandlers /\ h # "ThreadStart"
    BY LocksAssumption DEF ProgramHandlers
  <1>3. calls' \in 0 .. MaxCalls
    BY LocksAssumption DEF Call, LocksInv, LifeInv
  <1> QED
    BY <1>1, <1>2, <1>3, EnterKeeps DEF Call, LocksInv, LifeInv

LEMMA StartKeeps ==
    ASSUME LocksInv, NEW t \in Threads, Start(t) PROVE LocksInv'
  <1>1. /\ life' \in [Threads -> {"absent", "spawned", "running", "ending", "exited"}]
        /\ life'[t] = "running" /\ \A u \in Threads \ {t} : life'[u] = life[u]
        /\ calls' \in 0 .. MaxCalls
    BY DEF Start, LocksInv, LifeInv
  <1> QED
    BY <1>1, EnterKeeps DEF Start

LEMMA EndKeeps ==
    ASSUME LocksInv, NEW t \in Threads, End(t) PROVE LocksInv'
  <1>1. /\ life' \in [Threads -> {"absent", "spawned", "running", "ending", "exited"}]
        /\ life'[t] = "ending" /\ \A u \in Threads \ {t} : life'[u] = life[u]
        /\ calls' \in 0 .. MaxCalls
    BY DEF End, LocksInv, LifeInv
  <1> QED
    BY <1>1, EnterKeeps DEF End

LEMMA ExitKeeps ==
    ASSUME LocksInv, NEW t \in Threads, Exit(t) PROVE LocksInv'
  <1>1. /\ life' \in [Threads -> {"absent", "spawned", "running", "ending", "exited"}]
        /\ life'[t] = "exited" /\ life[t] = "ending"
        /\ \A u \in Threads \ {t} : life'[u] = life[u]
        /\ UNCHANGED <<holder, todo, inside, lastCreatedThread, parent, calls>>
    BY DEF Exit, LocksInv, LifeInv
  <1>2. TodoInv' /\ HolderInv'
    BY <1>1 DEF LocksInv, TodoInv, HolderInv
  <1>3. LifeInv'
    BY <1>1 DEF LocksInv, LifeInv
  <1>4. \A c \in Threads : Starting(c)' <=> Starting(c)
    BY <1>1 DEF Starting, WillAnnounce
  <1>5. \A c \in Threads : Taking(c) => Taking(c)'
    BY <1>1 DEF Taking, WillAnnounce
  <1>6. \A c \in Threads : Starting(c)' => (At(parent[c], "poll"))'
    BY <1>1, <1>4 DEF LocksInv, StartInv, At
  <1>7. StartInv'
    BY <1>1, <1>4, <1>5, <1>6 DEF LocksInv, StartInv
  <1>8. JoinInv'
    <2>1. \A u \in Threads : life[u] = "exited" => life'[u] = "exited"
      BY <1>1
    <2>2. \A u \in Threads : life'[u] = "exited" => todo[u] = << >>
      BY <1>1 DEF Exit, LocksInv, JoinInv
    <2>3. ASSUME NEW u \in Threads, NEW i \in 1 .. Len(todo[u]), ReadsFinal(todo[u][i])
          PROVE  life'[todo[u][i].of] = "exited" \/ WaitsBefore(todo[u], i)
      <3>1. todo[u][i].of \in Threads
        BY <2>3 DEF LocksInv, TodoInv, Allowed, MayDo, ReadsFinal
      <3> QED
        BY <3>1, <2>1, <2>3 DEF LocksInv, JoinInv
    <2> QED
      BY <1>1, <2>2, <2>3 DEF JoinInv, WaitsBefore
  <1> QED
    BY <1>2, <1>3, <1>7, <1>8 DEF LocksInv

LEMMA TailLife ==
    ASSUME LocksInv, NEW t \in Threads, todo[t] # << >>, Advanced(t),
           UNCHANGED <<life, inside, parent, calls>>,
           lastCreatedThread' \in Threads \cup {NO_ID}
    PROVE  LifeInv'
  <1>1. todo \in [Threads -> Seq(Ops)]
    BY DEF LocksInv, TodoInv
  <1>2. \A u \in Threads \ {t} : todo'[u] = todo[u]
    BY <1>1 DEF Advanced
  <1> QED
    BY <1>2 DEF LocksInv, LifeInv

LEMMA GetLockKeeps ==
    ASSUME LocksInv, NEW t \in Threads, GetLock(t) PROVE LocksInv'
  <1> DEFINE s == todo[t]
             k == Head(s).on
  <1>1. /\ s \in Seq(Ops) /\ s # << >> /\ Disciplined(inside[t], s, {}) /\ Head(s) = s[1]
        /\ Allowed(t, parent[t], inside[t], s) /\ Ordered(inside[t], s)
        /\ Len(s) \in Nat /\ Len(s) > 0
    BY TailIndices DEF TodoInv, LocksInv, GetLock, At
  <1>2. k \in PinLock /\ Head(s).do = "get" /\ ~ Announces(Head(s)) /\ Gets(s, 1, k)
    BY <1>1 DEF GetLock, At, Allowed, MayDo, Announces, Gets
  <1>3. todo'[t] = Tail(s) /\ \A u \in Threads \ {t} : todo'[u] = todo[u]
    BY DEF LocksInv, TodoInv, Advanced, GetLock
  <1>4. /\ holder' \in [PinLock -> Threads \cup {NO_ID}] /\ holder[k] = NO_ID /\ holder'[k] = t
        /\ \A l \in PinLock \ {k} : holder'[l] = holder[l]
    BY <1>2 DEF GetLock, LocksInv, HolderInv
  <1>5. \A l \in PinLock : Held(todo'[t], 1, l) <=> (l = k \/ Held(s, 1, l))
    <2> SUFFICES ASSUME NEW l \in PinLock
                 PROVE  Held(todo'[t], 1, l) <=> (l = k \/ Held(s, 1, l))
      OBVIOUS
    <2>1. Held(todo'[t], 1, l) <=> Held(s, 2, l)
      BY <1>1, <1>3, TailKeeps
    <2>2. CASE l = k
      BY <2>1, <2>2, <1>1, <1>2, HeldAtHead
    <2>3. CASE l # k
      <3>1. ~ Gets(s, 1, l) /\ ~ Releases(s, 1, l)
        BY <2>3, <1>1, <1>2 DEF Gets, Releases
      <3> QED
        BY <2>1, <2>3, <3>1, <1>1, HeldAtHead
    <2> QED
      BY <2>2, <2>3
  <1>6. HolderInv'
    <2> SUFFICES ASSUME NEW l \in PinLock, NEW u \in Threads
                 PROVE  holder'[l] = u <=> Held(todo'[u], 1, l)
      BY <1>4 DEF HolderInv
    <2>1. \A v \in Threads : holder[l] = v <=> Held(todo[v], 1, l)
      BY DEF LocksInv, HolderInv
    <2> QED
      BY <2>1, <1>3, <1>4, <1>5, LocksAssumption
  <1>7. TodoInv' /\ StartInv' /\ LifeInv' /\ JoinInv'
    BY <1>1, <1>2, TailTodo, TailStart, TailLife, TailJoin DEF GetLock, LocksInv, LifeInv
  <1> QED
    BY <1>6, <1>7 DEF LocksInv

LEMMA ReleaseLockKeeps ==
    ASSUME LocksInv, NEW t \in Threads, ReleaseLock(t) PROVE LocksInv'
  <1> DEFINE s == todo[t]
             k == Head(s).on
  <1>1. /\ s \in Seq(Ops) /\ s # << >> /\ Disciplined(inside[t], s, {}) /\ Head(s) = s[1]
        /\ Allowed(t, parent[t], inside[t], s) /\ Ordered(inside[t], s)
        /\ Len(s) \in Nat /\ Len(s) > 0
    BY TailIndices DEF TodoInv, LocksInv, ReleaseLock, At
  <1>2. k \in PinLock /\ Head(s).do = "release" /\ ~ Announces(Head(s)) /\ Releases(s, 1, k)
    BY <1>1 DEF ReleaseLock, At, Allowed, MayDo, Announces, Releases
  <1>3. todo'[t] = Tail(s) /\ \A u \in Threads \ {t} : todo'[u] = todo[u]
    BY DEF LocksInv, TodoInv, Advanced, ReleaseLock
  <1>4. /\ holder' \in [PinLock -> Threads \cup {NO_ID}] /\ holder'[k] = NO_ID
        /\ \A l \in PinLock \ {k} : holder'[l] = holder[l]
    BY <1>2 DEF ReleaseLock, LocksInv, HolderInv
  <1>5. holder[k] = t
    BY <1>1, <1>2, HeldAtHead DEF LocksInv, HolderInv
  <1>6. \A l \in PinLock : Held(todo'[t], 1, l) <=> (l # k /\ Held(s, 1, l))
    <2> SUFFICES ASSUME NEW l \in PinLock
                 PROVE  Held(todo'[t], 1, l) <=> (l # k /\ Held(s, 1, l))
      OBVIOUS
    <2>1. Held(todo'[t], 1, l) <=> Held(s, 2, l)
      BY <1>1, <1>3, TailKeeps
    <2>2. CASE l = k
      BY <2>1, <2>2, <1>1, <1>2, HeldAtHead
    <2>3. CASE l # k
      <3>1. ~ Gets(s, 1, l) /\ ~ Releases(s, 1, l)
        BY <2>3, <1>1, <1>2 DEF Gets, Releases
      <3> QED
        BY <2>1, <2>3, <3>1, <1>1, HeldAtHead
    <2> QED
      BY <2>2, <2>3
  <1>7. HolderInv'
    <2> SUFFICES ASSUME NEW l \in PinLock, NEW u \in Threads
                 PROVE  holder'[l] = u <=> Held(todo'[u], 1, l)
      BY <1>4 DEF HolderInv
    <2>1. \A v \in Threads : holder[l] = v <=> Held(todo[v], 1, l)
      BY DEF LocksInv, HolderInv
    <2> QED
      BY <2>1, <1>3, <1>4, <1>5, <1>6, LocksAssumption
  <1>8. TodoInv' /\ StartInv' /\ LifeInv' /\ JoinInv'
    BY <1>1, <1>2, TailTodo, TailStart, TailLife, TailJoin DEF ReleaseLock, LocksInv, LifeInv
  <1> QED
    BY <1>7, <1>8 DEF LocksInv

\* The loop that polls, and the join, only go on.
LEMMA WaitKeeps ==
    ASSUME LocksInv, NEW t \in Threads, Poll(t) \/ JoinReturns(t) PROVE LocksInv'
  <1>1. /\ todo[t] # << >> /\ Advanced(t)
        /\ Head(todo[t]).do \in {"poll", "wait"}
        /\ Head(todo[t]).do = "poll" => lastCreatedThread # NO_ID
        /\ Head(todo[t]).do = "wait" => life[Head(todo[t]).of] = "exited"
        /\ UNCHANGED <<holder, inside, lastCreatedThread, life, parent, calls>>
    BY DEF Poll, JoinReturns, At
  <1>2. ~ Announces(Head(todo[t])) /\ Head(todo[t]).do \notin {"get", "release"}
    BY <1>1 DEF Announces
  <1>3. TodoInv' /\ HolderInv'
    BY <1>1, <1>2, TailTodo, TailHolder DEF LocksInv
  <1>4. StartInv' /\ LifeInv' /\ JoinInv'
    BY <1>1, <1>2, TailStart, TailLife, TailJoin DEF LocksInv, LifeInv
  <1> QED
    BY <1>3, <1>4 DEF LocksInv

\* The write of lastCreatedThread in ThreadStart and the one in pthread_create.
LEMMA AnnounceKeeps ==
    ASSUME LocksInv, NEW t \in Threads, Access(t), Announces(Head(todo[t]))
    PROVE  StartInv'
  <1> DEFINE s == todo[t]
  <1>1. /\ s \in Seq(Ops) /\ s # << >> /\ Head(s) = s[1] /\ Len(s) \in Nat /\ Len(s) > 0
        /\ Len(Tail(s)) = Len(s) - 1
        /\ \A i \in 1 .. Len(Tail(s)) : i + 1 \in 1 .. Len(s) /\ Tail(s)[i] = s[i + 1]
        /\ Allowed(t, parent[t], inside[t], s) /\ Ordered(inside[t], s)
    BY TailIndices DEF LocksInv, TodoInv, Access, At
  <1>2. /\ todo'[t] = Tail(s) /\ \A u \in Threads \ {t} : todo'[u] = todo[u]
        /\ UNCHANGED <<inside, life, parent>>
    BY DEF LocksInv, TodoInv, Advanced, Access
  <1>3. /\ 1 \in 1 .. Len(s) /\ Announces(s[1]) /\ WillAnnounce(t)
        /\ inside[t] \in {"pthread_create", "ThreadStart"}
        /\ s[1].do # "poll" /\ life[t] # "spawned"
    BY <1>1 DEF WillAnnounce, Allowed, MayDo, Announces, LocksInv, LifeInv
  <1>4. ~ WillAnnounce(t)'
    <2>1. ASSUME NEW i \in 1 .. Len(Tail(s)) PROVE ~ Announces(Tail(s)[i])
      <3>1. i + 1 \in 1 + 1 .. Len(s) /\ Tail(s)[i] = s[i + 1]
        BY <1>1
      <3> QED
        BY <3>1, <1>1, <1>3 DEF Ordered
    <2> QED
      BY <2>1, <1>2 DEF WillAnnounce
  <1>5. ~ Starting(t)' /\ \A c \in Threads \ {t} : Starting(c)' <=> Starting(c)
    BY <1>2, <1>3, <1>4 DEF Starting, WillAnnounce
  <1>6. CASE inside[t] = "ThreadStart"
    <2>1. Starting(t)
      BY <1>3, <1>6 DEF Starting
    <2>2. \A c \in Threads : ~ Starting(c)'
      BY <1>5, <2>1 DEF LocksInv, StartInv
    <2>3. PICK p \in Threads : todo[p] # << >> /\ Head(todo[p]).do = "poll"
      BY <2>1 DEF LocksInv, StartInv, At
    <2>4. p # t /\ todo'[p] = todo[p]
      BY <1>1, <1>2, <1>3, <2>3
    <2>5. /\ Head(todo[p]) = todo[p][1] /\ Len(todo[p]) \in Nat /\ 1 \in 1 .. Len(todo[p])
          /\ Allowed(p, parent[p], inside[p], todo[p]) /\ Ordered(inside[p], todo[p])
      BY <2>3, TailIndices DEF LocksInv, TodoInv
    <2>6. inside[p] = "pthread_create"
      BY <2>3, <2>5 DEF Allowed, MayDo
    <2>7. \E j \in 1 + 1 .. Len(todo[p]) : Announces(todo[p][j])
      BY <2>3, <2>5 DEF Ordered
    <2>8. \A j \in 1 + 1 .. Len(todo[p]) : todo[p][j].do # "spawn"
      BY <2>3, <2>5 DEF Ordered
    <2>9. \A j \in 1 .. Len(todo[p]) : j = 1 \/ j \in 1 + 1 .. Len(todo[p])
      BY <2>5
    <2>10. Taking(p)
      BY <2>3, <2>5, <2>6, <2>7, <2>8, <2>9 DEF Taking, WillAnnounce
    <2>11. Taking(p)'
      BY <2>4, <2>10, <1>2 DEF Taking, WillAnnounce
    <2>12. \E q \in Threads : Taking(q)'
      BY <2>3, <2>11
    <2>13. \A c \in Threads : Starting(c)' =>
              (parent[c] \in Threads /\ At(parent[c], "poll") /\ lastCreatedThread = NO_ID)'
      BY <2>2
    <2>14. \A c, d \in Threads : Starting(c)' /\ Starting(d)' => c = d
      BY <2>2
    <2> QED
      BY <2>12, <2>13, <2>14 DEF StartInv
  <1>7. CASE inside[t] = "pthread_create"
    <2>1. lastCreatedThread' = NO_ID
      BY <1>7, <1>1, <1>3 DEF Access, Announces
    <2>2. \A c \in Threads : Starting(c) => parent[c] # t
      BY <1>1, <1>3 DEF LocksInv, StartInv, At
    <2>3. \A c \in Threads : Starting(c)' => Starting(c)
      BY <1>5
    <2>4. \A c \in Threads : Starting(c)' => (At(parent[c], "poll"))'
      BY <2>2, <2>3, <1>2 DEF LocksInv, StartInv, At
    <2> QED
      BY <2>1, <2>3, <2>4, <1>2 DEF LocksInv, StartInv
  <1> QED
    BY <1>3, <1>6, <1>7

LEMMA AccessKeeps ==
    ASSUME LocksInv, NEW t \in Threads, Access(t) PROVE LocksInv'
  <1>1. /\ todo[t] # << >> /\ Advanced(t) /\ Head(todo[t]).do \in {"read", "write"}
        /\ UNCHANGED <<holder, inside, life, parent, calls>>
        /\ lastCreatedThread' \in Threads \cup {NO_ID}
    BY DEF Access, At, LocksInv, LifeInv
  <1>2. TodoInv' /\ HolderInv' /\ LifeInv' /\ JoinInv'
    BY <1>1, TailTodo, TailHolder, TailLife, TailJoin DEF LocksInv
  <1>3. StartInv'
    <2>1. CASE Announces(Head(todo[t]))
      BY <2>1, AnnounceKeeps
    <2>2. CASE ~ Announces(Head(todo[t]))
      <3>1. todo[t] \in Seq(Ops) /\ Allowed(t, parent[t], inside[t], todo[t])
            /\ Head(todo[t]) = todo[t][1] /\ 1 \in 1 .. Len(todo[t])
        BY <1>1, TailIndices DEF LocksInv, TodoInv
      <3>2. CASE Head(todo[t]).on # "lastCreatedThread"
        <4>1. lastCreatedThread' = lastCreatedThread
          BY <3>2 DEF Access
        <4> QED
          BY <1>1, <2>2, <4>1, TailStart
      <3>3. CASE Head(todo[t]).on = "lastCreatedThread"
        BY <3>1, <3>3, <2>2, <1>1 DEF Announces, Allowed, MayDo
      <3> QED
        BY <3>2, <3>3
    <2> QED
      BY <2>1, <2>2
  <1> QED
    BY <1>2, <1>3 DEF LocksInv

LEMMA SpawnKeeps ==
    ASSUME LocksInv, NEW t \in Threads, Spawn(t) PROVE LocksInv'
  <1> DEFINE s == todo[t]
  <1>1. /\ s \in Seq(Ops) /\ s # << >> /\ Head(s) = s[1] /\ s[1].do = "spawn"
        /\ Len(s) \in Nat /\ Len(s) > 0 /\ 1 \in 1 .. Len(s)
        /\ Len(Tail(s)) = Len(s) - 1
        /\ \A i \in 1 .. Len(Tail(s)) : i + 1 \in 1 .. Len(s) /\ Tail(s)[i] = s[i + 1]
        /\ Allowed(t, parent[t], inside[t], s) /\ Ordered(inside[t], s)
    BY TailIndices DEF LocksInv, TodoInv, Spawn, At
  <1>2. PICK c \in Threads :
            life[c] = "absent" /\ life' = [life EXCEPT ![c] = "spawned"]
            /\ parent' = [parent EXCEPT ![c] = t]
    BY DEF Spawn
  <1>3. /\ todo \in [Threads -> Seq(Ops)] /\ todo' = [todo EXCEPT ![t] = Tail(@)]
        /\ todo'[t] = Tail(s) /\ \A u \in Threads \ {t} : todo'[u] = todo[u]
        /\ UNCHANGED <<holder, inside, lastCreatedThread, calls>>
    BY DEF LocksInv, TodoInv, Advanced, Spawn
  <1>4. todo[c] = << >> /\ c # t /\ todo'[c] = << >>
    BY <1>1, <1>2, <1>3 DEF LocksInv, LifeInv
  <1>5. /\ parent'[c] = t /\ \A u \in Threads \ {c} : parent'[u] = parent[u]
        /\ parent' \in [Threads -> Threads \cup {NO_ID}]
        /\ life'[c] = "spawned" /\ \A u \in Threads \ {c} : life'[u] = life[u]
        /\ life' \in [Threads -> {"absent", "spawned", "running", "ending", "exited"}]
    BY <1>2 DEF LocksInv, LifeInv
  <1>6. /\ Tail(s) \in Seq(Ops) /\ Disciplined(inside[t], Tail(s), {})
        /\ Allowed(t, parent[t], inside[t], Tail(s)) /\ Ordered(inside[t], Tail(s))
    BY <1>1, TailKeeps, TailIndices DEF LocksInv, TodoInv
  <1>7. TodoInv'
    <2>1. ASSUME NEW u \in Threads
          PROVE  /\ Disciplined(inside[u], todo'[u], {})
                 /\ Allowed(u, parent'[u], inside[u], todo'[u])
                 /\ Ordered(inside[u], todo'[u])
      <3>1. CASE u = t
        BY <3>1, <1>3, <1>4, <1>5, <1>6
      <3>2. CASE u = c
        <4>1. Len(todo'[c]) = 0
          BY <1>4
        <4> QED
          BY <3>2, <4>1 DEF Disciplined, Allowed, Ordered
      <3>3. CASE u \notin {t, c}
        BY <3>3, <1>3, <1>5 DEF LocksInv, TodoInv
      <3> QED
        BY <3>1, <3>2, <3>3
    <2>2. todo' \in [Threads -> Seq(Ops)]
      BY <1>3, <1>6
    <2> QED
      BY <2>1, <2>2, <1>3 DEF TodoInv
  <1>8. HolderInv'
    <2>1. Head(s).do \notin {"get", "release"} /\ Advanced(t)
      BY <1>1 DEF Spawn
    <2> QED
      BY <1>1, <1>3, <2>1, TailHolder DEF LocksInv
  <1>9. LifeInv'
    BY <1>2, <1>3, <1>4, <1>5 DEF LocksInv, LifeInv
  <1>10. inside[t] = "pthread_create" /\ ~ Gets(s, 1, "atomicCreate") /\ ~ WillAnnounce(c)'
    <2>1. s[1].on = "child" /\ inside[t] = "pthread_create"
      BY <1>1 DEF Allowed, MayDo
    <2>2. Len(todo'[c]) = 0
      BY <1>4
    <2> QED
      BY <2>1, <2>2, <1>1 DEF Gets, WillAnnounce
  <1>11. holder["atomicCreate"] = t
    BY <1>1, <1>10, CreatorHasLock DEF LocksInv
  <1>12. \A u \in Threads : ~ Starting(u)
    <2> SUFFICES ASSUME NEW u \in Threads, Starting(u) PROVE FALSE
      OBVIOUS
    <2> DEFINE p == parent[u]
    <2>1. p \in Threads /\ todo[p] # << >> /\ Head(todo[p]).do = "poll"
      BY DEF LocksInv, StartInv, At
    <2>2. /\ Head(todo[p]) = todo[p][1] /\ 1 \in 1 .. Len(todo[p])
          /\ Allowed(p, parent[p], inside[p], todo[p])
      BY <2>1, TailIndices DEF LocksInv, TodoInv
    <2>3. inside[p] = "pthread_create" /\ ~ Gets(todo[p], 1, "atomicCreate")
      BY <2>1, <2>2 DEF Allowed, MayDo, Gets
    <2>4. holder["atomicCreate"] = p
      BY <2>1, <2>3, CreatorHasLock DEF LocksInv
    <2> QED
      BY <2>1, <2>4, <1>1, <1>11
  <1>13. lastCreatedThread = NO_ID
    <2> SUFFICES ASSUME lastCreatedThread # NO_ID PROVE FALSE
      OBVIOUS
    <2>1. PICK p \in Threads : Taking(p)
      BY DEF LocksInv, StartInv
    <2>2. p # t
      BY <2>1, <1>1 DEF Taking
    <2>3. todo[p] \in Seq(Ops) /\ todo[p] # << >> /\ Ordered(inside[p], todo[p])
      BY <2>1 DEF Taking, WillAnnounce, LocksInv, TodoInv
    <2>4. ~ Gets(todo[p], 1, "atomicCreate")
      <3>1. 1 \in 1 .. Len(todo[p])
        BY <2>3, TailIndices
      <3> QED
        BY <3>1, <2>1, <2>3 DEF Taking, Ordered
    <2>5. holder["atomicCreate"] = p
      BY <2>1, <2>3, <2>4, CreatorHasLock DEF LocksInv, Taking
    <2> QED
      BY <2>2, <2>5, <1>11
  <1>14. \A u \in Threads : Starting(u)' <=> u = c
    <2>1. Starting(c)'
      BY <1>5 DEF Starting
    <2>2. ASSUME NEW u \in Threads \ {c}, Starting(u)' PROVE FALSE
      <3>1. u # t
        <4>1. inside'[t] # "ThreadStart" /\ life[t] # "spawned"
          BY <1>1, <1>3, <1>10 DEF LocksInv, LifeInv
        <4> QED
          BY <2>2, <4>1, <1>4, <1>5 DEF Starting
      <3>2. Starting(u)
        BY <2>2, <3>1, <1>3, <1>5 DEF Starting, WillAnnounce
      <3> QED
        BY <3>2, <1>12
    <2> QED
      BY <2>1, <2>2
  <1>15. At(t, "poll")'
    <2>1. 1 + 1 \in 1 .. Len(s) /\ s[1 + 1].do = "poll"
      BY <1>1 DEF Ordered
    <2>2. Tail(s) # << >> /\ 1 \in 1 .. Len(Tail(s))
      <3> DEFINE r == Tail(s)
                 n == Len(s)
      <3>1. n \in Nat /\ Len(r) = n - 1 /\ n >= 2
        BY <2>1, <1>1
      <3> HIDE DEF r, n
      <3>2. Len(r) \in Nat /\ Len(r) >= 1
        BY <3>1
      <3>3. r # << >>
        BY <3>2
      <3> QED
        BY <3>2, <3>3 DEF r
    <2>3. Head(Tail(s)) = Tail(s)[1]
      BY <2>2, <1>6, TailIndices
    <2>4. Tail(s)[1] = s[1 + 1]
      BY <2>2, <1>1
    <2> QED
      BY <2>1, <2>2, <2>3, <2>4, <1>3 DEF At
  <1>16. StartInv'
    BY <1>3, <1>5, <1>13, <1>14, <1>15 DEF StartInv, At
  <1>17. JoinInv'
    <2>1. \A u \in Threads : life'[u] = "exited" <=> life[u] = "exited"
      BY <1>2, <1>5
    <2> QED
      BY <2>1, <1>1, TailJoin DEF Spawn
  <1> QED
    BY <1>7, <1>8, <1>9, <1>16, <1>17 DEF LocksInv

\* A failed assertion leaves no handler.
LEMMA FailKeeps ==
    ASSUME LocksInv, NEW t \in Threads, Fail(t) PROVE LocksInv'
  <1>1. /\ todo' \in [Threads -> Seq(Ops)]
        /\ \A u \in Threads : todo'[u] = << >> /\ Len(todo'[u]) = 0
        /\ lastCreatedThread' = NO_ID
        /\ UNCHANGED <<inside, parent, calls>>
    BY DEF Fail
  <1>2. TodoInv'
    BY <1>1 DEF TodoInv, Disciplined, Allowed, Ordered
  <1>3. HolderInv'
    BY <1>1, LocksAssumption DEF Fail, HolderInv, Held
  <1>4. LifeInv' /\ JoinInv'
    BY <1>1 DEF Fail, LocksInv, LifeInv, JoinInv
  <1>5. \A c \in Threads : ~ Starting(c)'
    BY <1>1 DEF Fail, Starting, WillAnnounce
  <1>6. StartInv'
    BY <1>1, <1>5 DEF StartInv
  <1> QED
    BY <1>2, <1>3, <1>4, <1>6 DEF LocksInv

LEMMA NextLocks == LocksInv /\ [Next]_vars => LocksInv'
  <1> SUFFICES ASSUME LocksInv, [Next]_vars PROVE LocksInv'
    OBVIOUS
  <1>1. CASE UNCHANGED vars
    <2>1. TodoInv' /\ HolderInv' /\ LifeInv' /\ JoinInv'
      BY <1>1 DEF vars, LocksInv, TodoInv, HolderInv, LifeInv, JoinInv, WaitsBefore
    <2>2. UNCHANGED <<todo, inside, lastCreatedThread, life, parent>>
      BY <1>1 DEF vars
    <2>3. \A c \in Threads : Starting(c)' <=> Starting(c)
      BY <2>2 DEF Starting, WillAnnounce
    <2>4. \A c \in Threads : Taking(c) => Taking(c)'
      BY <2>2 DEF Taking, WillAnnounce
    <2>5. \A c \in Threads : Starting(c)' => (At(parent[c], "poll"))'
      BY <2>2, <2>3 DEF LocksInv, StartInv, At
    <2>6. StartInv'
      BY <2>2, <2>3, <2>4, <2>5 DEF LocksInv, StartInv
    <2> QED
      BY <2>1, <2>6 DEF LocksInv
  <1>2. ASSUME NEW t \in Threads, Call(t) PROVE LocksInv'
    BY <1>2, CallKeeps
  <1>3. ASSUME NEW t \in Threads, End(t) PROVE LocksInv'
    BY <1>3, EndKeeps
  <1>4. ASSUME NEW t \in Threads, Start(t) PROVE LocksInv'
    BY <1>4, StartKeeps
  <1>5. ASSUME NEW t \in Threads, Exit(t) PROVE LocksInv'
    BY <1>5, ExitKeeps
  <1>6. ASSUME NEW t \in Threads, GetLock(t) PROVE LocksInv'
    BY <1>6, GetLockKeeps
  <1>7. ASSUME NEW t \in Threads, ReleaseLock(t) PROVE LocksInv'
    BY <1>7, ReleaseLockKeeps
  <1>8. ASSUME NEW t \in Threads, Access(t) PROVE LocksInv'
    BY <1>8, AccessKeeps
  <1>9. ASSUME NEW t \in Threads, Spawn(t) PROVE LocksInv'
    BY <1>9, SpawnKeeps
  <1>10. ASSUME NEW t \in Threads, Poll(t) \/ JoinReturns(t) PROVE LocksInv'
    BY <1>10, WaitKeeps
  <1>11. ASSUME NEW t \in Threads, Fail(t) PROVE LocksInv'
    BY <1>11, FailKeeps
  <1> QED
    BY <1>1, <1>2, <1>3, <1>4, <1>5, <1>6, <1>7, <1>8, <1>9, <1>10, <1>11 DEF Next, Step

\* The invariant: every lock is with the thread that will release it, and a thread
\* that starts has a creator that waits for it.
THEOREM LocksCorrect == Spec => []LocksInv
  BY InitLocks, NextLocks, PTL DEF Spec

-----------------------------------------------------------------------------
\* The results.

LEMMA LocksImplyTypes == LocksInv => TypeOK
  <1> SUFFICES ASSUME LocksInv PROVE TypeOK
    OBVIOUS
  <1>1. ASSUME NEW t \in Threads, NEW i \in DOMAIN todo[t]
        PROVE  /\ todo[t][i].do \in {"get", "release", "read", "write", "spawn", "poll", "wait",
                                      "abort"}
               /\ todo[t][i].on \in {"vectorClock", "joinVCMap", "finalClock"} =>
                     todo[t][i].of \in Threads
    <2>1. todo[t] \in Seq(Ops) /\ i \in 1 .. Len(todo[t])
      BY DEF LocksInv, TodoInv
    <2>2. todo[t][i] \in Ops
      BY <2>1, ElementOfSeq
    <2>3. MayDo(t, parent[t], inside[t], todo[t][i])
      BY <2>1 DEF LocksInv, TodoInv, Allowed
    <2> QED
      BY <2>2, <2>3 DEF MayDo, Ops
  <1>2. holder \in [PinLock -> Threads \cup {NO_ID}]
    BY DEF LocksInv, HolderInv
  <1> QED
    BY <1>1, <1>2 DEF TypeOK, LocksInv, LifeInv

\* The state keeps its types, and an access to a clock names the thread it is of.
THEOREM LockTypesHold == Spec => []TypeOK
  BY LocksCorrect, LocksImplyTypes, PTL

\* What a thread is about to use is guarded, and it has the lock.
LEMMA UsesUnderLock ==
    ASSUME LocksInv, NEW t \in Threads, todo[t] # << >>,
           IsUse(Head(todo[t])), Guarded(inside[t], Head(todo[t]).on)
    PROVE  holder[LockOf[Head(todo[t]).on]] = t
  <1> DEFINE s == todo[t]
             d == Head(s).on
  <1>1. s \in Seq(Ops) /\ Head(s) = s[1] /\ 1 \in 1 .. Len(s) /\ Disciplined(inside[t], s, {})
    BY TailIndices DEF LocksInv, TodoInv
  <1>2. Held(s, 1, LockOf[d])
    BY <1>1 DEF Disciplined
  <1>3. LockOf[d] \in PinLock
    BY DEF Guarded, LockOf, PinLock
  <1> QED
    BY <1>2, <1>3 DEF LocksInv, HolderInv

LEMMA LocksImplyConflictsAreKnown == LocksInv => ConflictsAreKnown
  <1> SUFFICES ASSUME LocksInv, NEW t \in Threads, NEW u \in Threads, Conflict(t, u)
               PROVE  \/ /\ Head(todo[t]).on = "rdm"
                         /\ {inside[t], inside[u]} \cap RdmWithoutItsLock # {}
                      \/ /\ Head(todo[t]).on = "recordFile"
                         /\ {inside[t], inside[u]} \cap RecordWithoutItsLock # {}
                      \/ Head(todo[t]).on = "lastCreatedThread" /\ Head(todo[u]).do = "poll"
    BY DEF ConflictsAreKnown
  <1> DEFINE a == Head(todo[t])
             b == Head(todo[u])
  <1>1. /\ t # u /\ todo[t] # << >> /\ todo[u] # << >> /\ a.on = b.on /\ a.of = b.of
        /\ a.do = "write" /\ b.do \in {"read", "write", "poll"}
    BY DEF Conflict
  <1>2. /\ a \in Ops /\ b \in Ops
        /\ MayDo(t, parent[t], inside[t], a) /\ MayDo(u, parent[u], inside[u], b)
    BY <1>1, TailIndices DEF LocksInv, TodoInv, Allowed
  <1>3. CASE b.do = "poll"
    BY <1>1, <1>2, <1>3 DEF MayDo
  <1>4. CASE b.do # "poll" /\ a.on = "vectorClock"
    <2>1. a.of = t /\ b.do = "read" /\ parent[u] = t /\ inside[u] = "ThreadStart"
      BY <1>1, <1>2, <1>4 DEF MayDo
    <2>2. /\ todo[u] \in Seq(Ops) /\ b = todo[u][1] /\ 1 \in 1 .. Len(todo[u])
          /\ Ordered(inside[u], todo[u])
      BY <1>1, TailIndices DEF LocksInv, TodoInv
    <2>3. \E j \in 1 + 1 .. Len(todo[u]) : Announces(todo[u][j])
      BY <1>1, <1>4, <2>1, <2>2 DEF Ordered, ReadsClock
    <2>4. Starting(u)
      BY <2>1, <2>2, <2>3 DEF Starting, WillAnnounce
    <2>5. At(parent[u], "poll")
      BY <2>4 DEF LocksInv, StartInv
    <2>6. Head(todo[t]).do = "poll"
      BY <2>1, <2>5 DEF At
    <2> QED
      BY <2>6, <1>1
  <1>5. CASE b.do # "poll" /\ a.on = "finalClock"
    <2>1. a.of = t /\ ReadsFinal(b)
      BY <1>1, <1>2, <1>5 DEF MayDo, ReadsFinal
    <2>2. b = todo[u][1] /\ 1 \in 1 .. Len(todo[u])
      BY <1>1, TailIndices DEF LocksInv, TodoInv
    <2>3. ~ WaitsBefore(todo[u], 1)
      BY DEF WaitsBefore
    <2>4. life[t] = "exited"
      BY <1>1, <2>1, <2>2, <2>3 DEF LocksInv, JoinInv
    <2> QED
      BY <1>1, <2>4 DEF LocksInv, JoinInv
  <1>6. CASE b.do # "poll" /\ a.on \notin {"vectorClock", "finalClock"}
    <2>1. a.on \in Data \ {"vectorClock", "finalClock"} /\ IsUse(a) /\ IsUse(b)
      BY <1>1, <1>2, <1>6 DEF MayDo, IsUse, Ops, PinLock
    <2>2. CASE Guarded(inside[t], a.on) /\ Guarded(inside[u], a.on)
      <3>1. holder[LockOf[a.on]] = t /\ holder[LockOf[a.on]] = u
        BY <2>1, <2>2, <1>1, UsesUnderLock
      <3> QED
        BY <3>1, <1>1
    <2>3. CASE ~ (Guarded(inside[t], a.on) /\ Guarded(inside[u], a.on))
      BY <2>1, <2>3 DEF Guarded
    <2> QED
      BY <2>2, <2>3
  <1> QED
    BY <1>3, <1>4, <1>5, <1>6

\* Two handlers are never at accesses to the same shared data, one of them a
\* write, but for the race detection module where one of the two uses it without
\* rdmLock (ThreadStart and BeforeBarrierWait), the record where one of the two is
\* the flush of ThreadFini, and the loop that polls.
THEOREM DataIsGuarded == Spec => []ConflictsAreKnown
  BY LocksCorrect, LocksImplyConflictsAreKnown, PTL
===============================================================================
