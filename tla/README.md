# A verification project for `datarace`

`datarace` records the synchronisation of a multithreaded program under Intel
Pin, looks for data races while it does (an implementation of SigRace in
software), and replays a recorded execution. This directory holds TLA+ modules
that model the tool, TLC configurations that check them on small instances, and
proofs checked by TLAPS.

The modules are translated from the sources under `src/`; where a comment, an
assertion message or the code disagree, the code is what is modelled and the
disagreement is a run that TLC refutes (section *What the violations show*).

## 1. Inventory

| Part | Source | State it keeps | Operations |
|---|---|---|---|
| Vector clocks | `pin/VectorClock.cpp` | array of `UINT32`, owner's `threadId` | three constructors, `advance`, `receiveAction`, `receiveWithIncrement`, `operator<`, `happensBefore`, `isConcurrent`; for the replay tool also the parsing constructor, `toArray`, comparisons |
| Access filters | `pin/Bloom.cpp` | a set of addresses (the build defines `SET_OVERRIDE`) or an array of bits; a count of insertions | `add`, `check`, `hasInCommon`, `isEmpty`, `clear` of all and of a range, assignment |
| Race detection module (rdm) | `pin/SigraceModules.h` | for each thread a queue of its last signatures, `threadCount` | `addProcessor`, `addSignature` (push, evict, scan, report) |
| pthread handlers | `pin/PthreadInstumentation.cpp`, globals in `pin/MyPinTool.cpp`, `pin/GlobalVariables.h` | per thread: clock, two filters, addresses of the mutex, condition variable and barrier in use, final clocks of the children; global: `lastCreatedThread`, `pthreadPinIdMap`, `threadIdMap`, `unlockedThreadMap`, `notifiedThreadMap`, `barrierWaitMap`, and the Pin locks | `ThreadStart`, `ThreadFini`, replacements of `pthread_create` and `pthread_join`, before/after hooks of lock, trylock, unlock, cond wait, cond signal, cond broadcast, barrier init, barrier wait |
| Memory accesses | `pin/MultiCacheSim_PinDriver.cpp` | the two filters of the running thread | `Read`, `Write` |
| Event record | `pin/RecordNReplay.cpp` | `record.txt`, write only | `PrintRecordInfo` |
| Replay tool | `pin-replay/MyPinTool.cpp` | epoch log of each thread, the threads' replay clocks (TRT) and the global one (GRT), create order | `BeforeCreate`, `AfterCreate`, `BeforeJoin`, `ThreadStart`, `ThreadFini`, `advanceTRT`, `updateGRTLoop` |
| Cache simulator | `pin/MultiCacheSim-dist` | the lines of each simulated cache with their MSI states and their order of use, counters | `readLine`, `writeLine` and their remote actions, look-up and replacement in three cache organisations |
| Cache driver | `pin/MultiCacheSim-dist/MultiCacheSim_PinDriver.cpp`, `CacheTestDriver.cpp` | a reference simulator and a list of simulators under test | `Read`, `Write`, the comparison of the two, the choice of a call per instruction |
| Bounded queue | `pin-replay/queue.c` | a ring, two indices, a count of live producers, a mutex and two condition variables | `enqueue`, `dequeue`, `queue_signal_terminate`, the threads around them |
| Scripts | `*.py`, `pin*/test*` | none | inputs and drivers of the tools |
| Third party | `fasthashing`, `MurmurHash` | none | hash functions |

**How the parts interact.** Every handler runs in the instrumented program's
own threads, before or after the real libpthread call. A handler that ends an
epoch hands the thread's clock and filters to the rdm, empties the filters,
advances the thread's clock, and either leaves a copy of the clock in a global
map (unlock, signal, barrier arrival, thread exit) or takes one from it (lock,
wakeup, barrier departure, join). A child copies its creator's clock in its own
`ThreadStart`, while the creator polls the global `lastCreatedThread`. The rdm
compares each new signature with the kept ones by clock and by filter.

The recorder also writes, for every thread, the clock of each epoch it enters,
and for every creation the creator and the child; the replay tool reads these
files and holds the threads of a second execution back until the epochs that
were before theirs are over. The cache simulator comes with a driver of its own
(the calls from the recorder's driver are commented out); the queue program is
what the replay tool is tried on.

**What is hard about it.** The program's threads interleave between the
handlers and the libpthread calls they surround; the clock a thread finds in a
map must be the one left by whoever it synchronised with, neither older nor
newer; the creator's epoch is handed over after its child is already running;
a barrier's next generation begins while the threads of the last have not left
it; queues have a limit; the creator waits for a limited time; the operator
that compares clocks looks at two components only and wants both to be smaller.
`PROJECT.json` lists each hazard at its line.

**What makes each part correct.**

* Clocks: two epochs compare as ordered exactly when the program's
  synchronisation orders them. One direction is "no missed race"
  (`ConcurrencyIsSeen`), the other "no false race" (`OrderIsSeen`).
* rdm: kept conflicting epochs that nothing orders are reported, what is
  reported is a race, stopping the scan early skips nothing, no access is lost
  between the filters and the queues.
* Creation and joining: handles and Pin ids are paired correctly, the creator's
  clock stands still while the child reads it, the joiner finds the child's
  final clock, and both calls return.
* Barriers: whoever leaves finds the clocks of everybody it met.
* Locks of the tool: two handlers do not use the same shared data at once, but
  at three known places, and no handler waits for ever for a lock or for a thread
  that needs it.
* Filters: an address that two filters share is never missed, whatever the hash
  functions do; a filter is called empty exactly when nothing was added.
* Replay: a recording is accepted, ids come back the same, nothing is done again
  before what preceded it, and the replay comes to its end.
* Caches: at most one modified copy and then no other, a block on one line, a
  victim that is invalid or the oldest; the caches together are coherent.
* Queue: a FIFO channel that hands everything out before it announces the end.
* Condition variables: the waiter is after the epochs of the thread that woke
  it. (It is not; see `cond_order` and the known limits.)

## 2. Modules

| Module | Models |
|---|---|
| `VectorClock` | the clock algebra |
| `SigraceModules` | signatures, filters, the push and the scan of the rdm |
| `PthreadInstrumentation` | the state machine of the recording tool: every handler as an action, and the properties |
| `PthreadProofs` | theorems about `PthreadInstrumentation`: types; the handshake of `pthread_create` and `pthread_join`, the tool's assertions, the entries of condition variables |
| `ExactProofs` | theorems about it: no clock is ahead of the threads it speaks of; the clocks represent the program's order, barriers included, and what follows for the scan |
| `ReportProofs` | theorems about it: what the race detection module reports and what it does not miss, and that no access is lost on the way to it |
| `MCPthread` | the recording tool with its constants, for TLC |
| `PinLocks` | every handler of the recording tool that uses a lock or shared data, memory accesses included, as the sequence of Pin locks it takes and of shared data it uses |
| `PinLocksProofs` | theorems about `PinLocks`: its types, and where shared data is used by two handlers at once |
| `Bloom`, `MCBloomFilters` | the filters in both builds; small colliding hash functions for TLC |
| `BloomProofs` | theorems about `Bloom` |
| `Replay` | a recording by the tool of `pin/`, its files, and the replay by the tool of `pin-replay/` |
| `ReplayProofs` | theorems about `Replay`: types, ids, assertions, the consistent cut |
| `CacheAssoc` | one set of an associative cache: look-up, victim, fill, in the order the lines are kept |
| `MSI_SMPCache` | several caches with the MSI protocol and its counters |
| `Coherence` | abstract: who holds a block, and whether to write; no lines, no order |
| `CacheDriver` | composes two simulators, `MSI_SMPCache` and an instance of it, under the driver that compares them |
| `CacheProofs` | theorems about `CacheAssoc`, `MSI_SMPCache` and `CacheDriver`: that they implement `Coherence`, and what the comparison sees |
| `CacheCore` | one cache in each of the three organisations (associative, direct-mapped, skewed) |
| `RecentBlocks` | abstract: a cache keeps the blocks used last |
| `BoundedQueue` | the queue program, one critical section or wait a step |
| `FifoChannel` | abstract: a bounded channel of values that go to one receiver each, in order |
| `QueueProofs` | theorems about `BoundedQueue`: types, that it implements `FifoChannel`, and that it ends drained |

### The recording tool

**State.** The variables of `PthreadInstrumentation` keep the names of the
source. A thread is its Pin id; its `pthread_t` and its OS id are the same
number, so what the tool must find out - which Pin id belongs to a handle - is
exactly `pthreadPinIdMap`. An entry that a C++ map does not contain is a value
of its own: `NO_ID` as the id of a `ThreadInfo` and in `pthreadPinIdMap`, the
zero clock in `joinVCMap` (no running thread has a zero clock), size 0 in
`barrierWaitMap`. `pc` says where a thread is inside a libpthread call;
`owner`, `thread`, `signalled`, `parent`, `nextTid`, `joined` are the program's
and libpthread's own state.

**Ghosts.** `past[t]` is the set of epochs of the program that happen before
what thread `t` does now; an epoch is named by its thread and the value of the
thread's own clock component. `mutexPast[m]` is what the last owner of `m`
passed on, `pend[t]` what a signal or a barrier passes on to a thread that has
not returned yet. The ghosts follow the synchronisation of the *program* -
creation, joining, a mutex handed from owner to owner, a wakeup, a barrier -
and never read the tool's maps, so that the clocks can be judged against them.
A mutex that is not `Tracked` (above `MUTEX_POINTER_LIMIT`: the handlers skip
it) makes no edge, because the tool is not meant to see it.

**Grain.** One action is one critical section of the tool together with what
only the running thread can see. Three pairs are one step:

* the real `pthread_mutex_lock` and `AfterLock`, because until `AfterLock` has
  run nobody else can own the mutex and only an owner touches its entry;
* `BeforeUnlock` and the real unlock, for the same reason;
* the rdm and the map sections of one handler, because what lies between them
  is the thread's own state and the entry it alone may write.

Three are deliberately apart, because other threads act in between: the
creator's spawn, publication and end of epoch (`CreateCall`, `CreatePublish`,
`CreateEpoch`); `BeforeCondWait`, going to sleep, waking up and `AfterCondWait`;
arrival at a barrier in the handler, in libpthread, and departure.

**Failed assertions** set `failed`, and no action is enabled afterwards: the
tool and the program stop. That, and the fact that a program may simply end or
deadlock by itself, is why the configurations do not check for deadlock.

**External code.** libpthread is modelled by what the handlers rely on: mutual
exclusion, a signal wakes one sleeping thread if there is one, a barrier lets
the threads through when the count is complete, `pthread_join` returns after
the joined thread's `ThreadFini`. The program is arbitrary, within the rules of
pthreads: it unlocks what it owns, waits with the mutex held, joins a thread
once, does not set up a barrier while threads are blocked in it. The constant
`Env` adds what only some programs and environments do: `trylock`, `broadcast`,
`spurious_wakeup`, `foreign_join`, `eager_reinit`, `slow_start`.

### The tool's own locks

`PthreadInstrumentation` makes a critical section one step; `PinLocks` is what
justifies that and shows where it does not hold. `todo[t]` is what is left of the
handler that thread `t` is in: a sequence of operations, in the order of the
source, with the nested section of `PrintRecordInfo` where the handler prints.
`get` and `release` are `GetLock` and `ReleaseLock`, which are not re-entrant;
`read` and `write` are accesses to a global, or (`of`) to data in the storage of a
thread; `spawn` and `wait` are the calls of libpthread, `poll` the loop on
`lastCreatedThread`, `abort` a failed assertion, which ends the program (`Fail`).
The data itself is left out but for `lastCreatedThread`, on which the creator
waits. Two threads at accesses to the same data, one of them a write, are the
conflict that the property speaks of.

`Bodies` gives the sequences that each handler may be. `AfterLock` stands for
`AfterTryLock`, `BeforeUnlock` and `BeforeCondWait` too, which use the same data in
the same way, and `Read` for `Write`. The handlers that only store an argument in
the thread's own storage (`BeforeLock`, for example) use nothing that is shared and
have none. An operation stands where the source has it, also where that is outside
a lock:

* `ThreadFini` flushes the record before it takes any lock (lines 119-122);
* `PthreadJoinReplacement` reads the clock of the joined thread when it has
  released `threadIdMapLock` (lines 272-274). `joinVCMap` is a `std::map`, in which
  an entry stays where it is when others are added, so that the map (`joinVCMap`,
  which `find` and the insertion use) and the clock in the entry of thread `c`
  (`finalClock`, of `c`) are two pieces of data. `ThreadFini` of `c` writes both
  under the lock;
* a child reads its creator's clock under `threadIdMapLock`, and the creator
  advances that clock under `atomicCreate` only.

A join by a thread that did not create the joined one ends in one of two
assertions, at line 266 (`JoinOfUnknownHandle`: the loop that sleeps between a
release and a `GetLock` never looks again, so that one round stands for all) or at
line 271 (`JoinOfAnothersChild`). `BeforeCondBroadcast` ends in the missing storage
of a thread whose number is an address. Other assertions of the handlers fail for
reasons that are not in this model (the number of threads, a loop that gives up) and
are in `PthreadInstrumentation`.

### Filters

`Bloom` is parameterised by the hash functions, the size in bits and `CHAR_BIT`,
and the variable `SET_OVERRIDE` chooses the build; it is set
at the start and stays. The comparison and the clearing go over bytes, as in the
source. The ghost `added` is the addresses a filter has been given and that were
not taken out again, `ranges` whether a range was cleared since the filter was
last empty. `SigraceModules` takes from it that, in this build, a filter is the
set of what was added. Ranges are cleared in the build with `SET_OVERRIDE` only:
in the other, removal unsets bits that other addresses share. A filter is assigned
to another one only, as all callers do.

### Replay

The first half of a behaviour is a recording: a program of threads that create,
join, lock and unlock, under any schedule, with
the clocks of `VectorClock`. Each epoch is a line of the thread's log, printed
and parsed again (`printVector`, `parseVector`). `StartReplay` makes the program
begin again under the replay tool, from the files alone. One replay action is one section
under the tool's locks, or one round of a polling loop that finds its condition;
a round that does not find it changes nothing. A failed assertion sets `failed`.
What the program does is fixed by the recording, as far as a thread's own
sequence of calls goes; its schedule is not.

### Cache simulator

A set is the sequence of its lines in the order the code keeps them, most
recently used first; a look-up moves what it finds to the front also when it is
a snoop or a comparison. A line is a tag and a
state; the data of a block does not exist in the simulator either. `counted` is
which counters the last access incremented; their totals decide nothing. The
sizes are powers of two, as the constructor asks. `ignoreLocked` is
never passed, so that the policy RANDOM behaves like LRU and the policies are
one. `MultiCacheSim::getStateAsInt` ends without a `return`; it is modelled with
the result a build without optimisation leaves in the register. The lock around
an access makes it one step.

`Coherence` abstracts from the lines: the map takes a block's valid line, in
whichever place of whichever set, to the state of the block in that cache.
`RecentBlocks` has a recency list of blocks per set. In a direct-mapped or skewed
cache a set has one place, and a block has one or two sets it may be in.

### Queue

Each thread is at one of its waits or sections; `pthread_cond_signal` chooses
one sleeper, and any sleeper may wake up without a signal. The length of the
consumers' loop is chosen at the start (`gets`). `FifoChannel` has the sequence
of the values that wait; the refinement takes the ring from `tail` to `head` to
it.

## 3. What the runs check

| Run | Instance | Checks | Result |
|---|---|---|---|
| `races` | 2 threads, reads and writes, queues that never overflow | `RaceIsReported`, `ReportIsReal`, `BreakIsSafe` | holds |
| `create` | 4 threads creating and joining each other, fairness | `IdsMatch`, `NoAssertionFails`, `ParentClockIsStable`, `CreateReturns`, `JoinReturns` | holds |
| `barrier` | 2 threads, a barrier over several generations, a tracked and an untracked mutex, trylock | `ConcurrencyIsSeen`, `OrderIsSeen`, `BarrierClockIsComplete` | holds |
| `cond` | 2 threads, wait, signal, broadcast, spurious wakeups, a creator that may give up | `TypeOK`, `NoFutureKnowledge`, `NotifyEntryExists`, `NoAccessIsDropped` | holds |
| `pin_locks` | 3 threads, 4 handler calls, fairness | `TypeOK`, `ConflictsAreKnown`, `HandlersReturn` | holds |
| `bloom` | 2 filters, 3 addresses, 2 hash functions that collide, 5 bits in bytes of 2, both builds | `TypeOK`, `ConflictIsNeverMissed`, `SetIsExact`, `EmptyWhenNothingAdded` | holds |
| `replay` | 4 threads, at most 4 creations and critical sections, fairness | `TypeOK`, `ReplayAccepts`, `SameIds`, `ConsistentCut`, `ReplayEnds` | holds |
| `cache` | 2 simulators of 3 caches of 2 sets of 2 lines, 3 blocks that share a set | `DriverTypeOK`, `SingleWriter`, `OneLinePerBlock`, `EvictsOnlyWhenFull`, `ServicedByTheOwner`, `ImplementsCoherence`, `NoFalseAlarm`, `ComparisonChangesNothing` | holds |
| `lru` | 1 cache in each organisation, 6 blocks | `KeepsRecentBlocks` | holds |
| `queue` | 2 producers of 3, 2 consumers of 3 or of 4, ring of 3, fairness | `TypeOK`, `EndsDrained`, `Terminates`, `ImplementsFifo` | holds |
| `cond_order` | 2 threads, one condition variable | `NotifierIsPast` | violated |
| `window` | 3 threads, 1 mutex | `RestIsOrdered` | violated |

**Bounds.** `MaxThreads` bounds the threads of the program (not the array
size: `MAX_THREAD_COUNT` is one larger, because `addProcessor` refuses the last
place), `MaxClock` the epochs of a thread: a call that ends an epoch is made
only below it. Three threads are the fewest with an order that goes through a
third (`window`; for the passing properties the theorems of section 4 cover any
number); four are the fewest in which two threads that are
themselves children create threads at the same time, which is what the lock
`atomicCreate` is for (`create`). Four epochs let a thread take and leave a
mutex twice, so that an entry is written, consumed and written again, and let a
barrier run two generations with a fast thread in the second while a slow one
has not left the first. In `barrier` and `cond` the history queue has room for
two signatures, so that it overflows; in `races` it never does, because
`ReportIsReal` looks for the two epochs in the queues. `RaceIsReported` is a
property of two threads: with a third, what `window` shows can hide a race.

The other components: three caches are the fewest in which one can be shared
with a second while a third writes, and three blocks in a set of two lines the
fewest that make a victim of a valid line; a thread id above the number of
caches (5 of 3) exercises the choice of a cache by remainder. `lru` has six
blocks, so that each organisation fills up and replaces. The consumers of the
queue ask for as many values as there are, and then all threads must end, or for
more, and then the end is announced; two producers let one end before the other.
Four replayed threads let two threads that are children create at the same time;
with fewer threads there are up to three critical sections, so that a clock goes
from one thread to another through the mutex. Four handler calls of three
threads put any two handlers beside each other, with a creation among them, and let
a thread with two children join one while the other ends. The
filter has five bits in bytes of two, so that the last byte is not full, and the
hash functions collide.

**Fairness** (of the handlers: `FairSpec`, used by `create`). Weak fairness of
`ThreadStart`, `CreatePublish`, `CreateEpoch` and `JoinReturn`: a handler that
was entered, and a thread that was created, is scheduled by the operating
system. The program is assumed to do nothing: `JoinReturns` is about joins of
threads that have exited. `CreateReturns` is stated for creators whose polling
loop is long enough (`slow_start` not in `Env`).

`PinLocks`: weak fairness of each thread's next step. A spin lock promises
nothing to one of several that wait, but the number of calls is bounded
(`MaxCalls`), so that contention ends. `Replay`: weak fairness of each thread's
replay steps; the threads poll with sleeps, so that one whose condition has come
true for good sees it. `BoundedQueue`: weak fairness of each thread's next step and of the creation of
the threads, none of a spurious wakeup or of which sleeper a signal chooses.

### What the violations show

* `cond_order`. `AfterCondWait` takes the signaller's clock with
  `receiveAction` and does not advance the waiter's own component. Since
  `operator<` wants *both* components to have grown, what the signaller did
  under the mutex is still called concurrent with what the waiter does next:
  in the plainest use of a condition variable (wait; the other thread locks,
  writes, unlocks, signals; the waiter reads) the tool reports a race.
* `window`. `addSignature` leaves a queue at the first entry that is not
  concurrent with the new one: "rest is already HB this one". A creator's epoch
  is handed over after its child has started. If the child synchronises with a
  third thread first, that thread's newest entry is *later* than the creator's
  epoch, and behind it there may be one that is concurrent with it and is
  skipped. `BreakIsSafe` shows that this is the only way: for epochs that end
  outside `pthread_create` the break skips nothing.

### What the refinements show

* `ImplementsCoherence`: `MSI_SMPCache`, with lines, sets, replacement and the
  order in which the other caches are asked, implements `Coherence` as long as
  no block has tag 0.
* `KeepsRecentBlocks`: `CacheCore` implements `RecentBlocks` in every
  organisation: what is dropped is what was used longest ago among the blocks
  that compete for a place.
* `ImplementsFifo`: `BoundedQueue` implements `FifoChannel`; full and empty are
  never confused and no value is lost, repeated or overtaken.

### Known limits of the code, which the passing properties respect

* A broadcast: `BeforeCondBroadcast` passes its two arguments to
  `BeforeCondSignal` in the wrong order, `getTLS` is asked for a thread whose id
  is an address, and its assertion ends the program (the failure "no local
  storage").
* Mutexes in a replayed program: the recorder logs an epoch at every mutex
  operation and the replayer's handlers of mutexes are commented out, so that a
  thread that used one lags behind its log and the clock it leaves for a child is
  not the recorded one; the child's assertion fails, or epochs are left at the
  end. `ReplayAccepts` and `ReplayEnds` are about fork-join programs;
  `ConsistentCut` and `SameIds` are about all.
* A program without threads: its `create.txt` is empty and `BeforeMain` refuses
  it.
* Block 0 in the cache simulator: an invalid line has tag 0, which is also the
  tag of the blocks at the bottom of memory. The look-up of such a block stops at
  an invalid line, and a copy behind it survives another cache's write: with 0 in
  `Tags`, `SingleWriter` is false. `CacheTestDriver.cpp:15` uses such an address.
* A read miss counts as serviced by another cache also when that cache has the
  line shared (`MSI_SMPCache.cpp:149`); the simulator's README describes it for
  lines that are not shared.
* An instruction that reads and writes memory is simulated as a read only
  (`MultiCacheSim_PinDriver.cpp:170`).
* With `SET_OVERRIDE`, `Bloom::remove` inserts (`Bloom.cpp:86`); nothing that the
  tool registers calls it. It also takes one off the count of insertions for each
  address of a range, whether it was there or not, so that the count can fall below
  zero.
* `Bloom::operator=` does not test for an assignment of a filter to itself, which
  without `SET_OVERRIDE` would clear it (`Bloom.cpp:99-103`). No caller does that.
* `ThreadFini` flushes `record.txt` without `recordLock`
  (`PthreadInstumentation.cpp:119-122`), while other threads print to it under the
  lock. The C library has a lock of its own for the `FILE`. `addProcessor` and, in
  `BeforeBarrierWait`, `addSignature` use the race detection module without
  `rdmLock`. `ConflictsAreKnown` names these handlers as its exceptions.
* A thread joined by one that did not create it (`foreign_join`): its final
  clock is in the creator's storage, and the assertion at
  `PthreadInstumentation.cpp:271` fails.
* `MAX_THREAD_COUNT` threads: `addProcessor` compares after the increment
  (`SigraceModules.h:252`), so one fewer fits than `ThreadStart` allows
  (`PthreadInstumentation.cpp:59`).
* There is one notify entry for a condition variable. It is written before the
  real signal, overwritten by the next announcement, a thread's own included, and
  never consumed (line 488 clears a copy), so a waiter may take a clock of a
  thread it was not woken by: `ConcurrencyIsSeen` does not hold
  with condition variables, and no run claims it.
* A spurious wakeup before any signal makes `AfterCondWait` use the end
  iterator of the map (the result is compared with the end of another map,
  line 481); the model records it as the failure "end iterator".
* A barrier with fewer places than the program has threads. The handler counts a
  thread before libpthread does, and another thread may come in between: of three
  threads at a barrier of two, the handler may pair the first with the second and
  libpthread the first with the third, who then leave with a clock in which the
  third's is missing. With `MaxThreads = 3` and size 2, `BarrierClockIsComplete` is
  false.
* A barrier set up again while threads that were let through have not returned
  (`eager_reinit`) loses the clock they were to read.

## 4. What is proved

For every value of the constants that satisfies the assumptions of the modules:

* recording tool: `ThreadCountAssumption`, `QueueSizeAssumption`,
  `InstanceAssumption` - any number of threads, epochs, addresses, mutexes, any
  length of the history queue;
* its locks: `LocksAssumption` - any number of threads and of calls, any part of
  the handlers;
* filters: `BloomAssumption` - any hash functions, any number of bits, any size
  of a byte;
* replay: `ThreadCountAssumption`, `ReplayAssumption` - any number of threads and
  of calls;
* caches: `GeometryAssumption`, `CachesAssumption`, `DriverAssumption` - any
  number of caches, sets and ways that are powers of two, any thread ids;
* queue: `QueueAssumption` - any finite number of producers and consumers, any
  loop lengths, a ring of two slots or more.

| Theorem | States | For which programs |
|---|---|---|
| `TypesHold` | `[]TypeOK` | all |
| `IdsAlwaysMatch` | `[]IdsMatch` | all |
| `ParentClockStands` | `ParentClockIsStable` | all |
| `AssertionsHold` | `[]NoAssertionFails` | `WellBehaved` ones |
| `NotifyEntryFound` | `[]NotifyEntryExists` | tracked condition variables |
| `NobodyKnowsTheFuture` | `[]NoFutureKnowledge` | all |
| `NoFalseOrder` | `[]ConcurrencyIsSeen` | with full barriers |
| `NoFalseRace` | `[]OrderIsSeen` | with full barriers |
| `LeavingTheQueueIsSafe` | `[]BreakIsSafe` | with full barriers |
| `BarrierGathersAll` | `[]BarrierClockIsComplete` | with full barriers |
| `AccessesAreHandedOver` | `NoAccessIsDropped` | all |
| `EpochsAreJudged` | `EndingEpochIsJudged`: an epoch that ends is reported at once if it races with a kept one | with full barriers |
| `OnlyRacesAreReported` | `NewReportsAreReal`: what is reported is a race of two epochs | with full barriers |
| `RacesAreReported` | `[]RaceIsReported` | the same, two threads |
| `ReportsAreReal` | `[]ReportIsReal` | the same with any number of threads, queues that keep all epochs |
| `LockTypesHold` | `[]TypeOK` of the locks | all |
| `DataIsGuarded` | `[]ConflictsAreKnown` | all |
| `BloomTypes` | `[]TypeOK` of the filters | all |
| `EmptinessIsCounted` | `[]EmptyWhenNothingAdded` | all |
| `SetsAreExact` | `[]SetIsExact` | all |
| `NoConflictIsMissed` | `[]ConflictIsNeverMissed` | no range cleared in the build with bits |
| `ReplayTypes` | `[]TypeOK` of the replay | all |
| `IdsAreKept` | `[]SameIds` | all |
| `NoAssertionFails` | `[]ReplayAccepts` | all (it speaks of fork-join programs) |
| `CutIsConsistent` | `[]ConsistentCut` | all |
| `CacheTypes` | `[]TypeOK` of the caches | no block of tag 0 |
| `OneWriter` | `[]SingleWriter` | no block of tag 0 |
| `OneLine` | `[]OneLinePerBlock` | no block of tag 0 |
| `EvictsWhenFull` | `EvictsOnlyWhenFull` | no block of tag 0 |
| `OwnerServices` | `ServicedByTheOwner` | no block of tag 0 |
| `CachesAreCoherent` | `ImplementsCoherence` | no block of tag 0 |
| `DriverTypes` | `[]DriverTypeOK` | no block of tag 0 |
| `ComparisonsAgree` | `[]NoFalseAlarm` | no block of tag 0 |
| `ComparisonIsInvisible` | `ComparisonChangesNothing` | no block of tag 0 |
| `DriverRunsTheProtocol`, `DrivenCachesAreCoherent` | the five statements about the caches, under the driver | no block of tag 0 |
| `QueueTypes` | `[]TypeOK` of the queue | the queue program |
| `QueueIsFifo` | `ImplementsFifo` | the queue program |
| `QueueEndsDrained` | `[]EndsDrained` | the queue program |

**The hypotheses.**

* "With full barriers" means programs that synchronise by creating and joining
  threads, by mutexes, and by barriers in which all threads take part: `Conds = {}`,
  and if there are barriers, no `eager_reinit` and no size in `BarrierSizes` below
  `MaxThreads` (`FullBarriers`; the run `barrier` satisfies it). Everything else in
  `Env` is allowed, so also programs in which the tool fails (a foreign join, a
  creator that gives up): up to that failure the clocks are exact. With condition
  variables the statements are false (`cond_order`). With fewer places than
  threads, or a barrier set up again too early, a thread leaves a barrier with a
  clock that lacks what it met there: see the known limits.
* `WellBehaved` excludes exactly what is known to make an assertion fail: as many
  threads as the array has places, a join by a thread that is not the creator, a
  creator that gives up, a broadcast, a wakeup without a signal, and a condition
  variable that the tool does not track.
* A tracked condition variable (`Conds \subseteq Tracked`): the handlers skip
  addresses above `MUTEX_POINTER_LIMIT`, and `NotifyEntryFound` needs the signal's
  handler not to be skipped when the wait's is not. Spurious wakeups, broadcasts
  and creators that give up are allowed there.
* Two threads, for `RacesAreReported`: with a third, the creator's late epoch can
  be compared with too few entries (`window`). `EpochsAreJudged` is what remains
  with any number of threads: only the epoch that ends inside `pthread_create`
  is exempt.
* Queues that keep all epochs (`MaxClock <= BLOCK_HISTORY_QUEUE_SIZE`), for
  `ReportsAreReal`: `ReportIsReal` looks for the two epochs in the queues, and an
  evicted one is not there any more. `OnlyRacesAreReported` says the same of the
  moment of the report, without the bound.
* No range cleared in the build with bits (`FALSE \notin Removing`): clearing one
  unsets bits that other addresses share. Nothing that the tool registers does it.
* No block of tag 0 (`0 \notin Tags`): with one the statements are false, see the
  known limits.

The theorems state what the runs check, except where the table spells the
statement out.

**Types** (`PthreadProofs`). `TypeOK` alone is not inductive: a handler that
returns uses the address that the handler before the call stored in the
thread's local storage, and that address may be null in general. `TypeInv` adds
`ArgumentsOK`, which says that a thread inside a call has that call's arguments
set. There is one lemma for what each helper (`EndEpoch`, `pushFront`,
`ScanReport`, `receiveAction`, ...) returns and one step for each action.

**The handshake** (`PthreadProofs`). `IdsMatch` speaks of what the creator has
published; why it published the right id needs the whole protocol. `CreationInv`
has six parts: ids are given out in order and every thread but the first has a
creator (`FamilyInv`); `atomicCreate` is held by exactly the thread that is
inside `pthread_create`, and what it makes is the newest thread (`LockInv`);
only the newest thread can be on its way to `ThreadStart`, its creator polls
meanwhile, and `lastCreatedThread` is set from the child's `ThreadStart` to the
creator's publication and at no other time (`HandshakeInv`); a handle is known
when its creator has left the loop (`HandleInv`); `threadCount` counts the
started threads (`CountInv`); a started thread has a clock and an ended one left
it with its creator (`FinalClockInv`). All other handlers are `QuietStep`s, for
which the invariant is proved once. `ParentClockStands` follows from
`HandshakeInv`: the creator of a spawned thread is at its polling loop, and no
action changes the clock of a thread that is there. `AssertionsHold` adds that a
thread in `pthread_join` is the creator (`JoinerInv`) and that a signal on its
way has left its entry (`EntryInv`). `NotifyEntryFound` uses `NoticeInv`, which
does without `WellBehaved`: what a signal passes on it passes to a thread that it
wakes, and a thread that is about to signal has left its entry; entries are
never taken away again.

**No clock ahead** (`ExactProofs`). `Limit[j]` is thread `j`'s own count of its
epochs, plus one while `j` is inside `pthread_create` (its child already counts the
epoch as over) and after it has been joined (so does the joiner). `AheadInv` says
that every clock the tool keeps - of a thread, a mutex, a condition variable, both
of a barrier - is below it (`BoundInv`), and that a final clock is the clock of a
thread that has ended and is joined once (`JoinInv`). It needs no hypothesis:
a wrong notify entry or a barrier whose generations are mixed up makes a clock
old, never new. `NobodyKnowsTheFuture` is a part of it.

**Exactness** (`ExactProofs`). The clock of a thread *represents* its past:
epoch `n` of thread `u` is in it exactly when `0 < n < clock[u]`
(`Represents`). That the operations of clocks keep this is a lemma for each of
them, but two of them do so only if nobody's clock is ahead of the thread it
speaks of, which is what `AheadInv` is for: a child's component must be 0 in its
creator's clock, and the joined thread's final clock must have the largest count
of its own epochs. `operator<` wants *both*
components to be smaller. That the second one adds nothing is `Seen`: whenever
`u`'s component says that an epoch of `u` precedes what `t` does, so does `t`'s
own, because whatever brings `t` a clock also starts a new epoch of `t`. It is
what `AfterCondWait` breaks. Each action either changes no clock
(`StandingStep`) or starts an epoch (`MovingStep`). For the break of the scan,
`SortedInv` says that a queue holds its thread's epochs newest first and each
once; it holds in every program.

**Barriers** (`ExactProofs`). There are two things to show: what a thread finds in
the barrier's clock when it leaves, and that taking that clock is harmless although
`AfterBarrierWait`, like `AfterCondWait`, advances nothing.

For the first, `GatherInv` is about the handler's count, which goes back to 0 when
the last thread has *entered*, while libpthread lets the threads through when the
last has *arrived*: as long as the count is not 0, the clocks of those inside are
below the barrier's `vectorClock`; when it is 0 and somebody is inside, everybody
is, and their clocks are below `previousVectorClock`. That a barrier has a place for
every thread is used twice, by counting: the last to enter can overwrite
`previousVectorClock` because then nobody is still on the way out, and those whom
libpthread counts together are those whom the handler counted together. When they
are let through, everybody is, so that the clock they find has, for each thread,
exactly that thread's own count; it represents the union of their pasts
(`ReleasedInv`), no more and no less.

For the second, the thread has started its new epoch already, when it entered.
What could go wrong is that somebody learns of the end of the epoch with which it
came before it has been let through itself, so that it would later receive
an epoch that has seen its newer one. `Known` excludes that: it is `Limit`, but one
less than the own count for a thread that has entered and was not let through, and
the components of other threads, in clocks, entries and mutexes, are below it
(`Others`). `ReleasedInv` adds that an epoch which a released thread is about to
see as over had seen no more of it than the epoch with which it came.

**Reports** (`ReportProofs`). Exactness says that a comparison is right; that
every pair which matters *is* compared, and at the right time, needs more.
`ReportInv` has three parts. `BackInv`: an entry of another thread that has seen
the epoch which is now ending was made by a thread whose own component has grown
since - without it an entry could be later than the epoch that ends, and the scan
would have to look for it. `LengthInv`: an entry at the end of a full queue is the
one that is dropped. `ChildInv`: the epoch in which a thread creates another one
precedes every epoch of the child, although it is handed over after some of them;
with two threads, that is all the late epoch is compared with, and so
`RaceIsReported` survives `CreateEpoch`. From `BreakIsSafe` the entries behind
the break precede the new epoch, so that an unordered conflicting one is found
before it (`EpochsAreJudged`), and only such a one is reported
(`OnlyRacesAreReported`). For `ReportIsReal` the two epochs must still be kept:
`EpochBound` says that no thread begins more than `MaxClock` epochs, also those
that a call in progress will end, and `RoomInv` that a queue is no longer than the
number of its thread's epochs, so that a queue that long never drops one.
`AccessesAreHandedOver` needs an invariant because of `AfterCondWait`, which empties
the filters and hands nothing over: a thread that waits with a tracked mutex has
empty filters (`WaitInv`), since `BeforeCondWait` emptied them and nothing is
accessed inside the call.

**The tool's locks** (`PinLocksProofs`). A thread's state is the rest of a
handler, so the invariant speaks of rests of sequences. A lock is *held* at a place
of a sequence if from there on it is released before it is taken (`Held`), and
`HolderInv` says that a lock belongs to thread `t` exactly when what is left of
`t`'s handler holds it. `TodoInv` says that the rest is *disciplined*: it takes no
lock it holds, keeps what it took until it releases it, and uses data under the
lock of the data; that it touches only what this handler may; and that the
operations of `pthread_create` and `ThreadStart` come in their order. All of this
is inherited by the rest of a sequence, so that a step preserves it, and what
remains is that every handler starts that way: parts are composed in sequence
(`ConcatIsBalanced`) and inside a lock (`LockedIsBalanced`), one lemma a handler.
The exceptions are stated where they are made (`RdmWithoutItsLock`: handlers that
use the race detection module outside `rdmLock`; `RecordWithoutItsLock`: the one that
flushes the record). Three pieces of data are kept apart by something else than a
lock. For the parent's clock that `ThreadStart` reads, and for `lastCreatedThread`,
which the creator polls, `StartInv` is the handshake again: while a thread starts,
its creator is at its polling loop, and there is one such thread at a time, because
the creator holds `atomicCreate`. For the final clock that a joiner reads after the
lock, `JoinInv` says that a wait for the thread that writes it comes first in what
is left of the handler, or that this thread has ended and does nothing any more.
A failed assertion ends every thread, which keeps all of it (`FailKeeps`).

**Filters** (`BloomProofs`). The ghost `added` must be in the filter
(`Remembers`), and without cleared ranges the set build has nothing else and the
count is zero only if nothing was added (`Counts`). What is left is arithmetic:
an address that two filters share has a bit in both, the bit is below the size,
and so its byte is one of those that the comparison goes over, whether or not the
last byte is full (`SharedIsSeen`).

**Replay** (`ReplayProofs`). The replay reads what the recording wrote, so the
invariant has two halves. `LogInv` is about the files: the epochs of a log grow in
every component and strictly in the thread's own (`EpochsInv`); the creations are
numbered by the threads they made and each is a call of the program (`OrderInv`);
the first line of a child is the clock its creator printed at the creation, with
the creator's and the child's own components advanced (`BirthInv`). `RecordInv`
carries it through the recording: a running thread has printed one line for each
call and is past them, an unlock follows each lock; `DoneInv` is what is left of
it when all threads have ended. During the replay, `TurnInv` says that the threads
made so far are the ones below `pinIds`, that exactly the holder of
`atomic_create` is in a creation and that it is the creation whose turn it is:
`SameIds` is a part of it. `PlaceInv` says where in its file a thread stands: its
`TRT` is the line it has read, the rest of the file follows in `epochList`, and a
thread without mutex calls is one line ahead of the epoch it is in, so that `GRT`
has reached that epoch, and `currentVC` is its clock (`Ahead`); after a mutex call
the place lags, and this is why `ReplayAccepts` is confined to fork-join programs.
`ChildInv` says that the clock a new thread will be compared with waits in its
creator's map. `ReplayAccepts` is proved together with these (`Whole`), because
the first failure stops the tool. For the cut, `GRT[t]` moves only in
`updateGRTLoop` and `ThreadStart`, to the own component of a line whose other
components `GRT` has reached already, and `EpochsInv` gives the same for all
earlier lines of that thread. The steps of thread `t` leave the part of every
other thread alone (`Stays`), so that each action is proved for `t` only.

**Caches** (`CacheProofs`). In a set, a line is invalid exactly when its tag is 0,
and valid lines have different tags (`SetsOK`); without the first half a look-up
stops at an invalid line with the right tag, which is what happens to block 0.
There is a lemma for each operation of a set (look-up, victim, fill, state change):
the new set in terms of the old one, the state it holds each block in, and which
block, if any, it lost. A cache access is then a change of
`St(p, tag)`, the state of a block in a cache, and `Exclusive` - a modified block
is in no other cache - is preserved because the loops over the other caches
reach each of them. These two are the whole invariant. `EvictsOnlyWhenFull` follows
from the lemma about the victim, `ServicedByTheOwner` and the refinement from
`Exclusive`: the first cache that answers a read is the owner if there is one,
because then there is no other. For the driver, `DriverInv` adds that the two
simulators are in the same state and that whoever holds the lock has its block in
front of its set (`InFront`): the look-up of the comparison then finds it and
moves nothing. `DriverRunsTheProtocol` carries the results over to the
specification that the run checks.

**The queue** (`QueueProofs`). `QueueInv` adds two parts to the types: what lies
between `tail` and `head` was written (`Filled`; without it a consumer might
get what `malloc` left), and `end_count` is the number of producers that have
ended (`EndIsCounted`; without it the counter has no bound). The remainders of
the ring are reduced once, by `OnceAround`, and `RingFacts` collects what they
mean: the waiting values have slots of their own, `head` is free, and full and
empty are a count of `Size - 1` and of 0. For the refinement, `EnqueueStep`
shows that a put appends to the contents, `DequeueStep` that a get hands out
their head, and every other step (`QuietStep`) leaves contents and received values
alone, which is a stuttering step of the channel. For `EndsDrained`, `DrainInv`
follows the loops: a producer's iteration counts its puts and a consumer's its
gets (`LoopInv`), what was put waits in the ring or was handed out
(`NothingLost`), and when the end is announced the ring is empty and every
producer has ended (`EndIsReal`), so that nothing waits and nothing more comes.

The inductive invariants were model-checked on small instances before they were
proved: those of the recording tool with three threads and a mutex and on the
instances of `races`, `create` and `cond`, those of barriers with three threads, a
mutex and a barrier of three places, and without the mutex also one of four, the
others on the instances of their runs.

**Only model-checked.**

* Liveness (`CreateReturns`, `JoinReturns`, `HandlersReturn`, `ReplayEnds`,
  `Terminates`): out of the proof system's reach.
* Exactness with condition variables is not a theorem because it is false.
* `KeepsRecentBlocks`: its three organisations share the operators of `CacheAssoc`,
  about which `CacheProofs` has the lemmas, but the recency list of the abstract
  specification is recovered from the lines by `SelectSeq`, which takes an induction
  on the sequence, and the second slot of a block in the skewed organisation by
  `Bitwise`, which the proof system does not read.

## 5. Not modelled

* `record.txt`: written and never read. That it is written under its lock, and
  flushed without it, is in `PinLocks`.
* malloc/free tracking: its hooks are never registered, and `MallocAfter` does
  not insert what it was called for.
* The test whether an address is on the stack (`isMemoryGlobal`): the addresses
  of the model are the shared ones.
* `instrumentationStatus` of the cache driver: written and never read.
* In the replay tool, the handlers that are commented out
  (`pin-replay/MyPinTool.cpp` 207-340 and 427-710).
* In the cache simulator: sizes that are not powers of two; `findInvalidLine2Replace`, the overloads of
  `CacheGeneric::fillLine` and the skewed organisation's use by
  `createNewCache`, which never asks for it (the organisation itself is in
  `CacheCore`); `MESI_SMPCacheState.h`, whose protocol is not there; the
  printing of the statistics.
* `queue_destroy` has no caller.
* `fasthashing`, `MurmurHash` (third party; any hash function, in `Bloom`),
  `nanassert.h` (compiled out), `main`, image loading and the registration of
  the hooks, the scripts.
* Wrap-around of the 32-bit clock components: runs stay far below it.
* The replay tool's `threadIdMap`, which each starting thread writes without a
  lock: what a damaged map does has no states to model.

## 6. Plan

Done: the modules and runs above. Proofs: type correctness, the creation
handshake, that no clock is ahead, exactness with creation, joining, mutexes and
full barriers, soundness and completeness of the reports, that no access is
dropped, the tool's locks, the filters, the coherence of the caches and their
driver, the replay, and the queue.

Left: what stays with TLC, `KeepsRecentBlocks` and the liveness properties.
