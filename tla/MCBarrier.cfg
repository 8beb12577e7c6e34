SPECIFICATION Spec
CONSTANTS
    MAX_THREAD_COUNT = 3
    MaxThreads = 2
    MaxClock = 4
    BLOCK_HISTORY_QUEUE_SIZE = 2
    Addrs = {x}
    Mutexes = {m, far}
    Conds = {}
    Barriers = {b}
    Tracked = {m}
    BarrierSizes = {2}
    Accesses = {"write"}
    Env = {"trylock"}
    NULL = NULL
INVARIANTS ConcurrencyIsSeen OrderIsSeen BarrierClockIsComplete
CHECK_DEADLOCK FALSE
