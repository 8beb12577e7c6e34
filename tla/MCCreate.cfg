SPECIFICATION FairSpec
CONSTANTS
    MAX_THREAD_COUNT = 5
    MaxThreads = 4
    MaxClock = 5
    BLOCK_HISTORY_QUEUE_SIZE = 1
    Addrs = {}
    Mutexes = {}
    Conds = {}
    Barriers = {}
    Tracked = {}
    BarrierSizes = {}
    Accesses = {}
    Env = {}
    NULL = NULL
INVARIANTS IdsMatch NoAssertionFails
PROPERTIES ParentClockIsStable CreateReturns JoinReturns
CHECK_DEADLOCK FALSE
