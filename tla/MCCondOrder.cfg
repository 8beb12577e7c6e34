SPECIFICATION Spec
CONSTANTS
    MAX_THREAD_COUNT = 3
    MaxThreads = 2
    MaxClock = 5
    BLOCK_HISTORY_QUEUE_SIZE = 4
    Addrs = {x}
    Mutexes = {m}
    Conds = {c}
    Barriers = {}
    Tracked = {m, c}
    BarrierSizes = {}
    Accesses = {"write"}
    Env = {}
    NULL = NULL
INVARIANTS NotifierIsPast
CHECK_DEADLOCK FALSE
