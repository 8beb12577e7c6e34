SPECIFICATION Spec
CONSTANTS
    MAX_THREAD_COUNT = 4
    MaxThreads = 3
    MaxClock = 4
    BLOCK_HISTORY_QUEUE_SIZE = 4
    Addrs = {x}
    Mutexes = {m}
    Conds = {}
    Barriers = {}
    Tracked = {m}
    BarrierSizes = {}
    Accesses = {"write"}
    Env = {}
    NULL = NULL
INVARIANTS RestIsOrdered
CHECK_DEADLOCK FALSE
