SPECIFICATION Spec
CONSTANTS
    MAX_THREAD_COUNT = 3
    MaxThreads = 2
    MaxClock = 3
    BLOCK_HISTORY_QUEUE_SIZE = 8
    Addrs = {x}
    Mutexes = {m}
    Conds = {}
    Barriers = {}
    Tracked = {m}
    BarrierSizes = {}
    Accesses = {"read", "write"}
    Env = {}
    NULL = NULL
INVARIANTS BreakIsSafe RaceIsReported ReportIsReal
CHECK_DEADLOCK FALSE
