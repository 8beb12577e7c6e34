SPECIFICATION Spec
CONSTANTS
    MAX_THREAD_COUNT = 3
    MaxThreads = 2
    MaxClock = 4
    BLOCK_HISTORY_QUEUE_SIZE = 2
    Addrs = {x}
    Mutexes = {m}
    Conds = {c}
    Barriers = {}
    Tracked = {m, c}
    BarrierSizes = {}
    Accesses = {"write"}
    Env = {"spurious_wakeup", "broadcast", "slow_start"}
    NULL = NULL
INVARIANTS TypeOK NoFutureKnowledge NotifyEntryExists
PROPERTIES NoAccessIsDropped
CHECK_DEADLOCK FALSE
