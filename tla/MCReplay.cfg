CONSTANTS
    MAX_THREAD_COUNT = 4
    MaxThreads = 4
    MaxCalls = 4
    NO_ID = NO_ID
SPECIFICATION Spec
INVARIANTS TypeOK ReplayAccepts SameIds ConsistentCut
PROPERTY ReplayEnds
CHECK_DEADLOCK FALSE
