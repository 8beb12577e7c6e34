CONSTANTS
    Threads = {0, 1, 2}
    NO_ID = NO_ID
    Handlers = {"pthread_create", "pthread_join", "AfterLock", "AfterCondWait",
                "BeforeCondSignal", "BeforeCondBroadcast", "BeforeBarrierInit",
                "BeforeBarrierWait", "AfterBarrierWait", "Read"}
    MaxCalls = 4
SPECIFICATION Spec
INVARIANTS TypeOK ConflictsAreKnown
PROPERTY HandlersReturn
CHECK_DEADLOCK FALSE
