SPECIFICATION Spec
CONSTANTS
    MAX_THREAD_COUNT = 6
    NULL = NULL
    CallocMayFail = TRUE
    CreateMayFail = TRUE
CHECK_DEADLOCK FALSE
INVARIANTS
    SemMatchesQueue
    TakeFindsJob
PROPERTIES
    Completes
    PoolSpec
