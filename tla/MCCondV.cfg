SPECIFICATION Spec
CONSTANTS
    MAX_THREAD_COUNT = 4
    ThrArgs <- MCThrArgs
    NULL = NULL
    MaxSpurious = 1
    CallocMayFail = TRUE
    CreateMayFail = TRUE
CHECK_DEADLOCK FALSE
INVARIANTS
    CountExact
    NoLostWakeup
    StuckOnlyStarved
PROPERTIES
    Completes
    PoolSpec
