SPECIFICATION Spec
CONSTANTS
    MAX_THREAD_COUNT = 4
    ThrArgs <- MCThrArgs
    NULL = NULL
    MaxSpurious = 1
    CallocMayFail = FALSE
    CreateMayFail = FALSE
CHECK_DEADLOCK FALSE
INVARIANTS
    DequeuerHasJob
