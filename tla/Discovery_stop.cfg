\* Two discoveries, so that the worker of the first can outlive its engine; a
\* queue of three buffers (1000 in the source); Refresh shows one node (10).
SPECIFICATION Spec
CONSTANTS
    DATAQ_SIZE = 3
    RefreshCount = 1
    NULL = NULL
    Garbage = Garbage
    MaxEngines = 2
    MaxPackets = 2
    CreateMayFail = FALSE
CHECK_DEADLOCK FALSE
INVARIANTS
    StopStops
