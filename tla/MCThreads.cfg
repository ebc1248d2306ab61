SPECIFICATION MCSpec
CONSTANTS
    Threads = {t1, t2, t3, t4}
    MaxCalls = 2
    DATAQ_SIZE = 2
    RefreshCount = 1
    NULL = NULL
    Garbage = Garbage
    MaxEngines = 2
    MaxPackets = 3
    CreateMayFail = TRUE
    Beans = {b1, b2, b3}
    MaxMC = 2
    Files = {{u1}, {u1, u2}}
    Callers = {c1, c2}
    MaxStarts = 2
CHECK_DEADLOCK FALSE
INVARIANTS
    NoLostWakeup
    ButtonMatchesEngine
    ShownInOrder
    ConnectionsExclusive
    VerifierFound
PROPERTIES
    CallsReturn
    AbsSpec
    DiscoveryProceeds
    ServersAnswer
