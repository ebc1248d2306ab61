SPECIFICATION MCSpec
CONSTANTS
    CR = CR
    LF = LF
    Other = {x}
    MaxLen = 4
    Sizes = {0, 1, 2, 3, 4, 5, 6, 7, 8, 9}
    Heap = {n1, n2, n3}
    Values = {1, 2}
    NULL = NULL
    NoValue = NoValue
    RingSizes = {0, 1, 2, 3, 4}
    MaxPush = 9
    Lines <- MCLines
    MaxLines = 2
    MaxNode = 3
    Costs = {0, 1, 3}
    TMFaults = TRUE
    Names = {m1, m2, m3}
    Keys = {k1, k2}
    Variants = {"ex1", "ex2", "xmbean"}
    JndiNames = {e1, e2}
    Prefixes = {p1, p2}
    MaxAttributes = 2
    Clients = {c1, c2}
    PoolSize <- MCPoolSize
    Kinds = {"queue", "topic", "durable", "sync", "syncDur", "mdbQueue", "mdbTopic"}
    N = 2
    CacheNames = {d1, d2}
    Resources = {"r1", "r2"}
    Domains <- MCDomains
    Arrays <- MCArrays
    CoinLines = {7, 10, 20, 27, 40, NoNumber}
    NoNumber = NoNumber
    MaxCases = 3
    Days = {14, 20}
    Params = {1, 3, 4, 5, 8}
    Drives = {1, 2, 3, 4, 5, 6, 35}
    Networks <- MCNetworks
    Hosts = {1, 2, 3}
    MaxArgs = 3
    Navs = {0, 1, 2, 4}
    Unit = 4
    NavLines = 4
    initInvest = 8
    minInvest = 2
    maxInvest = 20
    installmentCount = 2
    Averages = {8, 10}
    Growths = {1, 2}
CHECK_DEADLOCK FALSE
INVARIANTS
    Correct
    AlgorithmsRight
    RingRight
    VerdictRight
    ServicesTidy
    AdaptorConsistent
    AnswersRight
    LinksOnce
    ValueAveraged
PROPERTIES
    QueueRight
    WaitsOnlyForLost
