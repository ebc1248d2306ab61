SPECIFICATION MCSpec
CONSTANTS
    Paths <- MCPaths
    Versions = {"pmtu", "lsrr"}
    QArgs = {0, 2}
    MArgs = {1, 3}
    SizeArgs <- MCSizeArgs
    NoArg = NoArg
    MaxLate = 1
    MaxChildren = 4
    ChildMayFail = TRUE
    MaxUnits = 3
    Cap = 3
    Clocks = {0, 1, 999, 1001, 43200000, 86399001, 86399999}
    Pids = {12345, 53191, 65535, 65537}
    MaxReplies = 3
    OptionSets <- MCOptionSets
    RecvDstAddr = TRUE
    MaxData = 1
    MaxForeign = 1
    MaxInbox = 2
    Lengths = {0, 1, 2}
    UdpReadlen = 1
    nbuf = 5
    writelen = 8
    readlen = 4
    urgwrite = 3
    SourceCap = 12
    Gateways = {g1, g2}
    Dest = dest
    Garbage = Garbage
    ULongs = {4, 8}
CHECK_DEADLOCK FALSE
INVARIANTS
    ShownAtDistance
    MtuInTable
    ExactPathMtu
    TerminalExclusive
    DataIntact
    IcmpVerdict
    SocketReady
    RouteRight
PROPERTIES
    TracingEnds
    FirstChildReleases
    HalfCloseEnds
