SPECIFICATION Spec
CONSTANTS
    Paths <- MCPaths
    Versions = {"pmtu", "lsrr"}
    QArgs = {1}
    MArgs = {3}
    SizeArgs <- MCSizeArgs
    NoArg = NoArg
    MaxLate = 1
CHECK_DEADLOCK FALSE
INVARIANT StopsWithReason
