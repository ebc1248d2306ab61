SPECIFICATION Spec
CONSTANTS
    W = 5
    MaxN = 3
    MaxErrors = 2
CHECK_DEADLOCK FALSE
INVARIANT ErrorReported
