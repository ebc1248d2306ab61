SPECIFICATION Spec
CONSTANT TMFaults = FALSE
CHECK_DEADLOCK FALSE
INVARIANTS
    FavoursRun
