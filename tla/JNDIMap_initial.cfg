SPECIFICATION Spec
CONSTANTS
    Names = {m1, m2}
    Keys = {k1, k2}
    Variants = {"xmbean"}
CHECK_DEADLOCK FALSE
INVARIANTS
    InitialValuesPlaced
