\* The signal mask differs between the first connection and the later ones,
\* which all act alike, so a handful of children covers every case.
SPECIFICATION Spec
CONSTANTS
    MaxChildren = 3
    ChildMayFail = FALSE
CHECK_DEADLOCK FALSE
PROPERTIES
    BackToAccept
