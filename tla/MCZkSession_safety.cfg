SPECIFICATION Spec
CONSTANTS
    Zhandles = {h1, h2, h3}
    NULL = NULL
    InitDelay = 2
    MaxDelay = 6
    HasHandler = TRUE
    WithClientId = FALSE
    MayDestroy = TRUE
    MaxFaults = 1
    MaxToggles = 2
SYMMETRY ZhandleSymmetry
INVARIANTS
    TypeOK
    SingleTimers
    HandlerOnce
    ClosedUnused
PROPERTIES
    ImplementsPolicy
CHECK_DEADLOCK FALSE
