SPECIFICATION ManagerSpec
CONSTANTS
    Callers = {c1, c2}
    MaxFunctors = 4
    MayExit = TRUE
    Creators = {t1}
    HandleModulus = 4
    FirstHandle = 2
    MaxCreations = 5
    MaxDestroys = 2
    Addrs = {a1, a2}
    Delays = {0, 2}
    Intervals = {0, 1}
    MaxTimers = 2
    MaxIds = 2
INVARIANTS
    TypeOK
    NoLostWakeup
    OwnHandle
    HandlesKept
    TimersKept
    FdArmed
    CancelHolds
PROPERTIES
    ImplementsExecutor
    Executed
    Fires
CHECK_DEADLOCK FALSE
