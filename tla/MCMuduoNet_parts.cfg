SPECIFICATION Spec
CONSTANTS
    Users = {u1}
    MessageLens = {1}
    MaxMessages = 2
    MaxCalls = 1
    MaxReads = 1
    Fds = {1, 2}
    Kinds = {"epoll", "poll"}
    Callers = {c1, c2}
    MaxClientCalls = 3
    kInitRetryDelayMs = 1
    kMaxRetryDelayMs = 2
    Retry = TRUE
    Threads = {t1, t2}
    MaxFunctors = 3
INVARIANTS
    Polled
    ConnectionKept
PROPERTIES
    ConnectionEnds
    ClientTries
    LoopServes
CHECK_DEADLOCK FALSE
