SPECIFICATION FairSpec
CONSTANTS
    n1 = n1
    n2 = n2
    n3 = n3
    n4 = n4
    Names <- MCNames
    Paths <- MCPaths
    Trees <- MCTrees
    Requests <- MCRequests
    MaxCalls = 2
    MaxOthers = 1
    MaxFaults = 1
    MaxVersion = 1
INVARIANTS
    CallsKept
    ToldOnce
PROPERTIES
    AnswerIsTrue
    TouchesOnly
    Answered
CHECK_DEADLOCK FALSE
