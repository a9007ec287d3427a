SPECIFICATION Spec
CONSTANTS
    Clients = {c1, c2, c3}
    Recipes = {"lock", "shared", "barrier", "master"}
    BarrNum = 2
    MaxNodes = 3
    MaxLosses = 1
    MaxExpiries = 1
    MaxLists = 1
CONSTRAINT TwoOrThree
SYMMETRY ClientSymmetry
INVARIANTS
    OwnerKept
    ReadersWriters
    BarrierHolds
CHECK_DEADLOCK FALSE
