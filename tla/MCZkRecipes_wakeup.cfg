SPECIFICATION FairSpec
CONSTANTS
    Clients = {c1, c2}
    Recipes = {"lock"}
    BarrNum = 2
    MaxNodes = 1
    MaxLosses = 0
    MaxExpiries = 0
    MaxLists = 1
PROPERTY Recontends
CHECK_DEADLOCK FALSE
