SPECIFICATION FairSpec
CONSTANTS
  Kinds = {"node", "child"}
  MaxChanges = 2
  MaxLosses = 1
  MaxExpiries = 1
  MaxRegs = 1
  MaxCancels = 1
INVARIANTS TypeOK AtMostOneWatchEach
PROPERTIES WatchLostOnly Rearms ChangeTold
CHECK_DEADLOCK FALSE
