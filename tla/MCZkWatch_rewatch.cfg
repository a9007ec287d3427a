SPECIFICATION FairSpec
CONSTANTS
  Kinds = {"node"}
  MaxChanges = 0
  MaxLosses = 1
  MaxExpiries = 1
  MaxRegs = 1
  MaxCancels = 0
PROPERTY RewatchedAfterReconnect
CHECK_DEADLOCK FALSE
