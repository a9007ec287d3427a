SPECIFICATION Spec
CONSTANTS
  Kinds = {"node"}
  MaxChanges = 1
  MaxLosses = 0
  MaxExpiries = 0
  MaxRegs = 1
  MaxCancels = 1
PROPERTY CancelSticks
CHECK_DEADLOCK FALSE
