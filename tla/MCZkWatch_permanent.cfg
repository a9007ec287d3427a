SPECIFICATION Spec
CONSTANTS
  Kinds = {"node"}
  MaxChanges = 1
  MaxLosses = 0
  MaxExpiries = 0
  MaxRegs = 1
  MaxCancels = 0
INVARIANT PermanentWatch
CHECK_DEADLOCK FALSE
