SPECIFICATION Spec
CONSTANTS
  h1 = h1
  h2 = h2
  Zhandles = {h1, h2}
  NULL = NULL
  InitDelay = 1
  MaxDelay = 1
  HasHandler = FALSE
  WithClientId = FALSE
  MayDestroy = FALSE
  MaxFaults = 1
  MaxToggles = 0
PROPERTY ExpiresAfterTimeout
CHECK_DEADLOCK FALSE
