SPECIFICATION FairSpec
CONSTANTS
  Zhandles = {h1, h2}
  NULL = NULL
  InitDelay = 1
  MaxDelay = 1
  HasHandler = TRUE
  WithClientId = FALSE
  MayDestroy = TRUE
  MaxFaults = 1
  MaxToggles = 1
PROPERTIES CallsReturn Reconnects
CHECK_DEADLOCK FALSE
