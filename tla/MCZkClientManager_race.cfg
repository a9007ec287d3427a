SPECIFICATION RegistrySpec
CONSTANTS
  t1 = t1
  t2 = t2
  Creators = {t1, t2}
  HandleModulus = 16
  FirstHandle = 1
  MaxCreations = 2
  MaxDestroys = 0
SYMMETRY CreatorSymmetry
INVARIANT OwnHandle
CHECK_DEADLOCK FALSE
