SPECIFICATION Spec
CONSTANT
  MaxHandles = 3
INVARIANTS
  TypeOK
  OpenIsWhole
  UndefinedOnlyInFailedInit
  CloseReleases
CHECK_DEADLOCK FALSE
