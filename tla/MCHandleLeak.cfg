SPECIFICATION Spec
CONSTANT
  MaxHandles = 2
INVARIANT
  FailedInitLeavesNothing
CHECK_DEADLOCK FALSE
