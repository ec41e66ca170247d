SPECIFICATION Spec
CONSTANT
  MaxHandles = 1
INVARIANT
  Only64BitIsOpened
CHECK_DEADLOCK FALSE
