SPECIFICATION FairSpec
CONSTANTS
  N = 4
  RandMax = 4
INVARIANTS
  TypeOK
  AlwaysAnOrder
  OrderTellsIndices
PROPERTIES
  SettledStays
  Returns
