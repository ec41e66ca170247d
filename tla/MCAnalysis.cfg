SPECIFICATION Spec
CONSTANT
  Bodies <- SmallBodies
INVARIANTS
  TypeOK
  FindsWhatIsThere
  DriftIsEarlierPops
  KeepsWhatItOwns
  UndefinedIsRejection
PROPERTY
  Ends
