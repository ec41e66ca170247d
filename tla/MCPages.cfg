SPECIFICATION Spec
CONSTANTS
  Word = 64
  IntWord = 32
  PageSize = 4
  Files <- ManyFiles
  LoadAddrs <- ManyLoads
INVARIANTS
  TypeOK
  ServedIsWhole
  ServedIsRight
  AlignedIsServed
  TextIsInSegment
  MappedAsLoaded
