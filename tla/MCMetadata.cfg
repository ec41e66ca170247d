SPECIFICATION Spec
CONSTANTS
  Word = 32
  NoPc = NoPc
  Text <- TextWindow
  MinLen = 4
  Trees <- ManyTrees
INVARIANTS
  TypeOK
  DiesAreGivenBack
  ListedLieInText
  ListIsPicked
