SPECIFICATION Spec
CONSTANTS
  Heads = {a, b}
  Entries = {x, y, z}
  Wild = Wild
  NoRow = NoRow
  NoLoop = NoLoop
INVARIANTS TypeOK LinksAgree QueriesAgree LoopSeesAll
PROPERTIES LoopEnds ImplementsRows
