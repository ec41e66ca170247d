SPECIFICATION LibSpec
CONSTANTS
  outer = outer
  inner = inner
  Regions = {outer, inner}
  Size <- LibSize
  NumEpis <- LibNumEpis
  Saved <- LibSaved
  Addrs <- LibAddrs
  First <- LibFirst
  Len <- LibLen
  Place <- LibPlace
  Rec <- LibPlace
  Lengths = {3}
  RegionOf <- LibRegionOf
  Word = 64
  IntWord = 64
  PageSize = 8
  LoadAddrs = {8, 40}
  Section <- LibSection
  Segment <- LibSegment
  Faults = {9, 16, 40, 50, 60}
  Missing = Missing
  Stale = Stale
INVARIANTS
  IndInv
  SuccessMends
  ProcessShowsText
  RunsWhole
PROPERTY
  ImplementsRandomizer
