SPECIFICATION FairSpec
CONSTANTS
  f = f
  g = g
  Regions = {f, g}
  Size <- MixedSize
  NumEpis <- MixedNumEpis
  Saved <- MixedSaved
  Addrs <- MixedAddrs
  First <- MixedFirst
  Len <- MixedLen
  Place <- MixedPlace
  Rec <- MixedRec
  Lengths = {1, 2}
  RegionOf <- DriftRegionOf
INVARIANTS
  TypeOK
  WholeUnlessTorn
  BodyIsKept
PROPERTY
  CallReturns
CHECK_DEADLOCK FALSE
