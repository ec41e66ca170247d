SPECIFICATION Spec
CONSTANTS
  f = f
  g = g
  Regions = {f, g}
  Size <- DriftSize
  NumEpis <- DriftNumEpis
  Saved <- TwoRegs
  Addrs <- DriftAddrs
  First <- DriftFirst
  Len <- DriftLen
  Place <- DriftPlace
  Rec <- DriftedRec
  Lengths = {2}
  RegionOf <- DriftRegionOf
INVARIANTS
  SuccessIsWhole
