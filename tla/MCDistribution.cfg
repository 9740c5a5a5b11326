CONSTANTS
  W = 6
  RoundsUp = {}
  MaxCount = 20
  Precision = 8
  Unit = 1024
  MaxExponent = 19
  NaN = NaN
  n = 4
  GeometryArgs <- MCGeometryArgs
  CountArrays <- MCCountArrays
  Ticks = {1, 2, 5}
SPECIFICATION ListSpec
CHECK_DEADLOCK FALSE
INVARIANTS
  BracketsExact
  BarsTile
PROPERTY DistributionReturns
