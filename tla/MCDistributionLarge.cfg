CONSTANTS
  W = 6
  RoundsUp = {}
  MaxCount = 64
  Precision = 5
  Unit = 1024
  MaxExponent = 22
  NaN = NaN
  n = 4
  GeometryArgs <- MCGeometryArgs
  CountArrays <- MCLargeTotal
  Ticks = {1}
SPECIFICATION ListSpec
PROPERTY DistributionReturns
CHECK_DEADLOCK FALSE
