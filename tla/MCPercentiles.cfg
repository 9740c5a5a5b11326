CONSTANTS
  W = 6
  RoundsUp = {}
  MaxCount = 127
  ScanBlock = 2
  Precision = 5
  Unit = 1024
  MaxExponent = 18
  NaN = NaN
  n = 5
  CountArrays <- MCCountArrays
  GeometryArgs <- MCGeometryArgs
  Requests <- MCRequests
  DirectRanks <- MCDirectRanks
SPECIFICATION Spec
CHECK_DEADLOCK FALSE
INVARIANTS
  ResultsExact
  ValuesMonotone
  ScanExact
PROPERTY ScansAsSpecified
