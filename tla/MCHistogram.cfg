CONSTANTS
  W = 5
  RoundsUp = {}
  MaxCount = 3
  Hist = {h1, h2}
  Args <- MCArgs
  Values <- MCValues
  Amounts <- MCAmounts
  Intervals <- MCIntervals
  NoLabel = NoLabel
  Labels = {NoLabel, A}
  Snapshots <- MCSnapshots
SPECIFICATION LiveSpec
INVARIANTS
  TypeOK
  TotalIsSum
  MergeAccounting
  MergePointwise
  CorrectedCount
  ExportImports
  ExtremesExact
PROPERTY CallsReturn
