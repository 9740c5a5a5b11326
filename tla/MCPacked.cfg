CONSTANTS
  W = 5
  RoundsUp = {}
  MaxCount = 8
  Limit <- MCLimit
  ScanBlock = 2
  Packed = {p1}
  Dense = {}
  Recorders = {p1}
  Args <- MCArgs
  Values <- MCValues
  Amounts <- MCAmounts
  Intervals = {0, 1}
  Payloads <- MCPayloads
SPECIFICATION Spec
INVARIANTS
  SlotsWellFormed
  TotalSaturates
  QueriesExact
