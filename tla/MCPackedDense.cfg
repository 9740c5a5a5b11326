CONSTANTS
  W = 5
  RoundsUp = {}
  MaxCount = 3
  Limit <- MCLimitPair
  ScanBlock = 2
  Packed = {p1}
  Dense = {d1}
  Recorders = {p1}
  Args <- MCArgsDense
  Values <- MCValuesDense
  Amounts <- MCAmountsDense
  Intervals = {0, 1}
  Payloads <- MCPayloadsDense
SPECIFICATION Spec
INVARIANTS
  CallsExact
PROPERTY ImplementsStore
