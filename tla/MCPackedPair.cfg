CONSTANTS
  W = 5
  RoundsUp = {}
  MaxCount = 3
  Limit <- MCLimitPair
  ScanBlock = 2
  Packed = {p1, p2}
  Dense = {}
  Recorders = {}
  Args <- MCArgsPair
  Values = {0}
  Amounts = {1}
  Intervals = {0}
  Payloads <- MCPayloadsPair
SPECIFICATION Spec
INVARIANTS
  CallsExact
PROPERTY ImplementsStore
