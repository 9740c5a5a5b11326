CONSTANTS
  MaxCount = 2
  n = 3
  Buckets = 2
  MaxRotations = 4
SPECIFICATION Spec
INVARIANTS
  SlotsHoldTheirEpoch
  MergeIsWindow
