CONSTANTS
  K = 10
  Year = 100
  MaxInt64 = 1000
  NoTag = NoTag
  InnerTag = InnerTag
  EdgeTag = EdgeTag
  PartTag = PartTag
  A = A
  Histograms <- MCHistograms
  CutHistograms = {}
  Options <- MCOptions
  BaseTimes = {205}
  StartTimes = {205, 310}
  ForeignLines <- MCForeign
  Fragments = {}
  Ranges <- MCRanges
  MaxCut = 0
  MaxLines = 2
  MaxTornLines = 2
  MaxCalls = 1
SPECIFICATION Spec
CHECK_DEADLOCK FALSE
INVARIANT DecimalsReturn
