CONSTANTS
  K = 10
  Year = 100
  MaxInt64 = 1000
  NoTag = NoTag
  InnerTag = InnerTag
  EdgeTag = EdgeTag
  PartTag = PartTag
  A = A
  Histograms <- MCHistograms
  CutHistograms <- MCCutHistograms
  Options <- MCOptions
  BaseTimes = {200}
  StartTimes = {205, 310}
  ForeignLines <- MCForeign
  Fragments = {10}
  Ranges <- MCRanges
  MaxCut = 1
  MaxLines = 3
  MaxTornLines = 2
  MaxCalls = 2
SPECIFICATION LiveSpec
CHECK_DEADLOCK FALSE
INVARIANTS
  NothingLost
  ExtremesObserved
  TagsReturn
  TimesReturn
  RangeComplete
PROPERTY CallsReturn
