CONSTANTS
  W = 9
  RoundsUp = {127}
  Lows <- MCLows
  Highs <- MCHighs
  Sigs <- MCSigs
SPECIFICATION Spec
CHECK_DEADLOCK FALSE
INVARIANTS
  IndexRoundTrip
  Precision
  RangeCovered
  CursorIsFlat
  GeometrySurvivesExport
