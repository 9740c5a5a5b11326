--------------------------- MODULE MCIntervalLog ----------------------------
(* Instance of IntervalLog.  A second has ten milliseconds and a year ten    *)
(* seconds; the epoch is a few decades before the logs.                      *)
EXTENDS IntervalLog

CONSTANT A    \* an ordinary tag

Interval(tag, start, end, max, min) ==
  [tag |-> tag, start |-> start, end |-> end, max |-> max, min |-> min]

\* The third interval ends before it starts; the writer refuses the fourth; the last
\* is before the base time and only printed with absolute times.
MCHistograms ==
  {Interval(A, 210, 225, 7, 2), Interval(NoTag, 228, 240, 9, 0), Interval(NoTag, 230, 210, 9, 1),
   Interval(InnerTag, 210, 225, 9, 1), Interval(EdgeTag, 190, 225, 9, 1)}
MCCutHistograms == {Interval(A, 210, 225, 7, 2)}
MCOptions == {[start |-> 0, end |-> 0, ratio |-> 1]}
MCForeign == {[kind |-> "other"]}

\* The narrow range begins at the start of an interval.
MCRanges == {WholeLog, [lo |-> 210, hi |-> 220, absolute |-> TRUE]}
=============================================================================
