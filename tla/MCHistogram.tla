---------------------------- MODULE MCHistogram -----------------------------
(* Instance of Histogram: two histograms over geometries of two and three    *)
(* positions (zero significant digits, as decoded histograms have), totals  *)
(* limited to a small MaxCount, and caller-built snapshots that are valid,   *)
(* too long, negative, or whose counts sum past MaxCount.                    *)
EXTENDS Histogram

Arg(l, h, s) == [low |-> l, high |-> h, sig |-> s]
MCValues == {-1, 0, 3, 5}
MCAmounts == {-1, 0, 1, 2}
MCArgs == {Arg(1, 3, 0), Arg(2, 3, 0)}

Snapshot(a, c) == [low |-> a.low, high |-> a.high, sig |-> a.sig, counts |-> c, ratio |-> 0]
Counts3(x, y, z) == [i \in 0..2 |-> CASE i = 0 -> x [] i = 1 -> y [] i = 2 -> z]
MCSnapshots == {Snapshot(Arg(1, 3, 0), Counts3(3, 0, 3)),
                Snapshot(Arg(0, 3, 0), Counts3(1, -1, 2)),
                Snapshot(Arg(2, 3, 0), Counts3(0, 3, 1))}

\* Intervals that a loop must not take as a step, too.
MCIntervals == {-1, 0, 1}
=============================================================================
