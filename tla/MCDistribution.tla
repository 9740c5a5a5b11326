--------------------------- MODULE MCDistribution ---------------------------
(* Instances of Distribution: every array of four small counts in a format    *)
(* that tells their shares apart, and two counts in one that does not.        *)
EXTENDS Distribution

MCGeometryArgs == [low |-> 2, high |-> 15, sig |-> 0]
MCCountArrays == [0..3 -> 0..3]

\* As counts of 2^53 and 1 in float64.
MCLargeTotal == {[i \in 0..3 |-> CASE i = 1 -> 63 [] i = 2 -> 1 [] OTHER -> 0]}
=============================================================================
