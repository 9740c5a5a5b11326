--------------------------- MODULE QueriedCounts ----------------------------
(***************************************************************************)
(* The dense histograms that are queried: one geometry, that of a decoded  *)
(* histogram, and any counts, whose sum is the total.                      *)
(***************************************************************************)
EXTENDS Iteration, Sequences

CONSTANTS
  GeometryArgs,   \* arguments of the geometry
  n,              \* len(counts)
  CountArrays     \* the counts of the histograms that are queried

g == WireGeometry(GeometryArgs)

ASSUME CountsAssumption == n \in Nat /\ CountArrays \subseteq [0..(n - 1) -> Nat]
ASSUME LengthAssumption ==
  /\ {GeometryArgs.low, GeometryArgs.high} \subseteq -(MaxInt + 1)..MaxInt /\ GeometryArgs.sig \in Int
  /\ WireAccepts(GeometryArgs) /\ n = g.countsLen
=============================================================================
