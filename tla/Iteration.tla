----------------------------- MODULE Iteration ------------------------------
(***************************************************************************)
(* What the iterators of hdr.go visit: positions in order until their      *)
(* running count reaches the histogram's total.  x is a dense histogram,   *)
(* a record with the fields geom, counts and total.                        *)
(***************************************************************************)
EXTENDS Geometry, CountSums

\* Mutant of Visited: the limit is tested after the count is added.
Visited_LimitAfterAdd(x) == {i \in DOMAIN x.counts : PrefixSum(x.counts)[i + 1] < x.total}

\* The positions the iterator visits before its running count reaches the total.
Visited(x) == {i \in DOMAIN x.counts : PrefixSum(x.counts)[i] < x.total}

Populated(x) == {i \in DOMAIN x.counts : x.counts[i] # 0}

\* Max and Min, by the iterator.
MaxOf(x) ==
  LET seen == Visited(x) \intersect Populated(x)
      last == CHOOSE i \in seen : \A j \in seen : j <= i
  IN  HighestEquivalent(x.geom, IF seen = {} THEN 0
        ELSE HighestEquivalent(x.geom, ValueFromFlatIndex(x.geom, last)))
MinOf(x) ==
  LET seen == Visited(x) \intersect Populated(x)
      first == CHOOSE i \in seen : \A j \in seen : i <= j
  IN  LowestEquivalent(x.geom, IF seen = {} THEN 0
        ELSE HighestEquivalent(x.geom, ValueFromFlatIndex(x.geom, first)))
=============================================================================
