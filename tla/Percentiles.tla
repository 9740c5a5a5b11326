---------------------------- MODULE Percentiles -----------------------------
(***************************************************************************)
(* The percentile queries of the dense histogram: ValueAtPercentile,       *)
(* ValueAtPercentiles and ValueAtPercentilesSlice (hdr.go), one call on a  *)
(* histogram whose total is the sum of its counts.  The two that take      *)
(* several percentiles turn them into ranks, order these, let scanTargets  *)
(* resolve them in one pass and bring the values back to the caller.       *)
(***************************************************************************)
EXTENDS ScanTargets, FloatRank

CONSTANTS
  Requests,       \* lists of percentiles, in FloatRank's units or NaN
  DirectRanks     \* lists of ranks given to scanTargets by other code

VARIABLES stage, api, percentiles, order, result

vars == <<scanVars, stage, api, percentiles, order, result>>

totalCount == PrefixSum(counts)[n]

\* Identity of the positions of a list.
InOrder(s) == [k \in 1..Len(s) |-> k]

ASSUME RequestAssumption ==
  /\ NaN \notin Int /\ Requests \subseteq Seq(Int \union {NaN})
  /\ \A t \in DirectRanks : IsRankList(t)
\* The ranks of every total, in units, are numbers that can be rounded.
ASSUME TotalAssumption ==
  \A c \in CountArrays : 4 * Unit * PrefixSum(c)[n] <= 2^(Precision + MaxExponent)

Init ==
  /\ ScanInit
  /\ stage = "idle" /\ api = "none" /\ percentiles = <<>> /\ order = <<>> /\ result = <<>>

-----------------------------------------------------------------------------
\* NaN is not <= 0.
IsLow(p) == p # NaN /\ p <= 0

\* The value reported for percentile p at position idx.
ValueAt(idx, p) ==
  LET v == ValueFromFlatIndex(g, idx)
  IN  IF IsLow(p) THEN LowestEquivalent(g, v) ELSE HighestEquivalent(g, v)

Returned(r) ==
  /\ stage' = "returned" /\ result' = r
  /\ UNCHANGED <<scanVars, order>>

\* The ranks t, ordered by o, are given to scanTargets.
Scan(t, o) ==
  /\ stage' = "scanning" /\ order' = o
  /\ CallScan([k \in 1..Len(t) |-> t[o[k]]])
  /\ UNCHANGED result

Ranks(s) == [k \in 1..Len(s) |-> PercentileRank(s[k], totalCount)]

\* Mutant of Ascending: every list is taken to be in order.
Ascending_Trusted(t) == TRUE

Ascending(t) == \A k \in 2..Len(t) : t[k - 1] <= t[k]

\* Mutant of StableOrder: the inverse of the permutation.
StableOrder_Inverse(t) ==
  CHOOSE o \in [1..Len(t) -> 1..Len(t)] :
    \A a, b \in 1..Len(t) : o[a] < o[b] <=> t[a] < t[b] \/ (t[a] = t[b] /\ a < b)

\* slices.SortStableFunc of the positions of t.
StableOrder(t) ==
  CHOOSE o \in [1..Len(t) -> 1..Len(t)] :
    \A a, b \in 1..Len(t) :
      a < b <=> t[o[a]] < t[o[b]] \/ (t[o[a]] = t[o[b]] /\ o[a] < o[b])

\* ValueAtPercentilesSlice up to its scan.
ValueAtPercentilesSlice(s) ==
  /\ stage = "idle" /\ api' = "slice" /\ percentiles' = s
  /\ \/ /\ s = <<>> \/ totalCount = 0
        /\ Returned([k \in 1..Len(s) |-> 0])
     \/ /\ s # <<>> /\ totalCount # 0
        /\ LET t == Ranks(s)
           IN  Scan(t, IF Ascending(t) THEN InOrder(t) ELSE StableOrder(t))

\* sort.Float64s puts NaN first.
FloatLess(p, q) == q # NaN /\ (p = NaN \/ p < q)
SortedFloats(s) ==
  LET o == CHOOSE o \in [1..Len(s) -> 1..Len(s)] :
             \A a, b \in 1..Len(s) :
               a < b <=> FloatLess(s[o[a]], s[o[b]])
                           \/ (~FloatLess(s[o[b]], s[o[a]]) /\ o[a] < o[b])
  IN  [k \in 1..Len(s) |-> s[o[k]]]

\* The keys of the map that can be looked up: NaN is equal to no key.
Keys(s) == {s[k] : k \in 1..Len(s)} \ {NaN}

\* ValueAtPercentiles up to its scan; it sorts the caller's slice.
ValueAtPercentiles(s) ==
  /\ stage = "idle" /\ api' = "map"
  /\ percentiles' = SortedFloats(s)
  /\ \/ /\ totalCount = 0
        /\ Returned([p \in Keys(s) |-> 0])
     \/ /\ totalCount # 0
        /\ Scan(Ranks(SortedFloats(s)), InOrder(s))

\* The blocks of counts that getValueFromIdxUpToCount sums.
Blocks == {b \in 0..(n - ScanBlock) : b % ScanBlock = 0}

\* The positions among which it looks for the rank: the first block that reaches
\* it, or the tail.
Crossing(rank) ==
  LET reach == {b \in Blocks : PrefixSum(counts)[b + ScanBlock] >= rank}
      first == CHOOSE b \in reach : \A c \in reach : b <= c
  IN  IF reach # {} THEN first..(first + ScanBlock - 1)
      ELSE {k \in 0..(n - 1) : \A b \in Blocks : k >= b + ScanBlock}

GetValueFromIdxUpToCount(rank) ==
  LET hits == {k \in Crossing(rank) : PrefixSum(counts)[k + 1] >= rank}
  IN  IF hits = {} THEN 0 ELSE ValueFromFlatIndex(g, CHOOSE k \in hits : \A l \in hits : k <= l)

\* percentile clamped to [0, 100].
Clamped(p) == IF p = NaN THEN p ELSE IF p > 100 * Unit THEN 100 * Unit ELSE IF p < 0 THEN 0 ELSE p

ValueAtPercentile(p) ==
  /\ stage = "idle" /\ api' = "one" /\ percentiles' = <<p>>
  /\ LET v == GetValueFromIdxUpToCount(PercentileRank(Clamped(p), totalCount))
     IN  Returned(<<IF totalCount = 0 THEN 0
                    ELSE IF Clamped(p) = 0 THEN LowestEquivalent(g, v)
                    ELSE HighestEquivalent(g, v)>>)

\* The loop after the scan: the values of the resolved ranks.
CollectResults ==
  /\ stage = "scanning" /\ pc = "done" /\ stage' = "returned"
  /\ LET values == [k \in 1..pos |-> ValueAt(targets[k], percentiles[order[k]])]
     IN  IF api = "slice"
         THEN result' = [k \in 1..Len(percentiles) |->
                           IF \E l \in 1..pos : order[l] = k
                           THEN values[CHOOSE l \in 1..pos : order[l] = k] ELSE 0]
         ELSE result' = [p \in Keys(percentiles) |->
                           IF \E l \in 1..pos : percentiles[l] = p
                           THEN values[CHOOSE l \in 1..pos : percentiles[l] = p] ELSE 0]
  /\ UNCHANGED <<scanVars, api, percentiles, order>>

\* A call of scanTargets on its own, with ranks that may lie beyond the counts: it
\* resolves those it reaches and returns their number.
DirectScan(t) ==
  /\ stage = "idle" /\ stage' = "direct"
  /\ CallScan(t)
  /\ UNCHANGED <<api, percentiles, order, result>>

Scanning == ScanStep /\ UNCHANGED <<stage, api, percentiles, order, result>>

Next ==
  \/ \E s \in Requests : ValueAtPercentilesSlice(s) \/ ValueAtPercentiles(s)
  \/ \E s \in Requests : \E k \in 1..Len(s) : ValueAtPercentile(s[k])
  \/ \E t \in DirectRanks : DirectScan(t)
  \/ Scanning
  \/ CollectResults

Spec == Init /\ [][Next]_vars

-----------------------------------------------------------------------------
TypeOK ==
  /\ ScanTypeOK
  /\ stage \in {"idle", "direct", "scanning", "returned"} /\ api \in {"none", "slice", "map", "one"}
  /\ stage = "scanning" => Len(order) = Len(targets)
  /\ stage = "returned" /\ api # "map" => Len(result) = Len(percentiles)

\* The value that a linear scan over the counts gives for percentile p.
Reference(p) ==
  IF totalCount = 0 THEN 0
  ELSE ValueAt(CHOOSE k \in 0..(n - 1) : FirstReaching(k, PercentileRank(p, totalCount)), p)

\* ValueAtPercentilesSlice promises "the same values as ValueAtPercentiles, but
\* written to a []int64 in the SAME ORDER as percentiles (input order is preserved
\* even if percentiles is unsorted or has duplicates)"; all three queries give
\* every percentile its own value, NaN, out-of-range percentiles and the empty
\* histogram included.
ResultsExact ==
  /\ TypeOK
  /\ stage = "returned" =>
       IF api = "map" THEN result = [p \in Keys(percentiles) |-> Reference(p)]
       ELSE result = [k \in 1..Len(percentiles) |-> Reference(percentiles[k])]

\* The value that a returned call gives for its k-th percentile.
Answer(k) == IF api = "map" THEN result[percentiles[k]] ELSE result[k]
Asked == {k \in 1..Len(percentiles) : percentiles[k] # NaN}

\* "P100 reaches the last observation when float64(totalCount) rounds down": a
\* percentile of 100 or more is answered with Max and one of 0 or less with Min,
\* whatever the total loses in the conversion.
EndsExact ==
  stage = "returned" /\ totalCount > 0 => \A k \in Asked :
    LET Used == {j \in 0..(n - 1) : counts[j] > 0}
        Last == CHOOSE j \in Used : \A l \in Used : l <= j
        First == CHOOSE j \in Used : \A l \in Used : j <= l
    IN  /\ percentiles[k] >= 100 * Unit => Answer(k) = HighestEquivalent(g, ValueFromFlatIndex(g, Last))
        /\ percentiles[k] <= 0 => Answer(k) = LowestEquivalent(g, ValueFromFlatIndex(g, First))

\* A larger percentile never has a smaller value, and the values go from Min to
\* Max, however the ranks round.  percentileRank's comment: "returns a target in
\* [1, totalCount] for a nonempty histogram", although the rounded product may
\* exceed the total or the word.
ValuesMonotone ==
  /\ EndsExact
  /\ stage = "scanning" => \A k \in 1..Len(asked) : asked[k] \in 1..totalCount
  /\ stage = "returned" =>
       \A k, l \in Asked : percentiles[k] <= percentiles[l] => Answer(k) <= Answer(l)

\* scanTargets "resolves non-decreasing targets": every call that the queries make
\* of it, through either way of ordering the ranks, is one for which it is
\* specified, and nothing disturbs a scan in progress.
ScansAsSpecified == ScanSpec
=============================================================================
