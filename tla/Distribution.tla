---------------------------- MODULE Distribution ----------------------------
(***************************************************************************)
(* The distributions of a dense histogram (hdr.go): the brackets that      *)
(* CumulativeDistribution collects from a pIterator, and the bars of       *)
(* Distribution.  Percentages are binary floats of FloatRank's precision,  *)
(* in its units.                                                           *)
(*                                                                         *)
(* at = "call" is the caller's loop before the next pIterator.next, and    *)
(* "search" the loop inside it.  Of the result list the last two brackets  *)
(* are kept.  place = -1 is the iterator before the first position.        *)
(***************************************************************************)
EXTENDS QueriedCounts, FloatRank

CONSTANT Ticks     \* values of ticksPerHalfDistance

VARIABLES
  hist, ticks,
  at, place, countAtIdx, countToIdx, highestEquivalentValue,
  percentileToIteratorTo, percentile, seenLastValue,
  brackets

iter == <<place, countAtIdx, countToIdx, highestEquivalentValue>>
listVars == <<hist, ticks, at, iter, percentileToIteratorTo, percentile, seenLastValue, brackets>>

ASSUME TicksAssumption == Ticks \subseteq Nat \ {0}
\* 100 is a float, and the exponents suffice for the percentages of every total.
ASSUME PercentageAssumption ==
  /\ Precision >= 5 /\ 100 * Unit <= 2^MaxExponent
  /\ 100 * Unit * Unit < 2^(Precision + MaxExponent)
  /\ \A c \in CountArrays : 400 * Unit * PrefixSum(c)[n] < 2^(Precision + MaxExponent)

\* CumulativeDistributionWithTicks; CumulativeDistribution is the case ticks = 1.
ListInit ==
  /\ \E c \in CountArrays :
       hist = [geom |-> g, counts |-> c, total |-> PrefixSum(c)[n]]
  /\ ticks \in Ticks
  /\ at = "call"
  /\ place = -1 /\ countAtIdx = 0 /\ countToIdx = 0 /\ highestEquivalentValue = 0
  /\ percentileToIteratorTo = 0 /\ percentile = 0 /\ seenLastValue = FALSE
  /\ brackets = <<>>

-----------------------------------------------------------------------------
Hundred == 100 * Unit

\* (100.0 * float64(count)) / float64(totalCount)
PercentageAt(count) ==
  Rounded[Rounded[Hundred * FloatTotal(count)][1]][FloatTotal(hist.total)]

\* math.Trunc(math.Pow(2, math.Trunc(math.Log2(100.0/(100.0-p)))+1)), for p < 100.
HalfDistance(p) ==
  LET ratio == Rounded[Hundred * Unit][Rounded[Hundred - p][1]]
      k == CHOOSE e \in 0..MaxExponent : 2^e * Unit <= ratio /\ ratio < 2^(e + 1) * Unit
  IN  2^(k + 1)

\* Mutant of Tick: the level is not raised.
Tick_Stays(p) == p

\* The percentile to report after p; at 100 the half distance is infinite and the
\* step is zero.
Tick(p) ==
  IF p >= Hundred THEN p ELSE Rounded[p + Rounded[Hundred][ticks * HalfDistance(p)]][1]

\* iterator.next finds no further position.
Exhausted == countToIdx >= hist.total \/ place + 1 >= n

\* iterator.next when it does.
Advance ==
  /\ place' = place + 1
  /\ countAtIdx' = hist.counts[place + 1]
  /\ countToIdx' = countToIdx + hist.counts[place + 1]
  /\ highestEquivalentValue' = HighestEquivalent(g, ValueFromFlatIndex(g, place + 1))

\* s with b appended, of which the last two are kept.
Append2(s, b) == IF Len(s) < 2 THEN Append(s, b) ELSE <<s[2], b>>

\* pIterator.next returns true and its caller appends a bracket.
Report(quantile) ==
  /\ at' = "call"
  /\ percentile' = quantile
  /\ brackets' = Append2(brackets, [quantile |-> quantile, count |-> countToIdx,
                                    valueAt |-> highestEquivalentValue])

\* next, once all values are counted: one more bracket, for 100%, and the end.
LastValue ==
  /\ at = "call" /\ countToIdx >= hist.total
  /\ \/ seenLastValue /\ at' = "returned" /\ UNCHANGED <<seenLastValue, percentile, brackets>>
     \/ ~seenLastValue /\ seenLastValue' = TRUE /\ Report(Hundred)
  /\ UNCHANGED <<hist, ticks, iter, percentileToIteratorTo>>

\* next up to its loop: the first call moves the iterator to its first position.
EnterNext ==
  /\ at = "call" /\ countToIdx < hist.total
  /\ at' = "search"
  /\ IF place = -1 THEN Advance ELSE UNCHANGED iter
  /\ UNCHANGED <<hist, ticks, percentileToIteratorTo, percentile, seenLastValue, brackets>>

\* Mutant of Reached: empty positions are reported.
Reached_EmptyToo == percentileToIteratorTo <= PercentageAt(countToIdx)

\* The position under the iterator reaches the level.
Reached == countAtIdx # 0 /\ percentileToIteratorTo <= PercentageAt(countToIdx)

\* The body of next's loop: report the level and raise it.
ReportLevel ==
  /\ at = "search" /\ Reached
  /\ Report(percentileToIteratorTo)
  /\ percentileToIteratorTo' = Tick(percentileToIteratorTo)
  /\ UNCHANGED <<hist, ticks, iter, seenLastValue>>

\* Its other case: move on; at the end next returns true with its percentile as it is.
SearchOn ==
  /\ at = "search" /\ ~Reached
  /\ IF Exhausted THEN Report(percentile) /\ UNCHANGED iter
     ELSE Advance /\ UNCHANGED <<at, percentile, brackets>>
  /\ UNCHANGED <<hist, ticks, percentileToIteratorTo, seenLastValue>>

ListNext == LastValue \/ EnterNext \/ ReportLevel \/ SearchOn

\* The call is a loop of one goroutine: nothing in it waits.
ListSpec == ListInit /\ [][ListNext]_listVars /\ WF_listVars(ListNext)

-----------------------------------------------------------------------------
\* Mutant of Bars: empty positions are left out.
Bars_PopulatedOnly ==
  [i \in Visited(hist) \intersect Populated(hist) |->
     LET v == ValueFromFlatIndex(g, i)
     IN  [from |-> LowestEquivalent(g, v), to |-> HighestEquivalent(g, v), count |-> hist.counts[i]]]

\* Distribution: a bar per position that the iterator visits.
Bars ==
  [i \in Visited(hist) |->
     LET v == ValueFromFlatIndex(g, i)
     IN  [from |-> LowestEquivalent(g, v), to |-> HighestEquivalent(g, v), count |-> hist.counts[i]]]

-----------------------------------------------------------------------------
ListTypeOK ==
  /\ at \in {"call", "search", "returned"} /\ place \in -1..(n - 1)
  /\ countToIdx \in 0..hist.total /\ countAtIdx \in 0..countToIdx
  /\ percentileToIteratorTo \in 0..Hundred /\ percentile \in 0..Hundred
  /\ Len(brackets) <= 2

Latest == brackets[Len(brackets)]

\* "CumulativeDistribution returns an ordered list of brackets": from one bracket
\* to the next neither the quantile nor the count nor the value goes down.
BracketsOrdered ==
  Len(brackets) = 2 =>
    /\ brackets[1].quantile <= brackets[2].quantile
    /\ brackets[1].count <= brackets[2].count
    /\ brackets[1].valueAt <= brackets[2].valueAt

\* The list ends with the bracket of all values, at Max; so it does for an empty
\* histogram.
EndsWithMax ==
  at = "returned" =>
    /\ brackets # <<>> /\ Latest.quantile = Hundred /\ Latest.count = hist.total
    /\ hist.total > 0 => Latest.valueAt = MaxOf(hist)

\* The share of all values may itself round to less than 100 (for totals past 2^48
\* in float64); the last position then does not reach the level 100, and next
\* reports the quantile before it once more.
RepeatedAtEnd ==
  /\ countToIdx = hist.total /\ PercentageAt(hist.total) < Hundred
  /\ Len(brackets) = 2 /\ brackets[1].quantile = Latest.quantile

\* A bracket is at the first populated position whose share of the values reaches
\* its quantile, however many levels earlier calls of next have reported there;
\* the list is ordered and ends with Max.
BracketsExact ==
  /\ ListTypeOK /\ BracketsOrdered /\ EndsWithMax
  /\ at = "call" /\ brackets # <<>> /\ ~seenLastValue =>
       /\ countAtIdx > 0 /\ PercentageAt(Latest.count) >= Latest.quantile
       /\ \/ Latest.count = countAtIdx
          \/ PercentageAt(countToIdx - countAtIdx) < Latest.quantile
          \/ RepeatedAtEnd

\* The bars of Distribution adjoin one another, from 0 to Max, and together hold
\* every recorded value, although the iterator stops at the total.
BarsTile ==
  place = -1 =>
    /\ PrefixSum(hist.counts)[n] =
         PrefixSum([i \in DOMAIN hist.counts |-> IF i \in DOMAIN Bars THEN Bars[i].count ELSE 0])[n]
    /\ \A i \in DOMAIN Bars :
         Bars[i].from = 0 \/ \E k \in DOMAIN Bars : k < i /\ Bars[i].from = Bars[k].to + 1
    /\ hist.total > 0 => \E i \in DOMAIN Bars : Bars[i].to = MaxOf(hist)

\* CumulativeDistribution "returns an ordered list of brackets" (hdr.go:731): its
\* loop over pIterator.next comes to an end.
DistributionReturns == <>(at = "returned")
=============================================================================
