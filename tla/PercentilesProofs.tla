------------------------- MODULE PercentilesProofs ---------------------------
(***************************************************************************)
(* The percentile queries of the dense histogram, and the skip-scan that   *)
(* they share, are exact for every block size, every array of counts,      *)
(* every list of percentiles and every floating-point format.              *)
(*                                                                         *)
(* ScanExact only speaks of a scan that has returned.  ScanInv describes   *)
(* the scan in progress: the total is the sum of what was passed, what was *)
(* resolved is right, and no rank that is left was reached by what was     *)
(* passed, in blocks or one by one.                                        *)
(*                                                                         *)
(* Of rounding it is needed that it is monotone and keeps every float, so  *)
(* that ranks rise with percentiles and stay within the total; of sorting  *)
(* that a strict total order on the positions of a list has a list in that *)
(* order.  CallInv adds to ScanInv, for a call in progress, that the k-th  *)
(* rank is that of the order[k]-th percentile and that order is onto, and  *)
(* for one that has returned that it gave the values of a linear scan.     *)
(*                                                                         *)
(* The last part is about Distribution, over the same counts and floats:   *)
(* raised levels do not pass 100 and shares rise with the count, so that   *)
(* the brackets (ListInv) and the bars are exact too.                      *)
(***************************************************************************)
EXTENDS Percentiles, Distribution, ArithmeticProofs

\* The ranks that are left when the scan returns are beyond the sum of the counts.
LeftOver ==
  pc = "done" => \A k \in (pos + 1)..Len(asked) : asked[k] > PrefixSum(counts)[n]

ScanInv == ScanTypeOK /\ RunningSum /\ RanksAndPositions /\ LeftOver

\* The running count of an array of CountArrays, at and between its positions.
LEMMA SumFacts ==
  ASSUME NEW c \in CountArrays
  PROVE  /\ PrefixSum(c)[0] = 0
         /\ \A a \in 0..n : PrefixSum(c)[a] \in Nat
         /\ \A a \in 0..n : \A b \in 0..a : PrefixSum(c)[b] <= PrefixSum(c)[a]
         /\ \A a \in 0..(n - 1) : /\ c[a] \in Nat
                                  /\ PrefixSum(c)[a + 1] = PrefixSum(c)[a] + c[a]
<1>1. \A a \in 0..(n - 1) : c[a] \in Nat BY CountsAssumption
<1>2. n \in Nat BY CountsAssumption
<1>3. \A a \in 0..n : \A b \in 0..a : /\ PrefixSum(c)[a] \in Nat
                                      /\ PrefixSum(c)[b] \in Nat
                                      /\ PrefixSum(c)[b] <= PrefixSum(c)[a]
  BY <1>1, <1>2, PrefixSumMonotone
<1>4. \A a \in 0..n : PrefixSum(c)[a] \in Nat BY <1>2, <1>3
<1>5. \A a \in 0..(n - 1) : PrefixSum(c)[a + 1] = PrefixSum(c)[a] + c[a]
  BY <1>2, PrefixSumStep
<1> QED BY <1>1, <1>3, <1>4, <1>5, PrefixSumZero

\* A list of ranks is ascending and starts at 1 or above.
LEMMA RankFacts ==
  ASSUME NEW t, IsRankList(t)
  PROVE  /\ t \in Seq(Nat)
         /\ \A k \in 1..Len(t) : /\ t[k] \in Nat /\ t[k] >= 1
                                 /\ \A l \in k..Len(t) : t[k] <= t[l]
<1>1. t \in Seq(Nat) /\ \A k \in 1..Len(t) : t[k] >= 1 /\ \A l \in k..Len(t) : t[k] <= t[l] BY DEF IsRankList
<1>2. \A k \in 1..Len(t) : t[k] \in Nat BY <1>1
<1> QED BY <1>1, <1>2

\* While a rank is left, the next one is the least of them and was not reached.
LEMMA NextRankLeast ==
  ASSUME ScanInv, pc \in {"scan", "walk", "resolve"}
  PROVE  /\ pos \in Nat /\ pos + 1 \in 1..Len(asked) /\ Len(asked) \in Nat
         /\ NextRank = asked[pos + 1] /\ NextRank \in Nat
         /\ \A k \in (pos + 1)..Len(asked) : asked[k] \in Nat /\ NextRank <= asked[k]
<1>0. IsRankList(asked) BY DEF ScanInv, ScanTypeOK
<1>1. asked \in Seq(Nat) /\ Len(asked) \in Nat BY <1>0, RankFacts
<1>2. pos \in Nat /\ pos + 1 \in 1..Len(asked)
  BY <1>1 DEF ScanInv, ScanTypeOK
<1>3. NextRank = asked[pos + 1]
  BY <1>1, <1>2 DEF ScanInv, RanksAndPositions, NextRank
<1>4. \A k \in (pos + 1)..Len(asked) : asked[k] \in Nat /\ asked[pos + 1] <= asked[k]
  <2> SUFFICES ASSUME NEW k \in (pos + 1)..Len(asked)
               PROVE  asked[k] \in Nat /\ asked[pos + 1] <= asked[k]
    OBVIOUS
  <2>1. k \in 1..Len(asked) BY <1>1, <1>2
  <2>2. \A a \in 1..Len(asked) : /\ asked[a] \in Nat
                                 /\ \A l \in a..Len(asked) : asked[a] <= asked[l]
    BY <1>0, RankFacts
  <2> QED BY <1>2, <2>1, <2>2
<1> QED BY <1>1, <1>2, <1>3, <1>4

\* The initial states, in which no call was made.
LEMMA ScanInitInv == ScanInit => ScanInv
<1> SUFFICES ASSUME ScanInit PROVE ScanInv OBVIOUS
<1>1. n \in Nat BY CountsAssumption
<1>2. <<>> \in Seq(Nat) /\ Len(<<>>) = 0 OBVIOUS
<1>3. IsRankList(<<>>) BY <1>2 DEF IsRankList
<1>4. ScanTypeOK BY <1>1, <1>2, <1>3 DEF ScanInit, ScanTypeOK
<1> QED BY <1>4 DEF ScanInit, ScanInv, RunningSum, RanksAndPositions, LeftOver

\* A call: no rank is reached by nothing.
LEMMA CallScanInv ==
  ASSUME ScanInv, NEW t, IsRankList(t), CallScan(t)
  PROVE  ScanInv'
<1>1. /\ counts' = counts /\ counts \in CountArrays /\ targets' = t /\ asked' = t
      /\ pos' = 0 /\ i' = 0 /\ total' = 0 /\ stop' = 0
      /\ pc' = IF t = <<>> THEN "done" ELSE "scan"
  BY DEF CallScan, ScanInv, ScanTypeOK
<1>2. /\ t \in Seq(Nat) /\ Len(t) \in Nat
      /\ \A k \in 1..Len(t) : t[k] \in Nat /\ t[k] >= 1
  BY RankFacts
<1>3. t # <<>> => Len(t) > 0 BY <1>2
<1>4. n \in Nat BY CountsAssumption
<1>5. ScanTypeOK' BY <1>1, <1>2, <1>3, <1>4 DEF ScanTypeOK
<1>6. PrefixSum(counts)[0] = 0 BY <1>1, SumFacts
<1>7. RunningSum' BY <1>1, <1>6 DEF RunningSum
<1>8. RanksAndPositions' BY <1>1, <1>2, <1>6 DEF RanksAndPositions
<1>9. LeftOver' BY <1>1, <1>2, <1>3 DEF LeftOver
<1> QED BY <1>5, <1>7, <1>8, <1>9 DEF ScanInv

\* What an action that calls nothing and keeps the lists leaves in place.
LEMMA KeepsLists ==
  ASSUME ScanInv, UNCHANGED <<counts, targets, pos, asked>>,
         pc \in {"scan", "walk", "resolve"}, pc' \in {"scan", "walk", "resolve"},
         i' \in 0..n, stop' \in 0..n, total' \in Nat,
         pc' \in {"walk", "resolve"} => i' <= stop', pc' = "resolve" => i' < stop',
         RunningSum', NextRank > PrefixSum(counts)[i']
  PROVE  ScanInv'
<1>1. ScanTypeOK'
  BY DEF ScanInv, ScanTypeOK
<1>2. ASSUME NEW k \in (pos + 1)..Len(asked)
      PROVE  targets[k] = asked[k] /\ asked[k] > PrefixSum(counts)[i']
  <2>1. asked[k] \in Nat /\ NextRank <= asked[k] /\ NextRank \in Nat BY NextRankLeast
  <2>2. PrefixSum(counts)[i'] \in Nat BY SumFacts DEF ScanInv, ScanTypeOK
  <2>3. targets[k] = asked[k] BY DEF ScanInv, RanksAndPositions
  <2> QED BY <2>1, <2>2, <2>3
<1>3. \A k \in 1..pos : FirstReaching(targets[k], asked[k])'
  BY DEF ScanInv, RanksAndPositions, FirstReaching
<1>4. RanksAndPositions'
  BY <1>2, <1>3 DEF RanksAndPositions
<1>5. LeftOver' BY DEF LeftOver
<1> QED BY <1>1, <1>4, <1>5 DEF ScanInv

\* A block is passed only when the total at its end is still below the next rank.
LEMMA SkipBlockInv ==
  ASSUME ScanInv, SkipBlock
  PROVE  ScanInv'
<1>1. /\ pc = "scan" /\ pc' = pc /\ UNCHANGED <<counts, targets, pos, asked>> /\ stop' = stop
      /\ i' = i + ScanBlock /\ total' = total + BlockSum /\ ~BlockReaches
      /\ i + ScanBlock <= n
  BY DEF SkipBlock
<1>2. n \in Nat /\ ScanBlock \in Nat /\ i \in 0..n /\ stop \in 0..n /\ i + ScanBlock \in 0..n
  BY <1>1, CountsAssumption, ScanAssumption DEF ScanInv, ScanTypeOK
<1>3. PrefixSum(counts)[i] \in Nat /\ PrefixSum(counts)[i + ScanBlock] \in Nat
  BY <1>2, SumFacts DEF ScanInv, ScanTypeOK
<1>4. total = PrefixSum(counts)[i] BY <1>1 DEF ScanInv, RunningSum
<1>5. total + BlockSum = PrefixSum(counts)[i + ScanBlock] BY <1>3, <1>4 DEF BlockSum
<1>6. NextRank \in Nat BY <1>1, NextRankLeast
<1>7. NextRank > PrefixSum(counts)[i'] BY <1>1, <1>3, <1>5, <1>6 DEF BlockReaches
<1>8. RunningSum' BY <1>1, <1>5 DEF RunningSum
<1> QED BY <1>1, <1>2, <1>3, <1>5, <1>7, <1>8, KeepsLists

\* Entering a block or the tail, leaving it, and going to the next count: the
\* position is where it was or past a count that reaches no rank.
LEMMA MoveInv ==
  ASSUME ScanInv, EnterBlock \/ EnterTail \/ AddCount \/ NextCount \/ EndWalk
  PROVE  ScanInv'
<1>1. /\ counts \in CountArrays /\ n \in Nat /\ ScanBlock \in Nat /\ i \in 0..n
      /\ stop \in 0..n /\ total \in Nat
  BY CountsAssumption, ScanAssumption DEF ScanInv, ScanTypeOK
<1>2. PrefixSum(counts)[i] \in Nat BY <1>1, SumFacts
<1>3. pc \in {"scan", "walk", "resolve"}
  BY DEF EnterBlock, EnterTail, AddCount, NextCount, EndWalk
<1>4. NextRank \in Nat /\ NextRank > PrefixSum(counts)[i]
  BY <1>3, NextRankLeast DEF ScanInv, RanksAndPositions
<1>5. CASE EnterBlock \/ EnterTail
  <2>1. /\ pc = "scan" /\ pc' = "walk" /\ i' = i /\ total' = total
        /\ UNCHANGED <<counts, targets, pos, asked>>
        /\ stop' \in 0..n /\ i <= stop'
    BY <1>1, <1>5 DEF EnterBlock, EnterTail
  <2>2. RunningSum' BY <2>1 DEF ScanInv, RunningSum
  <2> QED BY <1>1, <1>4, <2>1, <2>2, KeepsLists
<1>6. CASE AddCount
  <2>1. /\ pc = "walk" /\ pc' = "resolve" /\ i' = i /\ i < stop /\ stop' = stop
        /\ total' = total + counts[i] /\ UNCHANGED <<counts, targets, pos, asked>>
    BY <1>6 DEF AddCount
  <2>2. i \in 0..(n - 1) BY <1>1, <2>1
  <2>3. counts[i] \in Nat /\ PrefixSum(counts)[i + 1] = PrefixSum(counts)[i] + counts[i]
    BY <1>1, <2>2, SumFacts
  <2>4. total = PrefixSum(counts)[i] BY <2>1 DEF ScanInv, RunningSum
  <2>5. RunningSum' BY <2>1, <2>3, <2>4 DEF RunningSum
  <2>6. total' \in Nat BY <1>1, <2>1, <2>3
  <2> QED BY <1>1, <1>4, <2>1, <2>5, <2>6, KeepsLists
<1>7. CASE NextCount
  <2>1. /\ pc = "resolve" /\ pc' = "walk" /\ i' = i + 1 /\ stop' = stop /\ total' = total
        /\ total < NextRank /\ UNCHANGED <<counts, targets, pos, asked>>
    BY <1>7 DEF NextCount
  <2>2. i < stop BY <2>1 DEF ScanInv, ScanTypeOK
  <2>3. i + 1 \in 0..n /\ i + 1 <= stop BY <1>1, <2>2
  <2>4. total = PrefixSum(counts)[i + 1] BY <2>1 DEF ScanInv, RunningSum
  <2>5. RunningSum' BY <2>1, <2>4 DEF RunningSum
  <2>6. NextRank > PrefixSum(counts)[i'] BY <1>1, <1>4, <2>1, <2>4
  <2> QED BY <1>1, <2>1, <2>3, <2>5, <2>6, KeepsLists
<1>8. CASE EndWalk
  <2>1. /\ pc = "walk" /\ pc' = "scan" /\ i' = i /\ stop' = stop /\ total' = total
        /\ UNCHANGED <<counts, targets, pos, asked>>
    BY <1>8 DEF EndWalk
  <2>2. RunningSum' BY <2>1 DEF ScanInv, RunningSum
  <2> QED BY <1>1, <1>4, <2>1, <2>2, KeepsLists
<1> QED BY <1>5, <1>6, <1>7, <1>8

\* A rank is resolved at the count whose addition took the total to it.
LEMMA ResolveTargetInv ==
  ASSUME ScanInv, ResolveTarget
  PROVE  ScanInv'
<1>1. /\ pc = "resolve" /\ total >= NextRank /\ pos' = pos + 1
      /\ targets' = [targets EXCEPT ![pos + 1] = i]
      /\ pc' = IF pos + 1 = Len(targets) THEN "done" ELSE "resolve"
      /\ UNCHANGED <<counts, i, total, stop, asked>>
  BY DEF ResolveTarget
<1>2. /\ counts \in CountArrays /\ n \in Nat /\ i \in 0..n /\ stop \in 0..n
      /\ total \in Nat /\ i < stop /\ targets \in Seq(Nat) /\ Len(targets) = Len(asked)
  BY <1>1, CountsAssumption DEF ScanInv, ScanTypeOK
<1>3. /\ pos \in Nat /\ pos + 1 \in 1..Len(asked) /\ Len(asked) \in Nat
      /\ NextRank = asked[pos + 1] /\ NextRank \in Nat
  BY <1>1, NextRankLeast
<1>4. /\ targets' \in Seq(Nat) /\ Len(targets') = Len(targets)
      /\ targets'[pos + 1] = i
      /\ \A k \in 1..Len(targets) : k # pos + 1 => targets'[k] = targets[k]
  BY <1>1, <1>2, <1>3
<1>5. ScanTypeOK' BY <1>1, <1>2, <1>3, <1>4 DEF ScanInv, ScanTypeOK
<1>6. RunningSum' BY <1>1 DEF ScanInv, RunningSum
<1>7. i \in 0..(n - 1) BY <1>2
<1>8. FirstReaching(i, asked[pos + 1])
  BY <1>1, <1>3, <1>7 DEF ScanInv, RunningSum, RanksAndPositions, FirstReaching
<1>9. ASSUME NEW k \in 1..pos' PROVE FirstReaching(targets[k], asked[k])'
  <2>1. CASE k = pos + 1 BY <1>1, <1>4, <1>8, <2>1 DEF FirstReaching
  <2>2. CASE k # pos + 1
    <3>1. k \in 1..pos /\ k \in 1..Len(targets) BY <1>1, <1>2, <1>3, <2>2
    <3>2. FirstReaching(targets[k], asked[k]) BY <3>1 DEF ScanInv, RanksAndPositions
    <3> QED BY <1>1, <1>4, <2>2, <3>1, <3>2 DEF FirstReaching
  <2> QED BY <2>1, <2>2
<1>10. ASSUME NEW k \in (pos' + 1)..Len(asked')
       PROVE  targets'[k] = asked'[k] /\ asked'[k] > PrefixSum(counts')[i']
  <2>1. k \in (pos + 1)..Len(asked) /\ k \in 1..Len(targets) /\ k # pos + 1
    BY <1>1, <1>2, <1>3
  <2>2. targets[k] = asked[k] /\ asked[k] > PrefixSum(counts)[i]
    BY <1>1, <2>1 DEF ScanInv, RanksAndPositions
  <2> QED BY <1>1, <1>4, <2>1, <2>2
<1>11. RanksAndPositions' BY <1>9, <1>10 DEF RanksAndPositions
<1>12. LeftOver'
  <2> SUFFICES ASSUME pc' = "done", NEW k \in (pos' + 1)..Len(asked') PROVE FALSE
    BY DEF LeftOver
  <2>1. pos + 1 = Len(asked) BY <1>1, <1>2
  <2> QED BY <1>1, <1>3, <2>1
<1> QED BY <1>5, <1>6, <1>11, <1>12 DEF ScanInv

\* The end of the counts: what was not reached is beyond their sum.
LEMMA EndScanInv ==
  ASSUME ScanInv, EndScan
  PROVE  ScanInv'
<1>1. /\ pc = "scan" /\ i = n /\ pc' = "done"
      /\ UNCHANGED <<counts, targets, pos, i, total, stop, asked>>
  BY DEF EndScan
<1>2. ScanTypeOK' BY <1>1 DEF ScanInv, ScanTypeOK
<1>3. RunningSum' BY <1>1 DEF RunningSum
<1>4. RanksAndPositions' BY <1>1 DEF ScanInv, RanksAndPositions, FirstReaching
<1>5. LeftOver' BY <1>1 DEF ScanInv, RanksAndPositions, LeftOver
<1> QED BY <1>2, <1>3, <1>4, <1>5 DEF ScanInv

\* What was resolved is within the sum of the counts, what was not is beyond it.
LEMMA ScanInvExact == ScanInv => ScanExact
<1> SUFFICES ASSUME ScanInv, pc = "done", NEW k \in 1..Len(asked)
             PROVE  IF asked[k] <= PrefixSum(counts)[n]
                    THEN k <= pos /\ FirstReaching(targets[k], asked[k])
                    ELSE k > pos
  BY DEF ScanExact
<1>1. /\ counts \in CountArrays /\ IsRankList(asked) /\ n \in Nat
      /\ Len(targets) = Len(asked) /\ pos \in 0..Len(targets)
  BY CountsAssumption DEF ScanInv, ScanTypeOK
<1>2. asked[k] \in Nat /\ Len(asked) \in Nat /\ pos \in Nat BY <1>1, RankFacts
<1>3. PrefixSum(counts)[n] \in Nat BY <1>1, SumFacts
<1>4. CASE k <= pos
  <2>1. FirstReaching(targets[k], asked[k])
    BY <1>2, <1>4 DEF ScanInv, RanksAndPositions
  <2>2. targets[k] + 1 \in 0..n /\ asked[k] <= PrefixSum(counts)[targets[k] + 1]
    BY <1>1, <2>1 DEF FirstReaching
  <2>3. /\ PrefixSum(counts)[targets[k] + 1] <= PrefixSum(counts)[n]
        /\ PrefixSum(counts)[targets[k] + 1] \in Nat
    BY <1>1, <2>2, SumFacts
  <2>4. asked[k] <= PrefixSum(counts)[n] BY <1>2, <1>3, <2>2, <2>3
  <2> QED BY <1>4, <2>1, <2>4
<1>5. CASE k > pos
  <2>1. asked[k] > PrefixSum(counts)[n] BY <1>2, <1>5 DEF ScanInv, LeftOver
  <2> QED BY <1>2, <1>3, <1>5, <2>1
<1> QED BY <1>2, <1>4, <1>5

LEMMA ScanStepInv == ASSUME ScanInv, ScanStep PROVE ScanInv' /\ counts' = counts /\ asked' = asked
<1>1. CASE SkipBlock BY <1>1, SkipBlockInv DEF SkipBlock
<1>2. CASE EnterBlock \/ EnterTail \/ AddCount \/ NextCount \/ EndWalk
  BY <1>2, MoveInv DEF EnterBlock, EnterTail, AddCount, NextCount, EndWalk
<1>3. CASE ResolveTarget BY <1>3, ResolveTargetInv DEF ResolveTarget
<1>4. CASE EndScan BY <1>4, EndScanInv DEF EndScan
<1> QED BY <1>1, <1>2, <1>3, <1>4 DEF ScanStep

\* scanTargets returns, for every rank up to the sum of the counts, the position at
\* which the cumulative count first reaches it, and no position for the others,
\* whatever the block size and however the ranks fall into the blocks.
THEOREM ScanResolves == ScanSpec => []ScanExact
<1>1. ScanInit => ScanInv BY ScanInitInv
<1>2. ScanInv /\ [ScanNext]_scanVars => ScanInv'
  <2> SUFFICES ASSUME ScanInv, [ScanNext]_scanVars PROVE ScanInv' OBVIOUS
  <2>1. CASE ScanStep BY <2>1, ScanStepInv
  <2>2. CASE IsRankList(asked') /\ CallScan(asked')
    <3>1. PICK t : t = asked' OBVIOUS
    <3>2. IsRankList(t) /\ CallScan(t) BY <2>2, <3>1
    <3> QED BY <3>2, CallScanInv
  <2>3. CASE UNCHANGED scanVars
    BY <2>3 DEF scanVars, ScanInv, ScanTypeOK, RunningSum, RanksAndPositions, FirstReaching, LeftOver
  <2> QED BY <2>1, <2>2, <2>3 DEF ScanNext
<1>3. ScanInv => ScanExact BY ScanInvExact
<1> QED BY <1>1, <1>2, <1>3, PTL DEF ScanSpec

-----------------------------------------------------------------------------
(* Floating point.                                                          *)

\* a in steps of d * 2^e: q of them and a remainder, with a full significand.
Splits(a, d, e, q, r) ==
  /\ a = (d * 2^e) * q + r /\ r < d * 2^e
  /\ q < 2^Precision /\ (e = 0 \/ q >= 2^(Precision - 1))

\* The remainder is rounded up, ties to even.
Up(step, q, r) == 2 * r > step \/ (2 * r = step /\ q % 2 = 1)
Nearest(step, q, r) == IF Up(step, q, r) THEN q + 1 ELSE q

\* A fraction that can be rounded.
Roundable(a, d) == a \in Nat /\ d \in Nat \ {0} /\ a < 2^(Precision + MaxExponent) * d

\* Products with a positive number keep the order.
LEMMA Scaled ==
  ASSUME NEW s \in Nat \ {0}, NEW x \in Nat, NEW y \in Nat
  PROVE  /\ s * x \in Nat /\ s * y \in Nat
         /\ x <= y => s * x <= s * y
         /\ x < y => s * x + s <= s * y
<1>1. s * x \in Nat /\ s * y \in Nat OBVIOUS
<1>2. ASSUME x <= y PROVE s * x <= s * y
  <2> DEFINE z == y - x
  <2>1. z \in Nat /\ y = x + z BY <1>2
  <2> HIDE DEF z
  <2>2. s * y = s * x + s * z /\ s * z \in Nat BY <2>1
  <2> QED BY <1>1, <2>2
<1>3. ASSUME x < y PROVE s * x + s <= s * y
  <2> DEFINE z == y - x - 1
  <2>1. z \in Nat /\ y = x + 1 + z BY <1>3
  <2> HIDE DEF z
  <2>2. s * y = s * x + s + s * z /\ s * z \in Nat BY <2>1
  <2> QED BY <1>1, <2>2
<1> QED BY <1>1, <1>2, <1>3

LEMMA FormatFacts ==
  /\ Precision \in Nat \ {0} /\ Precision - 1 \in Nat /\ MaxExponent \in Nat
  /\ \A e \in Nat : 2^e \in Nat \ {0}
  /\ 2^Precision = 2 * 2^(Precision - 1)
<1>1. Precision \in Nat \ {0} /\ Precision - 1 \in Nat /\ MaxExponent \in Nat BY FloatAssumption
<1>2. \A e \in Nat : 2^e \in Nat \ {0} BY PowerFacts
<1>3. (Precision - 1) + 1 = Precision BY <1>1
<1>4. 2^((Precision - 1) + 1) = 2 * 2^(Precision - 1) BY <1>1, PowerFacts
<1> QED BY <1>1, <1>2, <1>3, <1>4

\* What Rounded does.
LEMMA RoundedIs ==
  ASSUME NEW a, NEW d, Roundable(a, d)
  PROVE  \E e \in 0..MaxExponent : \E q \in Nat, r \in Nat :
           Splits(a, d, e, q, r) /\ Rounded[a][d] = 2^e * Nearest(d * 2^e, q, r)
<1> DEFINE P == Precision
<1> DEFINE M == MaxExponent
<1> DEFINE C(k) == a < 2^(P + k) * d /\ (k = 0 \/ a >= 2^(P + k - 1) * d)
<1> DEFINE e == CHOOSE k \in 0..M : C(k)
<1>0. a \in Nat /\ d \in Nat \ {0} /\ a < 2^(P + M) * d BY DEF Roundable
<1>1. P \in Nat \ {0} /\ P - 1 \in Nat /\ M \in Nat BY FormatFacts
<1>2. e \in 0..M /\ C(e)
  <2> DEFINE T == {k \in Nat : a < 2^(P + k) * d}
  <2>1. M \in T /\ T \in SUBSET Nat BY <1>0, <1>1
  <2>2. PICK m \in T : \A k \in T : m <= k
    <3> HIDE DEF T
    <3> QED BY <2>1, LeastElement
  <2>3. m \in 0..M BY <1>1, <2>1, <2>2
  <2>4. ASSUME m # 0 PROVE a >= 2^(P + m - 1) * d
    <3>1. m - 1 \in Nat /\ ~(m <= m - 1) /\ P + (m - 1) \in Nat BY <1>1, <2>3, <2>4
    <3>2. m - 1 \notin T BY <2>2, <3>1
    <3>3. ~(a < 2^(P + (m - 1)) * d) BY <3>1, <3>2
    <3>4. P + (m - 1) = P + m - 1 BY <1>1, <2>3
    <3>5. 2^(P + (m - 1)) \in Nat BY <3>1, PowerFacts
    <3> QED BY <1>0, <3>3, <3>4, <3>5
  <2>5. C(m) BY <2>2, <2>4
  <2>6. \E k \in 0..M : C(k) BY <2>3, <2>5
  <2> HIDE DEF C, M
  <2> QED BY <2>6
<1>3. Rounded[a][d] = LET step == d * 2^e
                          q == a \div step
                          twice == 2 * (a % step)
                      IN  2^e * (IF twice > step \/ (twice = step /\ q % 2 = 1) THEN q + 1 ELSE q)
  BY <1>0 DEF Rounded
<1> HIDE DEF e
<1>4. e \in Nat /\ a < 2^(P + e) * d /\ (e = 0 \/ a >= 2^(P + e - 1) * d) BY <1>1, <1>2
<1> DEFINE step == d * 2^e
<1> DEFINE q == a \div step
<1> DEFINE r == a % step
<1>5. Rounded[a][d] = 2^e * Nearest(step, q, r) BY <1>3 DEF Nearest, Up
<1>6. 2^e \in Nat \ {0} BY <1>4, PowerFacts
<1>7. step \in Nat \ {0} BY <1>0, <1>6
<1> HIDE DEF step
<1>8. r \in 0..(step - 1) /\ q \in Int /\ a = step * q + r BY <1>0, <1>7, DivMod
<1> HIDE DEF q, r
<1>9. q \in Nat
  <2> SUFFICES ASSUME q <= -1 PROVE FALSE BY <1>8
  <2> DEFINE z == -1 - q
  <2>1. z \in Nat /\ q = -1 - z BY <1>8
  <2> HIDE DEF z
  <2>2. step * q = -step - step * z /\ step * z \in Nat BY <1>7, <2>1
  <2> QED BY <1>0, <1>7, <1>8, <2>2
<1>10. 2^P \in Nat \ {0} /\ 2^(P - 1) \in Nat \ {0} BY <1>1, PowerFacts
<1>11. q < 2^P
  <2> SUFFICES ASSUME 2^P <= q PROVE FALSE BY <1>9, <1>10
  <2>1. step * 2^P <= step * q /\ step * q \in Nat BY <1>7, <1>9, <1>10, Scaled
  <2>2. 2^(P + e) = 2^P * 2^e BY <1>1, <1>4, PowerSum
  <2>3. step * 2^P = 2^(P + e) * d BY <1>0, <1>6, <1>10, <2>2 DEF step
  <2>4. step * 2^P \in Nat BY <1>7, <1>10
  <2> QED BY <1>0, <1>4, <1>8, <2>1, <2>3, <2>4
<1>12. e = 0 \/ q >= 2^(P - 1)
  <2> SUFFICES ASSUME e # 0, q < 2^(P - 1) PROVE FALSE BY <1>9, <1>10
  <2>1. step * q + step <= step * 2^(P - 1) /\ step * q \in Nat BY <1>7, <1>9, <1>10, Scaled
  <2>2. P + e - 1 = (P - 1) + e BY <1>1, <1>4
  <2>3. 2^((P - 1) + e) = 2^(P - 1) * 2^e BY <1>1, <1>4, PowerSum
  <2>4. step * 2^(P - 1) = 2^(P + e - 1) * d BY <1>0, <1>6, <1>10, <2>2, <2>3 DEF step
  <2>5. step * 2^(P - 1) \in Nat BY <1>7, <1>10
  <2>6. a >= step * 2^(P - 1) BY <1>4, <2>4
  <2> QED BY <1>0, <1>7, <1>8, <2>1, <2>5, <2>6
<1>13. r \in Nat /\ r < step BY <1>7, <1>8
<1>14. Splits(a, d, e, q, r) BY <1>8, <1>11, <1>12, <1>13 DEF Splits, step
<1> QED BY <1>2, <1>5, <1>9, <1>13, <1>14 DEF step

\* The nearest step is one of the two around the number.
LEMMA NearestFacts ==
  ASSUME NEW step, NEW q \in Nat, NEW r
  PROVE  Nearest(step, q, r) \in q..(q + 1) /\ Nearest(step, q, r) \in Nat
BY DEF Nearest

\* A float is a number of steps with at most Precision bits.
LEMMA RoundedType ==
  ASSUME NEW a, NEW d, Roundable(a, d)
  PROVE  /\ Rounded[a][d] \in Nat
         /\ \E e \in 0..MaxExponent : \E w \in 0..2^Precision : Rounded[a][d] = 2^e * w
<1>1. PICK e \in 0..MaxExponent, q \in Nat, r \in Nat :
         Splits(a, d, e, q, r) /\ Rounded[a][d] = 2^e * Nearest(d * 2^e, q, r)
  BY RoundedIs
<1> DEFINE w == Nearest(d * 2^e, q, r)
<1>2. w \in q..(q + 1) /\ w \in Nat BY NearestFacts
<1>3. e \in Nat /\ 2^e \in Nat /\ 2^Precision \in Nat BY FormatFacts
<1>4. q < 2^Precision BY <1>1 DEF Splits
<1> HIDE DEF w
<1>5. w \in 0..2^Precision BY <1>2, <1>3, <1>4
<1>6. 2^e * w \in Nat BY <1>2, <1>3
<1> QED BY <1>1, <1>5, <1>6 DEF w

\* The bounds that the exponent puts on a number.
LEMMA SplitBounds ==
  ASSUME NEW a \in Nat, NEW d \in Nat \ {0}, NEW e \in Nat, NEW q \in Nat, NEW r \in Nat,
         Splits(a, d, e, q, r)
  PROVE  /\ d * 2^e \in Nat \ {0}
         /\ a = (d * 2^e) * q + r /\ r < d * 2^e
         /\ q < 2^Precision
         /\ a < (d * 2^e) * 2^Precision
         /\ e # 0 => q >= 2^(Precision - 1) /\ (d * 2^e) * 2^(Precision - 1) <= a
<1>1. 2^e \in Nat \ {0} /\ 2^Precision \in Nat \ {0} /\ 2^(Precision - 1) \in Nat \ {0} BY FormatFacts
<1> DEFINE s == d * 2^e
<1>2. s \in Nat \ {0} BY <1>1
<1>3. a = s * q + r /\ r < s /\ q < 2^Precision /\ (e = 0 \/ q >= 2^(Precision - 1)) BY DEF Splits
<1> HIDE DEF s
<1>4. s * q + s <= s * 2^Precision /\ s * q \in Nat /\ s * 2^Precision \in Nat BY <1>1, <1>2, <1>3, Scaled
<1>5. ASSUME e # 0 PROVE s * 2^(Precision - 1) <= s * q /\ s * 2^(Precision - 1) \in Nat
  <2>1. 2^(Precision - 1) <= q BY <1>1, <1>3, <1>5
  <2> QED BY <1>1, <1>2, <2>1, Scaled
<1>6. a < s * 2^Precision BY <1>2, <1>3, <1>4
<1>7. e # 0 => q >= 2^(Precision - 1) /\ s * 2^(Precision - 1) <= a BY <1>3, <1>4, <1>5
<1> QED BY <1>2, <1>3, <1>6, <1>7 DEF s

\* A larger exponent starts where the smaller one ends.
LEMMA ExponentOrder ==
  ASSUME NEW d \in Nat \ {0}, NEW e \in Nat, NEW f \in Nat, e < f
  PROVE  /\ (d * 2^e) * 2^Precision <= (d * 2^f) * 2^(Precision - 1)
         /\ (d * 2^e) * 2^Precision \in Nat /\ (d * 2^f) * 2^(Precision - 1) \in Nat
<1> DEFINE x == 2^e
<1> DEFINE y == 2^f
<1> DEFINE h == 2^(Precision - 1)
<1>1. x \in Nat \ {0} /\ y \in Nat \ {0} /\ h \in Nat \ {0} BY FormatFacts
<1>2. 2 * x <= y BY PowerMonotone
<1>3. 2^Precision = 2 * h BY FormatFacts
<1> HIDE DEF x, y, h
<1>4. d * h \in Nat \ {0} /\ 2 * x \in Nat BY <1>1
<1>5. (d * h) * (2 * x) <= (d * h) * y BY <1>1, <1>2, <1>4, Scaled
<1>6. (d * h) * (2 * x) = (d * x) * (2 * h) BY <1>1
<1>7. (d * h) * y = (d * y) * h BY <1>1
<1>8. (d * x) * (2 * h) \in Nat /\ (d * y) * h \in Nat BY <1>1
<1> QED BY <1>3, <1>5, <1>6, <1>7, <1>8 DEF x, y, h

\* Rounding keeps the order: no float lies between two numbers and not between
\* their roundings.
LEMMA RoundedMonotone ==
  ASSUME NEW a, NEW b, NEW d, Roundable(a, d), Roundable(b, d), a <= b
  PROVE  Rounded[a][d] <= Rounded[b][d]
<1>0. a \in Nat /\ b \in Nat /\ d \in Nat \ {0} BY DEF Roundable
<1>1. PICK e \in 0..MaxExponent, q \in Nat, r \in Nat :
         Splits(a, d, e, q, r) /\ Rounded[a][d] = 2^e * Nearest(d * 2^e, q, r)
  BY RoundedIs
<1>2. PICK f \in 0..MaxExponent, s \in Nat, t \in Nat :
         Splits(b, d, f, s, t) /\ Rounded[b][d] = 2^f * Nearest(d * 2^f, s, t)
  BY RoundedIs
<1> DEFINE w == Nearest(d * 2^e, q, r)
<1> DEFINE v == Nearest(d * 2^f, s, t)
<1>3. w \in q..(q + 1) /\ w \in Nat /\ v \in s..(s + 1) /\ v \in Nat BY NearestFacts
<1>4. e \in Nat /\ f \in Nat /\ 2^e \in Nat \ {0} /\ 2^f \in Nat \ {0}
  BY FormatFacts
<1> DEFINE h == 2^(Precision - 1)
<1>5. h \in Nat \ {0} /\ 2^Precision = 2 * h BY FormatFacts
<1>6. /\ d * 2^e \in Nat \ {0} /\ a = (d * 2^e) * q + r /\ r < d * 2^e
      /\ q < 2^Precision /\ a < (d * 2^e) * 2^Precision
      /\ e # 0 => q >= h /\ (d * 2^e) * h <= a
  BY <1>0, <1>1, <1>4, SplitBounds
<1>7. /\ d * 2^f \in Nat \ {0} /\ b = (d * 2^f) * s + t /\ t < d * 2^f
      /\ s < 2^Precision /\ b < (d * 2^f) * 2^Precision
      /\ f # 0 => s >= h /\ (d * 2^f) * h <= b
  BY <1>0, <1>2, <1>4, SplitBounds
<1>8. CASE f < e
  <2>1. (d * 2^f) * 2^Precision <= (d * 2^e) * h /\ (d * 2^f) * 2^Precision \in Nat /\ (d * 2^e) * h \in Nat
    BY <1>0, <1>4, <1>8, ExponentOrder
  <2>2. e # 0 BY <1>4, <1>8
  <2>3. (d * 2^e) * h <= a /\ b < (d * 2^f) * 2^Precision BY <1>6, <1>7, <2>2
  <2> QED BY <1>0, <2>1, <2>3
<1>9. CASE e < f
  <2>1. f # 0 BY <1>4, <1>9
  <2> DEFINE x == 2^e
  <2> DEFINE y == 2^f
  <2>2. 2 * x <= y /\ x \in Nat \ {0} /\ y \in Nat \ {0} BY <1>4, <1>9, PowerMonotone
  <2>3. w <= 2 * h /\ h <= v BY <1>3, <1>5, <1>6, <1>7, <2>1
  <2> HIDE DEF w, v, h, x, y
  <2>4. x * w <= x * (2 * h) /\ x * w \in Nat BY <1>3, <1>5, <2>2, <2>3, Scaled
  <2>5. y * h <= y * v /\ y * v \in Nat BY <1>3, <1>5, <2>2, <2>3, Scaled
  <2>6. h * (2 * x) <= h * y BY <1>5, <2>2, Scaled
  <2>7. x * (2 * h) = h * (2 * x) /\ y * h = h * y /\ x * (2 * h) \in Nat /\ y * h \in Nat BY <1>5, <2>2
  <2>8. x * w <= y * v BY <2>4, <2>5, <2>6, <2>7
  <2> QED BY <1>1, <1>2, <2>8 DEF w, v, x, y
<1>10. CASE e = f
  <2> DEFINE k == d * 2^e
  <2>1. k \in Nat \ {0} /\ a = k * q + r /\ r < k /\ b = k * s + t /\ t < k BY <1>6, <1>7, <1>10
  <2>2. w <= v
    <3>1. CASE s < q
      <4> HIDE DEF k
      <4>1. k * s + k <= k * q /\ k * s \in Nat /\ k * q \in Nat BY <2>1, <3>1, Scaled
      <4> QED BY <1>0, <2>1, <4>1
    <3>2. CASE q < s BY <1>3, <3>2
    <3>3. CASE q = s
      <4>0. w = Nearest(k, q, r) /\ v = Nearest(k, q, t) BY <1>10, <3>3
      <4> HIDE DEF k, w, v
      <4>1. k * q = k * s /\ k * q \in Nat BY <2>1, <3>3
      <4>2. r <= t BY <1>0, <2>1, <4>1
      <4>3. Up(k, q, r) => Up(k, q, t) BY <2>1, <4>2 DEF Up
      <4> QED BY <4>0, <4>3 DEF Nearest
    <3> QED BY <3>1, <3>2, <3>3
  <2> HIDE DEF w, v
  <2>3. 2^e * w <= 2^e * v BY <1>3, <1>4, <2>2, Scaled
  <2> QED BY <1>1, <1>2, <1>10, <2>3 DEF w, v
<1> QED BY <1>4, <1>8, <1>9, <1>10

\* A number of steps with at most Precision bits is a float: it is kept.
LEMMA RoundedExact ==
  ASSUME NEW c \in Nat, NEW w \in 0..2^Precision, NEW d \in Nat \ {0}, NEW x,
         x = 2^c * w, Roundable(x * d, d)
  PROVE  Rounded[x * d][d] = x
<1>1. PICK e \in 0..MaxExponent, q \in Nat, r \in Nat :
         Splits(x * d, d, e, q, r) /\ Rounded[x * d][d] = 2^e * Nearest(d * 2^e, q, r)
  BY RoundedIs
<1> DEFINE h == 2^(Precision - 1)
<1>2. e \in Nat /\ 2^e \in Nat \ {0} /\ 2^c \in Nat \ {0} /\ h \in Nat \ {0} /\ 2^Precision = 2 * h
      /\ 2^Precision \in Nat
  BY FormatFacts
<1>3. w \in Nat /\ x \in Nat /\ x * d \in Nat /\ w <= 2 * h BY <1>2
<1>4. /\ d * 2^e \in Nat \ {0} /\ x * d = (d * 2^e) * q + r /\ r < d * 2^e
      /\ e # 0 => (d * 2^e) * h <= x * d
  <2>1. PICK a \in Nat : a = x * d BY <1>3
  <2>2. Splits(a, d, e, q, r) BY <1>1, <2>1
  <2>3. /\ d * 2^e \in Nat \ {0} /\ a = (d * 2^e) * q + r /\ r < d * 2^e
        /\ e # 0 => (d * 2^e) * h <= a
    BY <1>2, <2>2, SplitBounds
  <2> QED BY <2>1, <2>3
<1>5. \E v \in Nat : x = 2^e * v
  <2>1. CASE e <= c
    <3> DEFINE j == c - e
    <3>1. j \in Nat /\ c = e + j BY <1>2, <2>1
    <3> HIDE DEF j
    <3>2. 2^c = 2^e * 2^j /\ 2^j \in Nat BY <1>2, <3>1, PowerSum, FormatFacts
    <3>3. x = 2^e * (2^j * w) /\ 2^j * w \in Nat BY <1>2, <1>3, <3>2
    <3> QED BY <3>3
  <2>2. CASE c < e
    <3>1. e # 0 /\ 2 * 2^c <= 2^e BY <1>2, <2>2, PowerMonotone
    <3> DEFINE y == 2^c
    <3> DEFINE z == 2^e
    <3>2. y \in Nat \ {0} /\ z \in Nat \ {0} /\ 2 * y <= z /\ x = y * w /\ (d * z) * h <= x * d
      BY <1>2, <1>4, <3>1
    <3> HIDE DEF y, z, h
    <3>3. y * w <= y * (2 * h) /\ y * w \in Nat BY <1>2, <1>3, <3>2, Scaled
    <3>4. h * (2 * y) <= h * z /\ h * z \in Nat BY <1>2, <3>2, Scaled
    <3>5. h * (2 * y) = y * (2 * h) /\ h * (2 * y) \in Nat BY <1>2, <3>2
    <3>6. x <= h * z BY <3>2, <3>3, <3>4, <3>5
    <3>7. ~(x < h * z)
      <4> SUFFICES ASSUME x < h * z PROVE FALSE OBVIOUS
      <4>1. d * x + d <= d * (h * z) BY <1>3, <3>4, Scaled
      <4>2. d * (h * z) = (d * z) * h /\ d * x = x * d /\ d * (h * z) \in Nat BY <1>2, <1>3, <3>2
      <4> QED BY <1>3, <3>2, <4>1, <4>2
    <3>8. x = z * h BY <1>2, <1>3, <3>2, <3>4, <3>6, <3>7
    <3> QED BY <1>2, <3>8 DEF z
  <2> QED BY <1>2, <2>1, <2>2
<1>6. PICK v \in Nat : x = 2^e * v BY <1>5
<1> DEFINE k == d * 2^e
<1>7. x * d = k * v BY <1>2, <1>6
<1>8. k \in Nat \ {0} /\ x * d = k * q + r /\ r < k BY <1>4
<1> HIDE DEF k
<1>9. r \in 0..(k - 1) /\ 0 \in 0..(k - 1) /\ k * v \in Nat /\ k * q + r = k * v + 0 /\ q \in Int /\ v \in Int
  BY <1>7, <1>8
<1>10. q = v /\ r = 0 BY <1>8, <1>9, DivModUnique
<1>11. Nearest(k, q, r) = q BY <1>8, <1>10 DEF Nearest, Up
<1> QED BY <1>1, <1>6, <1>10, <1>11 DEF k

\* A float: a number of steps with at most Precision bits.
IsFloat(x) == \E e \in Nat : \E w \in 0..2^Precision : x = 2^e * w

\* The totals whose ranks can be rounded.
Limit == 2^(Precision + MaxExponent)
Fits(T) == T \in Nat \ {0} /\ 4 * Unit * T <= Limit

LEMMA LimitFacts == Limit \in Nat \ {0} /\ \A a \in Nat : a < Limit => Roundable(a, 1)
<1>1. Precision + MaxExponent \in Nat BY FormatFacts
<1>2. Limit \in Nat \ {0} BY <1>1, FormatFacts DEF Limit
<1>3. \A a \in Nat : a < Limit => a < Limit * 1 BY <1>2
<1> QED BY <1>2, <1>3 DEF Roundable, Limit

\* Unit is a power of two, and so is half of it.
LEMMA OneFacts ==
  /\ Unit \in Nat \ {0} /\ Unit \div 2 \in Nat \ {0} /\ Unit = 2 * (Unit \div 2)
  /\ \E k \in Nat : Unit = 2^k
  /\ \E k \in Nat : Unit \div 2 = 2^k
<1>1. PICK k \in 1..MaxExponent : Unit = 2^k BY FloatAssumption
<1>2. MaxExponent \in Nat BY FormatFacts
<1>3. k \in Nat /\ k - 1 \in Nat /\ (k - 1) + 1 = k BY <1>2
<1>4. 2^((k - 1) + 1) = 2 * 2^(k - 1) /\ 2^(k - 1) \in Nat \ {0} BY <1>3, PowerFacts
<1> DEFINE x == 2^(k - 1)
<1>5. Unit = 2 * x /\ x \in Nat \ {0} BY <1>1, <1>3, <1>4
<1> HIDE DEF x
<1>6. Unit \div 2 = x BY <1>5
<1> QED BY <1>1, <1>3, <1>5, <1>6 DEF x

\* A float is kept.
LEMMA FloatKept ==
  ASSUME NEW x \in Nat, IsFloat(x), x < Limit
  PROVE  Rounded[x][1] = x
<1>1. PICK e \in Nat, w \in 0..2^Precision : x = 2^e * w BY DEF IsFloat
<1>2. x * 1 = x BY <1>1
<1>3. Roundable(x * 1, 1) BY <1>2, LimitFacts
<1>4. Rounded[x * 1][1] = x BY <1>1, <1>3, RoundedExact
<1> QED BY <1>2, <1>4

LEMMA RoundedIsFloat ==
  ASSUME NEW a, NEW d, Roundable(a, d)
  PROVE  Rounded[a][d] \in Nat /\ IsFloat(Rounded[a][d])
<1>1. PICK e \in 0..MaxExponent : \E w \in 0..2^Precision : Rounded[a][d] = 2^e * w BY RoundedType
<1>2. e \in Nat BY FormatFacts
<1> QED BY <1>1, <1>2, RoundedType DEF IsFloat

\* A power of two is a float, and twice or 2^k times a float is one.
LEMMA FloatShift ==
  ASSUME NEW x \in Nat, IsFloat(x), NEW k \in Nat
  PROVE  IsFloat(2^k * x)
<1>1. PICK e \in Nat, w \in 0..2^Precision : x = 2^e * w BY DEF IsFloat
<1>2. 2^(k + e) = 2^k * 2^e /\ k + e \in Nat BY PowerSum
<1>3. 2^k \in Nat /\ 2^e \in Nat /\ w \in Nat BY FormatFacts
<1>4. 2^k * x = (2^k * 2^e) * w BY <1>1, <1>3
<1> QED BY <1>2, <1>4 DEF IsFloat

LEMMA OneIsFloat == IsFloat(1) /\ IsFloat(0) /\ \A k \in Nat : IsFloat(2^k)
<1>1. 2^0 = 1 /\ 0 \in Nat BY PowerFacts
<1>2. 1 \in 0..2^Precision /\ 0 \in 0..2^Precision BY FormatFacts
<1>3. 1 = 2^0 * 1 /\ 0 = 2^0 * 0 BY <1>1
<1>4. IsFloat(1) /\ IsFloat(0) BY <1>1, <1>2, <1>3 DEF IsFloat
<1>5. ASSUME NEW k \in Nat PROVE IsFloat(2^k)
  <2>1. 2^k = 2^k * 1 BY FormatFacts
  <2> QED BY <1>2, <2>1 DEF IsFloat
<1> QED BY <1>4, <1>5

\* float64(totalCount).  Where it is larger than the total, the total lies in the
\* step before it.
LEMMA TotalFloat ==
  ASSUME NEW T, Fits(T)
  PROVE  /\ FloatTotal(T) \in Nat \ {0} /\ FloatTotal(T) <= 2 * T
         /\ IsFloat(FloatTotal(T))
         /\ FloatTotal(T) > T => \E e \in Nat, q \in Nat :
              FloatTotal(T) = 2^e * (q + 1) /\ 2^e * q <= T /\ q >= 2^(Precision - 1)
<1> DEFINE F == FloatTotal(T)
<1>1. T \in Nat \ {0} /\ T < Limit /\ 1 < Limit
  <2>1. T \in Nat \ {0} /\ 4 * Unit * T <= Limit BY DEF Fits
  <2>2. T <= Unit * T /\ Unit * T \in Nat BY <2>1, OneFacts
  <2>3. 4 * Unit * T = 4 * (Unit * T) BY <2>1, OneFacts
  <2> QED BY <2>1, <2>2, <2>3, LimitFacts
<1>2. Roundable(T, 1) /\ Roundable(1, 1) BY <1>1, LimitFacts
<1>3. F \in Nat /\ IsFloat(F) BY <1>2, RoundedIsFloat DEF FloatTotal
<1>4. F >= 1
  <2>1. Rounded[1][1] = 1 BY <1>1, OneIsFloat, FloatKept
  <2>2. Rounded[1][1] <= Rounded[T][1] BY <1>1, <1>2, RoundedMonotone
  <2> QED BY <2>1, <2>2 DEF FloatTotal
<1>5. PICK e \in 0..MaxExponent, q \in Nat, r \in Nat :
         Splits(T, 1, e, q, r) /\ Rounded[T][1] = 2^e * Nearest(1 * 2^e, q, r)
  BY <1>2, RoundedIs
<1> DEFINE s == 2^e
<1>6. e \in Nat /\ s \in Nat \ {0} /\ 1 * s = s BY FormatFacts
<1>7. T = s * q + r /\ r < s /\ (e = 0 \/ q >= 2^(Precision - 1)) BY <1>5, <1>6 DEF Splits
<1>8. F = s * Nearest(s, q, r) BY <1>5, <1>6 DEF FloatTotal
<1>9. 2^(Precision - 1) \in Nat \ {0} BY FormatFacts
<1>10. e = 0 => s = 1 BY PowerZero
<1> HIDE DEF s, F
<1>11. s * q \in Nat /\ s * (q + 1) = s * q + s BY <1>6
<1>12. F = s * q \/ F = s * (q + 1) BY <1>8 DEF Nearest
<1>13. F <= 2 * T
  <2>1. CASE q = 0
    <3>1. e = 0 BY <1>7, <1>9, <2>1
    <3>2. T = 0 BY <1>6, <1>7, <1>10, <1>11, <2>1, <3>1
    <3> QED BY <1>1, <3>2
  <2>2. CASE q # 0
    <3>1. s <= s * q BY <1>6, <2>2
    <3> QED BY <1>3, <1>6, <1>7, <1>11, <1>12, <3>1
  <2> QED BY <2>1, <2>2
<1>14. ASSUME F > T PROVE F = s * (q + 1) /\ s * q <= T /\ q >= 2^(Precision - 1)
  <2>1. F = s * (q + 1) /\ s * q <= T BY <1>3, <1>6, <1>7, <1>11, <1>12, <1>14
  <2>2. CASE e = 0
    <3>1. s = 1 /\ r = 0 BY <1>6, <1>7, <1>10, <2>2
    <3>2. Nearest(s, q, r) = q BY <3>1 DEF Nearest, Up
    <3>3. F = T BY <1>7, <1>8, <1>11, <3>1, <3>2
    <3> QED BY <1>1, <1>14, <3>3
  <2> QED BY <1>7, <2>1, <2>2
<1> QED BY <1>3, <1>4, <1>6, <1>13, <1>14 DEF s, F

\* A float below the rounded total is a rank that the total reaches, even where the
\* total was rounded up: no float lies between the two.
LEMMA BelowTotal ==
  ASSUME NEW T, Fits(T), NEW r \in Nat, IsFloat(r), r < FloatTotal(T) * Unit
  PROVE  r \div Unit \in Nat /\ r \div Unit <= T
<1> DEFINE F == FloatTotal(T)
<1>1. T \in Nat \ {0} /\ F \in Nat \ {0} /\ Unit \in Nat \ {0} BY TotalFloat, OneFacts DEF Fits
<1>2. r <= Unit * T
  <2>1. CASE F <= T
    <3> HIDE DEF F
    <3>1. Unit * F <= Unit * T BY <1>1, <2>1, Scaled
    <3>2. F * Unit = Unit * F /\ Unit * F \in Nat /\ Unit * T \in Nat BY <1>1
    <3> QED BY <3>1, <3>2 DEF F
  <2>2. CASE F > T
    <3>1. PICK e \in Nat, q \in Nat : F = 2^e * (q + 1) /\ 2^e * q <= T /\ q >= 2^(Precision - 1)
      BY <2>2, TotalFloat
    <3>2. PICK k \in Nat : Unit = 2^k BY OneFacts
    <3> DEFINE G == 2^(e + k)
    <3> DEFINE h == 2^(Precision - 1)
    <3>3. G = 2^e * Unit /\ e + k \in Nat BY <3>2, PowerSum
    <3>4. G \in Nat \ {0} /\ h \in Nat \ {0} /\ 2^Precision = 2 * h /\ 2^e \in Nat \ {0} BY <3>3, FormatFacts
    <3>5. F * Unit = G * (q + 1) BY <1>1, <3>1, <3>3, <3>4
    <3>6. PICK f \in Nat, w \in 0..2^Precision : r = 2^f * w BY DEF IsFloat
    <3>7. w \in Nat /\ w <= 2 * h /\ 2^f \in Nat \ {0} BY <3>4, <3>6, FormatFacts
    <3>8. r <= G * q
      <4>1. CASE e + k <= f
        <5> DEFINE j == f - (e + k)
        <5>1. j \in Nat /\ f = (e + k) + j BY <3>3, <4>1
        <5> HIDE DEF j
        <5>2. 2^f = G * 2^j /\ 2^j \in Nat BY <3>3, <5>1, PowerSum, FormatFacts
        <5> DEFINE z == 2^j * w
        <5>3. z \in Nat BY <3>7, <5>2
        <5>4. r = G * z BY <3>4, <3>6, <3>7, <5>2
        <5> HIDE DEF z, G, F
        <5>5. z <= q
          <6> SUFFICES ASSUME q + 1 <= z PROVE FALSE BY <5>3
          <6>1. q + 1 \in Nat OBVIOUS
          <6>2. G * (q + 1) <= G * z /\ G * (q + 1) \in Nat /\ G * z \in Nat BY <3>4, <5>3, <6>1, Scaled
          <6>3. r < G * (q + 1) BY <3>5 DEF F
          <6> QED BY <5>4, <6>2, <6>3
        <5> QED BY <3>4, <5>3, <5>4, <5>5, Scaled
      <4>2. CASE f < e + k
        <5> DEFINE y == 2^f
        <5>1. 2 * y <= G BY <3>3, <4>2, PowerMonotone
        <5>2. y \in Nat \ {0} /\ r = y * w BY <3>6, <3>7
        <5>3. q >= h BY <3>1
        <5> HIDE DEF y, G, h
        <5>4. y * w <= y * (2 * h) /\ y * (2 * h) \in Nat BY <3>4, <3>7, <5>2, Scaled
        <5>5. h * (2 * y) <= h * G /\ h * G \in Nat BY <3>4, <5>1, <5>2, Scaled
        <5>6. G * h <= G * q /\ G * q \in Nat BY <3>4, <5>3, Scaled
        <5>7. y * (2 * h) = h * (2 * y) /\ h * G = G * h BY <3>4, <5>2
        <5> QED BY <5>2, <5>4, <5>5, <5>6, <5>7
      <4> QED BY <3>3, <4>1, <4>2
    <3>9. G * q <= Unit * T
      <4> DEFINE x == 2^e
      <4>1. x \in Nat /\ x * q \in Nat /\ x * q <= T /\ G = x * Unit BY <3>1, <3>3, <3>4
      <4> HIDE DEF x, G
      <4>2. Unit * (x * q) <= Unit * T BY <1>1, <4>1, Scaled
      <4>3. Unit * (x * q) = G * q BY <1>1, <4>1
      <4> QED BY <4>2, <4>3
    <3>10. G * q \in Nat /\ Unit * T \in Nat BY <1>1, <3>4
    <3> HIDE DEF G
    <3> QED BY <3>8, <3>9, <3>10
  <2> HIDE DEF F
  <2> QED BY <1>1, <2>1, <2>2
<1> DEFINE m == r \div Unit
<1>3. m \in Int /\ r % Unit \in 0..(Unit - 1) /\ r = Unit * m + (r % Unit)
  <2>1. r \in Int OBVIOUS
  <2> QED BY <1>1, <2>1, DivMod, Zenon
<1>4. PICK v : v = r % Unit OBVIOUS
<1> HIDE DEF m, F
<1>5. v \in 0..(Unit - 1) /\ r = Unit * m + v BY <1>3, <1>4
<1>6. m \in Nat
  <2> SUFFICES ASSUME m <= -1 PROVE FALSE BY <1>3
  <2> DEFINE z == -1 - m
  <2>1. z \in Nat /\ m = -1 - z BY <1>3
  <2> HIDE DEF z
  <2>2. Unit * m = -Unit - Unit * z /\ Unit * z \in Nat BY <1>1, <2>1
  <2> QED BY <1>1, <1>5, <2>2
<1>7. m <= T
  <2> SUFFICES ASSUME T < m PROVE FALSE BY <1>1, <1>6
  <2>1. Unit * T + Unit <= Unit * m /\ Unit * T \in Nat /\ Unit * m \in Nat BY <1>1, <1>6, Scaled
  <2> QED BY <1>1, <1>2, <1>5, <2>1
<1> QED BY <1>6, <1>7 DEF m

\* The products of percentileRank before the last rounding.
Fraction(p) == Rounded[Capped(p)][100]
Product(p, T) == Rounded[Fraction(p) * FloatTotal(T)][1]

\* percentile / 100 is at most 1, and 1 from 100 on.
LEMMA FractionFacts ==
  ASSUME 2 * Unit <= Limit
  PROVE  /\ \A p \in Nat : Fraction(p) \in Nat /\ Fraction(p) <= Unit
         /\ \A p \in Nat : p >= 100 * Unit => Fraction(p) = Unit
         /\ Fraction(0) = 0
         /\ \A p, q \in Nat : p <= q => Fraction(p) <= Fraction(q)
<1>1. Unit \in Nat \ {0} /\ Limit \in Nat BY OneFacts, LimitFacts
<1> DEFINE top == Unit * 100
<1>2. top \in Nat /\ 0 * 100 = 0 /\ 0 \in Nat /\ 100 \in Nat \ {0} BY <1>1
<1>3. top < Limit * 100 /\ 0 < Limit * 100 BY <1>1
<1>4. Roundable(top, 100) /\ Roundable(0, 100) BY <1>2, <1>3 DEF Roundable, Limit
<1>5. Rounded[top][100] = Unit
  <2>1. PICK k \in Nat : Unit = 2^k BY OneFacts
  <2>2. Unit = 2^k * 1 /\ 1 \in 0..2^Precision BY <1>1, <2>1, FormatFacts
  <2> QED BY <1>2, <1>4, <2>2, RoundedExact
<1>6. Rounded[0][100] = 0
  <2>1. 2^0 = 1 BY PowerFacts
  <2>2. 0 = 2^0 * 0 /\ 0 \in 0..2^Precision BY <2>1, FormatFacts
  <2>3. PICK z : z = 0 OBVIOUS
  <2>4. z = 2^0 * z /\ z * 100 = z /\ z \in 0..2^Precision BY <2>2, <2>3
  <2>5. Roundable(z * 100, 100) BY <1>4, <2>3, <2>4
  <2>6. Rounded[z * 100][100] = z BY <1>2, <2>4, <2>5, RoundedExact
  <2> QED BY <2>3, <2>4, <2>6
<1>7. ASSUME NEW p \in Nat
      PROVE  Capped(p) \in Nat /\ Capped(p) <= top /\ Roundable(Capped(p), 100)
  <2>1. Capped(p) \in Nat /\ Capped(p) <= top BY <1>1 DEF Capped
  <2>2. Capped(p) < Limit * 100 BY <1>1, <1>2, <1>3, <2>1
  <2> QED BY <1>2, <2>1, <2>2 DEF Roundable, Limit
<1> HIDE DEF top
<1>8. ASSUME NEW p \in Nat PROVE Fraction(p) \in Nat /\ Fraction(p) <= Unit
  <2>1. Rounded[Capped(p)][100] <= Rounded[top][100] BY <1>4, <1>7, RoundedMonotone
  <2> QED BY <1>5, <1>7, <2>1, RoundedIsFloat DEF Fraction
<1>9. ASSUME NEW p \in Nat, p >= 100 * Unit PROVE Fraction(p) = Unit
  <2>1. Capped(p) = top BY <1>1, <1>9 DEF Capped, top
  <2> QED BY <1>5, <2>1 DEF Fraction
<1>10. Fraction(0) = 0
  <2>1. Capped(0) = 0 BY <1>1 DEF Capped
  <2> QED BY <1>6, <2>1 DEF Fraction
<1>11. ASSUME NEW p \in Nat, NEW q \in Nat, p <= q PROVE Fraction(p) <= Fraction(q)
  <2>1. Capped(p) <= Capped(q) BY <1>1, <1>11 DEF Capped
  <2> QED BY <1>7, <2>1, RoundedMonotone DEF Fraction
<1> QED BY <1>8, <1>9, <1>10, <1>11

\* The total scaled to units, and what is rounded last, are within the limit.
LEMMA ScaleFacts ==
  ASSUME NEW T, Fits(T)
  PROVE  /\ Unit * FloatTotal(T) \in Nat
         /\ Unit * FloatTotal(T) + Unit \div 2 < Limit
         /\ 2 * Unit <= Limit
         /\ IsFloat(Unit * FloatTotal(T))
<1> DEFINE F == FloatTotal(T)
<1> DEFINE u == Unit
<1> DEFINE v == Unit \div 2
<1>1. T \in Nat \ {0} /\ F \in Nat \ {0} /\ F <= 2 * T /\ IsFloat(F) BY TotalFloat DEF Fits
<1>2. u \in Nat \ {0} /\ v \in Nat \ {0} /\ u = 2 * v BY OneFacts
<1>3. 4 * u * T <= Limit /\ Limit \in Nat BY LimitFacts DEF Fits
<1>4. IsFloat(u * F)
  <2>1. PICK k \in Nat : u = 2^k BY OneFacts
  <2> HIDE DEF u, F
  <2> QED BY <1>1, <2>1, FloatShift
<1> HIDE DEF u, v, F
<1>5. u * F <= u * (2 * T) /\ u * F \in Nat /\ 2 * T \in Nat BY <1>1, <1>2, Scaled
<1>6. u * (2 * T) = 2 * (u * T) /\ 4 * u * T = 4 * (u * T) /\ u * T \in Nat /\ u <= u * T BY <1>1, <1>2
<1>7. u * F + v < Limit /\ 2 * u <= Limit BY <1>1, <1>2, <1>3, <1>5, <1>6
<1> QED BY <1>4, <1>5, <1>7 DEF u, v, F

\* (percentile / 100) * float64(totalCount) is at most the rounded total.
LEMMA ProductFacts ==
  ASSUME NEW T, Fits(T)
  PROVE  /\ \A p \in Nat : Product(p, T) \in Nat /\ Product(p, T) <= Unit * FloatTotal(T)
         /\ \A p \in Nat : p >= 100 * Unit => Product(p, T) = Unit * FloatTotal(T)
         /\ Product(0, T) = 0
         /\ \A p, q \in Nat : p <= q => Product(p, T) <= Product(q, T)
<1> DEFINE F == FloatTotal(T)
<1>1. F \in Nat \ {0} /\ Unit \in Nat \ {0} /\ Limit \in Nat BY TotalFloat, OneFacts, LimitFacts
<1>2. Unit * F \in Nat /\ Unit * F < Limit /\ 2 * Unit <= Limit /\ IsFloat(Unit * F)
  BY <1>1, ScaleFacts, OneFacts
<1>3. Rounded[Unit * F][1] = Unit * F BY <1>2, FloatKept
<1>4. Rounded[0][1] = 0 BY <1>1, <1>2, OneIsFloat, FloatKept
<1> HIDE DEF F
<1>5. ASSUME NEW x \in Nat, NEW y \in Nat, x <= y PROVE x * F <= y * F
  <2>1. F * x <= F * y BY <1>1, <1>5, Scaled
  <2>2. F * x = x * F /\ F * y = y * F BY <1>1
  <2> QED BY <2>1, <2>2
<1>6. ASSUME NEW p \in Nat
      PROVE  /\ Fraction(p) \in Nat /\ Fraction(p) * F \in Nat /\ Fraction(p) * F <= Unit * F
             /\ Roundable(Fraction(p) * F, 1)
  <2>1. Fraction(p) \in Nat /\ Fraction(p) <= Unit BY <1>2, FractionFacts
  <2>2. Fraction(p) * F \in Nat BY <1>1, <2>1
  <2>3. Fraction(p) * F <= Unit * F BY <1>1, <1>5, <2>1
  <2>4. Fraction(p) * F < Limit BY <1>1, <1>2, <2>2, <2>3
  <2> QED BY <2>1, <2>2, <2>3, <2>4, LimitFacts
<1>7. Roundable(Unit * F, 1) BY <1>2, LimitFacts
<1>8. ASSUME NEW p \in Nat PROVE Product(p, T) \in Nat /\ Product(p, T) <= Unit * F
  <2>1. Rounded[Fraction(p) * F][1] <= Rounded[Unit * F][1] BY <1>6, <1>7, RoundedMonotone
  <2>2. Rounded[Fraction(p) * F][1] \in Nat BY <1>6, RoundedIsFloat
  <2> QED BY <1>3, <2>1, <2>2 DEF Product, F
<1>9. ASSUME NEW p \in Nat, p >= 100 * Unit PROVE Product(p, T) = Unit * F
  <2>1. Fraction(p) = Unit BY <1>2, <1>9, FractionFacts
  <2> QED BY <1>3, <2>1 DEF Product, F
<1>10. Product(0, T) = 0
  <2>1. Fraction(0) = 0 BY <1>2, FractionFacts
  <2>2. 0 * F = 0 BY <1>1
  <2> QED BY <1>4, <2>1, <2>2 DEF Product, F
<1>11. ASSUME NEW p \in Nat, NEW q \in Nat, p <= q PROVE Product(p, T) <= Product(q, T)
  <2>1. Fraction(p) <= Fraction(q) BY <1>2, <1>11, FractionFacts
  <2>2. Fraction(p) * F <= Fraction(q) * F BY <1>5, <1>6, <2>1
  <2>3. Rounded[Fraction(p) * F][1] <= Rounded[Fraction(q) * F][1] BY <1>6, <2>2, RoundedMonotone
  <2> QED BY <2>3 DEF Product, F
<1> QED BY <1>8, <1>9, <1>10, <1>11 DEF F

\* The float that percentileRank compares with 1 and with the rounded total.
LEMMA RawFacts ==
  ASSUME NEW T, Fits(T)
  PROVE  /\ \A p \in Nat : RawRank(p, T) \in Nat /\ IsFloat(RawRank(p, T))
         /\ \A p \in Nat : p >= 100 * Unit => RawRank(p, T) >= FloatTotal(T) * Unit
         /\ RawRank(0, T) < Unit
         /\ \A p, q \in Nat : p <= q => RawRank(p, T) <= RawRank(q, T)
<1> DEFINE F == FloatTotal(T)
<1> DEFINE half == Unit \div 2
<1>1. /\ F \in Nat \ {0} /\ Unit \in Nat \ {0} /\ Limit \in Nat
      /\ half \in Nat \ {0} /\ Unit = 2 * half
  BY TotalFloat, OneFacts, LimitFacts
<1>2. Unit * F \in Nat /\ Unit * F + half < Limit /\ IsFloat(Unit * F) BY ScaleFacts
<1>3. \A p \in Nat : RawRank(p, T) = Rounded[Product(p, T) + half][1]
  BY DEF RawRank, Product, Fraction
<1>4. /\ \A p \in Nat : Product(p, T) \in Nat /\ Product(p, T) <= Unit * F
      /\ \A p \in Nat : p >= 100 * Unit => Product(p, T) = Unit * F
      /\ Product(0, T) = 0
      /\ \A p, q \in Nat : p <= q => Product(p, T) <= Product(q, T)
  BY ProductFacts
<1>5. IsFloat(half)
  <2>1. PICK k \in Nat : half = 2^k BY OneFacts
  <2> QED BY <2>1, OneIsFloat
<1> HIDE DEF F, half
<1>6. ASSUME NEW p \in Nat
      PROVE  /\ Product(p, T) + half \in Nat /\ Product(p, T) + half < Limit
             /\ Roundable(Product(p, T) + half, 1)
  <2>1. Product(p, T) \in Nat /\ Product(p, T) <= Unit * F BY <1>4
  <2>2. Product(p, T) + half \in Nat /\ Product(p, T) + half < Limit BY <1>1, <1>2, <2>1
  <2> QED BY <2>2, LimitFacts
<1>7. ASSUME NEW p \in Nat PROVE RawRank(p, T) \in Nat /\ IsFloat(RawRank(p, T))
  BY <1>3, <1>6, RoundedIsFloat
<1>8. ASSUME NEW p \in Nat, p >= 100 * Unit PROVE RawRank(p, T) >= F * Unit
  <2>1. Product(p, T) = Unit * F BY <1>4, <1>8
  <2>2. Unit * F < Limit /\ Unit * F <= Unit * F + half BY <1>1, <1>2
  <2>3. Rounded[Unit * F][1] = Unit * F BY <1>2, <2>2, FloatKept
  <2>4. Roundable(Unit * F, 1) /\ Roundable(Unit * F + half, 1) BY <1>2, <1>6, <2>1, <2>2, LimitFacts
  <2>5. Rounded[Unit * F][1] <= Rounded[Unit * F + half][1] BY <2>2, <2>4, RoundedMonotone
  <2>6. RawRank(p, T) = Rounded[Unit * F + half][1] BY <1>3, <2>1
  <2>7. Unit * F = F * Unit BY <1>1
  <2>8. RawRank(p, T) \in Nat BY <1>7
  <2> QED BY <1>2, <2>3, <2>5, <2>6, <2>7, <2>8
<1>9. RawRank(0, T) < Unit
  <2>1. 0 \in Nat /\ 0 + half = half BY <1>1
  <2>2. RawRank(0, T) = Rounded[half][1] BY <1>3, <1>4, <2>1
  <2>3. half < Limit BY <1>4, <1>6, <2>1
  <2>4. Rounded[half][1] = half BY <1>1, <1>5, <2>3, FloatKept
  <2> QED BY <1>1, <2>2, <2>4
<1>10. ASSUME NEW p \in Nat, NEW q \in Nat, p <= q PROVE RawRank(p, T) <= RawRank(q, T)
  <2>1. Product(p, T) <= Product(q, T) /\ Product(p, T) \in Nat /\ Product(q, T) \in Nat BY <1>4, <1>10
  <2>2. Product(p, T) + half <= Product(q, T) + half BY <1>1, <2>1
  <2>3. Rounded[Product(p, T) + half][1] <= Rounded[Product(q, T) + half][1] BY <1>6, <2>2, RoundedMonotone
  <2> QED BY <1>3, <2>3
<1> QED BY <1>7, <1>8, <1>9, <1>10 DEF F

\* percentileRank "returns a target in [1, totalCount] for a nonempty histogram":
\* the first sample for NaN and from 0 down, the last from 100 up, and never a
\* smaller one for a larger percentile.
LEMMA RankFactsOf ==
  ASSUME NEW T, Fits(T)
  PROVE  /\ \A p \in Int \union {NaN} : PercentileRank(p, T) \in 1..T
         /\ PercentileRank(NaN, T) = 1
         /\ \A p \in Int : p <= 0 => PercentileRank(p, T) = 1
         /\ \A p \in Int : p >= 100 * Unit => PercentileRank(p, T) = T
         /\ \A p, q \in Int : p <= q => PercentileRank(p, T) <= PercentileRank(q, T)
<1>1. T \in Nat \ {0} /\ Unit \in Nat \ {0} BY OneFacts DEF Fits
<1>2. NaN \notin Int BY RequestAssumption
<1> DEFINE R(p) == RawRank(p, T)
<1> DEFINE top == FloatTotal(T) * Unit
<1>3. FloatTotal(T) \in Nat \ {0} BY TotalFloat
<1>4. top \in Nat BY <1>1, <1>3
<1>5. PercentileRank(NaN, T) = 1 BY DEF PercentileRank
<1>6. ASSUME NEW p \in Int
      PROVE  PercentileRank(p, T) = IF p < 0 \/ R(p) < Unit THEN 1
                                    ELSE IF R(p) >= top THEN T ELSE R(p) \div Unit
  BY <1>2 DEF PercentileRank, PastTotal
<1>7. /\ \A p \in Nat : R(p) \in Nat /\ IsFloat(R(p))
      /\ \A p \in Nat : p >= 100 * Unit => R(p) >= top
      /\ R(0) < Unit
      /\ \A p, q \in Nat : p <= q => R(p) <= R(q)
  BY RawFacts
<1>8. ASSUME NEW x \in Nat, NEW y \in Nat, x <= y
      PROVE  /\ x \div Unit <= y \div Unit /\ x \div Unit \in Int /\ y \div Unit \in Int
             /\ x >= Unit => x \div Unit >= 1
  <2>0. x \in Int /\ y \in Int OBVIOUS
  <2>1. PICK a \in Int, b \in 0..(Unit - 1) : a = x \div Unit /\ x = Unit * a + b
    BY <1>1, <2>0, DivMod, Zenon
  <2>2. PICK c \in Int, d \in 0..(Unit - 1) : c = y \div Unit /\ y = Unit * c + d
    BY <1>1, <2>0, DivMod, Zenon
  <2>3. a <= c
    <3> SUFFICES ASSUME c < a PROVE FALSE BY <2>1, <2>2
    <3> DEFINE z == a - c - 1
    <3>1. z \in Nat /\ a = c + 1 + z OBVIOUS
    <3> HIDE DEF z
    <3>2. Unit * a = Unit * c + Unit + Unit * z /\ Unit * z \in Nat /\ Unit * c \in Int BY <1>1, <3>1
    <3> QED BY <1>1, <1>8, <2>1, <2>2, <3>2
  <2>4. ASSUME x >= Unit PROVE a >= 1
    <3> SUFFICES ASSUME a <= 0 PROVE FALSE OBVIOUS
    <3> DEFINE z == -a
    <3>1. z \in Nat /\ a = -z OBVIOUS
    <3> HIDE DEF z
    <3>2. Unit * a = -(Unit * z) /\ Unit * z \in Nat BY <1>1, <3>1
    <3> QED BY <1>1, <2>1, <2>4, <3>2
  <2> QED BY <2>1, <2>2, <2>3, <2>4
<1>9. ASSUME NEW p \in Int PROVE PercentileRank(p, T) \in 1..T
  <2>1. CASE p < 0 \/ R(p) < Unit \/ R(p) >= top BY <1>1, <1>6, <2>1
  <2>2. CASE ~(p < 0 \/ R(p) < Unit \/ R(p) >= top)
    <3>1. p \in Nat BY <2>2
    <3>2. R(p) \in Nat /\ IsFloat(R(p)) BY <1>7, <3>1
    <3>3. R(p) < top /\ R(p) >= Unit BY <1>1, <1>4, <2>2, <3>2
    <3>4. R(p) \div Unit \in Nat /\ R(p) \div Unit <= T
      <4> HIDE DEF R
      <4> QED BY <3>2, <3>3, BelowTotal
    <3>5. R(p) \div Unit >= 1
      <4> HIDE DEF R
      <4> QED BY <1>8, <3>2, <3>3
    <3>6. PercentileRank(p, T) = R(p) \div Unit BY <1>6, <2>2
    <3> HIDE DEF R
    <3> QED BY <1>1, <3>4, <3>5, <3>6
  <2> QED BY <2>1, <2>2
<1> HIDE DEF R, top
<1>10. ASSUME NEW p \in Int, p <= 0 PROVE PercentileRank(p, T) = 1
  <2>1. p < 0 \/ p = 0 BY <1>10
  <2> QED BY <1>6, <1>7, <2>1
<1>11. ASSUME NEW p \in Int, p >= 100 * Unit PROVE PercentileRank(p, T) = T
  <2>1. p \in Nat BY <1>1, <1>11
  <2>2. R(p) \in Nat /\ R(p) >= top BY <1>7, <1>11, <2>1
  <2>3. top >= Unit
    <3>1. Unit <= Unit * FloatTotal(T) /\ Unit * FloatTotal(T) = FloatTotal(T) * Unit BY <1>1, <1>3
    <3> QED BY <3>1 DEF top
  <2>4. ~(p < 0 \/ R(p) < Unit) BY <1>1, <1>4, <2>1, <2>2, <2>3
  <2> QED BY <1>6, <2>2, <2>4
<1>12. ASSUME NEW p \in Int, NEW q \in Int, p <= q
       PROVE  PercentileRank(p, T) <= PercentileRank(q, T)
  <2>1. PercentileRank(p, T) \in 1..T /\ PercentileRank(q, T) \in 1..T BY <1>9
  <2>2. CASE p < 0 \/ R(p) < Unit
    <3>1. PercentileRank(p, T) = 1 BY <1>6, <2>2
    <3> QED BY <2>1, <3>1
  <2>3. CASE ~(p < 0 \/ R(p) < Unit)
    <3>1. p \in Nat /\ q \in Nat BY <1>12, <2>3
    <3>2. R(p) \in Nat /\ R(q) \in Nat /\ R(p) <= R(q) BY <1>7, <1>12, <3>1
    <3>3. ~(q < 0 \/ R(q) < Unit) BY <1>1, <2>3, <3>1, <3>2
    <3>4. CASE R(q) >= top
      <4>1. PercentileRank(q, T) = T BY <1>6, <3>3, <3>4
      <4> QED BY <1>1, <2>1, <4>1
    <3>5. CASE ~(R(q) >= top)
      <4>1. ~(R(p) >= top) BY <1>4, <3>2, <3>5
      <4>2. PercentileRank(q, T) = R(q) \div Unit /\ PercentileRank(p, T) = R(p) \div Unit
        BY <1>6, <2>3, <3>3, <3>5, <4>1
      <4>3. R(p) \div Unit <= R(q) \div Unit BY <1>8, <3>2
      <4> QED BY <4>2, <4>3
    <3> QED BY <3>4, <3>5
  <2> QED BY <2>2, <2>3
<1>13. \A p \in Int \union {NaN} : PercentileRank(p, T) \in 1..T
  <2>1. 1 \in 1..T BY <1>1
  <2> QED BY <1>5, <1>9, <2>1, Zenon
<1> QED BY <1>5, <1>10, <1>11, <1>12, <1>13

-----------------------------------------------------------------------------
(* Sorting.                                                                 *)

\* R is a strict total order of 1..m.
Orders(R, m) ==
  /\ \A x \in 1..m : <<x, x>> \notin R
  /\ \A x, y \in 1..m : x # y => <<x, y>> \in R \/ <<y, x>> \in R
  /\ \A x, y, z \in 1..m : <<x, y>> \in R /\ <<y, z>> \in R => <<x, z>> \in R

\* o lists positions in that order.
Sorts(o, R, m) == o \in [1..m -> 1..m] /\ \A a, b \in 1..m : a < b => <<o[a], o[b]>> \in R

\* Inserting m + 1 into the list of the others.
LEMMA Insertion ==
  ASSUME NEW R, NEW m \in Nat, Orders(R, m + 1), NEW o, Sorts(o, R, m)
  PROVE  \E f : Sorts(f, R, m + 1)
<1> DEFINE z == m + 1
<1> DEFINE K == {a \in Nat : a = z \/ (a \in 1..m /\ <<z, o[a]>> \in R)}
<1>1. z \in K /\ K \in SUBSET Nat OBVIOUS
<1>2. PICK p \in K : \A k \in K : p <= k
  <2> HIDE DEF K
  <2> QED BY <1>1, LeastElement
<1>3. p \in 1..z BY <1>2
<1>4. \A a \in 1..m : o[a] \in 1..m /\ o[a] \in 1..z /\ o[a] # z BY DEF Sorts
<1>5. /\ \A x \in 1..z : <<x, x>> \notin R
      /\ \A x, y \in 1..z : x # y => <<x, y>> \in R \/ <<y, x>> \in R
      /\ \A x, y, w \in 1..z : <<x, y>> \in R /\ <<y, w>> \in R => <<x, w>> \in R
  BY DEF Orders
<1>6. \A a, b \in 1..m : a < b => <<o[a], o[b]>> \in R BY DEF Sorts
<1>7. z \in 1..z /\ z \in Nat /\ z = m + 1 OBVIOUS
<1>8. ASSUME NEW a \in 1..m, a < p PROVE <<o[a], z>> \in R
  <2>1. a \notin K BY <1>2, <1>3, <1>8
  <2>2. <<z, o[a]>> \notin R BY <2>1
  <2> HIDE DEF z, K
  <2> QED BY <1>4, <1>5, <1>7, <2>2
<1>9. ASSUME NEW a \in 1..m, p <= a PROVE <<z, o[a]>> \in R
  <2>1. p \in 1..m /\ p # z BY <1>3, <1>9
  <2>2. <<z, o[p]>> \in R BY <1>2, <2>1
  <2> HIDE DEF z, K
  <2>3. CASE p = a BY <2>2, <2>3
  <2>4. CASE p # a
    <3>1. p < a BY <1>9, <2>1, <2>4
    <3>2. <<o[p], o[a]>> \in R BY <1>6, <2>1, <3>1
    <3>3. o[p] \in 1..z /\ o[a] \in 1..z BY <1>4, <2>1
    <3> QED BY <1>5, <1>7, <2>2, <3>2, <3>3
  <2> QED BY <2>3, <2>4
<1> HIDE DEF K
<1> DEFINE f == [a \in 1..z |-> IF a < p THEN o[a] ELSE IF a = p THEN z ELSE o[a - 1]]
<1>10. ASSUME NEW a \in 1..z
       PROVE  /\ a < p => f[a] = o[a] /\ a \in 1..m
              /\ a = p => f[a] = z
              /\ p < a => f[a] = o[a - 1] /\ a - 1 \in 1..m /\ p <= a - 1
  BY <1>3
<1>11. f \in [1..z -> 1..z]
  <2> SUFFICES ASSUME NEW a \in 1..z
               PROVE  (IF a < p THEN o[a] ELSE IF a = p THEN z ELSE o[a - 1]) \in 1..z
    OBVIOUS
  <2>1. CASE a < p
    <3>1. a \in 1..m BY <1>3, <2>1
    <3> QED BY <1>4, <2>1, <3>1
  <2>2. CASE a = p BY <1>7, <2>2
  <2>3. CASE a > p
    <3>1. a - 1 \in 1..m BY <1>3, <2>3
    <3>2. o[a - 1] \in 1..z BY <1>4, <3>1
    <3> HIDE DEF z
    <3>3. ~(a < p) /\ a # p BY <1>3, <2>3
    <3> QED BY <3>2, <3>3
  <2> QED BY <1>3, <2>1, <2>2, <2>3
<1> HIDE DEF f
<1>12. ASSUME NEW a \in 1..z, NEW b \in 1..z, a < b PROVE <<f[a], f[b]>> \in R
  <2>1. CASE b < p
    <3>1. a < p /\ a \in 1..m /\ b \in 1..m BY <1>3, <1>12, <2>1
    <3>2. f[a] = o[a] /\ f[b] = o[b] BY <1>10, <2>1, <3>1
    <3>3. <<o[a], o[b]>> \in R BY <1>6, <1>12, <3>1
    <3> QED BY <3>2, <3>3
  <2>2. CASE b = p
    <3>1. a < p /\ a \in 1..m BY <1>3, <1>12, <2>2
    <3>2. f[a] = o[a] /\ f[b] = z BY <1>10, <2>2, <3>1
    <3> QED BY <1>8, <3>1, <3>2
  <2>3. CASE p < b
    <3>1. f[b] = o[b - 1] /\ b - 1 \in 1..m /\ p <= b - 1 BY <1>10, <2>3
    <3>2. CASE a < p
      <4>1. f[a] = o[a] /\ a \in 1..m /\ a < b - 1 BY <1>3, <1>10, <3>1, <3>2
      <4> QED BY <1>6, <3>1, <4>1
    <3>3. CASE a = p
      <4>1. f[a] = z BY <1>10, <3>3
      <4> QED BY <1>9, <3>1, <4>1
    <3>4. CASE p < a
      <4>1. f[a] = o[a - 1] /\ a - 1 \in 1..m /\ a - 1 < b - 1 BY <1>10, <1>12, <3>4
      <4> QED BY <1>6, <3>1, <4>1
    <3> QED BY <1>3, <3>2, <3>3, <3>4
  <2> QED BY <1>3, <2>1, <2>2, <2>3
<1>13. Sorts(f, R, z) BY <1>11, <1>12 DEF Sorts
<1> HIDE DEF z
<1>14. \E y : Sorts(y, R, z) BY <1>13
<1> QED BY <1>14 DEF z

\* Every strict total order of 1..m lists it.
LEMMA SortExists ==
  ASSUME NEW R, NEW m \in Nat, Orders(R, m)
  PROVE  \E o : Sorts(o, R, m)
<1> DEFINE S == {k \in Nat : k <= m => \E o : Sorts(o, R, k)}
<1>1. 0 \in S
  <2> DEFINE e == [a \in 1..0 |-> a]
  <2>1. Sorts(e, R, 0) BY DEF Sorts
  <2> HIDE DEF e
  <2>2. \E o : Sorts(o, R, 0) BY <2>1
  <2> QED BY <2>2
<1>2. ASSUME NEW k \in S PROVE k + 1 \in S
  <2>1. k \in Nat /\ k + 1 \in Nat OBVIOUS
  <2>2. ASSUME k + 1 <= m PROVE \E o : Sorts(o, R, k + 1)
    <3>1. k <= m /\ 1..(k + 1) \subseteq 1..m BY <2>1, <2>2
    <3>2. PICK o : Sorts(o, R, k) BY <3>1
    <3>3. Orders(R, k + 1) BY <3>1 DEF Orders
    <3> HIDE DEF S
    <3> QED BY <2>1, <3>2, <3>3, Insertion
  <2> QED BY <2>1, <2>2
<1> HIDE DEF S
<1>3. S = Nat
  <2>1. S \in SUBSET Nat BY DEF S
  <2> QED BY <1>1, <1>2, <2>1, SetInduction
<1>4. m \in S /\ m <= m BY <1>3
<1> QED BY <1>4 DEF S

Onto(o, m) == \A k \in 1..m : \E a \in 1..m : o[a] = k

\* A list in a strict total order orders the positions by it, and has them all.
LEMMA SortedList ==
  ASSUME NEW R, NEW m \in Nat, Orders(R, m), NEW o, Sorts(o, R, m)
  PROVE  (\A a, b \in 1..m : a < b <=> <<o[a], o[b]>> \in R) /\ Onto(o, m)
<1>1. /\ \A x \in 1..m : <<x, x>> \notin R
      /\ \A x, y, z \in 1..m : <<x, y>> \in R /\ <<y, z>> \in R => <<x, z>> \in R
  BY DEF Orders
<1>2. o \in [1..m -> 1..m] /\ \A a, b \in 1..m : a < b => <<o[a], o[b]>> \in R BY DEF Sorts
<1>3. \A a \in 1..m : o[a] \in 1..m BY <1>2
<1>4. ASSUME NEW a \in 1..m, NEW b \in 1..m, <<o[a], o[b]>> \in R PROVE a < b
  <2> SUFFICES ASSUME ~(a < b) PROVE FALSE OBVIOUS
  <2>1. CASE a = b BY <1>1, <1>3, <1>4, <2>1
  <2>2. CASE b < a
    <3>1. <<o[b], o[a]>> \in R BY <1>2, <2>2
    <3>2. <<o[a], o[a]>> \in R BY <1>1, <1>3, <1>4, <3>1
    <3> QED BY <1>1, <1>3, <3>2
  <2> QED BY <2>1, <2>2
<1>5. \A a, b \in 1..m : o[a] = o[b] => a = b
  <2> SUFFICES ASSUME NEW a \in 1..m, NEW b \in 1..m, o[a] = o[b], a # b PROVE FALSE OBVIOUS
  <2>1. a < b \/ b < a OBVIOUS
  <2>2. <<o[a], o[b]>> \in R \/ <<o[b], o[a]>> \in R BY <1>2, <2>1
  <2> QED BY <1>1, <1>3, <2>2
<1>6. Onto(o, m)
  <2> DEFINE D == 1..m
  <2>1. o \in Injection(D, D) BY <1>2, <1>5 DEF Injection, IsInjective
  <2>2. IsFiniteSet(D) BY FS_Interval
  <2> HIDE DEF D
  <2>3. o \in Surjection(D, D) BY <2>1, <2>2, FS_Injection
  <2>4. \A k \in D : \E a \in D : o[a] = k BY <2>3 DEF Surjection
  <2> QED BY <2>4 DEF D, Onto
<1> QED BY <1>2, <1>4, <1>6

\* slices.SortStableFunc gives a permutation of the positions that brings the
\* ranks into ascending order.
LEMMA StableOrderFacts ==
  ASSUME NEW t \in Seq(Nat), NEW m, m = Len(t), NEW o, o = StableOrder(t)
  PROVE  /\ o \in [1..m -> 1..m] /\ Onto(o, m)
         /\ \A a, b \in 1..m : o[a] = o[b] => a = b
         /\ \A a, b \in 1..m : a <= b => t[o[a]] <= t[o[b]]
<1> DEFINE D == 1..m
<1> DEFINE Less(x, y) == t[x] < t[y] \/ (t[x] = t[y] /\ x < y)
<1> DEFINE R == {u \in D \X D : Less(u[1], u[2])}
<1> DEFINE C(f) == \A a, b \in D : a < b <=> Less(f[a], f[b])
<1>1. m \in Nat /\ \A x \in D : t[x] \in Nat /\ x \in Nat OBVIOUS
<1>2. \A x, y \in D : <<x, y>> \in R <=> Less(x, y) OBVIOUS
<1>3. Orders(R, m)
  <2>1. \A x \in D : ~Less(x, x) BY <1>1
  <2>2. \A x, y \in D : x # y => Less(x, y) \/ Less(y, x) BY <1>1
  <2>3. \A x, y, z \in D : Less(x, y) /\ Less(y, z) => Less(x, z) BY <1>1
  <2> HIDE DEF R, Less
  <2> QED BY <1>2, <2>1, <2>2, <2>3 DEF Orders
<1>4. ASSUME NEW f \in [D -> D]
      PROVE  C(f) <=> \A a, b \in D : a < b <=> <<f[a], f[b]>> \in R
  <2>1. \A a \in D : f[a] \in D OBVIOUS
  <2>2. \A a, b \in D : <<f[a], f[b]>> \in R <=> Less(f[a], f[b])
    <3> HIDE DEF R, Less, D
    <3> QED BY <1>2, <2>1
  <2> HIDE DEF R, Less, D
  <2> QED BY <2>2
<1>5. \E f \in [D -> D] : C(f)
  <2>1. PICK f : Sorts(f, R, m)
    <3> HIDE DEF R
    <3> QED BY <1>1, <1>3, SortExists
  <2>2. f \in [D -> D] BY <2>1 DEF Sorts
  <2>3. \A a, b \in D : a < b <=> <<f[a], f[b]>> \in R
    <3> HIDE DEF R
    <3> QED BY <1>1, <1>3, <2>1, SortedList
  <2> HIDE DEF C, R, D
  <2> QED BY <1>4, <2>2, <2>3
<1>6. o = CHOOSE f \in [D -> D] : C(f) BY DEF StableOrder
<1>7. o \in [D -> D] /\ C(o)
  <2> HIDE DEF C, D
  <2> QED BY <1>5, <1>6
<1>8. Sorts(o, R, m)
  <2> HIDE DEF R, Less
  <2> QED BY <1>4, <1>7 DEF Sorts
<1>9. Onto(o, m)
  <2> HIDE DEF R
  <2> QED BY <1>1, <1>3, <1>8, SortedList
<1>10. \A a \in D : o[a] \in D /\ t[o[a]] \in Nat BY <1>1, <1>7
<1>11. \A a, b \in 1..m : o[a] = o[b] => a = b
  <2> SUFFICES ASSUME NEW a \in D, NEW b \in D, o[a] = o[b], a # b PROVE FALSE OBVIOUS
  <2>1. a < b \/ b < a BY <1>1
  <2>2. Less(o[a], o[b]) \/ Less(o[b], o[a]) BY <1>7, <2>1
  <2> QED BY <1>10, <2>2
<1>12. \A a, b \in 1..m : a <= b => t[o[a]] <= t[o[b]]
  <2> SUFFICES ASSUME NEW a \in D, NEW b \in D, a <= b PROVE t[o[a]] <= t[o[b]] OBVIOUS
  <2>1. CASE a = b BY <1>10, <2>1
  <2>2. CASE a # b
    <3>1. a < b BY <1>1, <2>2
    <3>2. Less(o[a], o[b]) BY <1>7, <3>1
    <3> QED BY <1>10, <3>2
  <2> QED BY <2>1, <2>2
<1> QED BY <1>7, <1>9, <1>11, <1>12

Floats == Int \union {NaN}

\* The order of sort.Float64s.
LEMMA FloatLessFacts ==
  /\ \A p \in Floats : ~FloatLess(p, p)
  /\ \A p, q \in Floats : ~(FloatLess(p, q) /\ FloatLess(q, p))
  /\ \A p, q, r \in Floats : FloatLess(p, q) /\ ~FloatLess(r, q) => FloatLess(p, r)
  /\ \A p, q, r \in Floats : ~FloatLess(q, p) /\ FloatLess(q, r) => FloatLess(p, r)
  /\ \A p, q, r \in Floats : ~FloatLess(q, p) /\ ~FloatLess(r, q) => ~FloatLess(r, p)
  /\ \A p, q \in Floats : FloatLess(p, q) <=> q \in Int /\ (p \in Int => p < q)
<1>1. \A p, q \in Floats : FloatLess(p, q) <=> q \in Int /\ (p \in Int => p < q)
  BY RequestAssumption DEF FloatLess, Floats
<1> QED BY <1>1

\* sort.Float64s permutes the percentiles; NaN comes first.
LEMMA SortedFloatsFacts ==
  ASSUME NEW s \in Seq(Floats), NEW m, m = Len(s), NEW v, v = SortedFloats(s)
  PROVE  /\ v \in Seq(Floats) /\ Len(v) = m
         /\ Keys(v) = Keys(s)
         /\ \A a, b \in 1..m : a <= b => ~FloatLess(v[b], v[a])
<1> DEFINE D == 1..m
<1> DEFINE Less(x, y) == FloatLess(s[x], s[y]) \/ (~FloatLess(s[y], s[x]) /\ x < y)
<1> DEFINE R == {u \in D \X D : Less(u[1], u[2])}
<1> DEFINE C(f) == \A a, b \in D : a < b <=> Less(f[a], f[b])
<1>1. m \in Nat /\ \A x \in D : s[x] \in Floats /\ x \in Nat OBVIOUS
<1>2. \A x, y \in D : <<x, y>> \in R <=> Less(x, y) OBVIOUS
<1>3. Orders(R, m)
  <2>1. \A x \in D : ~Less(x, x) BY <1>1, FloatLessFacts
  <2>2. \A x, y \in D : x # y => Less(x, y) \/ Less(y, x) BY <1>1
  <2>3. ASSUME NEW x \in D, NEW y \in D, NEW z \in D, Less(x, y), Less(y, z) PROVE Less(x, z)
    <3>1. s[x] \in Floats /\ s[y] \in Floats /\ s[z] \in Floats /\ x \in Nat /\ y \in Nat /\ z \in Nat BY <1>1
    <3>2. CASE FloatLess(s[x], s[y])
      <4>1. ~FloatLess(s[z], s[y]) BY <2>3, <3>1, FloatLessFacts
      <4>2. FloatLess(s[x], s[z]) BY <3>1, <3>2, <4>1, FloatLessFacts
      <4> QED BY <4>2
    <3>3. CASE ~FloatLess(s[y], s[x]) /\ x < y
      <4>1. CASE FloatLess(s[y], s[z])
        <5>1. FloatLess(s[x], s[z]) BY <3>1, <3>3, <4>1, FloatLessFacts
        <5> QED BY <5>1
      <4>2. CASE ~FloatLess(s[z], s[y]) /\ y < z
        <5>1. ~FloatLess(s[z], s[x]) BY <3>1, <3>3, <4>2, FloatLessFacts
        <5>2. x < z BY <3>1, <3>3, <4>2
        <5> QED BY <5>1, <5>2
      <4> QED BY <2>3, <4>1, <4>2
    <3> QED BY <2>3, <3>2, <3>3
  <2> HIDE DEF R, Less
  <2> QED BY <1>2, <2>1, <2>2, <2>3 DEF Orders
<1>4. ASSUME NEW f \in [D -> D]
      PROVE  C(f) <=> \A a, b \in D : a < b <=> <<f[a], f[b]>> \in R
  <2>1. \A a \in D : f[a] \in D OBVIOUS
  <2>2. \A a, b \in D : <<f[a], f[b]>> \in R <=> Less(f[a], f[b])
    <3> HIDE DEF R, Less, D
    <3> QED BY <1>2, <2>1
  <2> HIDE DEF R, Less, D
  <2> QED BY <2>2
<1>5. \E f \in [D -> D] : C(f)
  <2>1. PICK f : Sorts(f, R, m)
    <3> HIDE DEF R
    <3> QED BY <1>1, <1>3, SortExists
  <2>2. f \in [D -> D] BY <2>1 DEF Sorts
  <2>3. \A a, b \in D : a < b <=> <<f[a], f[b]>> \in R
    <3> HIDE DEF R
    <3> QED BY <1>1, <1>3, <2>1, SortedList
  <2> HIDE DEF C, R, D
  <2> QED BY <1>4, <2>2, <2>3
<1> DEFINE o == CHOOSE f \in [D -> D] : C(f)
<1>6. o \in [D -> D] /\ C(o)
  <2> HIDE DEF C, D
  <2> QED BY <1>5
<1>7. v = [k \in D |-> s[o[k]]] BY DEF SortedFloats
<1> HIDE DEF o
<1>8. Sorts(o, R, m)
  <2> HIDE DEF R, Less
  <2> QED BY <1>4, <1>6 DEF Sorts
<1>9. Onto(o, m)
  <2> HIDE DEF R
  <2> QED BY <1>1, <1>3, <1>8, SortedList
<1>10. \A a \in D : o[a] \in D /\ v[a] = s[o[a]] /\ v[a] \in Floats BY <1>1, <1>6, <1>7
<1>11. v \in Seq(Floats) /\ Len(v) = m
  <2>1. v \in [1..m -> Floats] BY <1>7, <1>10
  <2> QED BY <1>1, <2>1
<1>12. Keys(v) = Keys(s)
  <2>1. {v[k] : k \in D} = {s[k] : k \in D}
    <3>1. ASSUME NEW x \in {v[k] : k \in D} PROVE x \in {s[k] : k \in D}
      <4>1. PICK k \in D : x = v[k] OBVIOUS
      <4> HIDE DEF D
      <4> QED BY <1>10, <4>1
    <3>2. ASSUME NEW x \in {s[k] : k \in D} PROVE x \in {v[k] : k \in D}
      <4>1. PICK k \in D : x = s[k] OBVIOUS
      <4>2. PICK a \in D : o[a] = k BY <1>9 DEF Onto
      <4> HIDE DEF D
      <4> QED BY <1>10, <4>1, <4>2
    <3> QED BY <3>1, <3>2
  <2> QED BY <1>11, <2>1 DEF Keys
<1>13. ASSUME NEW a \in D, NEW b \in D, a <= b PROVE ~FloatLess(v[b], v[a])
  <2>1. CASE a = b BY <1>10, <2>1, FloatLessFacts
  <2>2. CASE a # b
    <3>1. a < b BY <1>1, <1>13, <2>2
    <3>2. Less(o[a], o[b]) BY <1>6, <3>1
    <3>3. ~FloatLess(s[o[b]], s[o[a]]) BY <1>1, <1>10, <3>2, FloatLessFacts
    <3> QED BY <1>10, <3>3
  <2> QED BY <2>1, <2>2
<1> QED BY <1>11, <1>12, <1>13

-----------------------------------------------------------------------------
(* One rank: the position at which the running count reaches it.            *)

\* A rank up to the total has one such position, and no position before it reaches
\* the rank.
LEMMA RankReached ==
  ASSUME counts \in CountArrays, NEW r \in 1..totalCount
  PROVE  \E p \in 0..(n - 1) :
           /\ FirstReaching(p, r)
           /\ \A k \in 0..(n - 1) : PrefixSum(counts)[k + 1] >= r <=> p <= k
           /\ \A k \in 0..(n - 1) : FirstReaching(k, r) => k = p
<1> DEFINE S == PrefixSum(counts)
<1>1. n \in Nat /\ S[0] = 0 BY CountsAssumption, SumFacts
<1>2. \A a \in 0..n : S[a] \in Nat BY SumFacts
<1>3. \A a \in 0..n : \A b \in 0..a : S[b] <= S[a] BY SumFacts
<1>4. r \in Nat /\ r >= 1 /\ r <= S[n]
  <2>1. S[n] \in Nat BY <1>1, <1>2
  <2> QED BY <2>1 DEF totalCount
<1> HIDE DEF S
<1> DEFINE K == {k \in Nat : k < n /\ S[k + 1] >= r}
<1>5. n - 1 \in K
  <2>1. n # 0 BY <1>1, <1>4
  <2>2. n - 1 \in Nat /\ (n - 1) + 1 = n BY <1>1, <2>1
  <2> QED BY <1>1, <1>4, <2>2
<1>6. PICK p \in K : \A k \in K : p <= k
  <2>1. K \in SUBSET Nat /\ K # {} BY <1>5
  <2> HIDE DEF K
  <2> QED BY <2>1, LeastElement
<1>7. p \in 0..(n - 1) /\ p \in Nat /\ p + 1 \in 0..n /\ p \in 0..n /\ S[p + 1] >= r BY <1>1, <1>6
<1>8. S[p] < r
  <2>1. CASE p = 0 BY <1>1, <1>4, <2>1
  <2>2. CASE p # 0
    <3>1. p - 1 \in Nat /\ p - 1 < n /\ (p - 1) + 1 = p /\ ~(p <= p - 1) BY <1>1, <1>7, <2>2
    <3>2. p - 1 \notin K BY <1>6, <3>1
    <3>3. ~(S[p] >= r) BY <3>1, <3>2
    <3> QED BY <1>2, <1>4, <1>7, <3>3
  <2> QED BY <2>1, <2>2
<1>9. ASSUME NEW k \in 0..(n - 1) PROVE S[k + 1] >= r <=> p <= k
  <2>1. k \in Nat /\ k < n /\ k + 1 \in 0..n BY <1>1
  <2>2. S[k + 1] >= r => p <= k BY <1>6, <2>1
  <2>3. ASSUME p <= k PROVE S[k + 1] >= r
    <3>1. p + 1 \in 0..(k + 1) BY <1>7, <2>1, <2>3
    <3>2. S[p + 1] <= S[k + 1] BY <1>3, <2>1, <3>1
    <3> QED BY <1>2, <1>4, <1>7, <2>1, <3>2
  <2> QED BY <2>2, <2>3
<1>10. ASSUME NEW k \in 0..(n - 1), S[k] < r, r <= S[k + 1] PROVE k = p
  <2>1. k \in 0..n /\ k + 1 \in 0..n /\ k \in Nat BY <1>1
  <2>2. S[k] \in Nat /\ S[k + 1] \in Nat BY <1>2, <2>1
  <2>3. S[k + 1] >= r BY <1>4, <1>10, <2>2
  <2>4. p <= k BY <1>9, <2>3
  <2>5. ASSUME p < k PROVE FALSE
    <3>1. p + 1 \in 0..k BY <1>7, <2>1, <2>5
    <3>2. S[p + 1] <= S[k] /\ S[p + 1] \in Nat BY <1>2, <1>3, <1>7, <2>1, <3>1
    <3> QED BY <1>4, <1>7, <1>10, <2>2, <3>2
  <2> QED BY <1>7, <2>1, <2>4, <2>5
<1>11. r <= S[p + 1]
  <2>1. S[p + 1] \in Nat BY <1>2, <1>7
  <2> QED BY <1>4, <1>7, <2>1
<1>12. FirstReaching(p, r) BY <1>7, <1>8, <1>11 DEF FirstReaching, S
<1>13. \A k \in 0..(n - 1) : FirstReaching(k, r) => k = p BY <1>10 DEF FirstReaching, S
<1>14. \A k \in 0..(n - 1) : PrefixSum(counts)[k + 1] >= r <=> p <= k BY <1>9 DEF S
<1> QED BY <1>7, <1>12, <1>13, <1>14

\* The position of rank r.
Position(r) == CHOOSE k \in 0..(n - 1) : FirstReaching(k, r)

LEMMA PositionFacts ==
  ASSUME counts \in CountArrays, NEW r \in 1..totalCount
  PROVE  /\ Position(r) \in 0..(n - 1)
         /\ FirstReaching(Position(r), r)
         /\ \A k \in 0..(n - 1) : PrefixSum(counts)[k + 1] >= r <=> Position(r) <= k
         /\ \A k : FirstReaching(k, r) => k = Position(r)
<1>1. PICK p \in 0..(n - 1) :
         /\ FirstReaching(p, r)
         /\ \A k \in 0..(n - 1) : PrefixSum(counts)[k + 1] >= r <=> p <= k
         /\ \A k \in 0..(n - 1) : FirstReaching(k, r) => k = p
  BY RankReached
<1>2. Position(r) \in 0..(n - 1) /\ FirstReaching(Position(r), r) BY <1>1, Zenon DEF Position
<1>3. Position(r) = p BY <1>1, <1>2, Zenon
<1>4. \A k : FirstReaching(k, r) => k \in 0..(n - 1) BY DEF FirstReaching
<1> QED BY <1>1, <1>2, <1>3, <1>4, Zenon

\* A rank is not before a smaller one.
LEMMA PositionMonotone ==
  ASSUME counts \in CountArrays, NEW r \in 1..totalCount, NEW q \in 1..totalCount, r <= q
  PROVE  Position(r) <= Position(q)
<1> DEFINE p == Position(q)
<1>1. p \in 0..(n - 1) /\ PrefixSum(counts)[p + 1] >= q
  <2>1. p \in 0..(n - 1) /\ p <= p BY PositionFacts, CountsAssumption
  <2> QED BY <2>1, PositionFacts
<1>2. n \in Nat /\ p + 1 \in 0..n BY <1>1, CountsAssumption
<1>3. PrefixSum(counts)[p + 1] \in Nat /\ totalCount \in Nat
  <2>1. \A a \in 0..n : PrefixSum(counts)[a] \in Nat BY SumFacts
  <2> QED BY <1>2, <2>1 DEF totalCount
<1>4. PrefixSum(counts)[p + 1] >= r BY <1>1, <1>3
<1> HIDE DEF p
<1>5. Position(r) <= p BY <1>1, <1>4, PositionFacts
<1> QED BY <1>5 DEF p

\* getValueFromIdxUpToCount finds the position: the block, or the tail, in which it
\* looks holds the first position that reaches the rank.
LEMMA CrossingHolds ==
  ASSUME counts \in CountArrays, NEW r \in 1..totalCount
  PROVE  Position(r) \in Crossing(r) /\ Crossing(r) \subseteq 0..(n - 1)
<1> DEFINE S == PrefixSum(counts)
<1> DEFINE B == ScanBlock
<1> DEFINE p == Position(r)
<1>1. n \in Nat /\ B \in Nat \ {0} BY CountsAssumption, ScanAssumption
<1>2. p \in 0..(n - 1) BY PositionFacts
<1>3. \A k \in 0..(n - 1) : S[k + 1] >= r <=> p <= k BY PositionFacts
<1> DEFINE reach == {b \in Blocks : S[b + B] >= r}
<1> DEFINE first == CHOOSE b \in reach : \A c \in reach : b <= c
<1>4. Crossing(r) = IF reach # {} THEN first..(first + B - 1)
                    ELSE {k \in 0..(n - 1) : \A b \in Blocks : k >= b + B}
  BY DEF Crossing
<1>5. \A b : b \in Blocks <=> b \in 0..(n - B) /\ b % B = 0 BY DEF Blocks
<1> HIDE DEF S, B, p
<1>6. ASSUME NEW b \in Blocks PROVE b \in Nat /\ (S[b + B] >= r <=> p <= b + B - 1)
  <2>1. b \in 0..(n - B) BY <1>5
  <2>2. b \in Nat /\ b + B - 1 \in 0..(n - 1) /\ (b + B - 1) + 1 = b + B BY <1>1, <2>1
  <2>3. S[(b + B - 1) + 1] >= r <=> p <= b + B - 1 BY <1>3, <2>2
  <2> QED BY <2>2, <2>3
<1>7. CASE reach = {}
  <2>1. ASSUME NEW b \in Blocks PROVE p >= b + B
    <3>1. ~(S[b + B] >= r) BY <1>7
    <3>2. b \in Nat /\ ~(p <= b + B - 1) BY <1>6, <3>1
    <3> QED BY <1>1, <1>2, <3>2
  <2>2. p \in {k \in 0..(n - 1) : \A b \in Blocks : k >= b + B} BY <1>2, <2>1
  <2> QED BY <1>4, <1>7, <2>2 DEF p
<1>8. CASE reach # {}
  <2>1. reach \in SUBSET Nat BY <1>6
  <2>2. first \in reach /\ \A c \in reach : first <= c
    <3> HIDE DEF reach
    <3>1. \E b \in reach : \A c \in reach : b <= c BY <1>8, <2>1, LeastElement
    <3> QED BY <3>1, Zenon
  <2> HIDE DEF first
  <2>3. first \in Blocks /\ S[first + B] >= r BY <2>2
  <2>4. first \in Nat /\ p <= first + B - 1 /\ first \in 0..(n - B) /\ first % B = 0 BY <1>5, <1>6, <2>3
  <2>5. first <= p
    <3>1. CASE first < B
      <4>1. PICK q \in Int : first = B * q + 0
        <5>1. first \in Int BY <2>4
        <5>2. first = B * (first \div B) + (first % B) /\ first \div B \in Int BY <1>1, <5>1, DivMod, Zenon
        <5>3. PICK y \in Int : y = first \div B BY <5>2
        <5> QED BY <2>4, <5>2, <5>3
      <4>2. first \in 0..(B - 1) /\ first = B * 0 + first /\ 0 \in 0..(B - 1) /\ 0 \in Int BY <1>1, <2>4, <3>1
      <4>3. B * q + 0 = B * 0 + first BY <4>1, <4>2
      <4>4. 0 = first BY <1>1, <4>1, <4>2, <4>3, DivModUnique
      <4> QED BY <1>2, <4>4
    <3>2. CASE first >= B
      <4> DEFINE b == first - B
      <4>1. b \in Nat /\ b \in 0..(n - B) /\ b < first /\ b + B = first BY <1>1, <2>4, <3>2
      <4>2. b % B = 0
        <5>1. first \in Int BY <2>4
        <5>2. first = B * (first \div B) + (first % B) /\ first \div B \in Int BY <1>1, <5>1, DivMod, Zenon
        <5>3. PICK y \in Int : y = first \div B BY <5>2
        <5>4. first = B * y BY <1>1, <2>4, <5>2, <5>3
        <5>5. b = B * (y - 1) + 0 /\ y - 1 \in Int /\ 0 \in 0..(B - 1) BY <1>1, <5>4
        <5> HIDE DEF b
        <5>6. (B * (y - 1) + 0) % B = 0 BY <1>1, <5>5, ModOf
        <5> QED BY <5>5, <5>6
      <4>3. b \in Blocks BY <1>5, <4>1, <4>2
      <4>4. b \notin reach
        <5> HIDE DEF reach, b
        <5>1. ~(first <= b) BY <2>4, <4>1
        <5> QED BY <2>2, <5>1
      <4>5. ~(S[b + B] >= r)
        <5> HIDE DEF b
        <5> QED BY <4>3, <4>4
      <4>6. ~(p <= b + B - 1)
        <5> HIDE DEF b
        <5> QED BY <1>6, <4>3, <4>5
      <4> HIDE DEF b
      <4> QED BY <1>1, <1>2, <2>4, <4>1, <4>6
    <3> QED BY <1>1, <2>4, <3>1, <3>2
  <2>6. p \in first..(first + B - 1) /\ first..(first + B - 1) \subseteq 0..(n - 1) BY <1>1, <1>2, <2>4, <2>5
  <2>7. Crossing(r) = first..(first + B - 1) BY <1>4, <1>8 DEF first
  <2> QED BY <2>6, <2>7 DEF p
<1> QED BY <1>7, <1>8 DEF p

LEMMA OneValue ==
  ASSUME counts \in CountArrays, NEW r \in 1..totalCount
  PROVE  GetValueFromIdxUpToCount(r) = ValueFromFlatIndex(g, Position(r))
<1> DEFINE p == Position(r)
<1> DEFINE hits == {k \in Crossing(r) : PrefixSum(counts)[k + 1] >= r}
<1>1. p \in Crossing(r) /\ Crossing(r) \subseteq 0..(n - 1) BY CrossingHolds
<1>2. \A k \in 0..(n - 1) : PrefixSum(counts)[k + 1] >= r <=> p <= k BY PositionFacts
<1>3. p \in 0..(n - 1) /\ p <= p /\ n \in Nat BY PositionFacts, CountsAssumption
<1> HIDE DEF p
<1>4. PrefixSum(counts)[p + 1] >= r BY <1>2, <1>3
<1>5. p \in hits /\ \A k \in hits : p <= k /\ k \in Int BY <1>1, <1>2, <1>3, <1>4
<1>6. GetValueFromIdxUpToCount(r) =
        IF hits = {} THEN 0 ELSE ValueFromFlatIndex(g, CHOOSE k \in hits : \A l \in hits : k <= l)
  BY DEF GetValueFromIdxUpToCount
<1> HIDE DEF hits
<1> DEFINE m == CHOOSE k \in hits : \A l \in hits : k <= l
<1>7. m \in hits /\ \A l \in hits : m <= l BY <1>5, Zenon
<1> HIDE DEF m
<1>8. m = p BY <1>3, <1>5, <1>7
<1> QED BY <1>5, <1>6, <1>8 DEF m, p

-----------------------------------------------------------------------------
(* The calls.                                                               *)

\* What is known of a call while its ranks are scanned: order is a permutation of
\* its percentiles and the k-th rank is that of the order[k]-th percentile.
Ranked ==
  /\ api \in {"slice", "map"} /\ totalCount # 0 /\ Len(percentiles) = Len(asked)
  /\ order \in [1..Len(asked) -> 1..Len(asked)] /\ Onto(order, Len(asked))
  /\ \A a, b \in 1..Len(asked) : order[a] = order[b] => a = b
  /\ api = "map" => \A k \in 1..Len(asked) : order[k] = k
  /\ \A k \in 1..Len(asked) : asked[k] = PercentileRank(percentiles[order[k]], totalCount)

\* A returned call gave every percentile its value.
Answered ==
  IF api = "map" THEN result = [p \in Keys(percentiles) |-> Reference(p)]
  ELSE result = [k \in 1..Len(percentiles) |-> Reference(percentiles[k])]

CallInv ==
  /\ ScanInv
  /\ stage \in {"idle", "direct", "scanning", "returned"} /\ api \in {"none", "slice", "map", "one"}
  /\ percentiles \in Seq(Floats)
  /\ stage = "scanning" => Ranked
  /\ stage = "returned" => Answered

LEMMA TotalFacts ==
  ASSUME ScanInv
  PROVE  /\ counts \in CountArrays /\ totalCount \in Nat
         /\ totalCount # 0 => Fits(totalCount)
<1>1. counts \in CountArrays /\ n \in Nat BY CountsAssumption DEF ScanInv, ScanTypeOK
<1>2. \A a \in 0..n : PrefixSum(counts)[a] \in Nat BY <1>1, SumFacts
<1>3. totalCount \in Nat BY <1>1, <1>2 DEF totalCount
<1>4. 4 * Unit * totalCount <= Limit BY <1>1, TotalAssumption DEF totalCount, Limit
<1> QED BY <1>1, <1>3, <1>4 DEF Fits

\* The value of a percentile of a histogram that is not empty.
LEMMA ReferenceIs ==
  ASSUME ScanInv, NEW p \in Floats, totalCount # 0
  PROVE  /\ PercentileRank(p, totalCount) \in 1..totalCount
         /\ Reference(p) = ValueAt(Position(PercentileRank(p, totalCount)), p)
<1>1. Fits(totalCount) BY TotalFacts
<1>2. PercentileRank(p, totalCount) \in 1..totalCount BY <1>1, RankFactsOf DEF Floats
<1> QED BY <1>2 DEF Reference, Position

\* A list that is checked to be in order is in order.
LEMMA AscendingFacts ==
  ASSUME NEW t \in Seq(Nat), Ascending(t)
  PROVE  \A a \in 1..Len(t) : \A b \in a..Len(t) : t[a] <= t[b]
<1> DEFINE m == Len(t)
<1>1. m \in Nat /\ \A k \in 1..m : t[k] \in Nat OBVIOUS
<1>2. \A k \in 2..m : t[k - 1] <= t[k] BY DEF Ascending
<1> HIDE DEF m
<1> SUFFICES ASSUME NEW a \in 1..m PROVE \A b \in a..m : t[a] <= t[b] BY DEF m
<1> DEFINE S == {k \in Nat : a + k <= m => t[a] <= t[a + k]}
<1>3. 0 \in S BY <1>1
<1>4. ASSUME NEW k \in S PROVE k + 1 \in S
  <2>1. k \in Nat /\ a \in Nat OBVIOUS
  <2>2. ASSUME a + (k + 1) <= m PROVE t[a] <= t[a + (k + 1)]
    <3>1. a + k \in 1..m /\ a + (k + 1) \in 2..m /\ (a + (k + 1)) - 1 = a + k /\ a + (k + 1) \in 1..m
      BY <1>1, <2>1, <2>2
    <3>2. t[a + k] <= t[a + (k + 1)] BY <1>2, <3>1
    <3>3. t[a] <= t[a + k] BY <3>1
    <3>4. t[a] \in Nat /\ t[a + k] \in Nat /\ t[a + (k + 1)] \in Nat BY <1>1, <3>1
    <3>5. \A x, y, z \in Nat : x <= y /\ y <= z => x <= z OBVIOUS
    <3> QED BY <3>2, <3>3, <3>4, <3>5, Zenon
  <2> QED BY <2>1, <2>2
<1>5. S = Nat
  <2>1. S \in SUBSET Nat OBVIOUS
  <2> HIDE DEF S
  <2> QED BY <1>3, <1>4, <2>1, SetInduction
<1>6. ASSUME NEW b \in a..m PROVE t[a] <= t[b]
  <2>1. b - a \in Nat /\ a + (b - a) = b /\ b <= m BY <1>1
  <2>2. b - a \in S BY <1>5, <2>1
  <2> QED BY <2>1, <2>2
<1> QED BY <1>6

\* The ranks of a list of percentiles.
LEMMA RanksFacts ==
  ASSUME ScanInv, totalCount # 0, NEW s \in Seq(Floats)
  PROVE  /\ Ranks(s) \in Seq(Nat) /\ Len(Ranks(s)) = Len(s)
         /\ \A k \in 1..Len(s) : /\ Ranks(s)[k] = PercentileRank(s[k], totalCount)
                                 /\ Ranks(s)[k] \in 1..totalCount
<1>1. \A k \in 1..Len(s) : s[k] \in Floats OBVIOUS
<1>2. \A k \in 1..Len(s) : PercentileRank(s[k], totalCount) \in 1..totalCount BY <1>1, ReferenceIs
<1>3. totalCount \in Nat BY TotalFacts
<1>4. Ranks(s) \in [1..Len(s) -> Nat] BY <1>2, <1>3 DEF Ranks
<1>5. \A k \in 1..Len(s) : Ranks(s)[k] = PercentileRank(s[k], totalCount) BY DEF Ranks
<1> QED BY <1>2, <1>4, <1>5

\* The ranks t, brought into ascending order by o, are what scanTargets is given.
LEMMA OrderedRanks ==
  ASSUME NEW T \in Nat, NEW t \in Seq(Nat), \A k \in 1..Len(t) : t[k] \in 1..T,
         NEW o \in [1..Len(t) -> 1..Len(t)], \A a, b \in 1..Len(t) : a <= b => t[o[a]] <= t[o[b]]
  PROVE  /\ IsRankList([k \in 1..Len(t) |-> t[o[k]]])
         /\ Len([k \in 1..Len(t) |-> t[o[k]]]) = Len(t)
<1> DEFINE m == Len(t)
<1> DEFINE u == [k \in 1..m |-> t[o[k]]]
<1>1. m \in Nat /\ \A k \in 1..m : o[k] \in 1..m OBVIOUS
<1>2. \A k \in 1..m : u[k] = t[o[k]] /\ u[k] \in Nat /\ u[k] >= 1 BY <1>1
<1>3. u \in [1..m -> Nat] BY <1>2
<1>4. \A a, b \in 1..m : a <= b => u[a] <= u[b] BY <1>2
<1> HIDE DEF u, m
<1>5. u \in Seq(Nat) /\ Len(u) = m BY <1>1, <1>3
<1>6. \A k \in 1..Len(u) : u[k] >= 1 /\ \A l \in k..Len(u) : u[k] <= u[l]
  <2> SUFFICES ASSUME NEW k \in 1..m, NEW l \in k..m PROVE u[k] >= 1 /\ u[k] <= u[l] 
    <3>1. \A k \in 1..m : u[k] >= 1 BY <1>2
    <3> QED BY <1>5, <3>1
  <2>1. l \in 1..m /\ k <= l BY <1>1
  <2> QED BY <1>2, <1>4, <2>1
<1>7. IsRankList(u) BY <1>5, <1>6 DEF IsRankList
<1> QED BY <1>5, <1>7 DEF u, m

\* The scan of a call begins.
LEMMA ScanBegins ==
  ASSUME CallInv, totalCount # 0, NEW s \in Seq(Floats), NEW o,
         o \in [1..Len(s) -> 1..Len(s)], Onto(o, Len(s)),
         \A a, b \in 1..Len(s) : o[a] = o[b] => a = b,
         \A a, b \in 1..Len(s) : a <= b => Ranks(s)[o[a]] <= Ranks(s)[o[b]],
         api' \in {"slice", "map"}, api' = "map" => \A k \in 1..Len(s) : o[k] = k,
         percentiles' = s, Scan(Ranks(s), o)
  PROVE  CallInv'
<1> DEFINE t == Ranks(s)
<1> DEFINE u == [k \in 1..Len(t) |-> t[o[k]]]
<1>1. ScanInv /\ totalCount \in Nat BY TotalFacts DEF CallInv
<1>2. /\ t \in Seq(Nat) /\ Len(t) = Len(s)
      /\ \A k \in 1..Len(s) : t[k] = PercentileRank(s[k], totalCount) /\ t[k] \in 1..totalCount
  BY <1>1, RanksFacts
<1>3. stage' = "scanning" /\ order' = o /\ CallScan(u) BY DEF Scan
<1> HIDE DEF t
<1>4. IsRankList(u) /\ Len(u) = Len(t) BY <1>1, <1>2, OrderedRanks DEF t
<1>5. \A k \in 1..Len(s) : o[k] \in 1..Len(s) /\ u[k] = PercentileRank(s[o[k]], totalCount) BY <1>2
<1> HIDE DEF u
<1>6. ScanInv' BY <1>1, <1>3, <1>4, CallScanInv
<1>7. asked' = u /\ totalCount' = totalCount BY <1>3 DEF CallScan, totalCount
<1>8. Ranked' BY <1>2, <1>3, <1>4, <1>5, <1>7 DEF Ranked
<1> QED BY <1>3, <1>6, <1>8 DEF CallInv

\* Identity of the positions.
LEMMA InOrderFacts ==
  ASSUME NEW t, Len(t) \in Nat, NEW o, o = InOrder(t)
  PROVE  /\ o \in [1..Len(t) -> 1..Len(t)] /\ Onto(o, Len(t))
         /\ \A k \in 1..Len(t) : o[k] = k
<1>1. o \in [1..Len(t) -> 1..Len(t)] /\ \A k \in 1..Len(t) : o[k] = k BY DEF InOrder
<1> QED BY <1>1 DEF Onto

LEMMA Stays ==
  ASSUME ScanInv, UNCHANGED scanVars
  PROVE  ScanInv' /\ totalCount' = totalCount
BY DEF scanVars, ScanInv, ScanTypeOK, RunningSum, RanksAndPositions, FirstReaching, LeftOver, totalCount

LEMMA ReferenceStays ==
  ASSUME counts' = counts
  PROVE  /\ totalCount' = totalCount
         /\ \A p : Reference(p)' = Reference(p)
BY DEF Reference, FirstReaching, totalCount, ValueAt

LEMMA SliceInv ==
  ASSUME CallInv, NEW s \in Requests, ValueAtPercentilesSlice(s)
  PROVE  CallInv'
<1>1. s \in Seq(Floats) BY RequestAssumption DEF Floats
<1>2. api' = "slice" /\ percentiles' = s BY DEF ValueAtPercentilesSlice
<1>3. ScanInv /\ totalCount \in Nat BY TotalFacts DEF CallInv
<1>4. CASE (s = <<>> \/ totalCount = 0) /\ Returned([k \in 1..Len(s) |-> 0])
  <2>1. stage' = "returned" /\ result' = [k \in 1..Len(s) |-> 0] /\ UNCHANGED scanVars BY <1>4 DEF Returned
  <2>2. ScanInv' /\ totalCount' = totalCount BY <1>3, <2>1, Stays
  <2>3. \A k \in 1..Len(s) : Reference(s[k])' = 0
    <3>1. CASE s = <<>> BY <3>1
    <3>2. CASE totalCount = 0 BY <2>2, <3>2 DEF Reference
    <3> QED BY <1>4, <3>1, <3>2
  <2>4. result' = [k \in 1..Len(s) |-> Reference(s[k])'] BY <2>1, <2>3
  <2>5. Answered' BY <1>2, <2>4 DEF Answered
  <2> QED BY <1>1, <1>2, <2>1, <2>2, <2>5 DEF CallInv
<1>5. CASE s # <<>> /\ totalCount # 0
           /\ Scan(Ranks(s), IF Ascending(Ranks(s)) THEN InOrder(Ranks(s)) ELSE StableOrder(Ranks(s)))
  <2> DEFINE t == Ranks(s)
  <2> DEFINE o == IF Ascending(t) THEN InOrder(t) ELSE StableOrder(t)
  <2>1. t \in Seq(Nat) /\ Len(t) = Len(s) BY <1>1, <1>3, <1>5, RanksFacts
  <2>2. Len(t) \in Nat BY <2>1
  <2>3. /\ o \in [1..Len(t) -> 1..Len(t)] /\ Onto(o, Len(t))
        /\ \A a, b \in 1..Len(t) : o[a] = o[b] => a = b
        /\ \A a, b \in 1..Len(t) : a <= b => t[o[a]] <= t[o[b]]
    <3> HIDE DEF t
    <3>1. CASE Ascending(t)
      <4>1. o = InOrder(t) BY <3>1
      <4> HIDE DEF o
      <4>2. /\ o \in [1..Len(t) -> 1..Len(t)] /\ Onto(o, Len(t))
            /\ \A k \in 1..Len(t) : o[k] = k
        BY <2>2, <4>1, InOrderFacts
      <4>3. \A a, b \in 1..Len(t) : a <= b => t[a] <= t[b]
        <5> SUFFICES ASSUME NEW a \in 1..Len(t), NEW b \in 1..Len(t), a <= b PROVE t[a] <= t[b] OBVIOUS
        <5>1. b \in a..Len(t) BY <2>2
        <5> QED BY <2>1, <3>1, <5>1, AscendingFacts
      <4> QED BY <4>2, <4>3
    <3>2. CASE ~Ascending(t)
      <4>1. o = StableOrder(t) BY <3>2
      <4> HIDE DEF o
      <4> QED BY <2>1, <4>1, StableOrderFacts
    <3> QED BY <3>1, <3>2
  <2>4. Scan(t, o) BY <1>5
  <2> HIDE DEF o
  <2>5. \A a, b \in 1..Len(s) : a <= b => Ranks(s)[o[a]] <= Ranks(s)[o[b]] BY <2>1, <2>3 DEF t
  <2>6. Scan(Ranks(s), o) BY <2>4 DEF t
  <2>7. /\ o \in [1..Len(s) -> 1..Len(s)] /\ Onto(o, Len(s))
        /\ \A a, b \in 1..Len(s) : o[a] = o[b] => a = b
    BY <2>1, <2>3
  <2> QED BY <1>1, <1>2, <1>5, <2>5, <2>6, <2>7, ScanBegins
<1> QED BY <1>4, <1>5 DEF ValueAtPercentilesSlice

LEMMA MapInv ==
  ASSUME CallInv, NEW s \in Requests, ValueAtPercentiles(s)
  PROVE  CallInv'
<1> DEFINE v == SortedFloats(s)
<1>1. s \in Seq(Floats) BY RequestAssumption DEF Floats
<1>2. api' = "map" /\ percentiles' = v BY DEF ValueAtPercentiles
<1>3. ScanInv /\ totalCount \in Nat BY TotalFacts DEF CallInv
<1>4. (totalCount = 0 /\ Returned([p \in Keys(s) |-> 0])) \/ (totalCount # 0 /\ Scan(Ranks(v), InOrder(s)))
  BY DEF ValueAtPercentiles
<1>5. /\ v \in Seq(Floats) /\ Len(v) = Len(s)
      /\ Keys(v) = Keys(s)
      /\ \A a, b \in 1..Len(s) : a <= b => ~FloatLess(v[b], v[a])
  BY <1>1, SortedFloatsFacts
<1> HIDE DEF v
<1>6. CASE totalCount = 0 /\ Returned([p \in Keys(s) |-> 0])
  <2>1. stage' = "returned" /\ result' = [p \in Keys(s) |-> 0] /\ UNCHANGED scanVars BY <1>6 DEF Returned
  <2>2. ScanInv' /\ totalCount' = totalCount BY <1>3, <2>1, Stays
  <2>3. \A p : Reference(p)' = 0 BY <1>6, <2>2 DEF Reference
  <2>4. result' = [p \in Keys(v) |-> Reference(p)'] BY <1>5, <2>1, <2>3
  <2>5. Keys(percentiles)' = Keys(v) BY <1>2 DEF Keys
  <2>6. Answered' BY <1>2, <2>4, <2>5 DEF Answered
  <2> QED BY <1>2, <1>5, <2>1, <2>2, <2>6 DEF CallInv
<1>7. CASE totalCount # 0 /\ Scan(Ranks(v), InOrder(s))
  <2> DEFINE o == InOrder(s)
  <2>1. Len(s) \in Nat BY <1>1
  <2>2. o \in [1..Len(s) -> 1..Len(s)] /\ Onto(o, Len(s)) /\ \A k \in 1..Len(s) : o[k] = k
    BY <2>1, InOrderFacts
  <2>3. Scan(Ranks(v), o) BY <1>7
  <2> HIDE DEF o
  <2>4. Fits(totalCount) BY <1>3, <1>7, TotalFacts
  <2>5. /\ PercentileRank(NaN, totalCount) = 1
        /\ \A p \in Floats : PercentileRank(p, totalCount) \in 1..totalCount
        /\ \A p, q \in Int : p <= q => PercentileRank(p, totalCount) <= PercentileRank(q, totalCount)
    BY <2>4, RankFactsOf DEF Floats
  <2>6. ASSUME NEW p \in Floats, NEW q \in Floats, ~FloatLess(q, p)
        PROVE  PercentileRank(p, totalCount) <= PercentileRank(q, totalCount)
    <3>1. p = NaN \/ (p \in Int /\ q \in Int /\ p <= q)
      <4>1. p \in Floats /\ q \in Floats => (FloatLess(q, p) <=> p \in Int /\ (q \in Int => q < p))
        BY FloatLessFacts
      <4>2. p \in Int \/ p = NaN BY DEF Floats
      <4> QED BY <2>6, <4>1, <4>2
    <3>2. CASE p = NaN
      <4>1. PercentileRank(p, totalCount) = 1 /\ PercentileRank(q, totalCount) \in 1..totalCount BY <2>5, <3>2
      <4> QED BY <1>3, <4>1
    <3> QED BY <2>5, <3>1, <3>2
  <2>7. \A k \in 1..Len(v) : Ranks(v)[k] = PercentileRank(v[k], totalCount) BY <1>3, <1>5, <1>7, RanksFacts
  <2>8. \A k \in 1..Len(s) : v[k] \in Floats BY <1>5
  <2>9. \A a, b \in 1..Len(v) : a <= b => Ranks(v)[o[a]] <= Ranks(v)[o[b]]
    <3> SUFFICES ASSUME NEW a \in 1..Len(s), NEW b \in 1..Len(s), a <= b
                 PROVE  Ranks(v)[o[a]] <= Ranks(v)[o[b]]
      BY <1>5
    <3>1. o[a] = a /\ o[b] = b BY <2>2
    <3>2. ~FloatLess(v[b], v[a]) BY <1>5
    <3>3. PercentileRank(v[a], totalCount) <= PercentileRank(v[b], totalCount) BY <2>6, <2>8, <3>2
    <3> QED BY <1>5, <2>7, <3>1, <3>3
  <2>10. \A a, b \in 1..Len(v) : o[a] = o[b] => a = b BY <1>5, <2>2
  <2>11. o \in [1..Len(v) -> 1..Len(v)] /\ Onto(o, Len(v)) /\ \A k \in 1..Len(v) : o[k] = k BY <1>5, <2>2
  <2> QED BY <1>2, <1>5, <1>7, <2>3, <2>9, <2>10, <2>11, ScanBegins
<1> QED BY <1>4, <1>6, <1>7

\* ValueAtPercentile clamps its argument; the rank and the end of the cell stay.
LEMMA ClampedFacts ==
  ASSUME ScanInv, NEW p \in Floats, totalCount # 0
  PROVE  /\ PercentileRank(Clamped(p), totalCount) = PercentileRank(p, totalCount)
         /\ Clamped(p) = 0 <=> IsLow(p)
<1>1. NaN \notin Int /\ Unit \in Nat \ {0} BY RequestAssumption, OneFacts
<1>2. Fits(totalCount) BY TotalFacts
<1>3. /\ \A q \in Int : q <= 0 => PercentileRank(q, totalCount) = 1
      /\ \A q \in Int : q >= 100 * Unit => PercentileRank(q, totalCount) = totalCount
  BY <1>2, RankFactsOf
<1>4. CASE p = NaN
  <2>1. Clamped(p) = p BY <1>4 DEF Clamped
  <2>2. NaN # 0 BY <1>1
  <2> QED BY <1>4, <2>1, <2>2 DEF IsLow
<1>5. CASE p \in Int
  <2>1. Clamped(p) = IF p > 100 * Unit THEN 100 * Unit ELSE IF p < 0 THEN 0 ELSE p
    BY <1>1, <1>5 DEF Clamped
  <2>2. IsLow(p) <=> p <= 0 BY <1>1, <1>5 DEF IsLow
  <2>3. CASE p > 100 * Unit
    <3>1. Clamped(p) = 100 * Unit /\ 100 * Unit \in Int /\ p >= 100 * Unit /\ 100 * Unit >= 100 * Unit
      BY <1>1, <1>5, <2>1, <2>3
    <3>2. ~(p <= 0) /\ 100 * Unit # 0 BY <1>1, <1>5, <2>3
    <3> QED BY <1>3, <1>5, <2>2, <3>1, <3>2
  <2>4. CASE ~(p > 100 * Unit) /\ p < 0
    <3>1. Clamped(p) = 0 /\ p <= 0 /\ 0 \in Int /\ 0 <= 0 BY <1>5, <2>1, <2>4
    <3> QED BY <1>3, <1>5, <2>2, <3>1
  <2>5. CASE ~(p > 100 * Unit) /\ ~(p < 0)
    <3>1. Clamped(p) = p /\ (p = 0 <=> p <= 0) BY <1>5, <2>1, <2>5
    <3> QED BY <2>2, <3>1
  <2> QED BY <2>3, <2>4, <2>5
<1> QED BY <1>4, <1>5 DEF Floats

LEMMA OneInv ==
  ASSUME CallInv, NEW p \in Floats, ValueAtPercentile(p)
  PROVE  CallInv'
<1> DEFINE v == GetValueFromIdxUpToCount(PercentileRank(Clamped(p), totalCount))
<1> DEFINE x == IF totalCount = 0 THEN 0
                ELSE IF Clamped(p) = 0 THEN LowestEquivalent(g, v)
                ELSE HighestEquivalent(g, v)
<1>1. api' = "one" /\ percentiles' = <<p>> /\ Returned(<<x>>) BY DEF ValueAtPercentile
<1>2. ScanInv BY DEF CallInv
<1>3. stage' = "returned" /\ result' = <<x>> /\ UNCHANGED scanVars BY <1>1 DEF Returned
<1>4. ScanInv' /\ totalCount' = totalCount BY <1>2, <1>3, Stays
<1>5. x = Reference(p)
  <2>1. CASE totalCount = 0 BY <2>1 DEF Reference
  <2>2. CASE totalCount # 0
    <3> DEFINE r == PercentileRank(p, totalCount)
    <3>1. r \in 1..totalCount /\ Reference(p) = ValueAt(Position(r), p) BY <1>2, <2>2, ReferenceIs
    <3>2. PercentileRank(Clamped(p), totalCount) = r /\ (Clamped(p) = 0 <=> IsLow(p))
      BY <1>2, <2>2, ClampedFacts
    <3> HIDE DEF r
    <3>3. counts \in CountArrays BY <1>2, TotalFacts
    <3>4. v = ValueFromFlatIndex(g, Position(r)) BY <3>1, <3>2, <3>3, OneValue
    <3> HIDE DEF v
    <3> QED BY <2>2, <3>1, <3>2, <3>4 DEF ValueAt
  <2> QED BY <2>1, <2>2
<1> HIDE DEF x
<1>6. Reference(p)' = Reference(p)
  <2>1. counts' = counts BY <1>3 DEF scanVars
  <2> QED BY <2>1, ReferenceStays
<1>7. Len(<<p>>) = 1 /\ <<p>>[1] = p /\ <<p>> \in Seq(Floats) OBVIOUS
<1>8. <<x>> = [k \in 1..1 |-> x] OBVIOUS
<1>9. result' = [k \in 1..Len(percentiles) |-> Reference(percentiles[k])]'
  <2>1. \A k \in 1..1 : Reference(percentiles[k])' = x
    <3> SUFFICES ASSUME NEW k \in 1..1 PROVE Reference(percentiles[k])' = x OBVIOUS
    <3>1. percentiles'[k] = p BY <1>1, <1>7
    <3>2. Reference(percentiles[k])' = Reference(p)' BY <3>1 DEF Reference, ValueAt, FirstReaching, IsLow
    <3> QED BY <1>5, <1>6, <3>2
  <2>2. 1..Len(percentiles') = 1..1 BY <1>1, <1>7
  <2> QED BY <1>3, <1>8, <2>1, <2>2
<1>10. Answered' BY <1>1, <1>9 DEF Answered
<1> QED BY <1>1, <1>3, <1>4, <1>7, <1>10 DEF CallInv

\* Every rank of a scanned call was resolved, to the position of its percentile.
LEMMA AllResolved ==
  ASSUME ScanInv, Ranked, percentiles \in Seq(Floats), pc = "done"
  PROVE  /\ pos = Len(asked) /\ Len(asked) \in Nat
         /\ \A k \in 1..pos :
              /\ order[k] \in 1..Len(percentiles)
              /\ ValueAt(targets[k], percentiles[order[k]]) = Reference(percentiles[order[k]])
<1> DEFINE N == Len(asked)
<1>1. /\ IsRankList(asked) /\ Len(targets) = N /\ pos \in 0..Len(targets) /\ counts \in CountArrays
  BY DEF ScanInv, ScanTypeOK
<1>2. N \in Nat BY <1>1, RankFacts
<1>3. ScanExact BY ScanInvExact
<1>4. \A k \in 1..N : /\ order[k] \in 1..N /\ percentiles[order[k]] \in Floats
                      /\ asked[k] = PercentileRank(percentiles[order[k]], totalCount)
  BY DEF Ranked
<1>5. totalCount # 0 /\ Len(percentiles) = N BY DEF Ranked
<1>6. \A k \in 1..N : asked[k] \in 1..totalCount BY <1>4, <1>5, ReferenceIs
<1>7. ASSUME NEW k \in 1..N PROVE k <= pos /\ FirstReaching(targets[k], asked[k])
  <2>1. asked[k] \in 1..totalCount /\ totalCount \in Nat BY <1>6, TotalFacts
  <2>2. asked[k] <= PrefixSum(counts)[n] BY <2>1 DEF totalCount
  <2> QED BY <1>3, <2>2 DEF ScanExact
<1>8. pos = N
  <2>1. pos \in 0..N BY <1>1
  <2>2. CASE N = 0 BY <2>1, <2>2
  <2>3. CASE N # 0
    <3>1. N \in 1..N BY <1>2, <2>3
    <3>2. N <= pos BY <1>7, <3>1
    <3> QED BY <1>2, <2>1, <3>2
  <2> QED BY <2>2, <2>3
<1>9. ASSUME NEW k \in 1..N
      PROVE  ValueAt(targets[k], percentiles[order[k]]) = Reference(percentiles[order[k]])
  <2>1. targets[k] = Position(asked[k]) BY <1>1, <1>6, <1>7, PositionFacts
  <2>2. Reference(percentiles[order[k]]) = ValueAt(Position(asked[k]), percentiles[order[k]])
    BY <1>4, <1>5, ReferenceIs
  <2> QED BY <2>1, <2>2
<1> QED BY <1>2, <1>4, <1>5, <1>8, <1>9

LEMMA CollectInv ==
  ASSUME CallInv, CollectResults
  PROVE  CallInv'
<1> DEFINE N == Len(asked)
<1> DEFINE values == [k \in 1..pos |-> ValueAt(targets[k], percentiles[order[k]])]
<1> DEFINE P == percentiles
<1>1. /\ stage = "scanning" /\ pc = "done" /\ stage' = "returned"
      /\ UNCHANGED <<scanVars, api, percentiles, order>>
  BY DEF CollectResults
<1>2. ScanInv /\ Ranked /\ P \in Seq(Floats) BY <1>1 DEF CallInv
<1>3. /\ pos = N /\ N \in Nat
      /\ \A k \in 1..N : /\ order[k] \in 1..Len(P)
                         /\ ValueAt(targets[k], P[order[k]]) = Reference(P[order[k]])
  BY <1>1, <1>2, AllResolved
<1>4. \A k \in 1..N : values[k] = Reference(P[order[k]]) BY <1>3
<1>5. /\ api = "slice" => result' = [k \in 1..Len(P) |->
                            IF \E l \in 1..pos : order[l] = k
                            THEN values[CHOOSE l \in 1..pos : order[l] = k] ELSE 0]
      /\ api # "slice" => result' = [p \in Keys(P) |->
                            IF \E l \in 1..pos : P[l] = p
                            THEN values[CHOOSE l \in 1..pos : P[l] = p] ELSE 0]
  BY DEF CollectResults
<1> HIDE DEF values
<1>6. Len(P) = N BY <1>2 DEF Ranked
<1>7. ASSUME api = "slice" PROVE result' = [k \in 1..Len(P) |-> Reference(P[k])]
  <2>1. ASSUME NEW k \in 1..N
        PROVE  (IF \E l \in 1..pos : order[l] = k
                THEN values[CHOOSE l \in 1..pos : order[l] = k] ELSE 0) = Reference(P[k])
    <3>1. \E l \in 1..N : order[l] = k BY <1>2 DEF Ranked, Onto
    <3> DEFINE m == CHOOSE l \in 1..N : order[l] = k
    <3>2. m \in 1..N /\ order[m] = k BY <3>1, Zenon
    <3>3. pos = N BY <1>3
    <3>4. (IF \E l \in 1..pos : order[l] = k
           THEN values[CHOOSE l \in 1..pos : order[l] = k] ELSE 0) = values[m]
      BY <3>1, <3>3, Zenon
    <3> HIDE DEF m
    <3>5. values[m] = Reference(P[order[m]]) BY <1>4, <3>2
    <3> QED BY <3>2, <3>4, <3>5
  <2> QED BY <1>5, <1>6, <1>7, <2>1
<1>8. ASSUME api = "map" PROVE result' = [p \in Keys(P) |-> Reference(p)]
  <2>1. ASSUME NEW p \in Keys(P)
        PROVE  (IF \E l \in 1..pos : P[l] = p
                THEN values[CHOOSE l \in 1..pos : P[l] = p] ELSE 0) = Reference(p)
    <3>1. \E l \in 1..N : P[l] = p BY <1>6 DEF Keys
    <3> DEFINE m == CHOOSE l \in 1..N : P[l] = p
    <3>2. m \in 1..N /\ P[m] = p BY <3>1, Zenon
    <3>3. pos = N BY <1>3
    <3>4. (IF \E l \in 1..pos : P[l] = p
           THEN values[CHOOSE l \in 1..pos : P[l] = p] ELSE 0) = values[m]
      BY <3>1, <3>3, Zenon
    <3> HIDE DEF m
    <3>5. order[m] = m BY <1>2, <1>8, <3>2 DEF Ranked
    <3>6. values[m] = Reference(P[order[m]]) BY <1>4, <3>2
    <3> QED BY <3>2, <3>4, <3>5, <3>6
  <2> QED BY <1>5, <1>8, <2>1
<1>9. /\ api = "slice" => result' = [k \in 1..Len(P) |-> Reference(P[k])]
      /\ api = "map" => result' = [p \in Keys(P) |-> Reference(p)]
  BY <1>7, <1>8
<1>10. api \in {"slice", "map"} BY <1>2 DEF Ranked
<1>11. UNCHANGED scanVars /\ api' = api /\ percentiles' = P /\ counts' = counts BY <1>1 DEF scanVars
<1>12. ScanInv' BY <1>2, <1>11, Stays
<1>13. \A p : Reference(p)' = Reference(p) BY <1>11, ReferenceStays
<1>14. Answered' BY <1>9, <1>10, <1>11, <1>13 DEF Answered, Keys
<1> QED BY <1>1, <1>2, <1>10, <1>11, <1>12, <1>14 DEF CallInv

\* What leaves the percentiles and the result of a call alone.
LEMMA AnsweredStays ==
  ASSUME Answered, counts' = counts, UNCHANGED <<api, percentiles, result>>
  PROVE  Answered'
<1>1. \A p : Reference(p)' = Reference(p) BY ReferenceStays
<1> QED BY <1>1 DEF Answered, Keys

LEMMA ScanningInv == ASSUME CallInv, Scanning PROVE CallInv'
<1>1. ScanInv /\ ScanStep /\ UNCHANGED <<stage, api, percentiles, order, result>> BY DEF CallInv, Scanning
<1>2. ScanInv' /\ counts' = counts /\ asked' = asked BY <1>1, ScanStepInv
<1>3. Ranked => Ranked' BY <1>1, <1>2 DEF Ranked, totalCount
<1>4. Answered => Answered' BY <1>1, <1>2, AnsweredStays
<1> QED BY <1>1, <1>2, <1>3, <1>4 DEF CallInv

LEMMA DirectInv == ASSUME CallInv, NEW t \in DirectRanks, DirectScan(t) PROVE CallInv'
<1>1. ScanInv /\ IsRankList(t) /\ CallScan(t) /\ stage' = "direct" /\ UNCHANGED <<api, percentiles, order, result>>
  BY RequestAssumption DEF CallInv, DirectScan
<1>2. ScanInv' BY <1>1, CallScanInv
<1> QED BY <1>1, <1>2 DEF CallInv

LEMMA StutterInv == ASSUME CallInv, UNCHANGED vars PROVE CallInv'
<1>1. ScanInv /\ UNCHANGED scanVars /\ UNCHANGED <<stage, api, percentiles, order, result>>
  BY DEF CallInv, vars
<1>2. ScanInv' /\ counts' = counts /\ asked' = asked BY <1>1, Stays DEF scanVars
<1>3. Ranked => Ranked' BY <1>1, <1>2 DEF Ranked, totalCount
<1>4. Answered => Answered' BY <1>1, <1>2, AnsweredStays
<1> QED BY <1>1, <1>2, <1>3, <1>4 DEF CallInv

\* The results of a call have the length of its percentiles.
LEMMA CallInvExact == CallInv => ResultsExact
<1> SUFFICES ASSUME CallInv PROVE ResultsExact OBVIOUS
<1>1. ScanTypeOK /\ Len(targets) = Len(asked) BY DEF CallInv, ScanInv, ScanTypeOK
<1>2. ASSUME stage = "scanning" PROVE Len(order) = Len(targets)
  <2>1. Ranked BY <1>2 DEF CallInv
  <2>2. IsRankList(asked) BY <1>1 DEF ScanTypeOK
  <2>3. Len(asked) \in Nat BY <2>2, RankFacts
  <2>4. order \in [1..Len(asked) -> 1..Len(asked)] BY <2>1 DEF Ranked
  <2>5. PICK m \in Nat : m = Len(asked) BY <2>3
  <2>6. order \in [1..m -> 1..m] BY <2>4, <2>5
  <2>7. Len(order) = m BY <2>6
  <2> QED BY <1>1, <2>5, <2>7
<1>3. ASSUME stage = "returned", api # "map" PROVE Len(result) = Len(percentiles)
  <2>1. result = [k \in 1..Len(percentiles) |-> Reference(percentiles[k])] BY <1>3 DEF CallInv, Answered
  <2>2. Len(percentiles) \in Nat BY DEF CallInv
  <2>3. PICK m \in Nat : m = Len(percentiles) BY <2>2
  <2> DEFINE S == {Reference(percentiles[k]) : k \in 1..m}
  <2>4. result \in [1..m -> S] BY <2>1, <2>3
  <2> HIDE DEF S
  <2>5. Len(result) = m BY <2>4
  <2> QED BY <2>3, <2>5
<1>4. TypeOK BY <1>1, <1>2, <1>3 DEF TypeOK, CallInv
<1> QED BY <1>4 DEF ResultsExact, CallInv, Answered

LEMMA CallInitInv == Init => CallInv
<1> SUFFICES ASSUME Init PROVE CallInv OBVIOUS
<1>1. ScanInv BY ScanInitInv DEF Init
<1>2. <<>> \in Seq(Floats) OBVIOUS
<1> QED BY <1>1, <1>2 DEF Init, CallInv

LEMMA CallStepInv == ASSUME CallInv, [Next]_vars PROVE CallInv'
<1>1. CASE \E s \in Requests : ValueAtPercentilesSlice(s) \/ ValueAtPercentiles(s)
  BY <1>1, SliceInv, MapInv
<1>2. CASE \E s \in Requests : \E k \in 1..Len(s) : ValueAtPercentile(s[k])
  <2>1. PICK s \in Requests : \E k \in 1..Len(s) : ValueAtPercentile(s[k]) BY <1>2
  <2>2. PICK k \in 1..Len(s) : ValueAtPercentile(s[k]) BY <2>1
  <2>3. s \in Seq(Floats) BY RequestAssumption DEF Floats
  <2>4. s[k] \in Floats BY <2>3
  <2> QED BY <2>2, <2>4, OneInv
<1>3. CASE \E t \in DirectRanks : DirectScan(t) BY <1>3, DirectInv
<1>4. CASE Scanning BY <1>4, ScanningInv
<1>5. CASE CollectResults BY <1>5, CollectInv
<1>6. CASE UNCHANGED vars BY <1>6, StutterInv
<1> QED BY <1>1, <1>2, <1>3, <1>4, <1>5, <1>6 DEF Next

\* "The same values as ValueAtPercentiles ... in the SAME ORDER as percentiles":
\* whatever percentiles are asked for, however their ranks round, tie and are
\* ordered, all three queries give each of them the value of a linear scan.
THEOREM ResultsAreExact == Spec => []ResultsExact
<1>1. Init => CallInv BY CallInitInv
<1>2. CallInv /\ [Next]_vars => CallInv' BY CallStepInv
<1>3. CallInv => ResultsExact BY CallInvExact
<1> QED BY <1>1, <1>2, <1>3, PTL DEF Spec

\* Every scan that the queries start is one for which scanTargets is specified:
\* its ranks are ascending, whichever way they were ordered, and no action of a
\* query disturbs a scan in progress.
THEOREM ScansAreSpecified == Spec => ScansAsSpecified
<1>1. Init => ScanInit /\ CallInv BY CallInitInv DEF Init
<1>2. CallInv /\ [Next]_vars => CallInv' BY CallStepInv
<1>3. CallInv /\ [Next]_vars => [ScanNext]_scanVars
  <2> SUFFICES ASSUME CallInv, [Next]_vars PROVE ScanNext \/ UNCHANGED scanVars OBVIOUS
  <2>1. IsRankList(asked') BY CallStepInv DEF CallInv, ScanInv, ScanTypeOK, IsRankList
  <2>2. ASSUME NEW t, CallScan(t) PROVE ScanNext
    <3>1. t = asked' BY <2>2 DEF CallScan
    <3>2. CallScan(asked') BY <2>2, <3>1
    <3> QED BY <2>1, <3>2 DEF ScanNext
  <2>3. CASE \E s \in Requests : ValueAtPercentilesSlice(s) \/ ValueAtPercentiles(s)
    <3>1. PICK s \in Requests : ValueAtPercentilesSlice(s) \/ ValueAtPercentiles(s) BY <2>3
    <3>2. CASE ValueAtPercentilesSlice(s)
      <4>1. UNCHANGED scanVars \/ \E t, o : Scan(t, o) BY <3>2 DEF ValueAtPercentilesSlice, Returned
      <4> QED BY <2>2, <4>1 DEF Scan
    <3>3. CASE ValueAtPercentiles(s)
      <4>1. UNCHANGED scanVars \/ \E t, o : Scan(t, o) BY <3>3 DEF ValueAtPercentiles, Returned
      <4> QED BY <2>2, <4>1 DEF Scan
    <3> QED BY <3>1, <3>2, <3>3
  <2>4. CASE \E s \in Requests : \E k \in 1..Len(s) : ValueAtPercentile(s[k])
    BY <2>4 DEF ValueAtPercentile, Returned
  <2>5. CASE \E t \in DirectRanks : DirectScan(t) BY <2>2, <2>5 DEF DirectScan
  <2>6. CASE Scanning BY <2>6 DEF Scanning, ScanNext
  <2>7. CASE CollectResults BY <2>7 DEF CollectResults
  <2>8. CASE UNCHANGED vars BY <2>8 DEF vars
  <2> QED BY <2>3, <2>4, <2>5, <2>6, <2>7, <2>8 DEF Next
<1> QED BY <1>1, <1>2, <1>3, PTL DEF Spec, ScansAsSpecified, ScanSpec

-----------------------------------------------------------------------------
(* The values of growing percentiles.                                       *)

\* The cell of a position: its ends, and the order of the cells.
LEMMA CellFacts ==
  ASSUME NEW a \in 0..(n - 1)
  PROVE  /\ ValueFromFlatIndex(g, a) \in 0..MaxInt
         /\ HighestEquivalent(g, ValueFromFlatIndex(g, a)) \in 0..MaxInt
         /\ LowestEquivalent(g, ValueFromFlatIndex(g, a)) = ValueFromFlatIndex(g, a)
         /\ ValueFromFlatIndex(g, a) <= HighestEquivalent(g, ValueFromFlatIndex(g, a))
         /\ \A b \in 0..(n - 1) : a <= b =>
              /\ ValueFromFlatIndex(g, a) <= ValueFromFlatIndex(g, b)
              /\ HighestEquivalent(g, ValueFromFlatIndex(g, a)) <= HighestEquivalent(g, ValueFromFlatIndex(g, b))
<1>1. PICK G : G = g OBVIOUS
<1>2. Built(G)
  <2>1. IsArgs(GeometryArgs) /\ WireAccepts(GeometryArgs) BY LengthAssumption DEF IsArgs
  <2> QED BY <1>1, <2>1, WireBuilt DEF g
<1>3. n = G.countsLen /\ n \in Nat BY <1>1, LengthAssumption, CountsAssumption
<1> DEFINE Lo(x) == ValueFromFlatIndex(G, x)
<1> DEFINE Hi(x) == HighestEquivalent(G, Lo(x))
<1>4. ASSUME NEW x \in 0..(n - 1)
      PROVE  /\ Lo(x) \in 0..MaxInt /\ Hi(x) \in 0..MaxInt
             /\ CountsIndexFor(G, Lo(x)) = x /\ CountsIndexFor(G, Hi(x)) = x
             /\ LowestEquivalent(G, Lo(x)) = Lo(x) /\ Lo(x) <= Hi(x)
  <2>1. x \in 0..(G.countsLen - 1) BY <1>3
  <2>2. /\ Lo(x) \in 0..MaxInt /\ Hi(x) \in 0..MaxInt
        /\ CountsIndexFor(G, Lo(x)) = x /\ CountsIndexFor(G, Hi(x)) = x
    BY <1>2, <2>1, PositionEnds
  <2>3. InvertsAt(G, Lo(x))
    <3> HIDE DEF Lo
    <3> QED BY <1>2, <2>2, IndexInverse DEF Built
  <2>4. LowestEquivalent(G, Lo(x)) = Lo(x) /\ Lo(x) <= Hi(x) BY <2>2, <2>3 DEF InvertsAt
  <2> QED BY <2>2, <2>4
<1> HIDE DEF Lo, Hi
<1>5. ASSUME NEW b \in 0..(n - 1), a <= b PROVE Lo(a) <= Lo(b) /\ Hi(a) <= Hi(b)
  <2>1. CASE a = b BY <1>4, <2>1, MaxIntFacts
  <2>2. CASE a # b
    <3>1. a < b /\ a \in Int /\ b \in Int BY <1>3, <1>5, <2>2
    <3>2. Lo(a) <= Lo(b) BY <1>2, <1>4, <3>1, PositionOrder
    <3>3. Hi(a) <= Hi(b) BY <1>2, <1>4, <3>1, PositionOrder
    <3> QED BY <3>2, <3>3
  <2> QED BY <2>1, <2>2
<1> QED BY <1>1, <1>4, <1>5 DEF Lo, Hi

LEMMA ValueAtMonotone ==
  ASSUME NEW a \in 0..(n - 1), NEW b \in 0..(n - 1), a <= b,
         NEW p \in Int, NEW q \in Int, p <= q
  PROVE  ValueAt(a, p) <= ValueAt(b, q)
<1> DEFINE Lo(x) == ValueFromFlatIndex(g, x)
<1> DEFINE Hi(x) == HighestEquivalent(g, Lo(x))
<1>1. NaN \notin Int BY RequestAssumption
<1>2. /\ ValueAt(a, p) = IF p <= 0 THEN Lo(a) ELSE Hi(a)
      /\ ValueAt(b, q) = IF q <= 0 THEN Lo(b) ELSE Hi(b)
  BY <1>1, CellFacts DEF ValueAt, IsLow
<1>3. /\ Lo(a) \in 0..MaxInt /\ Lo(b) \in 0..MaxInt /\ Hi(a) \in 0..MaxInt /\ Hi(b) \in 0..MaxInt
      /\ Lo(a) <= Lo(b) /\ Hi(a) <= Hi(b) /\ Lo(b) <= Hi(b)
  BY CellFacts
<1> HIDE DEF Lo, Hi
<1> QED BY <1>2, <1>3, MaxIntFacts

\* The values of the percentiles follow the percentiles.
LEMMA ReferenceMonotone ==
  ASSUME ScanInv, NEW p \in Int, NEW q \in Int, p <= q
  PROVE  Reference(p) <= Reference(q)
<1>1. CASE totalCount = 0
  <2>1. Reference(p) = 0 /\ Reference(q) = 0 BY <1>1 DEF Reference
  <2> QED BY <2>1
<1>2. CASE totalCount # 0
  <2> DEFINE r == PercentileRank(p, totalCount)
  <2> DEFINE s == PercentileRank(q, totalCount)
  <2>1. p \in Floats /\ q \in Floats BY DEF Floats
  <2>2. /\ r \in 1..totalCount /\ Reference(p) = ValueAt(Position(r), p)
        /\ s \in 1..totalCount /\ Reference(q) = ValueAt(Position(s), q)
    BY <1>2, <2>1, ReferenceIs
  <2>3. Fits(totalCount) /\ counts \in CountArrays BY <1>2, TotalFacts
  <2>4. r <= s BY <2>3, RankFactsOf
  <2> HIDE DEF r, s
  <2>5. Position(r) <= Position(s) BY <2>2, <2>3, <2>4, PositionMonotone
  <2>6. Position(r) \in 0..(n - 1) /\ Position(s) \in 0..(n - 1) BY <2>2, <2>3, PositionFacts
  <2>7. ValueAt(Position(r), p) <= ValueAt(Position(s), q) BY <2>5, <2>6, ValueAtMonotone
  <2> QED BY <2>2, <2>7
<1> QED BY <1>1, <1>2

\* The first and the last rank are at the first and at the last position in use.
LEMMA EndPositions ==
  ASSUME counts \in CountArrays, totalCount \in Nat \ {0}
  PROVE  LET Used == {j \in 0..(n - 1) : counts[j] > 0}
         IN  /\ (CHOOSE j \in Used : \A l \in Used : l <= j) = Position(totalCount)
             /\ (CHOOSE j \in Used : \A l \in Used : j <= l) = Position(1)
<1> DEFINE Used == {j \in 0..(n - 1) : counts[j] > 0}
<1> DEFINE S == PrefixSum(counts)
<1> DEFINE last == Position(totalCount)
<1> DEFINE first == Position(1)
<1>1. n \in Nat /\ totalCount = S[n] /\ totalCount \in 1..totalCount /\ 1 \in 1..totalCount
  BY CountsAssumption DEF totalCount
<1>2. /\ S[0] = 0
      /\ \A a \in 0..n : S[a] \in Nat
      /\ \A a \in 0..n : \A b \in 0..a : S[b] <= S[a]
      /\ \A a \in 0..(n - 1) : counts[a] \in Nat /\ S[a + 1] = S[a] + counts[a]
  BY SumFacts
<1>3. FirstReaching(last, totalCount) /\ FirstReaching(first, 1) BY <1>1, PositionFacts
<1>4. /\ last \in 0..(n - 1) /\ S[last] < totalCount /\ totalCount <= S[last + 1]
      /\ first \in 0..(n - 1) /\ S[first] < 1 /\ 1 <= S[first + 1]
  BY <1>3 DEF FirstReaching
<1>5. \A k \in 0..(n - 1) : S[k + 1] >= 1 <=> first <= k BY <1>1, PositionFacts
<1> HIDE DEF S, last, first
<1>6. ASSUME NEW j \in 0..(n - 1)
      PROVE  /\ j \in Nat /\ j + 1 \in 0..n /\ j \in 0..n /\ j \in 0..(j + 1)
             /\ S[j] \in Nat /\ S[j + 1] \in Nat /\ counts[j] \in Nat /\ S[j + 1] = S[j] + counts[j]
  <2>1. j \in Nat /\ j + 1 \in 0..n /\ j \in 0..n /\ j \in 0..(j + 1) BY <1>1
  <2> QED BY <1>2, <2>1
<1>7. last \in Used
  <2>1. S[last] \in Nat /\ S[last + 1] \in Nat /\ counts[last] \in Nat /\ S[last + 1] = S[last] + counts[last]
    BY <1>4, <1>6
  <2> QED BY <1>4, <2>1
<1>8. first \in Used
  <2>1. S[first] \in Nat /\ S[first + 1] \in Nat /\ counts[first] \in Nat /\ S[first + 1] = S[first] + counts[first]
    BY <1>4, <1>6
  <2> QED BY <1>4, <2>1
<1>9. ASSUME NEW l \in Used PROVE l <= last /\ first <= l
  <2>1. l \in 0..(n - 1) /\ counts[l] > 0 OBVIOUS
  <2>2. /\ l \in Nat /\ l + 1 \in 0..n /\ l \in 0..n
        /\ S[l] \in Nat /\ S[l + 1] \in Nat /\ counts[l] \in Nat /\ S[l + 1] = S[l] + counts[l]
    BY <1>6, <2>1
  <2>3. first <= l
    <3>1. S[l + 1] >= 1 BY <2>1, <2>2
    <3> QED BY <1>5, <2>1, <3>1
  <2>4. l <= last
    <3> SUFFICES ASSUME last < l PROVE FALSE BY <1>4, <2>2
    <3>1. last + 1 \in 0..l /\ n \in 0..n /\ l + 1 \in 0..n BY <1>1, <1>4, <2>2
    <3>2. S[last + 1] <= S[l] /\ S[l + 1] <= S[n] /\ S[last + 1] \in Nat /\ S[n] \in Nat
      BY <1>2, <1>4, <1>6, <2>2, <3>1
    <3> QED BY <1>1, <1>4, <2>1, <2>2, <3>2
  <2> QED BY <2>3, <2>4
<1>10. Used \subseteq Int /\ last \in Int /\ first \in Int BY <1>4
<1> HIDE DEF Used
<1>11. (CHOOSE j \in Used : \A l \in Used : l <= j) = last
  <2> DEFINE m == CHOOSE j \in Used : \A l \in Used : l <= j
  <2>1. \A l \in Used : l <= last BY <1>9
  <2>2. m \in Used /\ \A l \in Used : l <= m BY <1>7, <2>1, Zenon
  <2> HIDE DEF m
  <2>3. m \in Int /\ m <= last /\ last <= m BY <1>7, <1>10, <2>1, <2>2
  <2>4. m = last BY <1>10, <2>3
  <2> QED BY <2>4 DEF m
<1>12. (CHOOSE j \in Used : \A l \in Used : j <= l) = first
  <2> DEFINE m == CHOOSE j \in Used : \A l \in Used : j <= l
  <2>1. \A l \in Used : first <= l BY <1>9
  <2>2. m \in Used /\ \A l \in Used : m <= l BY <1>8, <2>1, Zenon
  <2> HIDE DEF m
  <2>3. m \in Int /\ m <= first /\ first <= m BY <1>8, <1>10, <2>1, <2>2
  <2>4. m = first BY <1>10, <2>3
  <2> QED BY <2>4 DEF m
<1> QED BY <1>11, <1>12 DEF Used, last, first

LEMMA AnswerIs ==
  ASSUME CallInv, stage = "returned", NEW k \in Asked
  PROVE  percentiles[k] \in Int /\ Answer(k) = Reference(percentiles[k])
<1>1. k \in 1..Len(percentiles) /\ percentiles[k] # NaN BY DEF Asked
<1>2. percentiles \in Seq(Floats) /\ Answered BY DEF CallInv
<1>3. percentiles[k] \in Int BY <1>1, <1>2 DEF Floats
<1>4. percentiles[k] \in Keys(percentiles) BY <1>1 DEF Keys
<1>5. CASE api = "map"
  <2>1. result = [p \in Keys(percentiles) |-> Reference(p)] BY <1>2, <1>5 DEF Answered
  <2>2. result[percentiles[k]] = Reference(percentiles[k]) BY <1>4, <2>1
  <2> QED BY <1>3, <1>5, <2>2 DEF Answer
<1>6. CASE api # "map"
  <2>1. result = [l \in 1..Len(percentiles) |-> Reference(percentiles[l])] BY <1>2, <1>6 DEF Answered
  <2>2. result[k] = Reference(percentiles[k]) BY <1>1, <2>1
  <2> QED BY <1>3, <1>6, <2>2 DEF Answer
<1> QED BY <1>5, <1>6

LEMMA CallInvEnds == CallInv => EndsExact
<1> DEFINE Used == {j \in 0..(n - 1) : counts[j] > 0}
<1> DEFINE Last == CHOOSE j \in Used : \A l \in Used : l <= j
<1> DEFINE First == CHOOSE j \in Used : \A l \in Used : j <= l
<1> SUFFICES ASSUME CallInv, stage = "returned", totalCount > 0, NEW k \in Asked
             PROVE  /\ percentiles[k] >= 100 * Unit => Answer(k) = HighestEquivalent(g, ValueFromFlatIndex(g, Last))
                    /\ percentiles[k] <= 0 => Answer(k) = LowestEquivalent(g, ValueFromFlatIndex(g, First))
  BY DEF EndsExact
<1>1. ScanInv BY DEF CallInv
<1>2. totalCount \in Nat \ {0} /\ totalCount # 0 /\ counts \in CountArrays /\ Fits(totalCount) BY <1>1, TotalFacts
<1>3. Last = Position(totalCount) /\ First = Position(1) BY <1>2, EndPositions
<1> HIDE DEF Last, First
<1>4. percentiles[k] \in Int /\ Answer(k) = Reference(percentiles[k]) BY AnswerIs
<1>5. PICK p \in Int : p = percentiles[k] BY <1>4
<1>6. p \in Floats /\ p # NaN /\ NaN \notin Int BY RequestAssumption DEF Floats
<1>7. Answer(k) = ValueAt(Position(PercentileRank(p, totalCount)), p) BY <1>1, <1>2, <1>4, <1>5, <1>6, ReferenceIs
<1>8. ASSUME p >= 100 * Unit PROVE Answer(k) = HighestEquivalent(g, ValueFromFlatIndex(g, Last))
  <2>1. PercentileRank(p, totalCount) = totalCount BY <1>2, <1>8, RankFactsOf
  <2>2. ~(p <= 0) BY <1>8, OneFacts
  <2> QED BY <1>3, <1>7, <2>1, <2>2 DEF ValueAt, IsLow
<1>9. ASSUME p <= 0 PROVE Answer(k) = LowestEquivalent(g, ValueFromFlatIndex(g, First))
  <2>1. PercentileRank(p, totalCount) = 1 BY <1>2, <1>9, RankFactsOf
  <2> QED BY <1>3, <1>6, <1>7, <1>9, <2>1 DEF ValueAt, IsLow
<1> QED BY <1>5, <1>8, <1>9

LEMMA CallInvMonotone == CallInv => ValuesMonotone
<1> SUFFICES ASSUME CallInv PROVE ValuesMonotone OBVIOUS
<1>1. ScanInv /\ percentiles \in Seq(Floats) BY DEF CallInv
<1>2. EndsExact BY CallInvEnds
<1>3. ASSUME stage = "scanning", NEW k \in 1..Len(asked) PROVE asked[k] \in 1..totalCount
  <2>1. Ranked BY <1>3 DEF CallInv
  <2>2. order[k] \in 1..Len(percentiles) /\ asked[k] = PercentileRank(percentiles[order[k]], totalCount)
        /\ totalCount # 0
    BY <2>1 DEF Ranked
  <2>3. percentiles[order[k]] \in Floats BY <1>1, <2>2
  <2> QED BY <1>1, <2>2, <2>3, ReferenceIs
<1>4. ASSUME stage = "returned", NEW k \in Asked, NEW l \in Asked, percentiles[k] <= percentiles[l]
      PROVE  Answer(k) <= Answer(l)
  <2>1. /\ percentiles[k] \in Int /\ Answer(k) = Reference(percentiles[k])
        /\ percentiles[l] \in Int /\ Answer(l) = Reference(percentiles[l])
    BY <1>4, AnswerIs
  <2>2. Reference(percentiles[k]) <= Reference(percentiles[l]) BY <1>1, <1>4, <2>1, ReferenceMonotone
  <2> QED BY <2>1, <2>2
<1> QED BY <1>2, <1>3, <1>4 DEF ValuesMonotone

\* percentileRank "returns a target in [1, totalCount] for a nonempty histogram",
\* whatever float64(totalCount), the quotient and the product lose or gain in
\* rounding; a larger percentile never has a smaller value, P100 is the maximum and
\* P0 the minimum.
THEOREM ValuesAreMonotone == Spec => []ValuesMonotone
<1>1. Init => CallInv BY CallInitInv
<1>2. CallInv /\ [Next]_vars => CallInv' BY CallStepInv
<1>3. CallInv => ValuesMonotone BY CallInvMonotone
<1> QED BY <1>1, <1>2, <1>3, PTL DEF Spec

-----------------------------------------------------------------------------
(* Percentages.                                                             *)

\* A float at or above, or at or below, a fraction stays so when it is rounded.
LEMMA RoundedAtMost ==
  ASSUME NEW x \in Nat, IsFloat(x), x < Limit, NEW d \in Nat \ {0}, NEW a \in Nat, a <= x * d
  PROVE  Roundable(a, d) /\ Rounded[a][d] \in Nat /\ IsFloat(Rounded[a][d]) /\ Rounded[a][d] <= x
<1>1. x * d \in Nat /\ x * d < Limit * d
  <2>1. d * x + d <= d * Limit /\ d * x \in Nat /\ d * Limit \in Nat BY LimitFacts, Scaled
  <2>2. d * x = x * d /\ d * Limit = Limit * d BY LimitFacts
  <2> QED BY <2>1, <2>2
<1>2. Roundable(a, d) /\ Roundable(x * d, d)
  <2>1. a < Limit * d BY <1>1, LimitFacts
  <2> QED BY <1>1, <2>1 DEF Roundable, Limit
<1>3. PICK e \in Nat, w \in 0..2^Precision : x = 2^e * w BY DEF IsFloat
<1>4. Rounded[x * d][d] = x BY <1>2, <1>3, RoundedExact
<1>5. Rounded[a][d] <= Rounded[x * d][d] BY <1>2, RoundedMonotone
<1> QED BY <1>2, <1>4, <1>5, RoundedIsFloat

LEMMA RoundedAtLeast ==
  ASSUME NEW x \in Nat, IsFloat(x), NEW d, NEW a, Roundable(a, d), x * d <= a
  PROVE  x <= Rounded[a][d]
<1>1. a \in Nat /\ d \in Nat \ {0} /\ a < Limit * d BY DEF Roundable, Limit
<1>2. x * d \in Nat BY <1>1
<1>3. Roundable(x * d, d)
  <2>1. x * d < Limit * d BY <1>1, <1>2, LimitFacts
  <2> QED BY <1>1, <1>2, <2>1 DEF Roundable, Limit
<1>4. PICK e \in Nat, w \in 0..2^Precision : x = 2^e * w BY DEF IsFloat
<1>5. Rounded[x * d][d] = x BY <1>1, <1>3, <1>4, RoundedExact
<1>6. Rounded[x * d][d] <= Rounded[a][d] BY <1>3, RoundedMonotone
<1> QED BY <1>5, <1>6

\* The difference of floats that are within a factor of two is a float.
LEMMA FloatDifference ==
  ASSUME NEW x \in Nat, IsFloat(x), NEW y \in Nat, IsFloat(y), y <= x, x <= 2 * y
  PROVE  IsFloat(x - y)
<1>1. PICK e \in Nat, u \in 0..2^Precision : x = 2^e * u BY DEF IsFloat
<1>2. PICK f \in Nat, w \in 0..2^Precision : y = 2^f * w BY DEF IsFloat
<1> DEFINE Top == 2^Precision
<1>3. Top \in Nat /\ 2^e \in Nat \ {0} /\ 2^f \in Nat \ {0} BY FormatFacts
<1>4. u \in Nat /\ w \in Nat /\ u <= Top /\ w <= Top BY <1>1, <1>2, <1>3
<1>5. CASE f <= e
  <2> DEFINE j == e - f
  <2>1. j \in Nat /\ e = f + j BY <1>5
  <2> HIDE DEF j
  <2>2. 2^e = 2^f * 2^j /\ 2^j \in Nat BY <2>1, PowerSum, FormatFacts
  <2> DEFINE z == 2^f
  <2> DEFINE v == 2^j * u
  <2>3. v \in Nat /\ x = z * v /\ y = z * w /\ z \in Nat \ {0} BY <1>1, <1>2, <1>3, <1>4, <2>2
  <2> HIDE DEF z, v, Top
  <2>4. w <= v
    <3> SUFFICES ASSUME v < w PROVE FALSE BY <1>4, <2>3
    <3>1. z * v + z <= z * w BY <1>4, <2>3, Scaled
    <3> QED BY <2>3, <3>1
  <2>5. v - w \in Nat /\ x - y = z * (v - w) BY <1>4, <2>3, <2>4
  <2>6. v - w <= w
    <3> SUFFICES ASSUME w < v - w PROVE FALSE BY <1>4, <2>5
    <3>1. z * w + z <= z * (v - w) /\ z * w \in Nat BY <1>4, <2>3, <2>5, Scaled
    <3> QED BY <2>3, <2>5, <3>1
  <2>7. v - w \in 0..Top BY <1>3, <1>4, <2>5, <2>6
  <2> QED BY <2>5, <2>7 DEF IsFloat, z, Top
<1>6. CASE e < f
  <2> DEFINE j == f - e
  <2>1. j \in Nat /\ f = e + j BY <1>6
  <2> HIDE DEF j
  <2>2. 2^f = 2^e * 2^j /\ 2^j \in Nat BY <2>1, PowerSum, FormatFacts
  <2> DEFINE z == 2^e
  <2> DEFINE v == 2^j * w
  <2>3. v \in Nat /\ y = z * v /\ x = z * u /\ z \in Nat \ {0} BY <1>1, <1>2, <1>3, <1>4, <2>2
  <2> HIDE DEF z, v, Top
  <2>4. v <= u
    <3> SUFFICES ASSUME u < v PROVE FALSE BY <1>4, <2>3
    <3>1. z * u + z <= z * v BY <1>4, <2>3, Scaled
    <3> QED BY <2>3, <3>1
  <2>5. u - v \in Nat /\ x - y = z * (u - v) BY <1>4, <2>3, <2>4
  <2>6. u - v \in 0..Top BY <1>3, <1>4, <2>3, <2>5
  <2> QED BY <2>5, <2>6 DEF IsFloat, z, Top
<1> QED BY <1>5, <1>6

-----------------------------------------------------------------------------
(* The levels and shares of Distribution.                                   *)

Level == percentileToIteratorTo

\* 100 and 50 are floats, and what is rounded below is in range.
LEMMA HundredFacts ==
  /\ Hundred \in Nat \ {0} /\ IsFloat(Hundred) /\ Hundred < Limit
  /\ 50 * Unit \in Nat /\ IsFloat(50 * Unit) /\ Hundred = 2 * (50 * Unit)
  /\ Hundred * Unit \in Nat /\ IsFloat(Hundred * Unit) /\ Hundred * Unit < Limit
  /\ Hundred <= 2^MaxExponent
  /\ \A c \in CountArrays : 4 * (Hundred * PrefixSum(c)[n]) < Limit
<1>1. PICK k \in Nat : Unit = 2^k BY OneFacts
<1>2. /\ Precision >= 5 /\ Hundred <= 2^MaxExponent
      /\ 100 * Unit * Unit < Limit
      /\ \A c \in CountArrays : 400 * Unit * PrefixSum(c)[n] < Limit
  BY PercentageAssumption DEF Limit, Hundred
<1>3. Unit \in Nat \ {0} /\ Limit \in Nat BY OneFacts, LimitFacts
<1>4. 25 \in 0..2^Precision
  <2>1. 2^5 = 32
    <3>1. 2^(0 + 1) = 2 * 2^0 /\ 2^(1 + 1) = 2 * 2^1 /\ 2^(2 + 1) = 2 * 2^2 /\ 2^(3 + 1) = 2 * 2^3
          /\ 2^(4 + 1) = 2 * 2^4 /\ 2^0 = 1
      BY PowerFacts
    <3> QED BY <3>1
  <2>2. 2^5 <= 2^Precision BY <1>2, FormatFacts, PowerMonotone
  <2> QED BY <2>1, <2>2, FormatFacts
<1>5. IsFloat(25)
  <2>1. 25 = 2^0 * 25 BY PowerFacts
  <2> QED BY <1>4, <2>1 DEF IsFloat
<1>6. \A j \in Nat : \A x \in Nat : IsFloat(x) => IsFloat(2^j * x) BY FloatShift
<1>7. 2^2 = 4 /\ 2^1 = 2
  <2>1. 2^(0 + 1) = 2 * 2^0 /\ 2^(1 + 1) = 2 * 2^1 /\ 2^0 = 1 BY PowerFacts
  <2> QED BY <2>1
<1>8. IsFloat(100) /\ IsFloat(50)
  <2>1. IsFloat(2^2 * 25) /\ IsFloat(2^1 * 25) BY <1>5, <1>6
  <2> QED BY <1>7, <2>1
<1>9. Hundred = Unit * 100 /\ 50 * Unit = Unit * 50 BY <1>3 DEF Hundred
<1>10. IsFloat(Hundred) /\ IsFloat(50 * Unit) BY <1>1, <1>6, <1>8, <1>9
<1>11. Hundred \in Nat \ {0} /\ 50 * Unit \in Nat /\ Hundred = 2 * (50 * Unit) BY <1>3 DEF Hundred
<1>12. IsFloat(Hundred * Unit)
  <2>1. Hundred * Unit = Unit * Hundred BY <1>3, <1>11
  <2> QED BY <1>1, <1>6, <1>10, <1>11, <2>1
<1>13. Hundred * Unit \in Nat /\ Hundred * Unit < Limit BY <1>2, <1>3, <1>11 DEF Hundred
<1>14. Hundred < Limit
  <2>1. Hundred <= Hundred * Unit BY <1>3, <1>11
  <2> QED BY <1>3, <1>11, <1>13, <2>1
<1>15. ASSUME NEW c \in CountArrays PROVE 4 * (Hundred * PrefixSum(c)[n]) < Limit
  <2>1. PICK t : t = PrefixSum(c)[n] OBVIOUS
  <2>2. t \in Nat BY <2>1, SumFacts, CountsAssumption
  <2>3. 4 * (Hundred * t) = 400 * Unit * t BY <1>3, <2>2 DEF Hundred
  <2> QED BY <1>2, <2>1, <2>3
<1> QED BY <1>2, <1>10, <1>11, <1>12, <1>13, <1>14, <1>15

\* The half distance of a level below 100: a power of two above 100 / (100 - p).
LEMMA HalfFacts ==
  ASSUME NEW p \in Nat, p < Hundred
  PROVE  LET d == Rounded[Hundred - p][1]
         IN  /\ d \in Nat \ {0}
             /\ \E k \in Nat : HalfDistance(p) = 2^(k + 1) /\ Hundred < 2^(k + 1) * d
<1> DEFINE d == Rounded[Hundred - p][1]
<1> DEFINE ratio == Rounded[Hundred * Unit][d]
<1>0. /\ Hundred \in Nat \ {0} /\ IsFloat(Hundred) /\ Hundred < Limit /\ Hundred <= 2^MaxExponent
      /\ Hundred * Unit \in Nat /\ IsFloat(Hundred * Unit) /\ Hundred * Unit < Limit
      /\ Unit \in Nat \ {0} /\ MaxExponent \in Nat /\ Limit \in Nat \ {0}
  BY HundredFacts, OneFacts, FormatFacts, LimitFacts
<1>1. Hundred - p \in Nat \ {0} /\ Hundred - p <= Hundred * 1 /\ 1 * 1 <= Hundred - p BY <1>0
<1>2. d \in Nat /\ d <= Hundred /\ Roundable(Hundred - p, 1) BY <1>0, <1>1, RoundedAtMost
<1>3. 1 <= d BY <1>1, <1>2, OneIsFloat, RoundedAtLeast
<1>4. d \in Nat \ {0} BY <1>2, <1>3
<1> HIDE DEF d
<1>5. Hundred * Unit <= (Hundred * Unit) * d BY <1>0, <1>4
<1>6. Roundable(Hundred * Unit, d) /\ ratio \in Nat /\ ratio <= Hundred * Unit BY <1>0, <1>4, <1>5, RoundedAtMost
<1>7. IsFloat(Unit) BY OneFacts, OneIsFloat
<1>8. Unit <= ratio
  <2>1. Unit * d <= Unit * Hundred BY <1>0, <1>2, Scaled
  <2>2. Unit * Hundred = Hundred * Unit BY <1>0
  <2> QED BY <1>0, <1>6, <1>7, <2>1, <2>2, RoundedAtLeast
<1> HIDE DEF ratio
<1> DEFINE Is(e) == 2^e * Unit <= ratio /\ ratio < 2^(e + 1) * Unit
<1>9. \E e \in 0..MaxExponent : Is(e)
  <2> DEFINE S == {e \in Nat : ratio < 2^(e + 1) * Unit}
  <2>1. MaxExponent \in S
    <3> DEFINE x == 2^MaxExponent
    <3>1. x \in Nat /\ 2^(MaxExponent + 1) = 2 * x /\ Hundred <= x /\ x \in Nat \ {0} BY <1>0, PowerFacts
    <3> HIDE DEF x
    <3>2. Unit * Hundred + Unit <= Unit * (2 * x) BY <1>0, <3>1, Scaled
    <3>3. Unit * Hundred = Hundred * Unit /\ Unit * (2 * x) = (2 * x) * Unit /\ (2 * x) * Unit \in Nat BY <1>0, <3>1
    <3>4. ratio < (2 * x) * Unit BY <1>0, <1>6, <3>2, <3>3
    <3> QED BY <1>0, <3>1, <3>4
  <2>2. PICK m \in S : \A k \in S : m <= k
    <3>1. S \in SUBSET Nat /\ S # {} BY <2>1
    <3> HIDE DEF S
    <3> QED BY <3>1, LeastElement
  <2>3. m \in Nat /\ ratio < 2^(m + 1) * Unit /\ m <= MaxExponent BY <2>1, <2>2
  <2>4. 2^m * Unit <= ratio
    <3>1. CASE m = 0 BY <1>0, <1>8, <3>1, PowerFacts
    <3>2. CASE m # 0
      <4>1. m - 1 \in Nat /\ (m - 1) + 1 = m /\ ~(m <= m - 1) BY <2>3, <3>2
      <4>2. ~(m - 1 \in S) BY <2>2, <4>1
      <4>3. ~(ratio < 2^m * Unit) BY <4>1, <4>2
      <4>4. 2^m * Unit \in Nat BY <1>0, <2>3, PowerFacts
      <4> QED BY <1>6, <4>3, <4>4
    <3> QED BY <3>1, <3>2
  <2>5. m \in 0..MaxExponent BY <1>0, <2>3
  <2> QED BY <2>3, <2>4, <2>5
<1> DEFINE k == CHOOSE e \in 0..MaxExponent : Is(e)
<1>10. k \in 0..MaxExponent /\ Is(k)
  <2> HIDE DEF Is
  <2> QED BY <1>9, Zenon
<1>11. HalfDistance(p) = 2^(k + 1) BY DEF HalfDistance, ratio, d
<1> HIDE DEF k
<1>12. k \in Nat /\ ratio < 2^(k + 1) * Unit BY <1>0, <1>10
<1> DEFINE y == 2^(k + 1)
<1>13. y \in Nat \ {0} /\ IsFloat(y * Unit) /\ y * Unit \in Nat
  <2>1. k + 1 \in Nat BY <1>12
  <2>2. y \in Nat \ {0} BY <2>1, PowerFacts
  <2>3. IsFloat(2^(k + 1) * Unit) BY <1>0, <1>7, <2>1, FloatShift
  <2> QED BY <1>0, <2>2, <2>3
<1>14. Hundred < y * d
  <2> SUFFICES ASSUME ~(Hundred < y * d) PROVE FALSE OBVIOUS
  <2>0. ratio < y * Unit BY <1>12
  <2> HIDE DEF y
  <2>1. y * d \in Nat /\ y * d <= Hundred BY <1>0, <1>4, <1>13
  <2>2. Unit * (y * d) <= Unit * Hundred BY <1>0, <2>1, Scaled
  <2>3. Unit * (y * d) = (y * Unit) * d /\ Unit * Hundred = Hundred * Unit BY <1>0, <1>4, <1>13
  <2>4. y * Unit <= ratio BY <1>6, <1>13, <2>2, <2>3, RoundedAtLeast DEF ratio
  <2> QED BY <1>6, <1>13, <2>0, <2>4
<1> QED BY <1>4, <1>11, <1>12, <1>14 DEF d, y

\* Raising a level leaves it a float between its old value and 100: the step is at
\* most what is left to 100, which is exact from 50 on.
LEMMA TickFacts ==
  ASSUME ticks \in Nat \ {0}, NEW p \in 0..Hundred, IsFloat(p)
  PROVE  Tick(p) \in p..Hundred /\ IsFloat(Tick(p))
<1>0. /\ Hundred \in Nat \ {0} /\ IsFloat(Hundred) /\ Hundred < Limit /\ Limit \in Nat
      /\ 50 * Unit \in Nat /\ IsFloat(50 * Unit) /\ Hundred = 2 * (50 * Unit)
  BY HundredFacts, LimitFacts
<1>1. p \in Nat /\ p <= Hundred BY <1>0
<1>2. CASE p >= Hundred
  <2>1. Tick(p) = p BY <1>2 DEF Tick
  <2> QED BY <1>0, <1>1, <2>1
<1>3. CASE p < Hundred
  <2> DEFINE d == Rounded[Hundred - p][1]
  <2>1. d \in Nat \ {0} BY <1>1, <1>3, HalfFacts
  <2>2. PICK k \in Nat : HalfDistance(p) = 2^(k + 1) /\ Hundred < 2^(k + 1) * d BY <1>1, <1>3, HalfFacts
  <2> DEFINE y == 2^(k + 1)
  <2> DEFINE t == ticks * y
  <2> DEFINE s == Rounded[Hundred][t]
  <2>3. y \in Nat \ {0} /\ y >= 2
    <3>1. 2^(k + 1) = 2 * 2^k /\ 2^k \in Nat \ {0} BY PowerFacts
    <3> QED BY <3>1
  <2>4. Tick(p) = Rounded[p + s][1]
    <3>1. ~(p >= Hundred) BY <1>0, <1>1, <1>3
    <3> QED BY <2>2, <3>1 DEF Tick
  <2>5. t \in Nat \ {0} /\ t >= y
    <3> HIDE DEF y
    <3> QED BY <2>3
  <2>6. Hundred < y * d BY <2>2
  <2> HIDE DEF y, t
  <2>7. s \in Nat /\ p + s <= Hundred
    <3>1. CASE 2 * p <= Hundred
      <4> DEFINE h == 50 * Unit
      <4>1. h \in Nat /\ IsFloat(h) /\ Hundred = 2 * h /\ h < Limit BY <1>0
      <4> HIDE DEF h
      <4>2. Hundred <= h * t
        <5>1. h * 2 <= h * t
          <6>1. CASE h = 0 BY <2>5, <6>1
          <6>2. CASE h # 0 BY <2>3, <2>5, <4>1, <6>2, Scaled
          <6> QED BY <6>1, <6>2
        <5> QED BY <4>1, <5>1
      <4>3. s \in Nat /\ s <= h BY <1>0, <2>5, <4>1, <4>2, RoundedAtMost
      <4> QED BY <1>1, <3>1, <4>1, <4>3
    <3>2. CASE ~(2 * p <= Hundred)
      <4>1. IsFloat(Hundred - p) /\ Hundred - p \in Nat /\ Hundred - p < Limit BY <1>0, <1>1, <3>2, FloatDifference
      <4>2. d = Hundred - p BY <4>1, FloatKept
      <4> HIDE DEF d
      <4>3. Hundred <= d * t
        <5>1. d * y <= d * t BY <2>1, <2>3, <2>5, Scaled
        <5>2. d * y = y * d /\ d * y \in Nat /\ d * t \in Nat BY <2>1, <2>3, <2>5
        <5> QED BY <1>0, <2>6, <5>1, <5>2
      <4>4. IsFloat(d) /\ d < Limit BY <4>1, <4>2
      <4>5. s \in Nat /\ s <= d BY <1>0, <2>1, <2>5, <4>3, <4>4, RoundedAtMost
      <4> QED BY <1>0, <1>1, <4>2, <4>5
    <3> QED BY <3>1, <3>2
  <2> HIDE DEF s, d
  <2>8. p + s \in Nat /\ p + s <= Hundred * 1 /\ p * 1 <= p + s /\ 1 \in Nat \ {0} BY <1>0, <1>1, <2>7
  <2>9. /\ Roundable(p + s, 1) /\ Rounded[p + s][1] \in Nat /\ IsFloat(Rounded[p + s][1])
        /\ Rounded[p + s][1] <= Hundred
    BY <1>0, <2>8, RoundedAtMost
  <2>10. p <= Rounded[p + s][1] BY <1>1, <2>8, <2>9, RoundedAtLeast
  <2> QED BY <1>0, <1>1, <2>4, <2>9, <2>10
<1> QED BY <1>0, <1>1, <1>2, <1>3

\* The share of c values among T, in per cent.
Share(c, T) == Rounded[Rounded[Hundred * FloatTotal(c)][1]][FloatTotal(T)]

LEMMA PercentageIs == \A c : PercentageAt(c) = Share(c, hist.total)
BY DEF PercentageAt, Share

\* Shares are floats that grow with the count.
LEMMA ShareFacts ==
  ASSUME NEW c \in CountArrays, NEW T, T = PrefixSum(c)[n], T # 0,
         NEW a \in 0..T
  PROVE  Share(a, T) \in Nat /\ \A b \in 0..T : a <= b => Share(a, T) <= Share(b, T)
<1>1. T \in Nat \ {0}
  <2>1. n \in 0..n BY CountsAssumption
  <2> QED BY <2>1, SumFacts
<1>2. Fits(T)
  <2>1. 4 * (Hundred * T) < Limit /\ Unit \in Nat \ {0} /\ Limit \in Nat BY HundredFacts, OneFacts, LimitFacts
  <2>2. 4 * (Hundred * T) = 100 * (4 * Unit * T) /\ 4 * Unit * T \in Nat BY <1>1, <2>1 DEF Hundred
  <2> QED BY <1>1, <2>1, <2>2 DEF Fits
<1> DEFINE F(x) == FloatTotal(x)
<1>3. F(T) \in Nat \ {0} /\ F(T) <= 2 * T BY <1>2, TotalFloat
<1>4. Hundred \in Nat \ {0} /\ 4 * (Hundred * T) < Limit /\ Limit \in Nat BY HundredFacts, LimitFacts
<1> DEFINE Half == 2^(Precision + MaxExponent - 1)
<1>5. Half \in Nat \ {0} /\ Limit = 2 * Half /\ IsFloat(Half)
  <2> DEFINE k == Precision + MaxExponent - 1
  <2>1. k \in Nat /\ k + 1 = Precision + MaxExponent BY FormatFacts
  <2>2. 2^(k + 1) = 2 * 2^k /\ 2^k \in Nat \ {0} BY <2>1, PowerFacts
  <2>3. IsFloat(2^k) BY <2>1, OneIsFloat
  <2> QED BY <2>1, <2>2, <2>3 DEF Limit
<1> HIDE DEF Half
<1>6. T < Limit
  <2>1. T <= Hundred * T /\ Hundred * T \in Nat BY <1>1, <1>4
  <2> QED BY <1>1, <1>4, <2>1
<1>7. \A x \in 0..T : Roundable(x, 1)
  <2>1. \A x \in 0..T : x \in Nat /\ x < Limit BY <1>1, <1>4, <1>6
  <2> QED BY <2>1, LimitFacts
<1>8. \A x \in 0..T : \A y \in 0..T : x <= y => F(x) <= F(y)
  BY <1>7, RoundedMonotone DEF FloatTotal
<1>9. \A x \in 0..T : F(x) \in Nat BY <1>7, RoundedIsFloat DEF FloatTotal
<1>10. T \in 0..T BY <1>1
<1> HIDE DEF F
<1> DEFINE X(x) == Hundred * F(x)
<1>11. ASSUME NEW x \in 0..T PROVE X(x) \in Nat /\ X(x) <= Half
  <2>1. F(x) \in Nat /\ F(x) <= 2 * T /\ 2 * T \in Nat
    <3>1. x <= T BY <1>1
    <3>2. F(x) <= F(T) BY <1>8, <1>10, <3>1
    <3> QED BY <1>1, <1>3, <1>9, <3>2
  <2>2. Hundred * F(x) <= Hundred * (2 * T) /\ Hundred * F(x) \in Nat BY <1>4, <2>1, Scaled
  <2>3. Hundred * (2 * T) = 2 * (Hundred * T) /\ Hundred * T \in Nat BY <1>1, <1>4
  <2> QED BY <1>4, <1>5, <2>2, <2>3
<1>12. \A x \in 0..T : \A y \in 0..T : x <= y => X(x) <= X(y)
  BY <1>4, <1>8, <1>9, Scaled
<1> HIDE DEF X
<1> DEFINE Y(x) == Rounded[X(x)][1]
<1>13. ASSUME NEW x \in 0..T PROVE Roundable(X(x), 1) /\ Y(x) \in Nat /\ Y(x) <= Half
  <2>1. Half < Limit /\ X(x) \in Nat /\ X(x) <= Half * 1 /\ 1 \in Nat \ {0} BY <1>5, <1>11
  <2> QED BY <1>5, <2>1, RoundedAtMost
<1>14. \A x \in 0..T : \A y \in 0..T : x <= y => Y(x) <= Y(y) BY <1>12, <1>13, RoundedMonotone
<1> HIDE DEF Y
<1>15. ASSUME NEW x \in 0..T PROVE Roundable(Y(x), F(T)) /\ Rounded[Y(x)][F(T)] \in Nat
  <2>1. Half < Limit /\ Y(x) \in Nat /\ Y(x) <= Half * F(T)
    <3>1. Half <= Half * F(T) /\ Half * F(T) \in Nat BY <1>3, <1>5
    <3> QED BY <1>5, <1>13, <3>1
  <2> QED BY <1>3, <1>5, <2>1, RoundedAtMost
<1>16. \A x \in 0..T : \A y \in 0..T : x <= y => Rounded[Y(x)][F(T)] <= Rounded[Y(y)][F(T)]
  BY <1>14, <1>15, RoundedMonotone
<1>17. \A x : Share(x, T) = Rounded[Y(x)][F(T)] BY DEF Share, Y, X, F
<1> QED BY <1>15, <1>16, <1>17

-----------------------------------------------------------------------------
(* The iterator and the list of brackets.                                   *)

\* The upper end of a position's cell.
Upper(a) == HighestEquivalent(g, ValueFromFlatIndex(g, a))

\* The iterator stands at its position, and never moves once all values are counted.
Placed ==
  /\ hist.counts \in CountArrays
  /\ hist = [geom |-> g, counts |-> hist.counts, total |-> PrefixSum(hist.counts)[n]]
  /\ ticks \in Ticks /\ at \in {"call", "search", "returned"} /\ place \in -1..(n - 1)
  /\ countToIdx = PrefixSum(hist.counts)[place + 1]
  /\ place = -1 => countAtIdx = 0 /\ highestEquivalentValue = 0
  /\ place # -1 => /\ countAtIdx = hist.counts[place] /\ highestEquivalentValue = Upper(place)
                   /\ PrefixSum(hist.counts)[place] < hist.total

\* The level is not below what was reported, and above the share of the values before
\* the position.
Levelled ==
  /\ Level \in 0..Hundred /\ IsFloat(Level) /\ percentile \in 0..Hundred
  /\ ~seenLastValue =>
       /\ percentile <= Level
       /\ percentile = 0 \/ percentile <= Share(countToIdx, hist.total)
       /\ place # -1 => countToIdx = countAtIdx \/ Share(countToIdx - countAtIdx, hist.total) < Level

Bracket == [quantile : Nat, count : Nat, valueAt : Nat]

\* The list is ordered, and its last bracket is not past the iterator.
Listed ==
  /\ brackets \in Seq(Bracket) /\ Len(brackets) \in 0..2
  /\ brackets = <<>> => Level = 0 /\ percentile = 0 /\ ~seenLastValue
  /\ brackets # <<>> => /\ Latest.quantile = percentile /\ Latest.count <= countToIdx
                        /\ Latest.valueAt <= highestEquivalentValue
  /\ Len(brackets) = 2 => /\ brackets[1].quantile <= brackets[2].quantile
                          /\ brackets[1].count <= brackets[2].count
                          /\ brackets[1].valueAt <= brackets[2].valueAt

\* What holds between two calls of next, and after the last.
Paused ==
  /\ at = "returned" => seenLastValue
  /\ at = "search" => ~seenLastValue /\ place # -1
  /\ seenLastValue => /\ brackets # <<>> /\ percentile = Hundred /\ countToIdx = hist.total
                      /\ Latest.count = countToIdx /\ Latest.valueAt = highestEquivalentValue
  /\ at = "call" /\ brackets # <<>> /\ ~seenLastValue =>
       /\ place # -1 /\ countAtIdx # 0 /\ Latest.count = countToIdx
       /\ \/ countToIdx = countAtIdx
          \/ Share(countToIdx - countAtIdx, hist.total) < percentile
          \/ /\ countToIdx = hist.total /\ Share(hist.total, hist.total) < Hundred
             /\ Len(brackets) = 2 /\ brackets[1].quantile = percentile

ListInv == Placed /\ Levelled /\ Listed /\ Paused

LEMMA PlacedFacts ==
  ASSUME Placed
  PROVE  /\ n \in Nat /\ hist.geom = g
         /\ hist.total \in Nat /\ hist.total = PrefixSum(hist.counts)[n]
         /\ place \in Int /\ -1 <= place /\ place < n
         /\ countToIdx \in 0..hist.total /\ countAtIdx \in 0..countToIdx /\ highestEquivalentValue \in Nat
         /\ place = -1 => countToIdx = 0
         /\ place # -1 => /\ countToIdx - countAtIdx = PrefixSum(hist.counts)[place]
                          /\ countToIdx - countAtIdx < hist.total
         /\ place + 1 >= n => countToIdx = hist.total
<1>1. PICK c \in CountArrays : c = hist.counts BY DEF Placed
<1>2. /\ PrefixSum(c)[0] = 0
      /\ \A a \in 0..n : PrefixSum(c)[a] \in Nat
      /\ \A a \in 0..n : \A b \in 0..a : PrefixSum(c)[b] <= PrefixSum(c)[a]
      /\ \A a \in 0..(n - 1) : c[a] \in Nat /\ PrefixSum(c)[a + 1] = PrefixSum(c)[a] + c[a]
  BY SumFacts
<1>3. n \in Nat BY CountsAssumption
<1>4. hist.geom = g /\ hist.total = PrefixSum(c)[n]
  <2>1. hist = [geom |-> g, counts |-> c, total |-> PrefixSum(c)[n]] BY <1>1 DEF Placed
  <2> QED BY <2>1
<1>5. place \in Int /\ -1 <= place /\ place < n /\ place + 1 \in 0..n /\ n \in 0..n BY <1>3 DEF Placed
<1>6. countToIdx = PrefixSum(c)[place + 1] BY <1>1 DEF Placed
<1>7. hist.total \in Nat /\ countToIdx \in Nat /\ countToIdx <= hist.total BY <1>2, <1>4, <1>5, <1>6
<1>8. CASE place = -1
  <2>1. countToIdx = 0 /\ countAtIdx = 0 /\ highestEquivalentValue = 0
    BY <1>2, <1>6, <1>8 DEF Placed
  <2>2. place + 1 >= n => n = 0 BY <1>3, <1>8
  <2> QED BY <1>1, <1>2, <1>3, <1>4, <1>5, <1>7, <1>8, <2>1, <2>2
<1>9. CASE place # -1
  <2>1. place \in 0..(n - 1) BY <1>5, <1>9
  <2>2. countAtIdx = c[place] /\ PrefixSum(c)[place] < hist.total BY <1>1, <1>9 DEF Placed
  <2>3. c[place] \in Nat /\ countToIdx = PrefixSum(c)[place] + c[place] BY <1>2, <1>6, <2>1
  <2>4. PrefixSum(c)[place] \in Nat
    <3>1. place \in 0..n BY <1>3, <2>1
    <3> QED BY <1>2, <3>1
  <2>5. highestEquivalentValue \in Nat
    <3>1. Upper(place) \in 0..MaxInt BY <2>1, CellFacts DEF Upper
    <3> QED BY <1>9, <3>1, MaxIntFacts DEF Placed
  <2>6. place + 1 >= n => place + 1 = n BY <1>3, <1>5
  <2>7. countToIdx - countAtIdx = PrefixSum(c)[place] /\ countAtIdx \in 0..countToIdx BY <1>7, <2>2, <2>3, <2>4
  <2>8. place + 1 >= n => countToIdx = hist.total BY <1>4, <1>6, <2>6
  <2> QED BY <1>1, <1>3, <1>4, <1>5, <1>7, <1>9, <2>2, <2>5, <2>7, <2>8
<1> QED BY <1>8, <1>9

\* A step of the iterator.
LEMMA AdvanceFacts ==
  ASSUME Placed, countToIdx < hist.total, Advance, UNCHANGED <<hist, ticks>>,
         at' \in {"call", "search", "returned"}
  PROVE  /\ Placed' /\ place' # -1
         /\ countToIdx' - countAtIdx' = countToIdx /\ countToIdx <= countToIdx'
         /\ highestEquivalentValue <= highestEquivalentValue'
         /\ countToIdx' \in 0..hist.total /\ countAtIdx' \in Nat /\ highestEquivalentValue' \in Nat
<1>1. PICK c \in CountArrays : c = hist.counts BY DEF Placed
<1>2. \A a \in 0..(n - 1) : c[a] \in Nat /\ PrefixSum(c)[a + 1] = PrefixSum(c)[a] + c[a] BY SumFacts
<1>3. /\ n \in Nat /\ hist.total \in Nat /\ hist.total = PrefixSum(c)[n]
      /\ place \in Int /\ -1 <= place /\ place < n /\ countToIdx \in Nat
      /\ (place + 1 >= n => countToIdx = hist.total)
  BY <1>1, PlacedFacts
<1>4. place + 1 \in 0..(n - 1) BY <1>3
<1>5. /\ place' = place + 1 /\ countAtIdx' = c[place + 1] /\ countToIdx' = countToIdx + c[place + 1]
      /\ highestEquivalentValue' = Upper(place + 1)
  BY <1>1 DEF Advance, Upper
<1>6. countToIdx = PrefixSum(c)[place + 1] BY <1>1 DEF Placed
<1>7. /\ c[place + 1] \in Nat /\ PrefixSum(c)[(place + 1) + 1] = PrefixSum(c)[place + 1] + c[place + 1]
  BY <1>2, <1>4
<1>8. countToIdx' = PrefixSum(c)[place' + 1] /\ PrefixSum(c)[place'] < hist.total
  BY <1>5, <1>6, <1>7
<1>9. place' # -1 /\ place' \in -1..(n - 1) BY <1>3, <1>4, <1>5
<1>10. Placed' BY <1>1, <1>5, <1>8, <1>9 DEF Placed
<1>11. countToIdx' - countAtIdx' = countToIdx /\ countToIdx <= countToIdx' BY <1>3, <1>5, <1>7
<1>12. countToIdx' \in 0..hist.total
  <2>1. (place + 1) + 1 \in 0..n /\ n \in 0..n /\ (place + 1) + 1 \in 0..n BY <1>3, <1>4
  <2>2. PrefixSum(c)[(place + 1) + 1] \in Nat /\ PrefixSum(c)[(place + 1) + 1] <= PrefixSum(c)[n]
    BY <2>1, SumFacts
  <2> QED BY <1>3, <1>5, <1>8, <2>2
<1>13. highestEquivalentValue <= highestEquivalentValue' /\ highestEquivalentValue' \in Nat
  <2>1. Upper(place + 1) \in 0..MaxInt BY <1>4, CellFacts DEF Upper
  <2>2. CASE place = -1
    <3>1. highestEquivalentValue = 0 BY <2>2 DEF Placed
    <3> QED BY <1>5, <2>1, <3>1, MaxIntFacts
  <2>3. CASE place # -1
    <3>1. highestEquivalentValue = Upper(place) BY <2>3 DEF Placed
    <3>2. place \in 0..(n - 1) /\ place <= place + 1 BY <1>3, <2>3
    <3>3. Upper(place) <= Upper(place + 1) BY <1>4, <3>2, CellFacts DEF Upper
    <3> QED BY <1>5, <2>1, <3>1, <3>3, MaxIntFacts
  <2> QED BY <2>2, <2>3
<1> QED BY <1>5, <1>7, <1>9, <1>10, <1>11, <1>12, <1>13

LEMMA AppendFacts ==
  ASSUME NEW S, NEW s \in Seq(S), NEW e \in S
  PROVE  /\ Append(s, e) \in Seq(S) /\ Len(Append(s, e)) = Len(s) + 1
         /\ \A k \in 1..Len(s) : Append(s, e)[k] = s[k]
         /\ Append(s, e)[Len(s) + 1] = e
OBVIOUS

\* A bracket is appended to a list of which the last two are kept.
LEMMA ReportFacts ==
  ASSUME Placed, Levelled, Listed, NEW q \in 0..Hundred, percentile <= q, Report(q),
         UNCHANGED <<countToIdx, highestEquivalentValue>>
  PROVE  /\ percentile' = q /\ at' = "call"
         /\ brackets' \in Seq(Bracket) /\ Len(brackets') \in 1..2 /\ brackets' # <<>>
         /\ Latest' = [quantile |-> q, count |-> countToIdx, valueAt |-> highestEquivalentValue]
         /\ Len(brackets') = 2 =>
              /\ brackets'[1].quantile <= brackets'[2].quantile
              /\ brackets'[1].count <= brackets'[2].count
              /\ brackets'[1].valueAt <= brackets'[2].valueAt
         /\ brackets # <<>> => Len(brackets') = 2 /\ brackets'[1].quantile = percentile
<1> DEFINE b == [quantile |-> q, count |-> countToIdx, valueAt |-> highestEquivalentValue]
<1>1. countToIdx \in Nat /\ highestEquivalentValue \in Nat /\ percentile \in Nat /\ q \in Nat
  BY PlacedFacts, HundredFacts DEF Levelled
<1>2. b \in Bracket BY <1>1 DEF Bracket
<1>3. b.quantile = q /\ b.count = countToIdx /\ b.valueAt = highestEquivalentValue OBVIOUS
<1>4. brackets' = Append2(brackets, b) /\ percentile' = q /\ at' = "call" BY DEF Report
<1> HIDE DEF b
<1>5. brackets \in Seq(Bracket) /\ Len(brackets) \in 0..2 BY DEF Listed
<1>6. CASE brackets = <<>>
  <2>1. Len(brackets) < 2 BY <1>6
  <2>2. brackets' = Append(brackets, b) BY <1>4, <2>1 DEF Append2
  <2>3. brackets' = <<b>> BY <1>6, <2>2
  <2>4. brackets' \in Seq(Bracket) /\ Len(brackets') = 1 /\ brackets'[1] = b BY <1>2, <2>3
  <2> QED BY <1>4, <1>6, <2>4 DEF Latest, b
<1>7. CASE brackets # <<>>
  <2>1. Len(brackets) \in 1..2 BY <1>5, <1>7
  <2> DEFINE a == Latest
  <2>2. a \in Bracket BY <1>5, <2>1 DEF Latest
  <2>3. brackets' \in Seq(Bracket) /\ Len(brackets') = 2 /\ brackets'[1] = a /\ brackets'[2] = b
    <3>1. CASE Len(brackets) = 1
      <4>1. brackets' = Append(brackets, b) BY <1>4, <3>1 DEF Append2
      <4>2. a = brackets[1] BY <3>1 DEF Latest
      <4>3. /\ Append(brackets, b) \in Seq(Bracket) /\ Len(Append(brackets, b)) = 1 + 1
            /\ \A k \in 1..1 : Append(brackets, b)[k] = brackets[k]
            /\ Append(brackets, b)[1 + 1] = b
        <5>1. PICK m : m = Len(brackets) OBVIOUS
        <5>2. /\ Append(brackets, b) \in Seq(Bracket) /\ Len(Append(brackets, b)) = m + 1
              /\ \A k \in 1..m : Append(brackets, b)[k] = brackets[k]
              /\ Append(brackets, b)[m + 1] = b
          BY <1>2, <1>5, <5>1, AppendFacts
        <5>3. m = 1 BY <3>1, <5>1
        <5> QED BY <5>2, <5>3
      <4>4. 1 \in 1..1 /\ 1 + 1 = 2 OBVIOUS
      <4>5. Append(brackets, b)[1] = brackets[1] BY <4>3, <4>4, Zenon
      <4>6. Len(Append(brackets, b)) = 2 /\ Append(brackets, b)[2] = b BY <4>3, <4>4, Zenon
      <4> QED BY <4>1, <4>2, <4>3, <4>5, <4>6, Zenon
    <3>2. CASE Len(brackets) = 2
      <4>1. brackets' = <<brackets[2], b>> BY <1>4, <3>2 DEF Append2
      <4>2. a = brackets[2] BY <3>2 DEF Latest
      <4>3. brackets' = <<a, b>> BY <4>1, <4>2
      <4> HIDE DEF a
      <4> QED BY <1>2, <2>2, <4>3
    <3> QED BY <2>1, <3>1, <3>2
  <2>4. a.quantile = percentile /\ a.count <= countToIdx /\ a.valueAt <= highestEquivalentValue
    BY <1>7 DEF Listed
  <2> HIDE DEF a
  <2>5. Latest' = b BY <2>3 DEF Latest
  <2> QED BY <1>3, <1>4, <1>7, <2>3, <2>4, <2>5 DEF b
<1> QED BY <1>6, <1>7

LEMMA ListInitInv == ListInit => ListInv
<1> SUFFICES ASSUME ListInit PROVE ListInv OBVIOUS
<1>1. PICK c \in CountArrays : hist = [geom |-> g, counts |-> c, total |-> PrefixSum(c)[n]]
  BY DEF ListInit
<1>2. hist.counts = c BY <1>1
<1>3. /\ ticks \in Ticks /\ at = "call" /\ place = -1 /\ countAtIdx = 0 /\ countToIdx = 0
      /\ highestEquivalentValue = 0 /\ Level = 0 /\ percentile = 0 /\ seenLastValue = FALSE /\ brackets = <<>>
  BY DEF ListInit, Level
<1>4. Placed
  <2>1. n \in Nat /\ -1 + 1 = 0 BY CountsAssumption
  <2>2. countToIdx = PrefixSum(hist.counts)[place + 1] BY <1>3, <2>1, PrefixSumZero
  <2> QED BY <1>1, <1>2, <1>3, <2>1, <2>2 DEF Placed
<1>5. Levelled BY <1>3, OneFacts, OneIsFloat DEF Levelled, Hundred
<1>6. Listed /\ Paused BY <1>3 DEF Listed, Paused
<1> QED BY <1>4, <1>5, <1>6 DEF ListInv

LEMMA LastValueInv == ASSUME ListInv, LastValue PROVE ListInv'
<1>1. Placed /\ Levelled /\ Listed /\ Paused BY DEF ListInv
<1>2. /\ at = "call" /\ countToIdx >= hist.total
      /\ UNCHANGED <<hist, ticks, place, countAtIdx, countToIdx, highestEquivalentValue, Level>>
  BY DEF LastValue, iter, Level
<1>3. CASE seenLastValue /\ at' = "returned" /\ UNCHANGED <<seenLastValue, percentile, brackets>>
  <2>1. Placed' BY <1>1, <1>2, <1>3 DEF Placed
  <2>2. Levelled' BY <1>1, <1>2, <1>3 DEF Levelled
  <2>3. Listed' BY <1>1, <1>2, <1>3 DEF Listed, Latest
  <2>4. Paused' BY <1>1, <1>2, <1>3 DEF Paused, Latest
  <2> QED BY <2>1, <2>2, <2>3, <2>4 DEF ListInv
<1>4. CASE ~seenLastValue /\ seenLastValue' = TRUE /\ Report(Hundred)
  <2>0. Hundred \in 0..Hundred /\ percentile <= Hundred /\ Hundred \in Nat BY <1>1, HundredFacts DEF Levelled
  <2>1. /\ percentile' = Hundred /\ at' = "call"
        /\ brackets' \in Seq(Bracket) /\ Len(brackets') \in 1..2 /\ brackets' # <<>>
        /\ Latest' = [quantile |-> Hundred, count |-> countToIdx, valueAt |-> highestEquivalentValue]
        /\ Len(brackets') = 2 =>
             /\ brackets'[1].quantile <= brackets'[2].quantile
             /\ brackets'[1].count <= brackets'[2].count
             /\ brackets'[1].valueAt <= brackets'[2].valueAt
    BY <1>1, <1>2, <1>4, <2>0, ReportFacts
  <2>2. Latest'.quantile = Hundred /\ Latest'.count = countToIdx /\ Latest'.valueAt = highestEquivalentValue BY <2>1
  <2>3. countToIdx = hist.total /\ countToIdx \in Nat /\ highestEquivalentValue \in Nat BY <1>1, <1>2, PlacedFacts
  <2>4. Placed' BY <1>1, <1>2, <2>1 DEF Placed
  <2>5. Levelled' BY <1>1, <1>2, <1>4, <2>0, <2>1 DEF Levelled
  <2>6. Listed'
    <3>1. Len(brackets') \in 0..2 BY <2>1
    <3> QED BY <1>2, <2>1, <2>2, <2>3, <3>1 DEF Listed
  <2>7. Paused' BY <1>2, <1>4, <2>1, <2>2, <2>3 DEF Paused
  <2> QED BY <2>4, <2>5, <2>6, <2>7 DEF ListInv
<1> QED BY <1>3, <1>4 DEF LastValue

LEMMA EnterNextInv == ASSUME ListInv, EnterNext PROVE ListInv'
<1>1. Placed /\ Levelled /\ Listed /\ Paused BY DEF ListInv
<1>2. /\ at = "call" /\ countToIdx < hist.total /\ at' = "search"
      /\ IF place = -1 THEN Advance ELSE UNCHANGED <<place, countAtIdx, countToIdx, highestEquivalentValue>>
      /\ UNCHANGED <<hist, ticks, Level, percentile, seenLastValue, brackets>>
  BY DEF EnterNext, iter, Level
<1>3. countToIdx \in Nat /\ hist.total \in Nat /\ highestEquivalentValue \in Nat BY <1>1, PlacedFacts
<1>4. ~seenLastValue
  <2> SUFFICES ASSUME seenLastValue PROVE FALSE OBVIOUS
  <2>1. countToIdx = hist.total BY <1>1 DEF Paused
  <2> QED BY <1>2, <1>3, <2>1
<1>5. CASE place = -1
  <2>1. /\ Placed' /\ place' # -1 /\ countToIdx' - countAtIdx' = countToIdx
        /\ countToIdx' \in 0..hist.total /\ countAtIdx' \in Nat
    BY <1>1, <1>2, <1>5, AdvanceFacts
  <2>2. brackets = <<>> /\ percentile = 0 /\ Level = 0 BY <1>1, <1>2, <1>4, <1>5 DEF Paused, Listed
  <2>3. countToIdx' \in Nat /\ countAtIdx' \in Nat BY <1>3, <2>1
  <2>4. countToIdx' = countAtIdx'
    <3>1. countToIdx' - countAtIdx' = 0 BY <1>1, <1>5, <2>1, PlacedFacts
    <3>2. \A x, y \in Nat : x - y = 0 => x = y OBVIOUS
    <3> QED BY <2>3, <3>1, <3>2, Zenon
  <2>5. Levelled' BY <1>1, <1>2, <2>2, <2>4 DEF Levelled
  <2>6. Listed' /\ Paused' BY <1>1, <1>2, <1>4, <2>1, <2>2 DEF Listed, Paused
  <2> QED BY <2>1, <2>5, <2>6 DEF ListInv
<1>6. CASE place # -1
  <2>1. UNCHANGED <<place, countAtIdx, countToIdx, highestEquivalentValue>> BY <1>2, <1>6
  <2>2. Placed' BY <1>1, <1>2, <2>1 DEF Placed
  <2>3. Levelled' BY <1>1, <1>2, <2>1 DEF Levelled
  <2>4. Listed' BY <1>1, <1>2, <2>1 DEF Listed, Latest
  <2>5. Paused' BY <1>1, <1>2, <1>4, <1>6, <2>1 DEF Paused, Latest
  <2> QED BY <2>2, <2>3, <2>4, <2>5 DEF ListInv
<1> QED BY <1>5, <1>6

\* In the loop of next there are values, and shares can be compared.
LEMMA SearchFacts ==
  ASSUME Placed, place # -1
  PROVE  /\ hist.total # 0
         /\ countToIdx \in 0..hist.total /\ countToIdx - countAtIdx \in 0..hist.total
         /\ hist.total \in 0..hist.total
         /\ \A a \in 0..hist.total :
              /\ Share(a, hist.total) \in Nat
              /\ \A b \in 0..hist.total : a <= b => Share(a, hist.total) <= Share(b, hist.total)
<1>1. /\ hist.total \in Nat /\ hist.total = PrefixSum(hist.counts)[n]
      /\ countToIdx \in 0..hist.total /\ countAtIdx \in 0..countToIdx
      /\ countToIdx - countAtIdx < hist.total
  BY PlacedFacts
<1>2. hist.total # 0 /\ countToIdx - countAtIdx \in 0..hist.total /\ hist.total \in 0..hist.total BY <1>1
<1>3. hist.counts \in CountArrays BY DEF Placed
<1> QED BY <1>1, <1>2, <1>3, ShareFacts

LEMMA ReportLevelInv ==
  ASSUME ListInv, ReportLevel PROVE ListInv'
<1>1. Placed /\ Levelled /\ Listed /\ Paused BY DEF ListInv
<1>2. /\ at = "search" /\ countAtIdx # 0 /\ Level <= Share(countToIdx, hist.total)
      /\ Report(Level) /\ Level' = Tick(Level)
      /\ UNCHANGED <<hist, ticks, place, countAtIdx, countToIdx, highestEquivalentValue, seenLastValue>>
  BY PercentageIs DEF ReportLevel, Reached, iter, Level
<1>3. ~seenLastValue /\ place # -1 BY <1>1, <1>2 DEF Paused
<1>4. /\ Level \in 0..Hundred /\ IsFloat(Level) /\ percentile <= Level
      /\ countToIdx = countAtIdx \/ Share(countToIdx - countAtIdx, hist.total) < Level
  BY <1>1, <1>3 DEF Levelled
<1>5. ticks \in Nat \ {0} BY <1>1, TicksAssumption DEF Placed
<1>6. Level' \in Level..Hundred /\ IsFloat(Level') BY <1>2, <1>4, <1>5, TickFacts
<1>7. Share(countToIdx, hist.total) \in Nat /\ Share(countToIdx - countAtIdx, hist.total) \in Nat
  BY <1>1, <1>3, SearchFacts
<1>8. /\ percentile' = Level /\ at' = "call"
      /\ brackets' \in Seq(Bracket) /\ Len(brackets') \in 1..2 /\ brackets' # <<>>
      /\ Latest' = [quantile |-> Level, count |-> countToIdx, valueAt |-> highestEquivalentValue]
      /\ Len(brackets') = 2 =>
           /\ brackets'[1].quantile <= brackets'[2].quantile
           /\ brackets'[1].count <= brackets'[2].count
           /\ brackets'[1].valueAt <= brackets'[2].valueAt
  BY <1>1, <1>2, <1>4, ReportFacts
<1>9. Latest'.quantile = Level /\ Latest'.count = countToIdx /\ Latest'.valueAt = highestEquivalentValue BY <1>8
<1>10. Hundred \in Nat /\ countToIdx \in Nat /\ highestEquivalentValue \in Nat BY <1>1, HundredFacts, PlacedFacts
<1>11. Placed' BY <1>1, <1>2, <1>8 DEF Placed
<1>12. Levelled'
  <2>1. Level' \in 0..Hundred /\ Level <= Level' /\ Level \in Int /\ Level' \in Int BY <1>4, <1>6, <1>10
  <2>2. countToIdx = countAtIdx \/ Share(countToIdx - countAtIdx, hist.total) < Level' BY <1>4, <1>7, <2>1
  <2> QED BY <1>2, <1>3, <1>4, <1>6, <1>8, <2>1, <2>2 DEF Levelled
<1>13. Listed'
  <2>1. Len(brackets') \in 0..2 BY <1>8
  <2> QED BY <1>2, <1>8, <1>9, <1>10, <2>1 DEF Listed
<1>14. Paused' BY <1>2, <1>3, <1>4, <1>8, <1>9 DEF Paused
<1> QED BY <1>11, <1>12, <1>13, <1>14 DEF ListInv

LEMMA SearchOnInv == ASSUME ListInv, SearchOn PROVE ListInv'
<1>1. Placed /\ Levelled /\ Listed /\ Paused BY DEF ListInv
<1>2. /\ at = "search" /\ ~(countAtIdx # 0 /\ Level <= Share(countToIdx, hist.total))
      /\ IF countToIdx >= hist.total \/ place + 1 >= n
         THEN Report(percentile) /\ UNCHANGED <<place, countAtIdx, countToIdx, highestEquivalentValue>>
         ELSE Advance /\ UNCHANGED <<at, percentile, brackets>>
      /\ UNCHANGED <<hist, ticks, Level, seenLastValue>>
  BY <1>1, PercentageIs, PlacedFacts DEF SearchOn, Reached, Exhausted, iter, Level
<1>3. ~seenLastValue /\ place # -1 BY <1>1, <1>2 DEF Paused
<1>4. /\ Level \in 0..Hundred /\ IsFloat(Level) /\ percentile \in 0..Hundred /\ percentile <= Level
      /\ percentile = 0 \/ percentile <= Share(countToIdx, hist.total)
      /\ countToIdx = countAtIdx \/ Share(countToIdx - countAtIdx, hist.total) < Level
  BY <1>1, <1>3 DEF Levelled
<1>5. /\ Hundred \in Nat /\ countToIdx \in Nat /\ countAtIdx \in Nat /\ highestEquivalentValue \in Nat
      /\ hist.total \in Nat /\ countToIdx <= hist.total /\ (place + 1 >= n => countToIdx = hist.total)
      /\ countToIdx - countAtIdx < hist.total
  BY <1>1, <1>3, HundredFacts, PlacedFacts
<1>6. Share(countToIdx, hist.total) \in Nat /\ Level \in Int BY <1>1, <1>3, <1>4, <1>5, SearchFacts
<1>7. CASE countToIdx >= hist.total \/ place + 1 >= n
  <2>1. Report(percentile) /\ UNCHANGED <<place, countAtIdx, countToIdx, highestEquivalentValue>>
    BY <1>2, <1>7
  <2>2. countToIdx = hist.total /\ countAtIdx # 0 BY <1>5, <1>7
  <2>3. Share(countToIdx, hist.total) < Level BY <1>2, <1>6, <2>2
  <2>4. brackets # <<>>
    <3> SUFFICES ASSUME brackets = <<>> PROVE FALSE OBVIOUS
    <3>1. Level = 0 BY <1>1 DEF Listed
    <3> QED BY <1>6, <2>3, <3>1
  <2>5. Share(hist.total, hist.total) < Hundred
    <3>1. Level <= Hundred /\ Level \in Int BY <1>4, <1>5
    <3> QED BY <1>5, <1>6, <2>2, <2>3, <3>1
  <2>6. percentile <= percentile BY <1>4, <1>5
  <2>7. /\ percentile' = percentile /\ at' = "call"
        /\ brackets' \in Seq(Bracket) /\ Len(brackets') \in 1..2 /\ brackets' # <<>>
        /\ Latest' = [quantile |-> percentile, count |-> countToIdx, valueAt |-> highestEquivalentValue]
        /\ Len(brackets') = 2 =>
             /\ brackets'[1].quantile <= brackets'[2].quantile
             /\ brackets'[1].count <= brackets'[2].count
             /\ brackets'[1].valueAt <= brackets'[2].valueAt
        /\ Len(brackets') = 2 /\ brackets'[1].quantile = percentile
    BY <1>1, <1>4, <2>1, <2>4, <2>6, ReportFacts
  <2>8. Latest'.quantile = percentile /\ Latest'.count = countToIdx /\ Latest'.valueAt = highestEquivalentValue
    BY <2>7
  <2>9. Placed' BY <1>1, <1>2, <2>1, <2>7 DEF Placed
  <2>10. Levelled' BY <1>1, <1>2, <2>1, <2>7 DEF Levelled
  <2>11. Listed'
    <3>1. Len(brackets') \in 0..2 BY <2>7
    <3> QED BY <1>2, <1>5, <2>1, <2>7, <2>8, <3>1 DEF Listed
  <2>12. Paused' BY <1>2, <1>3, <2>1, <2>2, <2>5, <2>7, <2>8 DEF Paused
  <2> QED BY <2>9, <2>10, <2>11, <2>12 DEF ListInv
<1>8. CASE ~(countToIdx >= hist.total \/ place + 1 >= n)
  <2>1. Advance /\ UNCHANGED <<at, percentile, brackets>> /\ countToIdx < hist.total BY <1>2, <1>5, <1>8
  <2>2. /\ Placed' /\ place' # -1 /\ countToIdx' - countAtIdx' = countToIdx /\ countToIdx <= countToIdx'
        /\ highestEquivalentValue <= highestEquivalentValue'
    BY <1>1, <1>2, <2>1, AdvanceFacts
  <2>3. countToIdx' \in 0..hist.total /\ countAtIdx' \in Nat /\ highestEquivalentValue' \in Nat
    BY <1>1, <1>2, <2>1, AdvanceFacts
  <2>4. percentile = 0 \/ percentile <= Share(countToIdx', hist.total)
    <3>1. /\ Share(countToIdx, hist.total) <= Share(countToIdx', hist.total)
          /\ Share(countToIdx', hist.total) \in Nat
      BY <1>1, <1>3, <2>2, <2>3, SearchFacts
    <3> QED BY <1>4, <1>5, <1>6, <3>1
  <2>5. countToIdx' = countAtIdx' \/ Share(countToIdx, hist.total) < Level
    <3>1. CASE countAtIdx # 0 BY <1>2, <1>6, <3>1
    <3>2. CASE countAtIdx = 0
      <4>1. countToIdx - countAtIdx = countToIdx BY <1>5, <3>2
      <4>2. CASE countToIdx = countAtIdx
        <5>1. countToIdx' - countAtIdx' = 0 BY <2>2, <3>2, <4>2
        <5>2. \A x, y \in Nat : x - y = 0 => x = y OBVIOUS
        <5>3. countToIdx' \in Nat /\ countAtIdx' \in Nat BY <1>5, <2>3
        <5> QED BY <5>1, <5>2, <5>3, Zenon
      <4>3. CASE Share(countToIdx - countAtIdx, hist.total) < Level BY <4>1, <4>3
      <4> QED BY <1>4, <4>2, <4>3
    <3> QED BY <3>1, <3>2
  <2>6. Levelled' BY <1>2, <1>4, <2>1, <2>2, <2>4, <2>5 DEF Levelled
  <2>7. Listed'
    <3>1. brackets # <<>> => Latest.count \in Nat /\ Latest.valueAt \in Nat
      <4> SUFFICES ASSUME brackets # <<>> PROVE Latest \in Bracket BY DEF Bracket
      <4>1. brackets \in Seq(Bracket) /\ Len(brackets) \in 1..2 BY <1>1 DEF Listed
      <4> QED BY <4>1 DEF Latest
    <3>2. brackets # <<>> => Latest.count <= countToIdx' /\ Latest.valueAt <= highestEquivalentValue'
      <4> SUFFICES ASSUME brackets # <<>>
                   PROVE  Latest.count <= countToIdx' /\ Latest.valueAt <= highestEquivalentValue'
        OBVIOUS
      <4>1. Latest.count <= countToIdx /\ Latest.valueAt <= highestEquivalentValue BY <1>1 DEF Listed
      <4>2. countToIdx' \in Nat BY <1>5, <2>3
      <4>3. \A x, y, z \in Nat : x <= y /\ y <= z => x <= z OBVIOUS
      <4> QED BY <1>5, <2>2, <2>3, <3>1, <4>1, <4>2, <4>3, Zenon
    <3>3. Latest' = Latest BY <2>1 DEF Latest
    <3> QED BY <1>1, <1>2, <2>1, <3>2, <3>3 DEF Listed
  <2>8. Paused' BY <1>2, <1>3, <2>1, <2>2 DEF Paused
  <2> QED BY <2>2, <2>6, <2>7, <2>8 DEF ListInv
<1> QED BY <1>7, <1>8

LEMMA ListStepInv ==
  ASSUME ListInv, [ListNext]_listVars PROVE ListInv'
<1>1. CASE LastValue BY <1>1, LastValueInv
<1>2. CASE EnterNext BY <1>2, EnterNextInv
<1>3. CASE ReportLevel BY <1>3, ReportLevelInv
<1>4. CASE SearchOn BY <1>4, SearchOnInv
<1>5. CASE UNCHANGED listVars
  <2>1. UNCHANGED <<hist, ticks, at, place, countAtIdx, countToIdx, highestEquivalentValue,
                    Level, percentile, seenLastValue, brackets>>
    BY <1>5 DEF listVars, iter, Level
  <2> QED BY <2>1 DEF ListInv, Placed, Levelled, Listed, Paused, Latest
<1> QED BY <1>1, <1>2, <1>3, <1>4, <1>5 DEF ListNext

-----------------------------------------------------------------------------
(* Max, the bars and the theorems.                                          *)

\* Max is the upper end of the position at which the running count reaches the total.
LEMMA MaxIs ==
  ASSUME Placed, NEW m \in 0..(n - 1),
         PrefixSum(hist.counts)[m] < hist.total, PrefixSum(hist.counts)[m + 1] = hist.total
  PROVE  MaxOf(hist) = Upper(m)
<1>1. PICK c \in CountArrays : c = hist.counts BY DEF Placed
<1>2. /\ \A a \in 0..n : PrefixSum(c)[a] \in Nat
      /\ \A a \in 0..n : \A b \in 0..a : PrefixSum(c)[b] <= PrefixSum(c)[a]
      /\ \A a \in 0..(n - 1) : c[a] \in Nat /\ PrefixSum(c)[a + 1] = PrefixSum(c)[a] + c[a]
  BY SumFacts
<1>3. n \in Nat /\ hist.geom = g /\ hist.total \in Nat BY PlacedFacts
<1>4. DOMAIN c = 0..(n - 1) BY CountsAssumption
<1> DEFINE Z == {j \in 0..(n - 1) : c[j] # 0 /\ PrefixSum(c)[j] < hist.total}
<1>5. Visited(hist) \intersect Populated(hist) = Z
  BY <1>1, <1>4 DEF Visited, Populated
<1>6. m \in Z
  <2>1. m \in 0..n /\ m + 1 \in 0..n BY <1>3
  <2>2. PrefixSum(c)[m] \in Nat /\ c[m] \in Nat /\ PrefixSum(c)[m + 1] = PrefixSum(c)[m] + c[m]
    BY <1>2, <2>1
  <2> QED BY <1>1, <1>3, <2>2
<1>7. \A l \in Z : l <= m
  <2> SUFFICES ASSUME NEW l \in 0..(n - 1), PrefixSum(c)[l] < hist.total, m < l PROVE FALSE BY <1>3
  <2>1. l \in 0..n /\ m + 1 \in 0..l BY <1>3
  <2>2. PrefixSum(c)[m + 1] <= PrefixSum(c)[l] /\ PrefixSum(c)[l] \in Nat BY <1>2, <2>1
  <2> QED BY <1>1, <1>3, <2>2
<1> DEFINE last == CHOOSE j \in Z : \A l \in Z : l <= j
<1>8. last = m
  <2>1. Z \subseteq Int OBVIOUS
  <2> HIDE DEF Z
  <2>2. last \in Z /\ \A l \in Z : l <= last BY <1>6, <1>7, Zenon
  <2> HIDE DEF last
  <2>3. last <= m /\ m <= last /\ last \in Int /\ m \in Int BY <1>6, <1>7, <2>1, <2>2
  <2> QED BY <2>3
<1>9. MaxOf(hist) = HighestEquivalent(g, HighestEquivalent(g, ValueFromFlatIndex(g, last)))
  <2>1. Z # {} BY <1>6
  <2> HIDE DEF Z
  <2> QED BY <1>3, <1>5, <2>1 DEF MaxOf, last
<1>10. HighestEquivalent(g, HighestEquivalent(g, ValueFromFlatIndex(g, m))) = HighestEquivalent(g, ValueFromFlatIndex(g, m))
  <2>1. PICK G : G = g OBVIOUS
  <2>2. IsArgs(GeometryArgs) /\ WireAccepts(GeometryArgs) BY LengthAssumption DEF IsArgs
  <2>3. Built(G) BY <2>1, <2>2, WireBuilt DEF g
  <2>4. m \in 0..(G.countsLen - 1) BY <2>1, LengthAssumption
  <2>5. HighestEquivalent(G, HighestEquivalent(G, ValueFromFlatIndex(G, m))) = HighestEquivalent(G, ValueFromFlatIndex(G, m))
    BY <2>3, <2>4, PositionEnds
  <2> QED BY <2>1, <2>5
<1> HIDE DEF last
<1> QED BY <1>8, <1>9, <1>10 DEF Upper

\* The cells of two positions that follow each other adjoin, and the first starts at 0.
LEMMA CellsAdjoin ==
  /\ n > 0 => ValueFromFlatIndex(g, 0) = 0
  /\ \A a \in 1..(n - 1) : ValueFromFlatIndex(g, a) = Upper(a - 1) + 1
<1>1. PICK G : G = g OBVIOUS
<1>2. Built(G)
  <2>1. IsArgs(GeometryArgs) /\ WireAccepts(GeometryArgs) BY LengthAssumption DEF IsArgs
  <2> QED BY <1>1, <2>1, WireBuilt DEF g
<1>3. n = G.countsLen /\ n \in Nat BY <1>1, LengthAssumption, CountsAssumption
<1>4. Sized(G) BY <1>2 DEF Built
<1> DEFINE Lo(x) == ValueFromFlatIndex(G, x)
<1> DEFINE Hi(x) == HighestEquivalent(G, Lo(x))
<1>5. ASSUME NEW x \in 0..(n - 1)
      PROVE  /\ Lo(x) \in 0..MaxInt /\ Hi(x) \in 0..MaxInt
             /\ CountsIndexFor(G, Lo(x)) = x /\ CountsIndexFor(G, Hi(x)) = x
             /\ (Hi(x) < MaxInt => CountsIndexFor(G, Hi(x) + 1) = x + 1)
  <2>1. x \in 0..(G.countsLen - 1) BY <1>3
  <2>2. /\ Lo(x) \in 0..MaxInt /\ Hi(x) \in 0..MaxInt
        /\ CountsIndexFor(G, Lo(x)) = x /\ CountsIndexFor(G, Hi(x)) = x
    BY <1>2, <2>1, PositionEnds
  <2>3. InvertsAt(G, Lo(x))
    <3> HIDE DEF Lo
    <3> QED BY <1>4, <2>2, IndexInverse
  <2>4. Hi(x) < MaxInt => CountsIndexFor(G, Hi(x) + 1) = x + 1 BY <2>2, <2>3 DEF InvertsAt
  <2> QED BY <2>2, <2>4
<1>6. ASSUME NEW a \in 1..(n - 1) PROVE Lo(a) = Hi(a - 1) + 1
  <2> DEFINE b == a - 1
  <2>1. a \in 0..(n - 1) /\ b \in 0..(n - 1) /\ b < a /\ b + 1 = a /\ b \in Int /\ a \in Int BY <1>3
  <2> HIDE DEF b
  <2>2. Lo(a) \in 0..MaxInt /\ Hi(b) \in 0..MaxInt /\ CountsIndexFor(G, Lo(a)) = a /\ CountsIndexFor(G, Hi(b)) = b
    BY <1>5, <2>1
  <2>3. Hi(b) < MaxInt => CountsIndexFor(G, Hi(b) + 1) = a BY <1>5, <2>1
  <2> DEFINE l == Lo(a)
  <2> DEFINE h == Hi(b)
  <2>4. l \in 0..MaxInt /\ h \in 0..MaxInt /\ CountsIndexFor(G, l) = a /\ CountsIndexFor(G, h) = b
        /\ (h < MaxInt => CountsIndexFor(G, h + 1) = a) /\ l = ValueFromFlatIndex(G, a)
    BY <2>2, <2>3
  <2> HIDE DEF l, h, Lo, Hi
  <2>5. h <= l BY <1>2, <2>1, <2>4, PositionOrder
  <2>6. h # l BY <2>1, <2>4
  <2>7. h < MaxInt /\ h + 1 \in 0..MaxInt /\ h + 1 <= l BY <2>4, <2>5, <2>6, MaxIntFacts
  <2>8. PICK v \in 0..MaxInt : v = h + 1 BY <2>7
  <2>9. InvertsAt(G, v) /\ CountsIndexFor(G, v) = a BY <1>4, <2>4, <2>7, <2>8, IndexInverse
  <2>10. l <= v BY <2>4, <2>9 DEF InvertsAt
  <2>11. l = h + 1 BY <2>4, <2>7, <2>8, <2>10, MaxIntFacts
  <2> QED BY <2>11 DEF l, h, b
<1>7. ValueFromFlatIndex(G, 0) = 0
  <2> DEFINE half == 2^G.m
  <2>1. half \in Nat \ {0} /\ 2^(0 + G.u) \in Nat
    <3>1. G.m \in Nat /\ G.u \in Nat BY <1>4 DEF Sized
    <3> QED BY <3>1, PowerFacts
  <2> HIDE DEF half
  <2>2. 0 \div half = 0 /\ 0 % half = 0 BY <2>1
  <2>3. 0 \div half - 1 < 0 BY <2>2
  <2>4. ValueFromFlatIndex(G, 0) = 0 * 2^(0 + G.u) BY <2>2, <2>3 DEF ValueFromFlatIndex, ValueFromIndex, half
  <2> QED BY <2>1, <2>4
<1> QED BY <1>1, <1>6, <1>7 DEF Upper

LEMMA ListInvExact == ASSUME ListInv PROVE BracketsExact
<1>1. Placed /\ Levelled /\ Listed /\ Paused BY DEF ListInv
<1>2. /\ n \in Nat /\ hist.total \in Nat /\ hist.total = PrefixSum(hist.counts)[n]
      /\ countToIdx \in 0..hist.total /\ countAtIdx \in 0..countToIdx
      /\ place \in Int /\ -1 <= place /\ place < n
  BY <1>1, PlacedFacts
<1>3. ListTypeOK
  <2>1. at \in {"call", "search", "returned"} /\ place \in -1..(n - 1) BY <1>1, <1>2 DEF Placed
  <2>2. percentileToIteratorTo \in 0..Hundred /\ percentile \in 0..Hundred
    BY <1>1 DEF Levelled, Level
  <2>3. Len(brackets) <= 2
    <3>1. Len(brackets) \in 0..2 BY <1>1 DEF Listed
    <3>2. \A k \in 0..2 : k <= 2 OBVIOUS
    <3> QED BY <3>1, <3>2, Zenon
  <2> QED BY <1>2, <2>1, <2>2, <2>3 DEF ListTypeOK
<1>4. BracketsOrdered BY <1>1 DEF Listed, BracketsOrdered
<1>5. EndsWithMax
  <2> SUFFICES ASSUME at = "returned"
               PROVE  /\ brackets # <<>> /\ Latest.quantile = Hundred /\ Latest.count = hist.total
                      /\ hist.total > 0 => Latest.valueAt = MaxOf(hist)
    BY DEF EndsWithMax
  <2>1. /\ brackets # <<>> /\ percentile = Hundred /\ countToIdx = hist.total
        /\ Latest.count = countToIdx /\ Latest.valueAt = highestEquivalentValue
    BY <1>1 DEF Paused
  <2>2. Latest.quantile = percentile BY <1>1, <2>1 DEF Listed
  <2>3. ASSUME hist.total > 0 PROVE Latest.valueAt = MaxOf(hist)
    <3>1. place # -1 BY <1>1, <1>2, <2>1, <2>3, PlacedFacts
    <3>2. place \in 0..(n - 1) BY <1>2, <3>1
    <3>3. /\ highestEquivalentValue = Upper(place) /\ PrefixSum(hist.counts)[place] < hist.total
          /\ PrefixSum(hist.counts)[place + 1] = hist.total
      BY <1>1, <2>1, <3>1 DEF Placed
    <3> QED BY <1>1, <2>1, <3>2, <3>3, MaxIs
  <2> QED BY <2>1, <2>2, <2>3
<1>6. ASSUME at = "call", brackets # <<>>, ~seenLastValue
      PROVE  /\ countAtIdx > 0 /\ PercentageAt(Latest.count) >= Latest.quantile
             /\ \/ Latest.count = countAtIdx
                \/ PercentageAt(countToIdx - countAtIdx) < Latest.quantile
                \/ RepeatedAtEnd
  <2>1. /\ place # -1 /\ countAtIdx # 0 /\ Latest.count = countToIdx
        /\ \/ countToIdx = countAtIdx
           \/ Share(countToIdx - countAtIdx, hist.total) < percentile
           \/ /\ countToIdx = hist.total /\ Share(hist.total, hist.total) < Hundred
              /\ Len(brackets) = 2 /\ brackets[1].quantile = percentile
    BY <1>1, <1>6 DEF Paused
  <2>2. Latest.quantile = percentile BY <1>1, <1>6 DEF Listed
  <2>3. countAtIdx > 0 BY <1>2, <2>1
  <2>4. percentile \in 0..Hundred /\ (percentile = 0 \/ percentile <= Share(countToIdx, hist.total))
    BY <1>1, <1>6 DEF Levelled
  <2>5. Share(countToIdx, hist.total) \in Nat BY <1>1, <2>1, SearchFacts
  <2>6. Share(countToIdx, hist.total) >= percentile
    <3>1. Hundred \in Nat BY HundredFacts
    <3> QED BY <2>4, <2>5, <3>1
  <2>7. PercentageAt(Latest.count) >= Latest.quantile BY <2>1, <2>2, <2>6, PercentageIs
  <2>8. CASE countToIdx = countAtIdx BY <2>1, <2>3, <2>7, <2>8
  <2>9. CASE Share(countToIdx - countAtIdx, hist.total) < percentile
    BY <2>2, <2>3, <2>7, <2>9, PercentageIs
  <2>10. CASE /\ countToIdx = hist.total /\ Share(hist.total, hist.total) < Hundred
              /\ Len(brackets) = 2 /\ brackets[1].quantile = percentile
    <3>1. RepeatedAtEnd BY <2>2, <2>10, PercentageIs DEF RepeatedAtEnd
    <3> QED BY <2>3, <2>7, <3>1
  <2> QED BY <2>1, <2>8, <2>9, <2>10
<1> QED BY <1>3, <1>4, <1>5, <1>6 DEF BracketsExact

LEMMA PlacedTiles == ASSUME Placed PROVE BarsTile
<1>1. PICK c \in CountArrays : c = hist.counts BY DEF Placed
<1>2. /\ PrefixSum(c)[0] = 0
      /\ \A a \in 0..n : PrefixSum(c)[a] \in Nat
      /\ \A a \in 0..n : \A b \in 0..a : PrefixSum(c)[b] <= PrefixSum(c)[a]
      /\ \A a \in 0..(n - 1) : c[a] \in Nat /\ PrefixSum(c)[a + 1] = PrefixSum(c)[a] + c[a]
  BY SumFacts
<1>3. n \in Nat /\ hist.total \in Nat /\ hist.total = PrefixSum(c)[n]
  BY <1>1, PlacedFacts
<1>4. DOMAIN c = 0..(n - 1) /\ c \in [0..(n - 1) -> Nat] BY CountsAssumption
<1> DEFINE V == {j \in 0..(n - 1) : PrefixSum(c)[j] < hist.total}
<1>5. Visited(hist) = V BY <1>1, <1>4 DEF Visited
<1>6. /\ DOMAIN Bars = V
      /\ \A j \in V : /\ Bars[j].from = ValueFromFlatIndex(g, j)
                      /\ Bars[j].to = Upper(j) /\ Bars[j].count = c[j]
  <2>1. DOMAIN Bars = V BY <1>5 DEF Bars
  <2>2. ASSUME NEW j \in V
        PROVE  /\ Bars[j].from = ValueFromFlatIndex(g, j)
               /\ Bars[j].to = Upper(j) /\ Bars[j].count = c[j]
    <3>1. Bars[j] = [from |-> LowestEquivalent(g, ValueFromFlatIndex(g, j)),
                       to |-> HighestEquivalent(g, ValueFromFlatIndex(g, j)), count |-> c[j]]
      BY <1>1, <1>5 DEF Bars
    <3>2. LowestEquivalent(g, ValueFromFlatIndex(g, j)) = ValueFromFlatIndex(g, j) BY CellFacts
    <3> QED BY <3>1, <3>2 DEF Upper
  <2> QED BY <2>1, <2>2
<1>7. [j \in DOMAIN hist.counts |-> IF j \in DOMAIN Bars THEN Bars[j].count ELSE 0] = c
  <2>1. ASSUME NEW j \in 0..(n - 1), j \notin V PROVE c[j] = 0
    <3>1. j \in 0..n /\ j + 1 \in 0..n /\ n \in 0..n /\ j + 1 \in 0..n BY <1>3
    <3>2. /\ PrefixSum(c)[j] \in Nat /\ c[j] \in Nat /\ PrefixSum(c)[j + 1] = PrefixSum(c)[j] + c[j]
          /\ PrefixSum(c)[j + 1] <= PrefixSum(c)[n]
      BY <1>2, <3>1
    <3>3. ~(PrefixSum(c)[j] < hist.total) BY <2>1
    <3> QED BY <1>3, <3>2, <3>3
  <2> HIDE DEF V
  <2>2. \A j \in 0..(n - 1) : (IF j \in DOMAIN Bars THEN Bars[j].count ELSE 0) = c[j] BY <1>6, <2>1
  <2>3. [j \in DOMAIN hist.counts |-> IF j \in DOMAIN Bars THEN Bars[j].count ELSE 0] = [j \in 0..(n - 1) |-> c[j]]
    BY <1>1, <1>4, <2>2
  <2> QED BY <1>4, <2>3
<1>8. ASSUME NEW j \in DOMAIN Bars
      PROVE  Bars[j].from = 0 \/ \E k \in DOMAIN Bars : k < j /\ Bars[j].from = Bars[k].to + 1
  <2>1. j \in V /\ j \in 0..(n - 1) /\ PrefixSum(c)[j] < hist.total BY <1>6
  <2>2. CASE j = 0
    <3>1. n > 0 BY <1>3, <2>1
    <3> QED BY <1>6, <2>1, <2>2, <3>1, CellsAdjoin
  <2>3. CASE j # 0
    <3> DEFINE k == j - 1
    <3>1. k \in 0..(n - 1) /\ k < j /\ k \in 0..j /\ k \in 0..n /\ j \in 1..(n - 1) /\ j \in 0..n BY <1>3, <2>1, <2>3
    <3>2. PrefixSum(c)[k] <= PrefixSum(c)[j] /\ PrefixSum(c)[k] \in Nat /\ PrefixSum(c)[j] \in Nat BY <1>2, <3>1
    <3>3. k \in V BY <1>3, <2>1, <3>1, <3>2
    <3>4. ValueFromFlatIndex(g, j) = Upper(k) + 1 BY <3>1, CellsAdjoin
    <3> HIDE DEF k, V
    <3> QED BY <1>6, <2>1, <3>1, <3>3, <3>4
  <2> QED BY <2>2, <2>3
<1>9. ASSUME hist.total > 0 PROVE \E j \in DOMAIN Bars : Bars[j].to = MaxOf(hist)
  <2> DEFINE S == {k \in Nat : k <= n /\ PrefixSum(c)[k] = hist.total}
  <2>1. S \in SUBSET Nat /\ n \in S BY <1>3
  <2>2. PICK m \in S : \A k \in S : m <= k
    <3> HIDE DEF S
    <3> QED BY <2>1, LeastElement
  <2>3. m \in Nat /\ m <= n /\ PrefixSum(c)[m] = hist.total BY <2>2
  <2>4. m # 0 BY <1>2, <1>9, <2>3
  <2> DEFINE j == m - 1
  <2>5. j \in 0..(n - 1) /\ j + 1 = m /\ j \in Nat /\ j <= n /\ ~(m <= j) /\ j \in 0..n /\ n \in 0..n
        /\ j \in 0..n
    BY <1>3, <2>3, <2>4
  <2>6. ~(j \in S) BY <2>2, <2>5
  <2> HIDE DEF j
  <2>7. PrefixSum(c)[j] # hist.total BY <2>5, <2>6
  <2>8. PrefixSum(c)[j] <= PrefixSum(c)[n] /\ PrefixSum(c)[j] \in Nat BY <1>2, <2>5
  <2>9. PrefixSum(c)[j] < hist.total /\ PrefixSum(c)[j + 1] = hist.total BY <1>3, <2>3, <2>5, <2>7, <2>8
  <2>10. MaxOf(hist) = Upper(j) BY <1>1, <2>5, <2>9, MaxIs
  <2>11. j \in V BY <2>5, <2>9
  <2> HIDE DEF V
  <2> QED BY <1>6, <2>10, <2>11
<1>10. PrefixSum(hist.counts)[n] =
         PrefixSum([j \in DOMAIN hist.counts |-> IF j \in DOMAIN Bars THEN Bars[j].count ELSE 0])[n]
  BY <1>1, <1>7
<1> QED BY <1>8, <1>9, <1>10 DEF BarsTile

\* CumulativeDistribution returns "an ordered list of brackets": each is at the first
\* populated position whose share reaches its quantile, levels never pass 100, and the
\* last bracket has all values and Max, for every histogram, number of ticks and float
\* format; only where the share of all values itself rounds below 100 is the last
\* level replaced by the one before it.
THEOREM BracketsAreExact == ListSpec => []BracketsExact
<1>1. ListInit => ListInv BY ListInitInv
<1>2. ListInv /\ [ListNext]_listVars => ListInv' BY ListStepInv
<1>3. ListInv => BracketsExact BY ListInvExact
<1> QED BY <1>1, <1>2, <1>3, PTL DEF ListSpec

\* Distribution's bars adjoin from 0 to Max and hold every recorded value: the
\* positions that the iterator leaves out are empty.
THEOREM BarsDoTile == ListSpec => []BarsTile
<1>1. ListInit => ListInv BY ListInitInv
<1>2. ListInv /\ [ListNext]_listVars => ListInv' BY ListStepInv
<1>3. ListInv => BarsTile BY PlacedTiles DEF ListInv
<1> QED BY <1>1, <1>2, <1>3, PTL DEF ListSpec
=============================================================================
