---------------------------- MODULE ScanTargets -----------------------------
(***************************************************************************)
(* scanTargets of hdr.go: one pass over the counts that replaces every     *)
(* rank of an ascending list by the position that reaches it.  Blocks of   *)
(* ScanBlock counts that reach no rank are skipped; the others, and the    *)
(* tail, are walked count by count.                                        *)
(*                                                                         *)
(* i is the code's i, or i + j inside a block; pos is the number of ranks  *)
(* resolved, which is what the call returns.  asked remembers the ranks.   *)
(***************************************************************************)
EXTENDS QueriedCounts

CONSTANT ScanBlock     \* scanBlock: 8

ASSUME ScanAssumption == ScanBlock \in Nat \ {0}

\* The ranks of a call are "non-decreasing targets", none of them below 1.
IsRankList(t) ==
  /\ t \in Seq(Nat)
  /\ \A k \in 1..Len(t) : t[k] >= 1 /\ \A l \in k..Len(t) : t[k] <= t[l]

VARIABLES counts, targets, pos, i, total, stop, pc, asked

scanVars == <<counts, targets, pos, i, total, stop, pc, asked>>

ScanInit ==
  /\ counts \in CountArrays
  /\ targets = <<>> /\ asked = <<>>
  /\ pos = 0 /\ i = 0 /\ total = 0 /\ stop = 0
  /\ pc = "idle"

\* The sum of the block of counts at i.
BlockSum == PrefixSum(counts)[i + ScanBlock] - PrefixSum(counts)[i]

\* The call, with its early return.
CallScan(t) ==
  /\ pc = "idle"
  /\ targets' = t /\ asked' = t
  /\ pos' = 0 /\ i' = 0 /\ total' = 0 /\ stop' = 0
  /\ pc' = IF t = <<>> THEN "done" ELSE "scan"
  /\ UNCHANGED counts

\* The rank to be reached next.
NextRank == targets[pos + 1]

BlockReaches == total + BlockSum >= NextRank

\* A block that does not reach the next rank is added up and skipped.
SkipBlock ==
  /\ pc = "scan" /\ i + ScanBlock <= n
  /\ ~BlockReaches
  /\ total' = total + BlockSum /\ i' = i + ScanBlock
  /\ UNCHANGED <<counts, targets, pos, stop, pc, asked>>

EnterBlock ==
  /\ pc = "scan" /\ i + ScanBlock <= n
  /\ BlockReaches
  /\ stop' = i + ScanBlock /\ pc' = "walk"
  /\ UNCHANGED <<counts, targets, pos, i, total, asked>>

\* Fewer than ScanBlock counts remain.
EnterTail ==
  /\ pc = "scan" /\ i + ScanBlock > n /\ i < n
  /\ stop' = n /\ pc' = "walk"
  /\ UNCHANGED <<counts, targets, pos, i, total, asked>>

AddCount ==
  /\ pc = "walk" /\ i < stop
  /\ total' = total + counts[i] /\ pc' = "resolve"
  /\ UNCHANGED <<counts, targets, pos, i, stop, asked>>

\* Mutant of ResolveTarget: one count resolves one rank.
ResolveTarget_OnePerCount ==
  /\ pc = "resolve" /\ total >= NextRank
  /\ targets' = [targets EXCEPT ![pos + 1] = i]
  /\ pos' = pos + 1
  /\ i' = i + 1
  /\ pc' = IF pos + 1 = Len(targets) THEN "done" ELSE "walk"
  /\ UNCHANGED <<counts, total, stop, asked>>

\* The next rank is reached at i; with the last one the scan returns.
ResolveTarget ==
  /\ pc = "resolve" /\ total >= NextRank
  /\ targets' = [targets EXCEPT ![pos + 1] = i]
  /\ pos' = pos + 1
  /\ pc' = IF pos + 1 = Len(targets) THEN "done" ELSE "resolve"
  /\ UNCHANGED <<counts, i, total, stop, asked>>

NextCount ==
  /\ pc = "resolve" /\ total < NextRank
  /\ i' = i + 1 /\ pc' = "walk"
  /\ UNCHANGED <<counts, targets, pos, total, stop, asked>>

EndWalk ==
  /\ pc = "walk" /\ i = stop
  /\ pc' = "scan"
  /\ UNCHANGED <<counts, targets, pos, i, total, stop, asked>>

\* The counts are exhausted.
EndScan ==
  /\ pc = "scan" /\ i = n
  /\ pc' = "done"
  /\ UNCHANGED <<counts, targets, pos, i, total, stop, asked>>

ScanStep ==
  SkipBlock \/ EnterBlock \/ EnterTail \/ AddCount \/ ResolveTarget \/ NextCount \/ EndWalk \/ EndScan

ScanNext == ScanStep \/ (IsRankList(asked') /\ CallScan(asked'))

ScanSpec == ScanInit /\ [][ScanNext]_scanVars

-----------------------------------------------------------------------------
\* The ranks not yet resolved and the positions are within bounds; a walk is within
\* the counts.
ScanTypeOK ==
  /\ counts \in CountArrays
  /\ pc \in {"idle", "scan", "walk", "resolve", "done"}
  /\ IsRankList(asked)
  /\ targets \in Seq(Nat) /\ Len(targets) = Len(asked)
  /\ pos \in 0..Len(targets)
  /\ pc \in {"scan", "walk", "resolve"} => pos < Len(targets)
  /\ i \in 0..n /\ stop \in 0..n /\ total \in Nat
  /\ pc \in {"walk", "resolve"} => i <= stop
  /\ pc = "resolve" => i < stop

\* The running count first reaches rank r at position p.
FirstReaching(p, r) ==
  /\ p \in 0..(n - 1)
  /\ PrefixSum(counts)[p] < r
  /\ r <= PrefixSum(counts)[p + 1]

\* The running total of the skip-scan is the sum of the counts before i, and of
\* the one at i while its ranks are resolved.
RunningSum ==
  /\ pc \in {"scan", "walk"} => total = PrefixSum(counts)[i]
  /\ pc = "resolve" => total = PrefixSum(counts)[i + 1]

\* scanTargets overwrites the list it reads: what lies before pos are positions,
\* each the first that reaches its rank; what lies after are still the ranks,
\* and none of them was reached before i.
RanksAndPositions ==
  /\ \A k \in 1..pos : FirstReaching(targets[k], asked[k])
  /\ pc # "done" => \A k \in (pos + 1)..Len(asked) :
       targets[k] = asked[k] /\ asked[k] > PrefixSum(counts)[i]

\* The skip-scan "overwrites targets[k] with the flat index at which the cumulative
\* count first reaches the original targets[k]" for every rank up to the sum of the
\* counts: no block is skipped that reaches a rank, and no rank is lost.
ScanExact ==
  pc = "done" => \A k \in 1..Len(asked) :
    IF asked[k] <= PrefixSum(counts)[n] THEN k <= pos /\ FirstReaching(targets[k], asked[k]) ELSE k > pos
=============================================================================
