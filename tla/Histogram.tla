----------------------------- MODULE Histogram ------------------------------
(***************************************************************************)
(* The dense histogram type of hdr.go: a set of histograms Hist, the calls *)
(* a program makes on them, and the snapshots it exports and imports.      *)
(*                                                                         *)
(* A histogram provides no synchronization, so calls do not overlap.  A    *)
(* call without a loop is one action.  The calls that loop over            *)
(* recordings, Merge and RecordCorrectedValue, take one action per loop    *)
(* iteration: pc tells which of them is running and merge / fix hold its   *)
(* local variables, so a merge of a histogram into itself reads, as the    *)
(* code does, the counts and the total that the same merge is changing.    *)
(*                                                                         *)
(* label stands for the tag and the start and end times, which every       *)
(* operation treats alike.  entry, ret and sound are not in the code:      *)
(* entry and ret remember what a looping call was given and returned,      *)
(* and sound[h] is FALSE once h was imported from a snapshot that          *)
(* Snapshot.Validate rejects, which the documentation of Import warns of.  *)
(***************************************************************************)
EXTENDS Iteration

CONSTANTS
  Hist,        \* histogram variables of the program
  Args,        \* constructor arguments [low, high, sig]
  Values,      \* values offered to the record calls
  Amounts,     \* values of n offered to RecordValues
  Intervals,   \* expected intervals offered to RecordCorrectedValue
  Labels, NoLabel,
  Snapshots    \* snapshots built by the caller, e.g. decoded from JSON

VARIABLES
  geom, counts, totalCount, label, ratio,   \* fields of each histogram
  pc, merge, fix,                           \* the looping call in progress
  entry, ret, sound                         \* observations

fields == <<geom, counts, totalCount, label, ratio>>
vars == <<fields, pc, merge, fix, entry, ret, sound>>

\* The geometries that New builds, and those of decoded histograms.
Geometries == {NewGeometry(a)  : a \in {x \in Args : NewAccepts(x)}}
      \union  {WireGeometry(a) : a \in {x \in Args : WireAccepts(x)}}

\* Mutant of ZeroCounts: one position too many.
ZeroCounts_OneMore(g) == [i \in 0..g.countsLen |-> 0]

ZeroCounts(g) == [i \in 0..(g.countsLen - 1) |-> 0]

NoMerge == [h |-> CHOOSE h \in Hist : TRUE, from |-> CHOOSE h \in Hist : TRUE,
            pos |-> 0, countToIdx |-> 0, dropped |-> 0]
NoFix == [h |-> CHOOSE h \in Hist : TRUE, missing |-> 0, interval |-> 0]
NoEntry == [call |-> "none"]
NoRet == [err |-> FALSE, dropped |-> 0]

ASSUME HistAssumption == Hist # {}
ASSUME ArgsAssumption ==
  \A a \in Args : {a.low, a.high} \subseteq -(MaxInt + 1)..MaxInt /\ a.sig \in Int
ASSUME InputAssumption ==
  /\ NoLabel \in Labels /\ Amounts \subseteq Int64
  /\ Values \union Intervals \subseteq -(MaxInt + 1)..MaxInt

Init ==
  /\ geom \in [Hist -> Geometries]
  /\ counts = [h \in Hist |-> ZeroCounts(geom[h])]
  /\ totalCount = [h \in Hist |-> 0]
  /\ label = [h \in Hist |-> NoLabel]
  /\ ratio = [h \in Hist |-> 0]
  /\ pc = "idle" /\ merge = NoMerge /\ fix = NoFix
  /\ entry = NoEntry /\ ret = NoRet
  /\ sound = [h \in Hist |-> TRUE]

-----------------------------------------------------------------------------
(* Recording.                                                               *)

\* Mutant of RecordFails: the overflow check compares with the limit, not with
\* what the total leaves of it.
RecordFails_LimitOnly(h, v, n) ==
  \/ v < 0
  \/ CountsIndexFor(geom[h], v) \notin DOMAIN counts[h]
  \/ n < 0
  \/ n > MaxCount

\* The checks of RecordValues, in the code's order.
RecordFails(h, v, n) ==
  \/ v < 0
  \/ CountsIndexFor(geom[h], v) \notin DOMAIN counts[h]
  \/ n < 0
  \/ n > Wrap64(MaxCount - totalCount[h])

\* setCountAtIndex.
SetCountAtIndex(h, idx, n) ==
  /\ counts' = [counts EXCEPT ![h][idx] = Wrap64(@ + n)]
  /\ totalCount' = [totalCount EXCEPT ![h] = Wrap64(@ + n)]

\* RecordValues when it succeeds.
Store(h, v, n) ==
  /\ SetCountAtIndex(h, CountsIndexFor(geom[h], v), n)
  /\ UNCHANGED <<geom, label, ratio>>

\* A call that is complete in one step.
OneStep == pc = "idle" /\ entry' = NoEntry /\ ret' = NoRet /\ UNCHANGED <<pc, merge, fix>>

\* RecordValues; RecordValue is the case n = 1.
RecordValues(h, v, n) ==
  /\ OneStep
  /\ IF RecordFails(h, v, n) THEN UNCHANGED fields ELSE Store(h, v, n)
  /\ UNCHANGED sound

Return(err, dropped) ==
  /\ pc' = "idle" /\ merge' = NoMerge /\ fix' = NoFix
  /\ ret' = [err |-> err, dropped |-> dropped]

\* Mutant of NothingMissing: a zero interval is taken as a step.
NothingMissing_ZeroIsAStep(v, expectedInterval) == expectedInterval < 0 \/ v <= expectedInterval

\* RecordCorrectedValue's early return: nothing to correct.
NothingMissing(v, expectedInterval) == expectedInterval <= 0 \/ v <= expectedInterval

\* RecordCorrectedValue up to its loop.
RecordCorrectedValue(h, v, expectedInterval) ==
  /\ pc = "idle"
  /\ entry' = [call |-> "fix", h |-> h, v |-> v, interval |-> expectedInterval, total |-> totalCount[h]]
  /\ IF RecordFails(h, v, 1)
     THEN UNCHANGED fields /\ Return(TRUE, 0)
     ELSE /\ Store(h, v, 1)
          /\ IF NothingMissing(v, expectedInterval)
             THEN Return(FALSE, 0)
             ELSE /\ pc' = "fix"
                  /\ fix' = [h |-> h, missing |-> v - expectedInterval, interval |-> expectedInterval]
                  /\ ret' = NoRet /\ UNCHANGED merge
  /\ UNCHANGED sound

\* One iteration of its loop, or the return from it.
RecordMissingValue ==
  /\ pc = "fix"
  /\ \/ /\ fix.missing < fix.interval
        /\ UNCHANGED fields /\ Return(FALSE, 0)
     \/ /\ fix.missing >= fix.interval
        /\ RecordFails(fix.h, fix.missing, 1)
        /\ UNCHANGED fields /\ Return(TRUE, 0)
     \/ /\ fix.missing >= fix.interval
        /\ ~RecordFails(fix.h, fix.missing, 1)
        /\ Store(fix.h, fix.missing, 1)
        /\ fix' = [fix EXCEPT !.missing = @ - fix.interval]
        /\ UNCHANGED <<pc, merge, ret>>
  /\ UNCHANGED <<entry, sound>>

-----------------------------------------------------------------------------
(* Merge.                                                                   *)

MergeCall(h, from) ==
  /\ pc = "idle"
  /\ pc' = "merge"
  /\ merge' = [h |-> h, from |-> from, pos |-> 0, countToIdx |-> 0, dropped |-> 0]
  /\ entry' = [call |-> "merge", h |-> h, from |-> from, total |-> totalCount[h],
               counts |-> counts[h], offered |-> totalCount[from], fromCounts |-> counts[from]]
  /\ ret' = NoRet
  /\ UNCHANGED <<fields, fix, sound>>

\* Mutant of IterationEnds: the limit is the receiver's total.
IterationEnds_ReceiverTotal ==
  \/ merge.countToIdx >= totalCount[merge.h]
  \/ merge.pos >= geom[merge.from].countsLen

\* iterator.nextCountAtIdx returns false: the live total of from is reached, or
\* the counts array is exhausted.
IterationEnds ==
  \/ merge.countToIdx >= totalCount[merge.from]
  \/ merge.pos >= geom[merge.from].countsLen

\* The bucket under the iterator: its count and its value.
MergeCount == counts[merge.from][merge.pos]
\* Mutant of MergeValue: the position is read in the receiver's geometry.
MergeValue_ReceiverGeometry == ValueFromFlatIndex(geom[merge.h], merge.pos)

MergeValue == ValueFromFlatIndex(geom[merge.from], merge.pos)
MergeDrops == MergeCount # 0 /\ RecordFails(merge.h, MergeValue, MergeCount)

\* Mutant of Advanced: a dropped bucket is tried again.
Advanced_RetryDropped ==
  IF MergeDrops THEN [merge EXCEPT !.dropped = AddDropped(@, MergeCount)]
  ELSE [merge EXCEPT !.pos = @ + 1, !.countToIdx = Wrap64(@ + MergeCount)]

\* Merge's local variables after an iteration.
Advanced ==
  [merge EXCEPT !.pos = @ + 1,
                !.countToIdx = Wrap64(@ + MergeCount),
                !.dropped = IF MergeDrops THEN AddDropped(@, MergeCount) ELSE @]

\* One advance of from's iterator and, for a nonzero count (rIterator.next), the
\* body of Merge's loop; or Merge's return.
MergeStep ==
  /\ pc = "merge"
  /\ \/ /\ IterationEnds
        /\ UNCHANGED fields /\ Return(FALSE, merge.dropped)
     \/ /\ ~IterationEnds
        /\ IF MergeCount = 0 \/ MergeDrops THEN UNCHANGED fields
           ELSE Store(merge.h, MergeValue, MergeCount)
        /\ merge' = Advanced
        /\ UNCHANGED <<pc, fix, ret>>
  /\ UNCHANGED <<entry, sound>>

-----------------------------------------------------------------------------
(* Whole-histogram operations.                                              *)

\* The fields of h become those of a histogram x.
Assign(h, x) ==
  /\ geom' = [geom EXCEPT ![h] = x.geom]
  /\ counts' = [counts EXCEPT ![h] = x.counts]
  /\ totalCount' = [totalCount EXCEPT ![h] = x.total]
  /\ label' = [label EXCEPT ![h] = x.label]
  /\ ratio' = [ratio EXCEPT ![h] = x.ratio]

\* New, or the empty histogram of a decoded geometry.
New(h, g) ==
  /\ OneStep
  /\ Assign(h, [geom |-> g, counts |-> ZeroCounts(g), total |-> 0, label |-> NoLabel, ratio |-> 0])
  /\ sound' = [sound EXCEPT ![h] = TRUE]

\* Reset keeps the geometry and the conversion ratio.
Reset(h) ==
  /\ OneStep
  /\ totalCount' = [totalCount EXCEPT ![h] = 0]
  /\ counts' = [counts EXCEPT ![h] = ZeroCounts(geom[h])]
  /\ label' = [label EXCEPT ![h] = NoLabel]
  /\ sound' = [sound EXCEPT ![h] = TRUE]
  /\ UNCHANGED <<geom, ratio>>

\* SetTag, SetStartTimeMs, SetEndTimeMs.
SetLabel(h, l) ==
  /\ OneStep
  /\ label' = [label EXCEPT ![h] = l]
  /\ UNCHANGED <<geom, counts, totalCount, ratio, sound>>

\* c := h.Clone()
Clone(h, c) ==
  /\ OneStep
  /\ Assign(c, [geom |-> geom[h], counts |-> counts[h], total |-> totalCount[h],
                label |-> label[h], ratio |-> ratio[h]])
  /\ sound' = [sound EXCEPT ![c] = sound[h]]

-----------------------------------------------------------------------------
(* Snapshots.                                                               *)

\* Export changes nothing, and the snapshot is a copy that nothing changes.
Exported(h) ==
  [low |-> geom[h].low, high |-> geom[h].high, sig |-> geom[h].sig, counts |-> counts[h],
   ratio |-> ratio[h]]

\* Mutant of Validate: the sum must stay below the limit.
Validate_Strict(s) ==
  /\ WireAccepts(s)
  /\ \A i \in DOMAIN s.counts :
       /\ s.counts[i] >= 0
       /\ s.counts[i] > 0 =>
            /\ i < WireGeometry(s).countsLen
            /\ s.counts[i] < Wrap64(MaxCount - PrefixSum(s.counts)[i])

\* Snapshot.Validate returns nil.
Validate(s) ==
  /\ WireAccepts(s)
  /\ \A i \in DOMAIN s.counts :
       /\ s.counts[i] >= 0
       /\ s.counts[i] > 0 =>
            /\ i < WireGeometry(s).countsLen
            /\ s.counts[i] <= Wrap64(MaxCount - PrefixSum(s.counts)[i])

\* The geometry Import builds: the exact one when valid, else New's.
ImportGeometry(s) == IF WireAccepts(s) THEN WireGeometry(s) ELSE NewGeometry(s)

\* Import: copy what fits, drop negative counts, add up the rest.
Imported(s) ==
  LET g == ImportGeometry(s)
      c == NonNegativePart([i \in 0..(g.countsLen - 1) |->
                              IF i \in DOMAIN s.counts THEN s.counts[i] ELSE 0])
  IN  [geom |-> g, counts |-> c, total |-> Wrap64(PrefixSum(c)[g.countsLen]),
       label |-> NoLabel, ratio |-> s.ratio]

\* h := Import(s); a geometry New rejects makes it panic.
Import(h, s) ==
  /\ OneStep
  /\ WireAccepts(s) \/ NewAccepts(s)
  /\ Assign(h, Imported(s))
  /\ sound' = [sound EXCEPT ![h] = Validate(s)]

-----------------------------------------------------------------------------
Next ==
  \/ \E h \in Hist :
       \/ \E v \in Values :
            \/ \E n \in Amounts : RecordValues(h, v, n)
            \/ \E i \in Intervals : RecordCorrectedValue(h, v, i)
       \/ \E g \in Geometries : New(h, g)
       \/ \E l \in Labels : SetLabel(h, l)
       \/ \E k \in Hist : MergeCall(h, k) \/ Clone(h, k)
       \/ Reset(h)
       \/ \E s \in Snapshots : Import(h, s)
       \/ \E k \in Hist : Import(h, Exported(k))
  \/ RecordMissingValue
  \/ MergeStep

Spec == Init /\ [][Next]_vars

\* A call that has started runs to its end: nothing in it waits.
LiveSpec == Spec /\ WF_vars(RecordMissingValue) /\ WF_vars(MergeStep)

-----------------------------------------------------------------------------
(* The snapshots a caller may hold.                                         *)

IsSnapshot(s) ==
  /\ DOMAIN s.counts \subseteq Nat /\ s.ratio \in Nat
  /\ \A i \in DOMAIN s.counts : 0..i \subseteq DOMAIN s.counts
  /\ \A i \in DOMAIN s.counts : s.counts[i] \in Int64
  /\ WireAccepts(s) \/ NewAccepts(s) => ImportGeometry(s) \in Geometries

ASSUME SnapshotAssumption == \A s \in Snapshots : IsSnapshot(s)

FieldsOK ==
  /\ geom \in [Hist -> Geometries]
  /\ DOMAIN counts = Hist
  /\ \A h \in Hist : counts[h] \in [0..(geom[h].countsLen - 1) -> Int64]
  /\ totalCount \in [Hist -> Int64]
  /\ label \in [Hist -> Labels] /\ ratio \in [Hist -> Nat]

CallOK ==
  /\ pc \in {"idle", "merge", "fix"}
  /\ merge \in [h : Hist, from : Hist, pos : Nat, countToIdx : Int64, dropped : Int64]
  /\ fix \in [h : Hist, missing : Int, interval : Int]
  /\ ret \in [err : BOOLEAN, dropped : Int64]

TypeOK ==
  /\ FieldsOK
  /\ CallOK
  /\ sound \in [Hist -> BOOLEAN]

Sum(h) == PrefixSum(counts[h])[geom[h].countsLen]

Consistent(h) ==
  /\ totalCount[h] = Sum(h)
  /\ totalCount[h] >= 0
  /\ \A i \in DOMAIN counts[h] : counts[h][i] >= 0

\* Every query ranks against totalCount and scans counts[]: the two agree at
\* every step of every call, no count is negative and the total never wraps
\* (RecordValues, Merge, Reset, Clone, Import of a snapshot that passes Validate).
\* A histogram stays consistent even while it merges an inconsistent one.
TotalIsSum == \A h \in Hist : sound[h] => Consistent(h)

\* The last call was a merge of consistent histograms and has returned.
Merged == pc = "idle" /\ entry.call = "merge" /\ sound[entry.h] /\ sound[entry.from]

\* Merge returns the number of values it had to drop: together with what the
\* receiver gained they are all the values of the argument, also when the
\* argument is the receiver, whose total grows under the iterator's limit.
MergeAccounting ==
  Merged => (totalCount[entry.h] - entry.total) + ret.dropped = entry.offered

\* What from's counts add to position i of the receiver.
Contribution(i) ==
  PrefixSum([j \in DOMAIN entry.fromCounts |->
     IF CountsIndexFor(geom[entry.h], ValueFromFlatIndex(geom[entry.from], j)) = i
     THEN entry.fromCounts[j] ELSE 0])[geom[entry.from].countsLen]

\* A merge that drops nothing adds to every bucket exactly the argument's counts
\* of the values in it, whatever the two geometries; into itself it doubles them.
\* One that drops values never adds more than that.
MergePointwise ==
  Merged => \A i \in DOMAIN counts[entry.h] :
    LET gain == counts[entry.h][i] - entry.counts[i]
    IN  IF ret.dropped = 0 THEN gain = Contribution(i) ELSE gain \in 0..Contribution(i)

\* RecordCorrectedValue records v and one value per whole missed interval.  It
\* fails without recording v, or else only because the total is at its limit:
\* the missing values are smaller than v, so they are in range.
CorrectedCount ==
  pc = "idle" /\ entry.call = "fix" /\ sound[entry.h] =>
    LET gain == totalCount[entry.h] - entry.total
        due == IF entry.interval > 0 /\ entry.v > entry.interval
               THEN entry.v \div entry.interval ELSE 1
    IN  IF ret.err THEN gain = 0 \/ (gain < due /\ totalCount[entry.h] = MaxCount)
                   ELSE gain = due

\* An exported snapshot passes Validate, and Import builds a histogram with the same
\* geometry, counts and total (hdr.go:818: "to construct a new Histogram with the same
\* state"), whatever the histogram has been through, and unless it is itself an import
\* of a snapshot that Validate rejects.
ExportImports ==
  \A h \in Hist : sound[h] =>
    LET x == Imported(Exported(h))
    IN  Validate(Exported(h)) /\ x.geom = geom[h] /\ x.counts = counts[h] /\ x.total = totalCount[h]

Fields(h) == [geom |-> geom[h], counts |-> counts[h], total |-> totalCount[h]]

\* The iterator stops at the total, yet Max and Min find the extreme buckets
\* recorded into: they bound every recorded value and lie in populated buckets.
ExtremesExact ==
  \A h \in Hist : sound[h] /\ totalCount[h] > 0 =>
    LET x == Fields(h)
    IN  /\ \A i \in Populated(x) :
             /\ MinOf(x) <= ValueFromFlatIndex(x.geom, i)
             /\ HighestEquivalent(x.geom, ValueFromFlatIndex(x.geom, i)) <= MaxOf(x)
        /\ {CountsIndexFor(x.geom, MinOf(x)), CountsIndexFor(x.geom, MaxOf(x))} \subseteq Populated(x)

\* Every call returns: the corrected-record loop runs down to the interval and
\* the merge iterator runs out of positions even while its limit grows.
CallsReturn == (pc # "idle") ~> (pc = "idle")
=============================================================================
