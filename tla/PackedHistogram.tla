-------------------------- MODULE PackedHistogram ---------------------------
(***************************************************************************)
(* The sparse histogram type of packed.go, packed_window.go,               *)
(* packed_queries.go and the payload half of packed_encoding.go, with      *)
(* dense histograms as partners of MergeInto and MergeFrom.                *)
(*                                                                         *)
(* A packed histogram is a record of the struct's fields.  idx and cnt are *)
(* arrays, functions on 0..(size-1); cnt holds decoded counts, and Slot    *)
(* says which of them survive being written at a byte width.  The widths   *)
(* 1, 2, 4 and 8 are the levels 1..Len(Limit), Limit[w] is                 *)
(* packedWidthMax, and the last level is the signed int64.  Capacities,    *)
(* the log metadata and the conversion ratio are left out: no operation    *)
(* reads them to decide anything.                                          *)
(*                                                                         *)
(* The types are not synchronized: a call is one action, and its loops are *)
(* recursive functions over the iterations, which read the arrays the      *)
(* earlier iterations have already overwritten.                            *)
(***************************************************************************)
EXTENDS Geometry, CountSums, Sequences

CONSTANTS
  Packed, Dense,       \* names of sparse and of dense histograms
  Recorders,           \* the packed ones that RecordValues is called on
  Args,                \* geometry arguments
  Limit,               \* packedWidthMax of each width
  ScanBlock,           \* packedScanBlock
  Values, Amounts, Intervals,
  Payloads             \* streams offered to DecodePacked: signed tokens

VARIABLES
  packed, dense,
  dropped              \* what the last merge returned

vars == <<packed, dense, dropped>>

\* The geometries of NewPacked and those of decoded histograms.
Geometries == {NewGeometry(a)  : a \in {x \in Args : NewAccepts(x)}}
      \union  {WireGeometry(a) : a \in {x \in Args : WireAccepts(x)}}

Top == Len(Limit)

ASSUME LimitAssumption ==
  /\ Limit \in Seq(Nat \ {0}) /\ Top > 0 /\ Limit[Top] = MaxCount
  /\ \A w \in 1..(Top - 1) : Limit[w] < Limit[w + 1]
\* The counts of a histogram with a narrow width cannot sum past MaxInt64: there are
\* fewer than 2^31 of them, each below 2^32.
ASSUME NarrowAssumption ==
  \A w \in 1..(Top - 1), g \in Geometries : g.countsLen * Limit[w] <= MaxCount
ASSUME NamesAssumption == Packed \intersect Dense = {} /\ Recorders \subseteq Packed
ASSUME ArgsAssumption ==
  \A a \in Args : {a.low, a.high} \subseteq -(MaxInt + 1)..MaxInt /\ a.sig \in Int
ASSUME InputAssumption ==
  /\ Values \union Intervals \subseteq -(MaxInt + 1)..MaxInt
  /\ Amounts \subseteq Int64 /\ Payloads \subseteq Seq(Int64)
  /\ ScanBlock \in Nat \ {0}

Empty == [i \in {} |-> 0]

\* NewPacked, and the histogram DecodePacked starts from.
NewPacked(g) == [geom |-> g, idx |-> Empty, cnt |-> Empty, width |-> 1, size |-> 0,
                 total |-> 0, lastIndex |-> 0, lastPos |-> 0]

NewDense(g) == [geom |-> g, counts |-> [i \in 0..(g.countsLen - 1) |-> 0], total |-> 0]

Init ==
  /\ \E f \in [Packed -> Geometries] : packed = [p \in Packed |-> NewPacked(f[p])]
  /\ \E f \in [Dense -> Geometries] : dense = [d \in Dense |-> NewDense(f[d])]
  /\ dropped = 0

-----------------------------------------------------------------------------
(* Count slots.                                                             *)

\* slotSet, putPackedCount and then slotGet: the narrow widths are unsigned.
Slot(w, val) == IF w < Top THEN val % (Limit[w] + 1) ELSE Wrap64(val)

SlotSet(r, pos, val) == [r EXCEPT !.cnt[pos] = Slot(r.width, val)]

\* The narrowest width from w on that holds need, or the widest.
Fitting(w, need) ==
  CHOOSE k \in w..Top : /\ need <= Limit[k] \/ k = Top
                        /\ \A j \in w..(k - 1) : need > Limit[j]

\* The counts rewritten at width w.
Repacked(r, w) == [r EXCEPT !.width = w, !.cnt = [i \in DOMAIN @ |-> Slot(w, @[i])]]

WidenToFit(r, need) == Repacked(r, Fitting(r.width, need))

\* Mutant of Halved: the search drops the middle element when it goes left.
Halved_DropsMiddle(r, key, s) ==
  LET half == s.n \div 2
  IN  IF s.n = 0 THEN s
      ELSE IF r.idx[s.base + half] < key THEN [base |-> s.base + half + 1, n |-> s.n - half - 1]
      ELSE [base |-> s.base, n |-> IF half > 0 THEN half - 1 ELSE 0]

\* One iteration of lowerBound: n positions from base on are still to be searched.
Halved(r, key, s) ==
  LET half == s.n \div 2
  IN  IF s.n = 0 THEN s
      ELSE IF r.idx[s.base + half] < key THEN [base |-> s.base + half + 1, n |-> s.n - half - 1]
      ELSE [base |-> s.base, n |-> half]

\* The first position of idx that is not below key.
LowerBound(r, key) ==
  LET after[k \in 0..r.size] ==
        IF k = 0 THEN [base |-> 0, n |-> r.size] ELSE Halved(r, key, after[k - 1])
  IN  after[r.size].base

\* Array a of length n with x inserted at pos.
Inserted(a, n, pos, x) ==
  [i \in 0..n |-> IF i < pos THEN a[i] ELSE IF i = pos THEN x ELSE a[i - 1]]

AddAtExisting(r, pos, delta) ==
  LET nv == Wrap64(r.cnt[pos] + delta)
  IN  IF r.width < Top /\ nv > Limit[r.width]
      THEN SlotSet(WidenToFit(r, nv), pos, nv)
      ELSE SlotSet(r, pos, nv)

Holds(r, pos, ci) == pos < r.size /\ r.idx[pos] = ci

\* Mutant of Opened: the new count does not widen the slots.
Opened_SameWidth(r, pos, ci, delta) ==
  SlotSet([r EXCEPT !.idx = Inserted(@, r.size, pos, ci), !.cnt = Inserted(@, r.size, pos, 0),
                    !.size = @ + 1], pos, delta)

\* sparseAdd's insertion of a bucket that is not populated yet.
Opened(r, pos, ci, delta) ==
  LET w == WidenToFit(r, delta)
  IN  SlotSet([w EXCEPT !.idx = Inserted(@, r.size, pos, ci), !.cnt = Inserted(@, r.size, pos, 0),
                        !.size = @ + 1], pos, delta)

\* sparseAdd; it returns LowerBound(r, ci).
SparseAdd(r, ci, delta) ==
  LET pos == LowerBound(r, ci)
  IN  IF Holds(r, pos, ci) THEN AddAtExisting(r, pos, delta) ELSE Opened(r, pos, ci, delta)

-----------------------------------------------------------------------------
(* Recording.                                                               *)

\* uint32(ci) < uint32(countsLen).
Fits(g, ci) == ci \in 0..(g.countsLen - 1)

\* The checks of RecordValues, in the code's order.
RecordFails(r, v, n) ==
  \/ v < 0
  \/ ~Fits(r.geom, CountsIndexFor(r.geom, v))
  \/ n < 0
  \/ n > Wrap64(MaxCount - r.total)

\* Mutant of CacheHit: a cached position is believed without looking at idx.
CacheHit_Unchecked(r, ci) == r.lastIndex = ci /\ r.lastPos < r.size

\* The last-hit cache, rechecked against idx.
CacheHit(r, ci) == r.lastIndex = ci /\ Holds(r, r.lastPos, ci)

\* RecordValues after its checks.
Recorded(r, v, n) ==
  LET ci == CountsIndexFor(r.geom, v)
      stored == IF n = 0 THEN r
                ELSE IF CacheHit(r, ci) THEN AddAtExisting(r, r.lastPos, n)
                ELSE [SparseAdd(r, ci, n) EXCEPT !.lastIndex = ci, !.lastPos = LowerBound(r, ci)]
  IN  [stored EXCEPT !.total = Wrap64(@ + n)]

\* RecordCorrectedValue records one more missing value; the first that fails ends
\* the loop.
Backfilled(a, missing) ==
  IF a.err \/ RecordFails(a.hist, missing, 1) THEN [a EXCEPT !.err = TRUE]
  ELSE [a EXCEPT !.hist = Recorded(@, missing, 1)]

\* How many values a record of v misses.
Due(v, interval) == IF interval <= 0 \/ v <= interval THEN 0 ELSE v \div interval - 1

\* RecordCorrectedValue after its checks.
Corrected(r, v, interval) ==
  LET after[k \in 0..Due(v, interval)] ==
        IF k = 0 THEN [hist |-> Recorded(r, v, 1), err |-> FALSE]
        ELSE Backfilled(after[k - 1], v - k * interval)
  IN  after[Due(v, interval)].hist

Becomes(p, r) == packed' = [packed EXCEPT ![p] = r] /\ UNCHANGED dense

\* PackedHistogram.RecordValues; RecordValue is the case n = 1.
RecordValues(p, v, n) ==
  /\ ~RecordFails(packed[p], v, n)
  /\ Becomes(p, Recorded(packed[p], v, n))
  /\ dropped' = 0

\* PackedHistogram.RecordCorrectedValue.
RecordCorrectedValue(p, v, interval) ==
  /\ ~RecordFails(packed[p], v, 1)
  /\ Becomes(p, Corrected(packed[p], v, interval))
  /\ dropped' = 0

\* A record call of either type that returns an error.
RecordRejected(v, n) ==
  /\ \/ \E p \in Recorders : RecordFails(packed[p], v, n)
     \/ \E d \in Dense : RecordFails(dense[d], v, n)
  /\ dropped' = 0
  /\ UNCHANGED <<packed, dense>>

\* Histogram.setCountAtIndex.
SetCountAtIndex(x, i, n) == [x EXCEPT !.counts[i] = Wrap64(@ + n), !.total = Wrap64(@ + n)]

\* Histogram.RecordValues on a partner.
RecordDense(d, v, n) ==
  /\ ~RecordFails(dense[d], v, n)
  /\ dense' = [dense EXCEPT ![d] = SetCountAtIndex(@, CountsIndexFor(@.geom, v), n)]
  /\ dropped' = 0
  /\ UNCHANGED packed

-----------------------------------------------------------------------------
(* Merging.                                                                 *)

\* The position in geometry g of position i of geometry h.
Remapped(g, h, i) ==
  IF SameIndexing(g, h) THEN i ELSE CountsIndexFor(g, ValueFromFlatIndex(h, i))

\* r with c more at position ci, in its total too.
Credited(r, ci, c) == [SparseAdd(r, ci, c) EXCEPT !.total = Wrap64(@ + c)]

\* Mutant of Taken: a bucket is moved even if the total has no room for it.
Taken_NoRoomCheck(a, ci, c) ==
  IF ~Fits(a.hist.geom, ci)
  THEN [a EXCEPT !.dropped = AddDropped(@, c)]
  ELSE [a EXCEPT !.hist = Credited(@, ci, c)]

\* One bucket with count c moved to position ci of the packed histogram a.hist.
Taken(a, ci, c) ==
  IF ~Fits(a.hist.geom, ci) \/ c > Wrap64(MaxCount - a.hist.total)
  THEN [a EXCEPT !.dropped = AddDropped(@, c)]
  ELSE [a EXCEPT !.hist = Credited(@, ci, c)]

\* Position i of the dense histogram x taken, unless its count is not positive.
TakenFrom(a, x, i) ==
  IF x.counts[i] <= 0 THEN a ELSE Taken(a, Remapped(a.hist.geom, x.geom, i), x.counts[i])

\* MergeFrom: the dense counts in order.
MergedFrom(r, x) ==
  LET after[k \in 0..x.geom.countsLen] ==
        IF k = 0 THEN [hist |-> r, dropped |-> 0] ELSE TakenFrom(after[k - 1], x, k - 1)
  IN  after[x.geom.countsLen]

\* One bucket with count c moved to position ci of the dense histogram a.hist.
TakenDense(a, ci, c) ==
  IF Fits(a.hist.geom, ci) /\ c <= Wrap64(MaxCount - a.hist.total)
  THEN [a EXCEPT !.hist = SetCountAtIndex(@, ci, c)]
  ELSE [a EXCEPT !.dropped = AddDropped(@, c)]

\* MergeInto: the buckets of r in order, into the dense histogram x.
MergedInto(r, x) ==
  LET after[k \in 0..r.size] ==
        IF k = 0 THEN [hist |-> x, dropped |-> 0]
        ELSE TakenDense(after[k - 1], Remapped(x.geom, r.geom, r.idx[k - 1]), r.cnt[k - 1])
  IN  after[r.size]

\* Bucket i of the packed histogram from taken.
TakenBucket(a, from, i) == Taken(a, Remapped(a.hist.geom, from.geom, from.idx[i]), from.cnt[i])

\* Merge, bucket by bucket: self merges read the counts as they are being changed.
MergedSlowly(r, f, self) ==
  LET after[k \in 0..f.size] ==
        IF k = 0 THEN [hist |-> r, dropped |-> 0]
        ELSE TakenBucket(after[k - 1], IF self THEN after[k - 1].hist ELSE f, k - 1)
  IN  after[f.size]

\* One more bucket of the suffix of f that a histogram of length len has no
\* position for: n buckets of f are left.
TrimStep(t, len, f) ==
  IF t.n > 0 /\ f.idx[t.n - 1] >= len
  THEN [n |-> t.n - 1, dropped |-> AddDropped(t.dropped, f.cnt[t.n - 1])]
  ELSE t

\* Merge, fast: how many buckets of f stay and what is dropped.
Trimmed(r, f) ==
  LET after[k \in 0..f.size] ==
        IF k = 0 THEN [n |-> f.size, dropped |-> 0] ELSE TrimStep(after[k - 1], r.geom.countsLen, f)
  IN  after[f.size]

\* Mutant of Pass1Step: the largest count overlooks those that are added up.
Pass1Step_IgnoresSums(s, r, f, n) ==
  IF s.j = n THEN s
  ELSE IF s.i < r.size /\ r.idx[s.i] < f.idx[s.j] THEN [s EXCEPT !.i = @ + 1]
  ELSE IF s.i < r.size /\ r.idx[s.i] = f.idx[s.j]
  THEN [s EXCEPT !.i = @ + 1, !.j = @ + 1, !.largest = Larger(@, f.cnt[s.j])]
  ELSE [s EXCEPT !.j = @ + 1, !.added = @ + 1, !.largest = Larger(@, f.cnt[s.j])]

\* One iteration of pass 1 over r and the first n buckets of f.
Pass1Step(s, r, f, n) ==
  IF s.j = n THEN s
  ELSE IF s.i < r.size /\ r.idx[s.i] < f.idx[s.j] THEN [s EXCEPT !.i = @ + 1]
  ELSE IF s.i < r.size /\ r.idx[s.i] = f.idx[s.j]
  THEN [s EXCEPT !.i = @ + 1, !.j = @ + 1, !.largest = Larger(@, Wrap64(r.cnt[s.i] + f.cnt[s.j]))]
  ELSE [s EXCEPT !.j = @ + 1, !.added = @ + 1, !.largest = Larger(@, f.cnt[s.j])]

\* Pass 1: how many buckets of f are new to r, and the largest resulting count.
Pass1(r, f, n) ==
  LET after[k \in 0..(r.size + n)] ==
        IF k = 0 THEN [i |-> 0, j |-> 0, added |-> 0, largest |-> 0] ELSE Pass1Step(after[k - 1], r, f, n)
  IN  after[r.size + n]

\* The arrays grown to newSize; what a retained capacity holds there is not known
\* to be a bucket.
Grown(r, newSize) ==
  [r EXCEPT !.idx = [i \in 0..(newSize - 1) |-> IF i < r.size THEN @[i] ELSE -1],
            !.cnt = [i \in 0..(newSize - 1) |-> IF i < r.size THEN @[i] ELSE 0]]

\* One iteration of pass 2, which fills the arrays from the end, in place.
Pass2Step(x, f) ==
  LET Put(ci, c) == SlotSet([x.hist EXCEPT !.idx[x.out] = ci], x.out, c)
  IN  IF x.j < 0 THEN x
      ELSE IF x.i >= 0 /\ x.hist.idx[x.i] > f.idx[x.j]
      THEN [hist |-> Put(x.hist.idx[x.i], x.hist.cnt[x.i]), i |-> x.i - 1, j |-> x.j, out |-> x.out - 1]
      ELSE IF x.i >= 0 /\ x.hist.idx[x.i] = f.idx[x.j]
      THEN [hist |-> Put(x.hist.idx[x.i], x.hist.cnt[x.i] + f.cnt[x.j]),
            i |-> x.i - 1, j |-> x.j - 1, out |-> x.out - 1]
      ELSE [hist |-> Put(f.idx[x.j], f.cnt[x.j]), i |-> x.i, j |-> x.j - 1, out |-> x.out - 1]

Pass2(r, f, n, newSize) ==
  LET after[k \in 0..(r.size + n)] ==
        IF k = 0 THEN [hist |-> r, i |-> r.size - 1, j |-> n - 1, out |-> newSize - 1]
        ELSE Pass2Step(after[k - 1], f)
  IN  after[r.size + n].hist

MergedFast(r, f) ==
  LET trim == Trimmed(r, f)
      pass1 == Pass1(r, f, trim.n)
      newSize == r.size + pass1.added
      filled == Pass2(Grown(WidenToFit(r, pass1.largest), newSize), f, trim.n, newSize)
  IN  [hist |-> [filled EXCEPT !.size = newSize, !.total = Wrap64(@ + Wrap64(f.total - trim.dropped))],
       dropped |-> trim.dropped]

\* Mutant of Rerecords: a source whose total is saturated takes the fast path.
Rerecords_TrustsTotal(r, f, self) ==
  \/ self
  \/ ~SameIndexing(r.geom, f.geom)
  \/ f.total > Wrap64(MaxCount - r.total)

\* Merge takes the bucket-by-bucket path.
Rerecords(r, f, self) ==
  \/ self
  \/ ~SameIndexing(r.geom, f.geom)
  \/ f.total = MaxCount
  \/ f.total > Wrap64(MaxCount - r.total)

\* PackedHistogram.Merge: what p becomes, and what it returns.
Merged(p, from) ==
  LET r == packed[p]
      f == packed[from]
  IN  IF f.size = 0 THEN [hist |-> r, dropped |-> 0]
      ELSE IF Rerecords(r, f, p = from) THEN MergedSlowly(r, f, p = from)
      ELSE MergedFast(r, f)

Merge(p, from) == Becomes(p, Merged(p, from).hist) /\ dropped' = Merged(p, from).dropped

MergeFrom(p, d) ==
  LET merged == MergedFrom(packed[p], dense[d])
  IN  Becomes(p, merged.hist) /\ dropped' = merged.dropped

MergeInto(p, d) ==
  LET merged == MergedInto(packed[p], dense[d])
  IN  /\ dense' = [dense EXCEPT ![d] = merged.hist]
      /\ dropped' = merged.dropped
      /\ UNCHANGED packed

-----------------------------------------------------------------------------
(* Whole-histogram operations.                                              *)

\* Reset keeps the width and the last-hit cache.
Reset(p) ==
  /\ Becomes(p, [packed[p] EXCEPT !.idx = Empty, !.cnt = Empty, !.size = 0, !.total = 0])
  /\ dropped' = 0

ResetDense(d) ==
  /\ dense' = [dense EXCEPT ![d] = NewDense(@.geom)]
  /\ dropped' = 0
  /\ UNCHANGED packed

\* Compact: the narrowest width for the largest count.
Compact(p) ==
  LET r == packed[p]
      w == CHOOSE k \in 1..Top : /\ \A i \in 0..(r.size - 1) : r.cnt[i] <= Limit[k]
                                 /\ \A j \in 1..(k - 1) : \E i \in 0..(r.size - 1) : r.cnt[i] > Limit[j]
  IN  Becomes(p, Repacked(r, w)) /\ dropped' = 0

\* c := p.Clone()
Clone(p, c) == Becomes(c, packed[p]) /\ dropped' = 0

-----------------------------------------------------------------------------
(* The V2 payload: counts in index order, a run of two or more zeros as its *)
(* negated length.  Tokens stand for their ZigZag LEB128 bytes.             *)

\* One token of fillSparseFromPayload.
FillStep(a, g, t) ==
  LET zeros == Wrap64(-t)
  IN  IF a.err THEN a
      ELSE IF t < 0
      THEN IF zeros <= 0 \/ zeros > g.countsLen - a.dst THEN [a EXCEPT !.err = TRUE]
           ELSE [a EXCEPT !.dst = @ + zeros]
      ELSE IF a.dst >= g.countsLen THEN [a EXCEPT !.err = TRUE]
      ELSE IF t = 0 THEN [a EXCEPT !.dst = @ + 1]
      ELSE [a EXCEPT !.hist = SparseAdd(@, a.dst, t), !.total = AddDropped(@, t), !.dst = @ + 1]

\* fillSparseFromPayload.
Filled(g, payload) ==
  LET after[k \in 0..Len(payload)] ==
        IF k = 0 THEN [hist |-> NewPacked(g), dst |-> 0, total |-> 0, err |-> FALSE]
        ELSE FillStep(after[k - 1], g, payload[k])
  IN  after[Len(payload)]

Decoded(g, payload) == [Filled(g, payload).hist EXCEPT !.total = Filled(g, payload).total]

\* p := DecodePacked(stream); a corrupt payload yields no histogram.
DecodePacked(p, g, payload) ==
  /\ dropped' = 0
  /\ IF Filled(g, payload).err THEN UNCHANGED <<packed, dense>> ELSE Becomes(p, Decoded(g, payload))

-----------------------------------------------------------------------------
Next ==
  \/ \E v \in Values, n \in Amounts : RecordRejected(v, n)
  \/ \E p \in Packed :
       \/ p \in Recorders /\ \E v \in Values :
            \/ \E n \in Amounts : RecordValues(p, v, n)
            \/ \E i \in Intervals : RecordCorrectedValue(p, v, i)
       \/ Reset(p) \/ Compact(p)
       \/ \E q \in Packed : Merge(p, q) \/ Clone(p, q)
       \/ \E d \in Dense : MergeFrom(p, d) \/ MergeInto(p, d)
       \/ \E g \in Geometries, t \in Payloads : DecodePacked(p, g, t)
  \/ \E d \in Dense :
       \/ ResetDense(d)
       \/ \E v \in Values, n \in Amounts : RecordDense(d, v, n)

Spec == Init /\ [][Next]_vars

-----------------------------------------------------------------------------
(* Queries.                                                                 *)

PackedMax(r) ==
  PackedHighestEquivalent(r.geom, IF r.size = 0 THEN 0 ELSE ValueFromFlatIndex(r.geom, r.idx[r.size - 1]))

PackedMin(r) ==
  LowestEquivalent(r.geom, IF r.size = 0 THEN 0 ELSE ValueFromFlatIndex(r.geom, r.idx[0]))

\* CountAtValue for a value at position ci.
CountAt(r, ci) ==
  IF Fits(r.geom, ci) /\ Holds(r, LowerBound(r, ci), ci) THEN r.cnt[LowerBound(r, ci)] ELSE 0

\* The sum of the block of counts from position i on, added to running.
BlockSum(r, i, running) ==
  Wrap64(running + PrefixSum([j \in 0..(ScanBlock - 1) |-> r.cnt[i + j]])[ScanBlock])

\* Mutant of BlockCrosses: a block that ends exactly at the target is skipped.
BlockCrosses_Strictly(r, s, target) == BlockSum(r, s.i, s.running) > target

\* The block of counts at s.i reaches the target.
BlockCrosses(r, s, target) == BlockSum(r, s.i, s.running) >= target

\* The walk over the buckets is at the start of a block: s.i buckets are passed, and
\* those below s.stop are read one at a time.
AtBlock(r, s) == s.i >= s.stop /\ r.width < Top /\ s.i + ScanBlock <= r.size

\* What a walk does at a block whose next target is given.
BlockStep(r, s, target) ==
  IF BlockCrosses(r, s, target) THEN [s EXCEPT !.stop = s.i + ScanBlock]
  ELSE [s EXCEPT !.i = @ + ScanBlock, !.running = BlockSum(r, s.i, @)]

\* The running count after bucket s.i: in a block without, in the tail with saturation.
Running(r, s) ==
  IF s.i < s.stop THEN Wrap64(s.running + r.cnt[s.i]) ELSE AddDropped(s.running, r.cnt[s.i])

\* One iteration of valueFromIdxAtCount.
ScanStep(r, target, s) ==
  IF s.at >= 0 \/ s.i = r.size THEN s
  ELSE IF AtBlock(r, s) THEN BlockStep(r, s, target)
  ELSE IF Running(r, s) >= target THEN [s EXCEPT !.at = s.i]
  ELSE [s EXCEPT !.i = @ + 1, !.running = Running(r, s)]

\* valueFromIdxAtCount: whole blocks at the narrow widths, then bucket by bucket.
ValueFromIdxAtCount(r, target) ==
  LET after[k \in 0..(2 * r.size)] ==
        IF k = 0 THEN [i |-> 0, stop |-> 0, running |-> 0, at |-> -1] ELSE ScanStep(r, target, after[k - 1])
      at == after[2 * r.size].at
  IN  IF at >= 0 THEN ValueFromFlatIndex(r.geom, r.idx[at]) ELSE 0

\* The answer for a bucket's value v; zeroth if the 0th percentile was asked for.
Answer(r, v, zeroth) == IF zeroth THEN LowestEquivalent(r.geom, v) ELSE PackedHighestEquivalent(r.geom, v)

\* ValueAtPercentile for a rank.
ValueAtRank(r, rank, zeroth) == Answer(r, ValueFromIdxAtCount(r, rank), zeroth)

\* sort.Slice by target: the positions of the requests q in ascending order.
Ordered(q) ==
  CHOOSE o \in [1..Len(q) -> 1..Len(q)] :
    /\ \A a, b \in 1..Len(q) : a # b => o[a] # o[b]
    /\ \A a \in 2..Len(q) : q[o[a - 1]].target <= q[o[a]].target

\* emit: the first pending request that the running count has not reached.
Drained(q, o, j, running) ==
  CHOOSE k \in j..(Len(q) + 1) :
    /\ \A l \in j..(k - 1) : q[o[l]].target <= running
    /\ k = Len(q) + 1 \/ q[o[k]].target > running

\* One iteration of the walk of ValueAtPercentilesSlice: the requests o[s.j].. are
\* pending, and bucket s.i answers those that the running count reaches with it.
SliceStep(r, q, o, s) ==
  IF s.j > Len(q) \/ s.i = r.size THEN s
  ELSE IF AtBlock(r, s) THEN BlockStep(r, s, q[o[s.j]].target)
  ELSE LET k == Drained(q, o, s.j, Running(r, s))
           v == ValueFromFlatIndex(r.geom, r.idx[s.i])
       IN  [s EXCEPT !.i = @ + 1, !.running = Running(r, s), !.j = k,
                     !.out = [x \in DOMAIN @ |-> IF \E l \in s.j..(k - 1) : o[l] = x
                                                 THEN Answer(r, v, q[x].zeroth) ELSE @[x]]]

\* ValueAtPercentilesSlice for requests with a target and a zeroth flag: one walk.
ValuesAtRanks(r, q) ==
  LET o == Ordered(q)
      after[k \in 0..(2 * r.size)] ==
        IF k = 0 THEN [i |-> 0, stop |-> 0, running |-> 0, j |-> 1, out |-> [x \in 1..Len(q) |-> 0]]
        ELSE SliceStep(r, q, o, after[k - 1])
  IN  after[2 * r.size].out

-----------------------------------------------------------------------------
(* Properties.                                                              *)

HistOK(r) ==
  /\ r.geom \in Geometries
  /\ r.size \in 0..r.geom.countsLen
  /\ r.idx \in [0..(r.size - 1) -> 0..(r.geom.countsLen - 1)]
  /\ r.width \in 1..Top
  /\ r.cnt \in [0..(r.size - 1) -> 0..Limit[r.width]]
  /\ r.total \in 0..MaxCount
  /\ r.lastIndex \in Nat /\ r.lastPos \in Nat

TypeOK ==
  /\ DOMAIN packed = Packed /\ \A p \in Packed : HistOK(packed[p])
  /\ DOMAIN dense = Dense
  /\ \A d \in Dense : /\ dense[d].geom \in Geometries
                      /\ dense[d].counts \in [0..(dense[d].geom.countsLen - 1) -> 0..MaxCount]
                      /\ dense[d].total \in 0..MaxCount
  /\ dropped \in 0..MaxCount

\* Binary search, the last-hit cache and the two-pointer merge rely on idx being
\* strictly ascending, and "populated" queries on every stored count being
\* positive, after any sequence of insertions, in-place merges, widenings and
\* compactions.
SlotsWellFormed ==
  /\ TypeOK
  /\ \A p \in Packed : LET r == packed[p] IN
       /\ \A i \in 1..(r.size - 1) : r.idx[i - 1] < r.idx[i]
       /\ \A i \in 0..(r.size - 1) : r.cnt[i] > 0

\* totalCount, against which ranks are computed and overflow is checked, is the
\* sum of the stored counts, or MaxInt64 when a decoded sum lies past it: no
\* count is truncated by a slot too narrow for it.
TotalSaturates ==
  \A p \in Packed : packed[p].total = Smaller(MaxCount, PrefixSum(packed[p].cnt)[packed[p].size])

\* The count that the stored buckets give position i.
Count(r, i) == PrefixSum([k \in 0..(r.size - 1) |-> IF r.idx[k] = i THEN r.cnt[k] ELSE 0])[r.size]

\* ValueAtPercentilesSlice: "Results are bit-identical to the per-percentile calls
\* (including ... the p==0 lowest-equivalent vs p>0 highest-equivalent distinction)
\* and order-agnostic": for every two ranks, equal or not and in either order, the
\* single walk over blocks and buckets finds what two calls find.
SliceExact(r) ==
  LET requests == {[target |-> 1, zeroth |-> TRUE]}
                    \union {[target |-> t, zeroth |-> FALSE] : t \in 1..r.total}
  IN  r.total > 0 => \A a, b \in requests :
        ValuesAtRanks(r, <<a, b>>) =
          <<ValueAtRank(r, a.target, a.zeroth), ValueAtRank(r, b.target, b.zeroth)>>

\* The queries of a packed histogram answer what its buckets say: CountAtValue,
\* Min, Max, and for every rank the value of the first bucket at which the exact
\* running count reaches it, whether the blocked scan of a narrow width or the
\* saturating scan finds it, for one rank or for several in one walk.
QueriesExact ==
  \A p \in Packed :
    LET r == packed[p]
        populated == {i \in 0..(r.geom.countsLen - 1) : Count(r, i) > 0}
        Below(i) == PrefixSum([k \in 0..(r.geom.countsLen - 1) |-> Count(r, k)])[i]
    IN  /\ \A i \in 0..(r.geom.countsLen - 1) : CountAt(r, i) = Count(r, i)
        /\ \A i \in populated : /\ PackedMin(r) <= ValueFromFlatIndex(r.geom, i)
                               /\ ValueFromFlatIndex(r.geom, i) <= PackedMax(r)
        /\ populated # {} =>
             {CountsIndexFor(r.geom, PackedMin(r)), CountsIndexFor(r.geom, PackedMax(r))} \subseteq populated
        /\ \A target \in 1..r.total :
             LET i == CountsIndexFor(r.geom, ValueFromIdxAtCount(r, target))
             IN  Below(i) < target /\ target <= Below(i + 1)
        /\ SliceExact(r)

\* The payload t is well formed for geometry g, and the counts that it denotes:
\* token k stands at the sum of the lengths of the tokens before it.
Span(t) == [k \in 0..(Len(t) - 1) |-> IF t[k + 1] < 0 THEN -t[k + 1] ELSE 1]
Denotes(t, g) == PrefixSum(Span(t))[Len(t)] <= g.countsLen
Denoted(t, g) ==
  [geom |-> g,
   counts |-> [i \in 0..(g.countsLen - 1) |->
     LET here == {k \in 0..(Len(t) - 1) : PrefixSum(Span(t))[k] = i /\ t[k + 1] > 0}
     IN  IF here = {} THEN 0 ELSE t[(CHOOSE k \in here : TRUE) + 1]]]

Name == Packed \union Dense
Hist(s) == IF s \in Packed THEN packed[s] ELSE dense[s]

Store == INSTANCE BucketStore WITH
  Stores <- Name, StoreGeometries <- Geometries,
  StoreValues <- Values, StoreAmounts <- Amounts, StoreIntervals <- Intervals,
  StoreLoads <- {Denoted(x[1], x[2]) : x \in {y \in Payloads \X Geometries : Denotes(y[1], y[2])}},
  geom <- [s \in Name |-> Hist(s).geom],
  counts <- [s \in Name |-> IF s \in Packed
                           THEN [i \in 0..(packed[s].geom.countsLen - 1) |-> Count(packed[s], i)]
                           ELSE dense[s].counts],
  total <- [s \in Name |-> Hist(s).total]

\* Sparse storage behaves as an array of counts with a total: every call of the
\* packed type, Reset, Compact, Clone and DecodePacked included, is a call of the
\* abstract store or leaves it alone.
ImplementsStore == Store!StoreSpec

\* packed.go:259 says of the last-hit cache "Effect is identical to the sparseAdd
\* search path": in every reachable state, with whatever cached position earlier
\* calls have left, RecordValues raises the count of the value's position by n and
\* no other.
RecordExact ==
  \A p \in Packed, v \in Values, n \in Amounts :
    LET r == packed[p]
        after == Recorded(r, v, n)
    IN  ~RecordFails(r, v, n) =>
          /\ after.total = r.total + n
          /\ \A i \in 0..(r.geom.countsLen - 1) :
               Count(after, i) = Count(r, i) + (IF i = CountsIndexFor(r.geom, v) THEN n ELSE 0)

\* Merge, MergeFrom and MergeInto, by whichever path, give the counts, the total
\* and the dropped number that re-recording the source position by position gives,
\* as packed_window.go documents ("The result is that of recording every populated
\* bucket of from into p in value order").
MergesExact ==
  LET Agrees(merged, reference) ==
        LET x == merged.hist
            c == IF "counts" \in DOMAIN x THEN x.counts
                 ELSE [i \in 0..(x.geom.countsLen - 1) |-> Count(x, i)]
        IN  [counts |-> c, total |-> x.total, dropped |-> merged.dropped] = reference
  IN  \A p \in Packed :
        /\ \A q \in Packed : Agrees(Merged(p, q), Store!Rerecorded(p, q))
        /\ \A d \in Dense : /\ Agrees(MergedFrom(packed[p], dense[d]), Store!Rerecorded(p, d))
                            /\ Agrees(MergedInto(packed[p], dense[d]), Store!Rerecorded(d, p))

\* Every call on its own is exact.  ImplementsStore does not say this: a wrong step
\* may be the right step of another abstract call.
CallsExact == RecordExact /\ MergesExact
=============================================================================
