---------------------------- MODULE GeometryWalk ----------------------------
(***************************************************************************)
(* The geometry operators of Geometry, exercised on every value and every  *)
(* position of a set of geometries.  A behavior picks one geometry, raises *)
(* a value v one by one through the whole int64 range (NextValue), and     *)
(* then runs the dense iterator's cursor (bucketIdx, subBucketIdx) through *)
(* the counts array (NextCountAtIdx, hdr.go iterator.nextCountAtIdx on a   *)
(* histogram whose limit is not reached).                                  *)
(***************************************************************************)
EXTENDS Geometry

CONSTANTS
  Lows, Highs, Sigs   \* constructor arguments to combine

\* The first two are int64 values.
ASSUME ArgsAssumption ==
  Lows \union Highs \subseteq -(MaxInt + 1)..MaxInt /\ Sigs \subseteq Int

VARIABLES
  g,            \* the geometry
  v,            \* the value being mapped
  bucketIdx,    \* the iterator's cursor
  subBucketIdx,
  pos           \* number of cursor advances so far (not in the code)

vars == <<g, v, bucketIdx, subBucketIdx, pos>>

Args == [low : Lows, high : Highs, sig : Sigs]

\* Every geometry the two constructors build from the arguments.
Geometries == {NewGeometry(a)  : a \in {x \in Args : NewAccepts(x)}}
      \union  {WireGeometry(a) : a \in {x \in Args : WireAccepts(x)}}

Init ==
  /\ g \in Geometries
  /\ v = 0
  /\ bucketIdx = 0 /\ subBucketIdx = -1 /\ pos = 0

NextValue ==
  /\ v < MaxInt
  /\ v' = v + 1
  /\ UNCHANGED <<g, bucketIdx, subBucketIdx, pos>>

\* The cursor after one advance.
Wraps == subBucketIdx + 1 >= 2^(g.m + 1)
CursorBucket == IF Wraps THEN bucketIdx + 1 ELSE bucketIdx

\* Mutant of CursorSubBucket: every bucket is entered at its lower half.
CursorSubBucket_FromZero == IF Wraps THEN 0 ELSE subBucketIdx + 1

CursorSubBucket == IF Wraps THEN 2^g.m ELSE subBucketIdx + 1

NextCountAtIdx ==
  /\ v = MaxInt
  /\ bucketIdx < g.bucketCount
  /\ bucketIdx' = CursorBucket
  /\ subBucketIdx' = CursorSubBucket
  /\ pos' = pos + 1
  /\ UNCHANGED <<g, v>>

Next == NextValue \/ NextCountAtIdx

Spec == Init /\ [][Next]_vars

-----------------------------------------------------------------------------
idx == CountsIndexFor(g, v)
Recordable == idx \in 0..(g.countsLen - 1)

TypeOK ==
  /\ g \in Geometries
  /\ v \in 0..MaxInt
  /\ bucketIdx \in 0..g.bucketCount
  /\ subBucketIdx \in -1..(2^(g.m + 1) - 1)
  /\ pos \in 0..(g.countsLen + 1)

\* RecordValues stores v at countsIndexFor(v) and every query maps the index
\* back with valueFromFlatIndex: the value read back is the lowest value of v's
\* bucket, the bucket contains v, both its ends are stored at v's index, and the
\* next bucket starts right after it: counts[] has no gap and no overlap.  The end
\* is the same for the dense type, which lets lowest + size wrap past MaxInt64
\* before it subtracts 1, and for the packed type, which saturates.
IndexRoundTrip ==
  LET lo == ValueFromFlatIndex(g, idx)
      hi == HighestEquivalent(g, v)
  IN  /\ lo = LowestEquivalent(g, v)
      /\ lo <= v /\ v <= hi
      /\ CountsIndexFor(g, lo) = idx
      /\ CountsIndexFor(g, hi) = idx
      /\ hi < MaxInt => CountsIndexFor(g, hi + 1) = idx + 1
      /\ hi = PackedHighestEquivalent(g, v)
      /\ lo <= MedianEquivalent(g, v) /\ MedianEquivalent(g, v) <= hi

\* The precision New documents: a value is not confused with one that differs
\* from it by more than its last significant digit, or by lowestDiscernibleValue
\* below the range where the digits decide (geometryMagnitudes).  Where the float64
\* logarithm rounds up, the unit is the power of two just above that value, and not
\* "floor(log2(lowestDiscernibleValue))" (packed_window.go:63-64).
Precision ==
  SizeOfRange(g, v)
    <= Larger(IF g.low \in RoundsUp THEN 2^BitLen(g.low) ELSE g.low, v \div 10^g.sig)

\* getBucketsNeededToCoverValue allocates enough buckets for every value up to
\* highestTrackableValue, and never a bucket that starts above it.
RangeCovered ==
  /\ v <= g.high => Recordable
  /\ g.bucketCount > 1 => 2^(g.u + g.m + g.bucketCount - 1) <= g.high

\* The iterator's (bucketIdx, subBucketIdx) pairs are exactly the positions of
\* counts[] in order, with the value valueFromFlatIndex gives, and it stops after
\* the last one: the flat scans of the percentile queries and the iterator of
\* Merge, Max, Min and Mean see the same sequence.
CursorIsFlat ==
  /\ TypeOK
  /\ IF bucketIdx < g.bucketCount
     THEN pos > 0 => /\ CountsIndex(g, bucketIdx, subBucketIdx) = pos - 1
                     /\ pos - 1 \in 0..(g.countsLen - 1)
                     /\ ValueFromIndex(g, bucketIdx, subBucketIdx) = ValueFromFlatIndex(g, pos - 1)
     ELSE pos = g.countsLen + 1

\* Export writes low, high and sig, and Import rebuilds the geometry from them
\* with wireGeometry: whichever constructor built the histogram, the indices of
\* the exported counts keep their meaning.
GeometrySurvivesExport ==
  LET a == [low |-> g.low, high |-> g.high, sig |-> g.sig]
  IN  WireAccepts(a) /\ WireGeometry(a) = g
=============================================================================
