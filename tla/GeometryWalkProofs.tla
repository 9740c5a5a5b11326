------------------------- MODULE GeometryWalkProofs -------------------------
(***************************************************************************)
(* The properties of GeometryWalk for every word width, 63 value bits      *)
(* included, and for every geometry that New, Import or a decoder builds.  *)
(***************************************************************************)
EXTENDS GeometryWalk, ArithmeticProofs

\* Every geometry of the walk comes from one of the constructors.
LEMMA GeometriesBuilt == \A x \in Geometries : Built(x)
<1>1. \A a \in Args : IsArgs(a) BY ArgsAssumption DEF Args, IsArgs
<1> QED BY <1>1, NewBuilt, WireBuilt DEF Geometries

\* The inductive invariant: the cursor's bucket and sub-bucket are those of the
\* position it has advanced to, and it never re-enters the lower half of a bucket.
CursorInv ==
  LET half == 2^g.m IN
  /\ g \in Geometries /\ v \in 0..MaxInt
  /\ pos \in Nat
  /\ bucketIdx \in 0..g.bucketCount /\ subBucketIdx \in -1..(2 * half - 1)
  /\ bucketIdx * half + subBucketIdx = pos - 1
  /\ pos > 0 => subBucketIdx >= 0
  /\ bucketIdx > 0 => subBucketIdx >= half
  /\ bucketIdx = g.bucketCount => subBucketIdx = half

\* The numbers of the geometry of the walk.
LEMMA WalkFacts ==
  ASSUME g \in Geometries
  PROVE  /\ Built(g) /\ Sized(g)
         /\ 2^g.m \in Nat \ {0} /\ 2^(g.m + 1) = 2 * 2^g.m
         /\ g.bucketCount \in Nat \ {0}
         /\ g.countsLen = (g.bucketCount + 1) * 2^g.m
<1>1. Built(g) BY GeometriesBuilt
<1>2. Sized(g) /\ g.bucketCount \in Nat \ {0} /\ g.countsLen = (g.bucketCount + 1) * 2^g.m
  BY <1>1 DEF Built
<1> QED BY <1>1, <1>2, SizedPowers

\* The walk starts before the first position.
LEMMA InitCursor == Init => CursorInv
<1> SUFFICES ASSUME Init PROVE CursorInv OBVIOUS
<1> DEFINE half == 2^g.m
<1>1. g \in Geometries BY DEF Init
<1>2. half \in Nat \ {0} /\ g.bucketCount \in Nat \ {0} BY <1>1, WalkFacts
<1>3. v = 0 /\ bucketIdx = 0 /\ subBucketIdx = -1 /\ pos = 0 /\ 0 \in 0..MaxInt
  BY MaxIntFacts DEF Init
<1> HIDE DEF half
<1>4. bucketIdx * half + subBucketIdx = pos - 1 BY <1>2, <1>3
<1>5. subBucketIdx \in -1..(2 * half - 1) /\ bucketIdx \in 0..g.bucketCount BY <1>2, <1>3
<1> QED BY <1>1, <1>2, <1>3, <1>4, <1>5 DEF CursorInv, half

\* An advance of the cursor (iterator.nextCountAtIdx) advances the position by one.
LEMMA NextCursor == CursorInv /\ [Next]_vars => CursorInv'
<1> SUFFICES ASSUME CursorInv, [Next]_vars PROVE CursorInv' OBVIOUS
<1> DEFINE half == 2^g.m
<1>1. /\ g \in Geometries /\ v \in 0..MaxInt /\ pos \in Nat
      /\ bucketIdx \in 0..g.bucketCount /\ subBucketIdx \in -1..(2 * half - 1)
      /\ bucketIdx * half + subBucketIdx = pos - 1
      /\ pos > 0 => subBucketIdx >= 0
      /\ bucketIdx > 0 => subBucketIdx >= half
      /\ bucketIdx = g.bucketCount => subBucketIdx = half
  BY DEF CursorInv
<1>2. half \in Nat \ {0} /\ 2^(g.m + 1) = 2 * half /\ g.bucketCount \in Nat \ {0} BY <1>1, WalkFacts
<1>3. CASE NextValue
  <2>1. v' \in 0..MaxInt /\ UNCHANGED <<g, bucketIdx, subBucketIdx, pos>>
    BY <1>1, <1>3, MaxIntFacts DEF NextValue
  <2> QED BY <1>1, <2>1 DEF CursorInv
<1>4. CASE NextCountAtIdx
  <2>1. bucketIdx < g.bucketCount /\ pos' = pos + 1 /\ g' = g /\ v' = v BY <1>4 DEF NextCountAtIdx
  <2>2. CASE Wraps
    <3>1. bucketIdx' = bucketIdx + 1 /\ subBucketIdx' = half
      BY <1>4, <2>2 DEF NextCountAtIdx, CursorBucket, CursorSubBucket
    <3>2. subBucketIdx = 2 * half - 1 BY <1>1, <1>2, <2>2 DEF Wraps
    <3> HIDE DEF half
    <3>3. bucketIdx' * half + subBucketIdx' = pos' - 1
      <4>1. (bucketIdx + 1) * half + half = bucketIdx * half + 2 * half /\ bucketIdx * half \in Int
        BY <1>1, <1>2
      <4> QED BY <4>1, <3>1, <3>2, <2>1, <1>1, <1>2
    <3>4. /\ bucketIdx' \in 0..g.bucketCount /\ subBucketIdx' \in -1..(2 * half - 1)
          /\ subBucketIdx' >= 0 /\ pos' \in Nat
      BY <1>1, <1>2, <2>1, <3>1
    <3> QED BY <1>1, <1>2, <2>1, <3>1, <3>3, <3>4 DEF CursorInv, half
  <2>3. CASE ~Wraps
    <3>1. bucketIdx' = bucketIdx /\ subBucketIdx' = subBucketIdx + 1
      BY <1>4, <2>3 DEF NextCountAtIdx, CursorBucket, CursorSubBucket
    <3>2. subBucketIdx + 1 < 2 * half BY <1>1, <1>2, <2>3 DEF Wraps
    <3> HIDE DEF half
    <3>3. bucketIdx' * half + subBucketIdx' = pos' - 1
      <4>1. bucketIdx * half \in Int BY <1>1, <1>2
      <4> QED BY <4>1, <3>1, <2>1, <1>1
    <3>4. /\ bucketIdx' \in 0..g.bucketCount /\ subBucketIdx' \in -1..(2 * half - 1)
          /\ subBucketIdx' >= 0 /\ pos' \in Nat /\ bucketIdx' # g.bucketCount
          /\ (bucketIdx' > 0 => subBucketIdx' >= half)
      BY <1>1, <1>2, <2>1, <3>1, <3>2
    <3> QED BY <1>1, <1>2, <2>1, <3>3, <3>4 DEF CursorInv, half
  <2> QED BY <2>2, <2>3
<1>5. CASE UNCHANGED vars BY <1>1, <1>5 DEF CursorInv, vars
<1> QED BY <1>3, <1>4, <1>5 DEF Next

\* The invariant holds in every state of the walk.
LEMMA CursorCorrect == Spec => []CursorInv
BY InitCursor, NextCursor, PTL DEF Spec

\* For every word width and every geometry: countsIndexFor stores a value at the
\* position from which valueFromFlatIndex reads back the lowest value of its
\* bucket, and the buckets follow each other without a gap or an overlap.
THEOREM IndexRoundTrips == Spec => []IndexRoundTrip
<1>1. CursorInv => IndexRoundTrip
  <2> SUFFICES ASSUME CursorInv PROVE IndexRoundTrip OBVIOUS
  <2>1. g \in Geometries /\ v \in 0..MaxInt BY DEF CursorInv
  <2>2. InvertsAt(g, v) BY <2>1, WalkFacts, IndexInverse
  <2> QED BY <2>2 DEF InvertsAt, IndexRoundTrip, idx
<1> QED BY <1>1, CursorCorrect, PTL

\* For every word width and every geometry: a bucket is no wider than the unit or
\* than the last significant digit of its values (geometryMagnitudes).
THEOREM PrecisionKept == Spec => []Precision
<1>1. CursorInv => Precision
  <2> SUFFICES ASSUME CursorInv PROVE Precision OBVIOUS
  <2> DEFINE w == SizeOfRange(g, v)
  <2> DEFINE d == v \div 10^g.sig
  <2>1. g \in Geometries /\ v \in 0..MaxInt BY DEF CursorInv
  <2>2. Built(g) BY <2>1, WalkFacts
  <2>3. w <= LowUnit(g.low) \/ w <= d BY <2>1, <2>2, BucketWidth
  <2>4. d \in Nat
    <3>1. 10^g.sig \in Nat \ {0} /\ v \in Nat BY <2>1, <2>2, HalfCountFacts, MaxIntFacts DEF Built
    <3> QED BY <3>1, DivBetween
  <2>5. w \in Nat
    <3>1. PICK b, s : Cell(g, b, s) /\ Reaches(g, b) /\ At(g, v, b, s)
      BY <2>1, WalkFacts, ValueCell
    <3>2. w = 2^(b + g.u) BY <2>1, <3>1, WalkFacts, Equivalent
    <3> QED BY <2>1, <3>1, <3>2, WalkFacts, CellEnds
  <2>6. LowUnit(g.low) \in Nat
    <3>1. g.low \in 0..MaxInt BY <2>2, MaxIntFacts DEF Built
    <3>2. g.low \in Nat /\ BitLen(g.low) \in Nat BY <3>1, BitLenFacts, MaxIntFacts
    <3> QED BY <3>2, PowerFacts DEF LowUnit
  <2>7. Precision <=> w <= Larger(LowUnit(g.low), d) BY DEF Precision, LowUnit
  <2> HIDE DEF w, d
  <2>8. w <= Larger(LowUnit(g.low), d) BY <2>3, <2>4, <2>5, <2>6 DEF Larger
  <2> QED BY <2>7, <2>8
<1> QED BY <1>1, CursorCorrect, PTL

\* For every word width and every geometry: getBucketsNeededToCoverValue allocates
\* a position for every value up to highestTrackableValue and no bucket above it.
THEOREM RangeIsCovered == Spec => []RangeCovered
<1>1. CursorInv => RangeCovered
  <2> SUFFICES ASSUME CursorInv PROVE RangeCovered OBVIOUS
  <2>1. g \in Geometries /\ v \in 0..MaxInt BY DEF CursorInv
  <2>2. Built(g) BY <2>1, WalkFacts
  <2>3. v <= g.high => CountsIndexFor(g, v) \in 0..(g.countsLen - 1) BY <2>1, <2>2, Covered
  <2> QED BY <2>2, <2>3 DEF RangeCovered, Recordable, idx, Built
<1> QED BY <1>1, CursorCorrect, PTL

\* For every word width and every geometry: the iterator visits the positions of
\* the counts array in order, with the values of the flat scans, and stops after
\* the last.
THEOREM CursorFollowsArray == Spec => []CursorIsFlat
<1>1. CursorInv => CursorIsFlat
  <2> SUFFICES ASSUME CursorInv PROVE CursorIsFlat OBVIOUS
  <2> DEFINE half == 2^g.m
  <2> DEFINE N == g.bucketCount
  <2>1. /\ g \in Geometries /\ v \in 0..MaxInt /\ pos \in Nat
        /\ bucketIdx \in 0..N /\ subBucketIdx \in -1..(2 * half - 1)
        /\ bucketIdx * half + subBucketIdx = pos - 1
        /\ pos > 0 => subBucketIdx >= 0
        /\ bucketIdx > 0 => subBucketIdx >= half
        /\ bucketIdx = N => subBucketIdx = half
    BY DEF CursorInv
  <2>2. /\ half \in Nat \ {0} /\ 2^(g.m + 1) = 2 * half /\ N \in Nat \ {0}
        /\ g.countsLen = (N + 1) * half /\ Sized(g)
    BY <2>1, WalkFacts
  <2>3. CountsIndex(g, bucketIdx, subBucketIdx) = pos - 1
    <3>1. CountsIndex(g, bucketIdx, subBucketIdx) = (bucketIdx + 1) * half + subBucketIdx - half
      BY DEF CountsIndex
    <3> HIDE DEF half
    <3>2. (bucketIdx + 1) * half = bucketIdx * half + half /\ bucketIdx * half \in Int BY <2>1, <2>2
    <3> QED BY <3>1, <3>2, <2>1, <2>2
  <2>4. ASSUME bucketIdx < N PROVE pos - 1 < (N + 1) * half
    <3> HIDE DEF half, N
    <3>1. (bucketIdx + 1) * half <= N * half BY <2>1, <2>2, <2>4
    <3>2. /\ (bucketIdx + 1) * half = bucketIdx * half + half /\ (N + 1) * half = N * half + half
          /\ bucketIdx * half \in Int /\ N * half \in Int
      BY <2>1, <2>2
    <3> QED BY <3>1, <3>2, <2>1, <2>2
  <2>5. ASSUME bucketIdx = N PROVE pos - 1 = (N + 1) * half
    <3> HIDE DEF half, N
    <3>1. (N + 1) * half = N * half + half /\ N * half \in Int BY <2>2
    <3> QED BY <3>1, <2>1, <2>2, <2>5
  <2>6. (N + 1) * half \in Nat
    <3> HIDE DEF half, N
    <3> QED BY <2>2
  <2>7. ASSUME pos > 0, bucketIdx < N
        PROVE  ValueFromIndex(g, bucketIdx, subBucketIdx) = ValueFromFlatIndex(g, pos - 1)
    <3>1. Cell(g, bucketIdx, subBucketIdx) BY <2>1, <2>2, <2>7 DEF Cell
    <3>2. ValueFromFlatIndex(g, bucketIdx * half + subBucketIdx) = subBucketIdx * 2^(bucketIdx + g.u)
      BY <2>2, <3>1, FlatValue
    <3> QED BY <3>2, <2>1 DEF ValueFromIndex
  <2> HIDE DEF half
  <2>8. bucketIdx < N \/ bucketIdx = N BY <2>1, <2>2
  <2>9. pos \in 0..(g.countsLen + 1)
    <3>1. pos - 1 <= (N + 1) * half BY <2>1, <2>4, <2>5, <2>6, <2>8
    <3> QED BY <3>1, <2>1, <2>2, <2>6
  <2>10. TypeOK BY <2>1, <2>2, <2>9 DEF TypeOK
  <2>11. CASE bucketIdx < N
    <3>1. pos > 0 => pos - 1 \in 0..(g.countsLen - 1) BY <2>1, <2>2, <2>4, <2>6, <2>11
    <3> QED BY <3>1, <2>3, <2>7, <2>10, <2>11 DEF CursorIsFlat
  <2>12. CASE bucketIdx = N
    <3>1. ~(bucketIdx < N) BY <2>2, <2>12
    <3>2. pos = g.countsLen + 1 BY <2>1, <2>2, <2>5, <2>6, <2>12
    <3> QED BY <3>1, <3>2, <2>10 DEF CursorIsFlat
  <2> QED BY <2>8, <2>11, <2>12
<1> QED BY <1>1, CursorCorrect, PTL

\* For every word width and every geometry: what Export writes of a geometry is
\* accepted by wireGeometry and gives the same geometry again.
THEOREM GeometryReturns == Spec => []GeometrySurvivesExport
<1>1. CursorInv => GeometrySurvivesExport
  <2> SUFFICES ASSUME CursorInv PROVE GeometrySurvivesExport OBVIOUS
  <2>1. Built(g) BY WalkFacts DEF CursorInv
  <2> DEFINE a == [low |-> g.low, high |-> g.high, sig |-> g.sig]
  <2>2. a.low = g.low /\ a.high = g.high /\ a.sig = g.sig OBVIOUS
  <2> HIDE DEF a
  <2>3. WireAccepts(a) /\ WireGeometry(a) = g BY <2>1, <2>2, WireRebuilds
  <2> QED BY <2>3 DEF GeometrySurvivesExport, a
<1> QED BY <1>1, CursorCorrect, PTL
=============================================================================
