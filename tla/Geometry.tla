------------------------------ MODULE Geometry ------------------------------
(***************************************************************************)
(* The bucket geometry of a histogram (hdr.go): how the constructor's      *)
(* arguments fix a family of buckets, and how a value is mapped to a       *)
(* position of the counts array and back.  Everything here is a pure       *)
(* function; Histogram and PackedHistogram share it, as the packed type    *)
(* shares the dense type's "geometry oracle".                              *)
(*                                                                         *)
(* A geometry is a record                                                  *)
(*   low, high, sig   the arguments (after clamping)                       *)
(*   u                unitMagnitude                                        *)
(*   m                subBucketHalfCountMagnitude                          *)
(*   bucketCount, countsLen                                                *)
(* The code also keeps subBucketCount = 2^(m+1), subBucketHalfCount = 2^m  *)
(* and subBucketMask, which are functions of u and m.                      *)
(*                                                                         *)
(* W is the number of value bits of the signed word: 63 in the code, a     *)
(* small number when model checking.  The constants 61 and MaxInt64 of the *)
(* code are W - 2 and 2^W - 1 here.                                        *)
(***************************************************************************)
EXTENDS Integers

CONSTANTS
  W,          \* value bits of an int64: 63
  RoundsUp    \* values whose float64 logarithm rounds up to an integer
              \* (2^49 - 1 is the least such int64)

ASSUME WAssumption == W \in Nat \ {0, 1}

\* math.MaxInt64, for values.
MaxInt == 2^W - 1

\* The number of bits of x, i.e. 64 - bits.LeadingZeros64(x), for 0 <= x < 2^(W+1).
BitLen(x) == CHOOSE k \in 0..(W + 1) : x < 2^k /\ (k > 0 => 2^(k - 1) <= x)

\* The larger of two numbers, and the smaller.
Larger(a, b)  == IF a >= b THEN a ELSE b
Smaller(a, b) == IF a <= b THEN a ELSE b

-----------------------------------------------------------------------------
(* Construction.                                                            *)

\* Mutant of HalfCountMagnitude: unit resolution up to 10^sig only.
HalfCountMagnitude_NotDoubled(sig) ==
  LET bits == CHOOSE k \in 0..18 : 2^k >= 10^sig /\ \A j \in 0..(k - 1) : 2^j < 10^sig
  IN  Larger(bits, 1) - 1

\* geometryMagnitudes: unit resolution up to 2 * 10^sig, rounded up to a power
\* of two, then halved.
HalfCountMagnitude(sig) ==
  LET bits == CHOOSE k \in 0..18 : 2^k >= 2 * 10^sig /\ \A j \in 0..(k - 1) : 2^j < 2 * 10^sig
  IN  Larger(bits, 1) - 1

\* geometryMagnitudes: math.Floor(math.Log2(float64(low))) with the rounding of
\* the float64 logarithm.
UnitMagnitude(low) == BitLen(low) - 1 + (IF low \in RoundsUp THEN 1 ELSE 0)

\* Mutant of BucketsNeeded: the loop compares with < where it must with <=.
BucketsNeeded_ExcludesMax(smallestUntrackable, maxValue) ==
  LET Value(k) == smallestUntrackable * 2^k
      Leaves(k) == Value(k) >= maxValue \/ Value(k) > MaxInt \div 2
      k == CHOOSE i \in 0..W : Leaves(i) /\ \A j \in 0..(i - 1) : ~Leaves(j)
  IN  IF Value(k) >= maxValue THEN k + 1 ELSE k + 2

\* getBucketsNeededToCoverValue: the shift count at which the loop leaves, by its
\* condition or because the next shift would overflow.
BucketsNeeded(smallestUntrackable, maxValue) ==
  LET Value(k) == smallestUntrackable * 2^k
      Leaves(k) == Value(k) > maxValue \/ Value(k) > MaxInt \div 2
      k == CHOOSE i \in 0..W : Leaves(i) /\ \A j \in 0..(i - 1) : ~Leaves(j)
  IN  IF Value(k) > maxValue THEN k + 1 ELSE k + 2

\* Mutant of ExactGeometry: the digits kept for export are those New allows.
ExactGeometry_KeepsClamped(low, high, sig) ==
  LET u == UnitMagnitude(low)
      m == HalfCountMagnitude(sig)
      buckets == BucketsNeeded(2^(m + 1 + u), high)
  IN  [low |-> low, high |-> high, sig |-> Larger(sig, 1), u |-> u, m |-> m,
       bucketCount |-> buckets, countsLen |-> (buckets + 1) * 2^m]

\* newExactGeometry: arguments already valid.
ExactGeometry(low, high, sig) ==
  LET u == UnitMagnitude(low)
      m == HalfCountMagnitude(sig)
      buckets == BucketsNeeded(2^(m + 1 + u), high)
  IN  [low |-> low, high |-> high, sig |-> sig, u |-> u, m |-> m,
       bucketCount |-> buckets, countsLen |-> (buckets + 1) * 2^m]

\* clampGeometryArgs.
ClampSig(sig) == Larger(1, Smaller(sig, 5))
ClampLow(low) == Larger(low, 1)

\* The bound checkGeometry and wireGeometry share: beyond it the smallest
\* untrackable value overflows.
Representable(low, sig) == UnitMagnitude(low) + HalfCountMagnitude(sig) <= W - 2

\* checkGeometry; New panics when it fails.
NewAccepts(a) == Representable(ClampLow(a.low), ClampSig(a.sig))

\* New and newGeometry.
NewGeometry(a) == ExactGeometry(ClampLow(a.low), a.high, ClampSig(a.sig))

\* wireGeometry: no clamping of the digits, a lowest value below 1 is read as 1.
WireAccepts(a) == a.sig \in 0..5 /\ Representable(ClampLow(a.low), a.sig)
WireGeometry(a) == ExactGeometry(ClampLow(a.low), a.high, a.sig)

-----------------------------------------------------------------------------
(* Indexing.  v is a value, 0 <= v <= MaxInt; g is a geometry.              *)

\* getBucketIndex: bit length of v | subBucketMask, whose top bit is bit u + m.
BucketIndex(g, v) == Larger(BitLen(v), g.u + g.m + 1) - g.u - (g.m + 1)

\* getSubBucketIdx.
SubBucketIndex(g, v, bucketIdx) == v \div 2^(bucketIdx + g.u)

\* getBucketBaseIdx and countsIndex.
CountsIndex(g, bucketIdx, subBucketIdx) == (bucketIdx + 1) * 2^g.m + subBucketIdx - 2^g.m

\* countsIndexFor.
CountsIndexFor(g, v) ==
  LET b == BucketIndex(g, v) IN CountsIndex(g, b, SubBucketIndex(g, v, b))

\* valueFromIndex.
ValueFromIndex(g, bucketIdx, subBucketIdx) == subBucketIdx * 2^(bucketIdx + g.u)

\* Mutant of ValueFromFlatIndex: the first half bucket is not special.
ValueFromFlatIndex_NoFirstHalf(g, idx) ==
  LET half == 2^g.m IN ValueFromIndex(g, Larger(0, idx \div half - 1), (idx % half) + half)

\* valueFromFlatIndex.
ValueFromFlatIndex(g, idx) ==
  LET half == 2^g.m
      b == idx \div half - 1
  IN  IF b < 0 THEN ValueFromIndex(g, 0, idx % half)
               ELSE ValueFromIndex(g, b, (idx % half) + half)

\* lowestEquivalentValue.
LowestEquivalent(g, v) ==
  LET b == BucketIndex(g, v) IN ValueFromIndex(g, b, SubBucketIndex(g, v, b))

\* sizeOfEquivalentValueRange.
SizeOfRange(g, v) ==
  LET b == BucketIndex(g, v)
      adjusted == IF SubBucketIndex(g, v, b) >= 2^(g.m + 1) THEN b + 1 ELSE b
  IN  2^(g.u + adjusted)

\* Two's complement wrap of a sum of two values.
WrapValue(x) == IF x > MaxInt THEN x - 2 * (MaxInt + 1)
                ELSE IF x < -(MaxInt + 1) THEN x + 2 * (MaxInt + 1) ELSE x

\* nextNonEquivalentValue and highestEquivalentValue: both additions wrap.
NextNonEquivalent(g, v) == WrapValue(LowestEquivalent(g, v) + SizeOfRange(g, v))
HighestEquivalent(g, v) == WrapValue(NextNonEquivalent(g, v) - 1)

\* medianEquivalentValue.
MedianEquivalent(g, v) == WrapValue(LowestEquivalent(g, v) + SizeOfRange(g, v) \div 2)

\* PackedHistogram.highestEquivalent: saturates instead of wrapping.
PackedHighestEquivalent(g, v) ==
  IF LowestEquivalent(g, v) > MaxInt - SizeOfRange(g, v) THEN MaxInt
  ELSE LowestEquivalent(g, v) + SizeOfRange(g, v) - 1

\* sameIndexing.
SameIndexing(g, h) == g.u = h.u /\ g.m = h.m
=============================================================================
