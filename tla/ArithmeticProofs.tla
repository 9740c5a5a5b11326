-------------------------- MODULE ArithmeticProofs --------------------------
(***************************************************************************)
(* The arithmetic that the components' proofs share.                       *)
(*                                                                         *)
(* Facts about prefix sums and int64 arithmetic, for every array of counts *)
(* and every limit.  PrefixSum is a recursive function; what it computes   *)
(* is derived from the existence and uniqueness of its finite parts, by    *)
(* induction in the form of the least element of a set of naturals.        *)
(*                                                                         *)
(* The index arithmetic of a histogram, for every word width and every     *)
(* geometry the constructors accept: bit lengths, buckets, and the mapping *)
(* of values to positions of the counts array and back.  The provers know  *)
(* nothing of exponentiation.  What is needed of powers of two is derived  *)
(* from the number of subsets of a finite set.                             *)
(***************************************************************************)
EXTENDS Iteration, FiniteSetTheorems, TLAPS

-----------------------------------------------------------------------------
(* Induction, sums of counts and int64.                                     *)

\* A nonempty set of naturals has a least element.
LEMMA LeastElement ==
  ASSUME NEW T \in SUBSET Nat, T # {}
  PROVE  \E m \in T : \A k \in T : m <= k
<1> DEFINE U == {0..n : n \in T}
<1>1. U \subseteq FiniteSubsetsOf(Nat)
  <2> SUFFICES ASSUME NEW n \in T PROVE IsFiniteSet(0..n) /\ 0..n \subseteq Nat
    BY DEF FiniteSubsetsOf
  <2> QED BY FS_Interval
<1>2. U # {} OBVIOUS
<1>3. \E x \in U : \A y \in U : ~ (<<y, x>> \in StrictSubsetOrdering(Nat))
  <2> HIDE DEF U
  <2> QED BY <1>1, <1>2, WFMin, FS_StrictSubsetOrderingWellFounded
<1>4. PICK m \in T : \A k \in T : ~ (<<0..k, 0..m>> \in StrictSubsetOrdering(Nat))
  BY <1>3
<1>5. ASSUME NEW k \in T, k < m PROVE FALSE
  <2>1. 0..k \subseteq 0..m /\ m \in 0..m /\ m \notin 0..k BY <1>5
  <2>2. 0..k # 0..m BY <2>1
  <2>3. 0..k \in SUBSET Nat /\ 0..m \in SUBSET Nat OBVIOUS
  <2> QED BY <1>4, <2>1, <2>2, <2>3 DEF StrictSubsetOrdering
<1> QED BY <1>5

\* Induction on a set of naturals.
LEMMA SetInduction ==
  ASSUME NEW S \in SUBSET Nat, 0 \in S, \A n \in S : n + 1 \in S
  PROVE  S = Nat
<1> SUFFICES ASSUME Nat \ S # {} PROVE FALSE OBVIOUS
<1>1. PICK m \in Nat \ S : \A k \in Nat \ S : m <= k
  BY LeastElement
<1>2. m # 0 /\ m - 1 \in Nat OBVIOUS
<1>3. m - 1 \in S BY <1>1, <1>2
<1> QED BY <1>1, <1>2, <1>3

\* Part(f, c, n): f accumulates the first n entries of c.
Part(f, c, n) == \A i \in 0..n : f[i] = IF i = 0 THEN 0 ELSE f[i - 1] + c[i - 1]

\* There is a function that computes the running totals of c up to any n.
LEMMA PartExists ==
  ASSUME NEW c
  PROVE  \A n \in Nat : \E f : Part(f, c, n)
<1> DEFINE S == {n \in Nat : \E f : Part(f, c, n)}
<1>1. 0 \in S
  <2>1. Part([i \in 0..0 |-> 0], c, 0) BY DEF Part
  <2> QED BY <2>1
<1>2. ASSUME NEW n \in S PROVE n + 1 \in S
  <2>1. PICK f : Part(f, c, n) OBVIOUS
  <2> DEFINE h == [i \in 0..(n + 1) |-> IF i = n + 1 THEN f[n] + c[n] ELSE f[i]]
  <2>2. ASSUME NEW i \in 0..(n + 1)
        PROVE  h[i] = IF i = 0 THEN 0 ELSE h[i - 1] + c[i - 1]
    <3>1. CASE i = n + 1 BY <3>1
    <3>2. CASE i # n + 1
      <4>1. i \in 0..n /\ f[i] = IF i = 0 THEN 0 ELSE f[i - 1] + c[i - 1]
        BY <3>2, <2>1 DEF Part
      <4>2. i # 0 => h[i - 1] = f[i - 1] BY <4>1
      <4> QED BY <4>1, <4>2, <3>2
    <3> QED BY <3>1, <3>2
  <2> HIDE DEF h
  <2>3. Part(h, c, n + 1) BY <2>2 DEF Part
  <2>4. \E x : Part(x, c, n + 1) BY <2>3
  <2>5. n + 1 \in Nat OBVIOUS
  <2> QED BY <2>4, <2>5
<1> HIDE DEF S
<1>3. S = Nat
  <2>1. S \in SUBSET Nat BY DEF S
  <2> QED BY <1>1, <1>2, <2>1, SetInduction
<1> QED BY <1>3 DEF S

\* Two such functions agree wherever both are defined.
LEMMA PartUnique ==
  ASSUME NEW c, NEW f, NEW h, NEW n \in Nat, NEW k \in Nat, n <= k,
         Part(f, c, n), Part(h, c, k)
  PROVE  f[n] = h[n]
<1> DEFINE S == {i \in Nat : i <= n => f[i] = h[i]}
<1>1. 0 \in S BY DEF Part
<1>2. ASSUME NEW i \in S PROVE i + 1 \in S
  <2> SUFFICES ASSUME i + 1 <= n PROVE f[i + 1] = h[i + 1] OBVIOUS
  <2>1. f[i] = h[i] OBVIOUS
  <2>2. f[i + 1] = f[(i + 1) - 1] + c[(i + 1) - 1]
    <3>1. i + 1 \in 0..n /\ i + 1 # 0 OBVIOUS
    <3> QED BY <3>1 DEF Part
  <2>3. h[i + 1] = h[(i + 1) - 1] + c[(i + 1) - 1]
    <3>1. i + 1 \in 0..k /\ i + 1 # 0 OBVIOUS
    <3> QED BY <3>1 DEF Part
  <2>4. (i + 1) - 1 = i OBVIOUS
  <2> QED BY <2>1, <2>2, <2>3, <2>4
<1> HIDE DEF S
<1>3. S = Nat
  <2>1. S \in SUBSET Nat BY DEF S
  <2> QED BY <1>1, <1>2, <2>1, SetInduction
<1> QED BY <1>3 DEF S

\* The recursive definition of PrefixSum has a solution, so it may be unfolded.
LEMMA PrefixSumUnfold ==
  ASSUME NEW c, NEW n \in Nat
  PROVE  PrefixSum(c)[n] = IF n = 0 THEN 0 ELSE PrefixSum(c)[n - 1] + c[n - 1]
<1> DEFINE Fix(s) == s = [i \in Nat |-> IF i = 0 THEN 0 ELSE s[i - 1] + c[i - 1]]
<1> DEFINE part(i) == CHOOSE f : Part(f, c, i)
<1> DEFINE F == [i \in Nat |-> part(i)[i]]
<1>1. ASSUME NEW i \in Nat PROVE Part(part(i), c, i)
  BY PartExists
<1>2. ASSUME NEW i \in Nat PROVE F[i] = IF i = 0 THEN 0 ELSE F[i - 1] + c[i - 1]
  <2>1. F[i] = part(i)[i] OBVIOUS
  <2>2. part(i)[i] = IF i = 0 THEN 0 ELSE part(i)[i - 1] + c[i - 1]
    <3> HIDE DEF part
    <3> QED BY <1>1 DEF Part
  <2>3. ASSUME i # 0 PROVE part(i)[i - 1] = F[i - 1]
    <3>1. i - 1 \in Nat BY <2>3
    <3>2. F[i - 1] = part(i - 1)[i - 1] BY <3>1
    <3>3. Part(part(i), c, i) /\ Part(part(i - 1), c, i - 1) BY <1>1, <3>1
    <3> HIDE DEF part, F
    <3>4. part(i - 1)[i - 1] = part(i)[i - 1]
      BY <3>1, <3>3, i - 1 <= i, PartUnique
    <3> QED BY <3>2, <3>4
  <2> HIDE DEF part, F
  <2> QED BY <2>1, <2>2, <2>3
<1>3. Fix(F)
  <2> DEFINE G == [i \in Nat |-> IF i = 0 THEN 0 ELSE F[i - 1] + c[i - 1]]
  <2>1. \A i \in Nat : F[i] = G[i]
    <3> HIDE DEF F
    <3> QED BY <1>2
  <2> QED BY <2>1
<1>4. PrefixSum(c) = CHOOSE s : Fix(s) BY DEF PrefixSum
<1>5. Fix(PrefixSum(c))
  <2> HIDE DEF Fix, F
  <2> QED BY <1>3, <1>4
<1> QED BY <1>5

\* A scan starts with a running total of zero.
LEMMA PrefixSumZero == \A c : PrefixSum(c)[0] = 0
BY PrefixSumUnfold

\* Passing position n adds the count there (iterator.nextCountAtIdx).
LEMMA PrefixSumStep ==
  ASSUME NEW c, NEW n \in Nat
  PROVE  PrefixSum(c)[n + 1] = PrefixSum(c)[n] + c[n]
<1>1. n + 1 \in Nat /\ n + 1 # 0 /\ (n + 1) - 1 = n OBVIOUS
<1> QED BY <1>1, PrefixSumUnfold

\* Running totals of integer counts are integers.
LEMMA PrefixSumType ==
  ASSUME NEW c, NEW L \in Nat, \A i \in 0..(L - 1) : c[i] \in Int
  PROVE  \A n \in 0..L : PrefixSum(c)[n] \in Int
<1> DEFINE S == {n \in Nat : n <= L => PrefixSum(c)[n] \in Int}
<1>1. 0 \in S BY PrefixSumZero
<1>2. ASSUME NEW n \in S PROVE n + 1 \in S
  <2> SUFFICES ASSUME n + 1 <= L PROVE PrefixSum(c)[n + 1] \in Int OBVIOUS
  <2>1. PrefixSum(c)[n] \in Int /\ c[n] \in Int OBVIOUS
  <2> QED BY <2>1, PrefixSumStep
<1> HIDE DEF S
<1>3. S = Nat
  <2>1. S \in SUBSET Nat BY DEF S
  <2> QED BY <1>1, <1>2, <2>1, SetInduction
<1> QED BY <1>3 DEF S

\* Running totals depend only on the counts passed.
LEMMA PrefixSumAgree ==
  ASSUME NEW c, NEW d, NEW L \in Nat, \A i \in 0..(L - 1) : c[i] = d[i]
  PROVE  \A n \in 0..L : PrefixSum(c)[n] = PrefixSum(d)[n]
<1> DEFINE S == {n \in Nat : n <= L => PrefixSum(c)[n] = PrefixSum(d)[n]}
<1>1. 0 \in S BY PrefixSumZero
<1>2. ASSUME NEW n \in S PROVE n + 1 \in S
  <2> SUFFICES ASSUME n + 1 <= L PROVE PrefixSum(c)[n + 1] = PrefixSum(d)[n + 1] OBVIOUS
  <2>1. PrefixSum(c)[n] = PrefixSum(d)[n] /\ c[n] = d[n] OBVIOUS
  <2> QED BY <2>1, PrefixSumStep
<1> HIDE DEF S
<1>3. S = Nat
  <2>1. S \in SUBSET Nat BY DEF S
  <2> QED BY <1>1, <1>2, <2>1, SetInduction
<1> QED BY <1>3 DEF S

\* A histogram after New or Reset has total zero.
LEMMA PrefixSumOfZeros ==
  ASSUME NEW c, NEW L \in Nat, \A i \in 0..(L - 1) : c[i] = 0
  PROVE  \A n \in 0..L : PrefixSum(c)[n] = 0
<1> DEFINE S == {n \in Nat : n <= L => PrefixSum(c)[n] = 0}
<1>1. 0 \in S BY PrefixSumZero
<1>2. ASSUME NEW n \in S PROVE n + 1 \in S
  <2> SUFFICES ASSUME n + 1 <= L PROVE PrefixSum(c)[n + 1] = 0 OBVIOUS
  <2>1. PrefixSum(c)[n] = 0 /\ c[n] = 0 OBVIOUS
  <2> QED BY <2>1, PrefixSumStep
<1> HIDE DEF S
<1>3. S = Nat
  <2>1. S \in SUBSET Nat BY DEF S
  <2> QED BY <1>1, <1>2, <2>1, SetInduction
<1> QED BY <1>3 DEF S

\* Running totals of counts that are not negative never decrease.
LEMMA PrefixSumMonotone ==
  ASSUME NEW c, NEW L \in Nat, \A i \in 0..(L - 1) : c[i] \in Nat
  PROVE  \A n \in 0..L : \A k \in 0..n : /\ PrefixSum(c)[n] \in Nat
                                         /\ PrefixSum(c)[k] \in Nat
                                         /\ PrefixSum(c)[k] <= PrefixSum(c)[n]
<1> DEFINE S == {n \in Nat : n <= L => \A k \in 0..n : /\ PrefixSum(c)[n] \in Nat
                                                       /\ PrefixSum(c)[k] \in Nat
                                                       /\ PrefixSum(c)[k] <= PrefixSum(c)[n]}
<1>1. 0 \in S BY PrefixSumZero
<1>2. ASSUME NEW n \in S PROVE n + 1 \in S
  <2> SUFFICES ASSUME n + 1 <= L, NEW k \in 0..(n + 1)
               PROVE  /\ PrefixSum(c)[n + 1] \in Nat
                      /\ PrefixSum(c)[k] \in Nat
                      /\ PrefixSum(c)[k] <= PrefixSum(c)[n + 1]
    OBVIOUS
  <2>1. PrefixSum(c)[n] \in Nat /\ c[n] \in Nat OBVIOUS
  <2>2. PrefixSum(c)[n + 1] = PrefixSum(c)[n] + c[n] BY PrefixSumStep
  <2>3. CASE k = n + 1 BY <2>1, <2>2, <2>3
  <2>4. CASE k # n + 1
    <3>1. k \in 0..n BY <2>4
    <3>2. PrefixSum(c)[k] \in Nat /\ PrefixSum(c)[k] <= PrefixSum(c)[n] BY <3>1
    <3> QED BY <3>2, <2>1, <2>2
  <2> QED BY <2>3, <2>4
<1> HIDE DEF S
<1>3. S = Nat
  <2>1. S \in SUBSET Nat BY DEF S
  <2> QED BY <1>1, <1>2, <2>1, SetInduction
<1> QED BY <1>3 DEF S

\* d is the integer array c of length L with a added at position k.
Raised(c, d, L, k, a) ==
  /\ \A i \in 0..(L - 1) : c[i] \in Int
  /\ \A i \in 0..(L - 1) : d[i] = IF i = k THEN c[i] + a ELSE c[i]

\* Raising the count at k by a (setCountAtIndex) raises by a the running totals
\* behind k and no other.
LEMMA PrefixSumUpdate ==
  ASSUME NEW c, NEW d, NEW L \in Nat, NEW k \in 0..(L - 1), NEW a \in Int,
         Raised(c, d, L, k, a)
  PROVE  \A n \in 0..L : PrefixSum(d)[n] = PrefixSum(c)[n] + (IF k < n THEN a ELSE 0)
<1> DEFINE S == {n \in Nat : n <= L =>
                   PrefixSum(d)[n] = PrefixSum(c)[n] + (IF k < n THEN a ELSE 0)}
<1>1. 0 \in S BY PrefixSumZero
<1>2. ASSUME NEW n \in S PROVE n + 1 \in S
  <2> SUFFICES ASSUME n + 1 <= L
               PROVE  PrefixSum(d)[n + 1] = PrefixSum(c)[n + 1] + (IF k < n + 1 THEN a ELSE 0)
    OBVIOUS
  <2>1. PrefixSum(d)[n] = PrefixSum(c)[n] + (IF k < n THEN a ELSE 0) OBVIOUS
  <2>2. PrefixSum(c)[n] \in Int BY PrefixSumType DEF Raised
  <2>3. c[n] \in Int /\ d[n] = IF n = k THEN c[n] + a ELSE c[n] BY DEF Raised
  <2>4. PrefixSum(d)[n + 1] = PrefixSum(d)[n] + d[n] BY PrefixSumStep
  <2>5. PrefixSum(c)[n + 1] = PrefixSum(c)[n] + c[n] BY PrefixSumStep
  <2>6. CASE n < k BY <2>1, <2>2, <2>3, <2>4, <2>5, <2>6
  <2>7. CASE n = k BY <2>1, <2>2, <2>3, <2>4, <2>5, <2>7
  <2>8. CASE n > k BY <2>1, <2>2, <2>3, <2>4, <2>5, <2>8
  <2> QED BY <2>6, <2>7, <2>8
<1> HIDE DEF S
<1>3. S = Nat
  <2>1. S \in SUBSET Nat BY DEF S
  <2> QED BY <1>1, <1>2, <2>1, SetInduction
<1> QED BY <1>3 DEF S

\* Adding n to one count adds n to the sum, and no count exceeds the sum.
LEMMA SumAfterAdd ==
  ASSUME NEW L \in Nat, NEW c \in [0..(L - 1) -> Nat], NEW k \in 0..(L - 1), NEW n \in Nat
  PROVE  /\ PrefixSum(c)[L] \in Nat
         /\ c[k] <= PrefixSum(c)[L]
         /\ PrefixSum([c EXCEPT ![k] = c[k] + n])[L] = PrefixSum(c)[L] + n
<1> DEFINE d == [c EXCEPT ![k] = c[k] + n]
<1>1. \A i \in 0..(L - 1) : c[i] \in Nat OBVIOUS
<1>2. k \in Nat /\ k \in 0..(k + 1) /\ k + 1 \in 0..L /\ L \in 0..L OBVIOUS
<1>3. PrefixSum(c)[k + 1] = PrefixSum(c)[k] + c[k] BY <1>2, PrefixSumStep
<1>4. /\ PrefixSum(c)[L] \in Nat
      /\ PrefixSum(c)[k + 1] <= PrefixSum(c)[L]
      /\ PrefixSum(c)[k] \in Nat
  BY <1>1, <1>2, PrefixSumMonotone
<1>5. \A i \in 0..(L - 1) : d[i] = IF i = k THEN c[i] + n ELSE c[i] OBVIOUS
<1>6. \A j \in 0..L : PrefixSum(d)[j] = PrefixSum(c)[j] + (IF k < j THEN n ELSE 0)
  <2>1. \A i \in 0..(L - 1) : c[i] \in Int BY <1>1
  <2>2. n \in Int OBVIOUS
  <2> HIDE DEF d
  <2>3. Raised(c, d, L, k, n) BY <2>1, <1>5 DEF Raised
  <2> QED BY <2>2, <2>3, PrefixSumUpdate
<1>7. PrefixSum(d)[L] = PrefixSum(c)[L] + n
  <2>1. k < L OBVIOUS
  <2> HIDE DEF d
  <2> QED BY <1>2, <1>6, <2>1
<1> QED BY <1>1, <1>3, <1>4, <1>7

\* The int64 numbers are integers, the nonnegative ones are naturals.
LEMMA Int64Facts ==
  /\ Int64 \subseteq Int
  /\ \A x \in Int64 : x >= 0 => x \in 0..MaxCount /\ x \in Nat
  /\ 0..MaxCount \subseteq Int64
BY MaxCountAssumption DEF Int64

\* The result of an int64 addition is an int64.
LEMMA Wrap64Range == ASSUME NEW x \in Int PROVE Wrap64(x) \in Int64
<1> DEFINE D == 2 * (MaxCount + 1)
<1>1. D \in Nat \ {0} BY MaxCountAssumption
<1>2. \A y \in Int : y % D \in 0..(D - 1)
  <2> HIDE DEF D
  <2> QED BY <1>1
<1>3. (x + MaxCount + 1) % D \in 0..(D - 1) BY <1>2, MaxCountAssumption
<1> QED BY <1>3, MaxCountAssumption DEF Wrap64, Int64

\* An int64 sum that does not overflow is exact.
LEMMA Wrap64Id == ASSUME NEW x \in Int64 PROVE Wrap64(x) = x
<1> DEFINE D == 2 * (MaxCount + 1)
<1>1. D \in Nat \ {0} BY MaxCountAssumption
<1>2. \A y \in 0..(D - 1) : y % D = y
  <2> HIDE DEF D
  <2> QED BY <1>1
<1>3. x + MaxCount + 1 \in 0..(D - 1) BY MaxCountAssumption DEF Int64
<1>4. (x + MaxCount + 1) % D = x + MaxCount + 1 BY <1>2, <1>3
<1> QED BY <1>4, MaxCountAssumption DEF Wrap64, Int64

\* addDropped returns an int64.
LEMMA AddDroppedRange ==
  ASSUME NEW total \in Int64, NEW c \in Int64 PROVE AddDropped(total, c) \in Int64
<1>1. total + c \in Int BY Int64Facts
<1>2. Wrap64(total + c) \in Int64 BY <1>1, Wrap64Range
<1>3. MaxCount \in Int64 BY MaxCountAssumption DEF Int64
<1> QED BY <1>2, <1>3 DEF AddDropped

\* A saturating sum of counts.
LEMMA AddDroppedFacts ==
  ASSUME NEW x \in 0..MaxCount, NEW c \in 0..MaxCount
  PROVE  /\ AddDropped(x, c) = Smaller(MaxCount, x + c)
         /\ AddDropped(x, c) \in 0..MaxCount
<1>1. MaxCount \in Nat BY MaxCountAssumption
<1>2. Wrap64(MaxCount - x) = MaxCount - x
  <2>1. MaxCount - x \in 0..MaxCount BY <1>1
  <2> QED BY <2>1, Int64Facts, Wrap64Id
<1>3. CASE c > MaxCount - x
  <2>1. AddDropped(x, c) = MaxCount BY <1>2, <1>3 DEF AddDropped
  <2>2. Smaller(MaxCount, x + c) = MaxCount BY <1>1, <1>3 DEF Smaller
  <2> QED BY <1>1, <2>1, <2>2
<1>4. CASE ~(c > MaxCount - x)
  <2>1. AddDropped(x, c) = Wrap64(x + c) BY <1>2, <1>4 DEF AddDropped
  <2>2. x + c \in 0..MaxCount BY <1>1, <1>4
  <2>3. Wrap64(x + c) = x + c BY <2>2, Int64Facts, Wrap64Id
  <2>4. Smaller(MaxCount, x + c) = x + c BY <1>1, <2>2 DEF Smaller
  <2> QED BY <2>1, <2>2, <2>3, <2>4
<1> QED BY <1>3, <1>4

\* c is what Import copies of the array s into L counts, and Validate has found
\* every positive entry of s to fit into what the entries before it left.
Admitted(s, c, L) ==
  /\ \A i \in DOMAIN s : 0..i \subseteq DOMAIN s
  /\ \A i \in 0..(L - 1) : c[i] = IF i \in DOMAIN s THEN s[i] ELSE 0
  /\ \A i \in 0..(L - 1) : c[i] \in Nat
  /\ \A i \in DOMAIN s : s[i] > 0 => s[i] <= Wrap64(MaxCount - PrefixSum(s)[i])

\* Counts that Snapshot.Validate admits one after the other have running totals
\* within the limit: their sum does not wrap.
LEMMA AdmittedSum ==
  ASSUME NEW s, NEW c, NEW L \in Nat, Admitted(s, c, L)
  PROVE  \A n \in 0..L : PrefixSum(c)[n] \in 0..MaxCount
<1> DEFINE S == {n \in Nat : n <= L => PrefixSum(c)[n] \in 0..MaxCount}
<1>1. 0 \in S BY PrefixSumZero, MaxCountAssumption
<1>2. ASSUME NEW n \in S PROVE n + 1 \in S
  <2> SUFFICES ASSUME n + 1 <= L PROVE PrefixSum(c)[n + 1] \in 0..MaxCount OBVIOUS
  <2>1. PrefixSum(c)[n] \in 0..MaxCount /\ n \in 0..(L - 1) OBVIOUS
  <2>2. c[n] \in Nat BY <2>1 DEF Admitted
  <2>3. PrefixSum(c)[n + 1] = PrefixSum(c)[n] + c[n] BY PrefixSumStep
  <2>4. CASE c[n] = 0 BY <2>1, <2>3, <2>4, MaxCountAssumption
  <2>5. CASE c[n] # 0
    <3>1. n \in DOMAIN s /\ c[n] = s[n] BY <2>1, <2>5 DEF Admitted
    <3>2. 0..n \subseteq DOMAIN s BY <3>1 DEF Admitted
    <3>3. \A i \in 0..(n - 1) : s[i] = c[i]
      <4> SUFFICES ASSUME NEW i \in 0..(n - 1) PROVE s[i] = c[i] OBVIOUS
      <4>1. i \in 0..n /\ i \in 0..(L - 1) BY <2>1
      <4> QED BY <4>1, <3>2 DEF Admitted
    <3>4. PrefixSum(s)[n] = PrefixSum(c)[n]
      <4>1. n \in 0..n OBVIOUS
      <4> QED BY <4>1, <3>3, PrefixSumAgree
    <3>5. s[n] <= Wrap64(MaxCount - PrefixSum(c)[n])
      <4>1. s[n] > 0 BY <2>2, <2>5, <3>1
      <4> QED BY <4>1, <3>1, <3>4 DEF Admitted
    <3>6. MaxCount - PrefixSum(c)[n] \in Int64 BY <2>1, MaxCountAssumption DEF Int64
    <3>7. Wrap64(MaxCount - PrefixSum(c)[n]) = MaxCount - PrefixSum(c)[n] BY <3>6, Wrap64Id
    <3> QED BY <2>1, <2>2, <2>3, <3>1, <3>5, <3>7, MaxCountAssumption
  <2> QED BY <2>4, <2>5
<1> HIDE DEF S
<1>3. S = Nat
  <2>1. S \in SUBSET Nat BY DEF S
  <2> QED BY <1>1, <1>2, <2>1, SetInduction
<1> QED BY <1>3 DEF S

\* Running totals grow with the counts: a bigger array has a bigger total.
LEMMA PrefixSumPointwise ==
  ASSUME NEW c, NEW d, NEW L \in Nat,
         \A i \in 0..(L - 1) : c[i] \in Nat /\ d[i] \in Nat /\ c[i] <= d[i]
  PROVE  \A n \in 0..L : /\ PrefixSum(c)[n] \in Nat
                         /\ PrefixSum(d)[n] \in Nat
                         /\ PrefixSum(c)[n] <= PrefixSum(d)[n]
<1> DEFINE S == {n \in Nat : n <= L => /\ PrefixSum(c)[n] \in Nat
                                       /\ PrefixSum(d)[n] \in Nat
                                       /\ PrefixSum(c)[n] <= PrefixSum(d)[n]}
<1>1. 0 \in S BY PrefixSumZero
<1>2. ASSUME NEW n \in S PROVE n + 1 \in S
  <2> SUFFICES ASSUME n + 1 <= L
               PROVE  /\ PrefixSum(c)[n + 1] \in Nat
                      /\ PrefixSum(d)[n + 1] \in Nat
                      /\ PrefixSum(c)[n + 1] <= PrefixSum(d)[n + 1]
    OBVIOUS
  <2>1. /\ PrefixSum(c)[n] \in Nat /\ PrefixSum(d)[n] \in Nat
        /\ PrefixSum(c)[n] <= PrefixSum(d)[n]
    OBVIOUS
  <2>2. c[n] \in Nat /\ d[n] \in Nat /\ c[n] <= d[n] OBVIOUS
  <2>3. PrefixSum(c)[n + 1] = PrefixSum(c)[n] + c[n] BY PrefixSumStep
  <2>4. PrefixSum(d)[n + 1] = PrefixSum(d)[n] + d[n] BY PrefixSumStep
  <2> QED BY <2>1, <2>2, <2>3, <2>4
<1> HIDE DEF S
<1>3. S = Nat
  <2>1. S \in SUBSET Nat BY DEF S
  <2> QED BY <1>1, <1>2, <2>1, SetInduction
<1> QED BY <1>3 DEF S

\* Where the running total of c no longer grows, neither does that of a part of c.
LEMMA PrefixSumFlat ==
  ASSUME NEW c, NEW d, NEW L \in Nat,
         \A i \in 0..(L - 1) : c[i] \in Nat /\ d[i] \in Nat /\ d[i] <= c[i],
         NEW k \in 0..L, PrefixSum(c)[k] = PrefixSum(c)[L]
  PROVE  PrefixSum(d)[k] = PrefixSum(d)[L]
<1> DEFINE S == {n \in Nat : k + n <= L => PrefixSum(d)[k + n] = PrefixSum(d)[k]}
<1>1. 0 \in S OBVIOUS
<1>2. ASSUME NEW n \in S PROVE n + 1 \in S
  <2> SUFFICES ASSUME k + (n + 1) <= L PROVE PrefixSum(d)[k + (n + 1)] = PrefixSum(d)[k] OBVIOUS
  <2> DEFINE p == k + n
  <2>1. /\ p \in Nat /\ k + (n + 1) = p + 1 /\ p \in 0..(L - 1) /\ p + 1 \in 0..L /\ p \in 0..(p + 1)
        /\ k \in 0..p /\ p \in 0..L /\ L \in 0..L
    OBVIOUS
  <2>2. PrefixSum(d)[p] = PrefixSum(d)[k] OBVIOUS
  <2> HIDE DEF p
  <2>3. c[p] \in Nat /\ d[p] \in Nat /\ d[p] <= c[p] BY <2>1
  <2>4. /\ PrefixSum(c)[p + 1] = PrefixSum(c)[p] + c[p]
        /\ PrefixSum(d)[p + 1] = PrefixSum(d)[p] + d[p]
    BY <2>1, PrefixSumStep
  <2>5. /\ PrefixSum(c)[k] \in Nat /\ PrefixSum(c)[p] \in Nat /\ PrefixSum(c)[p + 1] \in Nat
        /\ PrefixSum(c)[k] <= PrefixSum(c)[p] /\ PrefixSum(c)[p + 1] <= PrefixSum(c)[L]
    BY <2>1, PrefixSumMonotone
  <2>6. PrefixSum(d)[p] \in Nat
    <3>1. \A i \in 0..(L - 1) : d[i] \in Nat OBVIOUS
    <3> QED BY <2>1, <3>1, PrefixSumMonotone
  <2>7. d[p] = 0 BY <2>3, <2>4, <2>5
  <2> QED BY <2>1, <2>2, <2>4, <2>6, <2>7
<1> HIDE DEF S
<1>3. S = Nat
  <2>1. S \in SUBSET Nat BY DEF S
  <2> QED BY <1>1, <1>2, <2>1, SetInduction
<1>4. L - k \in S BY <1>3
<1> QED BY <1>4 DEF S

\* The k-th of the N steps of the loop F turns s into F[k][s] and stays in S.
Loop(F, S, N) == \A k \in 0..(N - 1) : \A s \in S : F[k][s] \in S

\* A loop has a history from every starting point: this is what allows a
\* recursive function of the model to be unfolded.
LEMMA LoopHistory ==
  ASSUME NEW S, NEW x \in S, NEW N \in Nat, NEW F, Loop(F, S, N)
  PROVE  \E g \in [0..N -> S] : g[0] = x /\ \A k \in 0..(N - 1) : g[k + 1] = F[k][g[k]]
<1> DEFINE Run(g, j) == g[0] = x /\ \A k \in 0..(j - 1) : g[k + 1] = F[k][g[k]]
<1> DEFINE T == {j \in Nat : j <= N => \E g \in [0..j -> S] : Run(g, j)}
<1>1. 0 \in T
  <2> DEFINE g == [i \in 0..0 |-> x]
  <2>1. g \in [0..0 -> S] /\ Run(g, 0) OBVIOUS
  <2> QED BY <2>1
<1>2. ASSUME NEW j \in T PROVE j + 1 \in T
  <2> SUFFICES ASSUME j + 1 <= N PROVE \E g \in [0..(j + 1) -> S] : Run(g, j + 1) OBVIOUS
  <2>1. PICK g \in [0..j -> S] : Run(g, j) OBVIOUS
  <2> DEFINE h == [i \in 0..(j + 1) |-> IF i = j + 1 THEN F[j][g[j]] ELSE g[i]]
  <2>2. F[j][g[j]] \in S
    <3>1. j \in 0..(N - 1) /\ g[j] \in S OBVIOUS
    <3> QED BY <3>1 DEF Loop
  <2>3. h \in [0..(j + 1) -> S] BY <2>2
  <2>4. h[0] = x BY <2>1
  <2>5. ASSUME NEW k \in 0..j PROVE h[k + 1] = F[k][h[k]]
    <3>1. h[k] = g[k] OBVIOUS
    <3>2. CASE k = j BY <3>1, <3>2
    <3>3. CASE k # j
      <4>1. k \in 0..(j - 1) /\ h[k + 1] = g[k + 1] BY <3>3
      <4> HIDE DEF h
      <4> QED BY <4>1, <3>1, <2>1
    <3> QED BY <3>2, <3>3
  <2>6. (j + 1) - 1 = j OBVIOUS
  <2> HIDE DEF h
  <2>7. Run(h, j + 1) BY <2>4, <2>5, <2>6
  <2> HIDE DEF Run
  <2> QED BY <2>3, <2>7
<1>3. T = Nat
  <2>1. T \in SUBSET Nat OBVIOUS
  <2> HIDE DEF T
  <2> QED BY <1>1, <1>2, <2>1, SetInduction
<1> HIDE DEF Run
<1>4. \E g \in [0..N -> S] : Run(g, N) BY <1>3
<1> QED BY <1>4 DEF Run

\* Quotient and remainder are unique.
LEMMA DivModUnique ==
  ASSUME NEW m \in Nat \ {0}, NEW q \in Int, NEW r \in 0..(m - 1), NEW p \in Int, NEW s \in 0..(m - 1),
         m * q + r = m * p + s
  PROVE  q = p /\ r = s
<1>1. m * (q - p) = s - r OBVIOUS
<1> DEFINE d == q - p
<1>2. d \in Int OBVIOUS
<1>3. m * d = s - r BY <1>1
<1>4. CASE d >= 1
  <2>1. m * d >= m BY <1>2, <1>4
  <2> QED BY <2>1, <1>3
<1>5. CASE d <= -1
  <2>1. m * d <= -m BY <1>2, <1>5
  <2> QED BY <2>1, <1>3
<1>6. CASE d = 0
  <2>1. m * d = 0 BY <1>6
  <2> QED BY <2>1, <1>3, <1>6
<1> QED BY <1>2, <1>4, <1>5, <1>6

\* What % and \div compute, for a positive divisor.
LEMMA DivMod ==
  ASSUME NEW m \in Nat \ {0}, NEW x \in Int
  PROVE  /\ x % m \in 0..(m - 1)
         /\ x \div m \in Int
         /\ x = m * (x \div m) + (x % m)
OBVIOUS

\* A number written as quotient and remainder has that remainder.
LEMMA ModOf ==
  ASSUME NEW m \in Nat \ {0}, NEW q \in Int, NEW r \in 0..(m - 1)
  PROVE  (m * q + r) % m = r /\ (m * q + r) \div m = q
<1> DEFINE x == m * q + r
<1>1. x \in Int OBVIOUS
<1>2. x % m \in 0..(m - 1) /\ x \div m \in Int /\ x = m * (x \div m) + (x % m)
  <2> HIDE DEF x
  <2> QED BY <1>1, DivMod
<1> QED BY <1>2, DivModUnique


-----------------------------------------------------------------------------
(* Powers of two.                                                           *)

\* 2^k counts the subsets of 1..k.
LEMMA PowerCounts ==
  ASSUME NEW k \in Nat
  PROVE  /\ IsFiniteSet(SUBSET (1..k))
         /\ Cardinality(SUBSET (1..k)) = 2^k
         /\ 2^k \in Nat
<1>1. IsFiniteSet(1..k) /\ Cardinality(1..k) = k BY FS_Interval
<1>2. IsFiniteSet(SUBSET (1..k)) /\ Cardinality(SUBSET (1..k)) = 2^k BY <1>1, FS_SUBSET
<1>3. Cardinality(SUBSET (1..k)) \in Nat BY <1>2, FS_CardinalityType
<1> QED BY <1>2, <1>3

\* One more bit doubles a power of two.
LEMMA PowerStep == ASSUME NEW k \in Nat PROVE 2^(k + 1) = 2 * 2^k
<1> DEFINE S == 1..k
<1> DEFINE A == SUBSET S
<1> DEFINE B == {T \union {k + 1} : T \in A}
<1>1. 1..(k + 1) = S \union {k + 1} /\ k + 1 \notin S OBVIOUS
<1>2. SUBSET (1..(k + 1)) = A \union B
  <2> HIDE DEF S
  <2>1. ASSUME NEW X \in SUBSET (S \union {k + 1}) PROVE X \in A \union B
    <3>1. CASE k + 1 \in X
      <4>1. X \ {k + 1} \in A /\ X = (X \ {k + 1}) \union {k + 1} BY <3>1
      <4> QED BY <4>1
    <3>2. CASE k + 1 \notin X BY <3>2
    <3> QED BY <3>1, <3>2
  <2>2. A \union B \subseteq SUBSET (S \union {k + 1}) OBVIOUS
  <2> QED BY <1>1, <2>1, <2>2
<1>3. A \intersect B = {} BY <1>1
<1>4. ExistsBijection(A, B)
  <2> DEFINE f == [T \in A |-> T \union {k + 1}]
  <2>1. f \in Surjection(A, B) BY DEF Surjection
  <2>2. \A T, V \in A : f[T] = f[V] => T = V
    <3> SUFFICES ASSUME NEW T \in A, NEW V \in A, T \union {k + 1} = V \union {k + 1}
                 PROVE  T = V
      OBVIOUS
    <3>1. k + 1 \notin T /\ k + 1 \notin V BY <1>1
    <3> HIDE DEF S
    <3> QED BY <3>1
  <2>3. f \in Injection(A, B) BY <2>1, <2>2 DEF Injection, IsInjective, Surjection
  <2>4. f \in Bijection(A, B) BY <2>1, <2>3 DEF Bijection
  <2> HIDE DEF f
  <2> QED BY <2>4 DEF ExistsBijection
<1>5. IsFiniteSet(A) /\ Cardinality(A) = 2^k /\ 2^k \in Nat BY PowerCounts
<1> HIDE DEF A, B
<1>6. IsFiniteSet(B) /\ Cardinality(B) = Cardinality(A) BY <1>4, <1>5, FS_Bijection
<1>7. Cardinality(A \union B) = Cardinality(A) + Cardinality(B) - 0
  BY <1>3, <1>5, <1>6, FS_Union, FS_EmptySet
<1>8. Cardinality(A \union B) = 2^(k + 1)
  <2> DEFINE j == k + 1
  <2>1. j \in Nat OBVIOUS
  <2>2. A \union B = SUBSET (1..j) BY <1>2
  <2> HIDE DEF j
  <2>3. Cardinality(SUBSET (1..j)) = 2^j BY <2>1, PowerCounts
  <2> QED BY <2>2, <2>3 DEF j
<1>9. Cardinality(A \union B) = 2^k + 2^k BY <1>5, <1>6, <1>7
<1> DEFINE p == 2^k
<1>10. p \in Nat /\ p + p = 2 * p BY <1>5
<1> QED BY <1>8, <1>9, <1>10

\* Powers of two are positive and double with every bit.
LEMMA PowerFacts ==
  /\ 2^0 = 1
  /\ \A k \in Nat : 2^k \in Nat \ {0} /\ 2^(k + 1) = 2 * 2^k
<1> DEFINE S == {k \in Nat : 2^k \in Nat \ {0}}
<1>1. 2^0 = 1 OBVIOUS
<1>2. 0 \in S BY <1>1
<1>3. ASSUME NEW k \in S PROVE k + 1 \in S
  <2>1. 2^(k + 1) = 2 * 2^k /\ 2^k \in Nat \ {0} BY PowerStep
  <2> QED BY <2>1
<1>4. S = Nat
  <2>1. S \in SUBSET Nat OBVIOUS
  <2> HIDE DEF S
  <2> QED BY <1>2, <1>3, <2>1, SetInduction
<1> QED BY <1>1, <1>4, PowerStep

\* No bits hold one value.
LEMMA PowerZero == \A k : k = 0 => 2^k = 1
<1>1. 2^0 = 1 OBVIOUS
<1> QED BY <1>1, Zenon

\* Exponents add where powers are multiplied.
LEMMA PowerSum == ASSUME NEW j \in Nat, NEW k \in Nat PROVE 2^(j + k) = 2^j * 2^k
<1> DEFINE S == {i \in Nat : 2^(j + i) = 2^j * 2^i}
<1>1. 0 \in S
  <2>1. j + 0 = j /\ 2^0 = 1 /\ 2^j \in Nat BY PowerFacts
  <2> QED BY <2>1
<1>2. ASSUME NEW i \in S PROVE i + 1 \in S
  <2>1. j + i \in Nat /\ i \in Nat /\ i + 1 \in Nat /\ (j + i) + 1 = j + (i + 1) OBVIOUS
  <2>2. 2^(j + i) = 2^j * 2^i OBVIOUS
  <2>3. 2^((j + i) + 1) = 2 * 2^(j + i) BY <2>1, PowerFacts
  <2>4. 2^(i + 1) = 2 * 2^i BY <2>1, PowerFacts
  <2>5. 2^j \in Nat /\ 2^i \in Nat BY <2>1, PowerFacts
  <2>6. \A a, b \in Nat : 2 * (a * b) = a * (2 * b) OBVIOUS
  <2>7. 2^(j + (i + 1)) = 2^j * 2^(i + 1) BY <2>1, <2>2, <2>3, <2>4, <2>5, <2>6
  <2> QED BY <2>1, <2>7
<1>3. S = Nat
  <2>1. S \in SUBSET Nat OBVIOUS
  <2> HIDE DEF S
  <2> QED BY <1>1, <1>2, <2>1, SetInduction
<1> QED BY <1>3

\* Powers of two grow with the exponent, and an exponent can be read off them.
LEMMA PowerMonotone ==
  ASSUME NEW j \in Nat, NEW k \in Nat
  PROVE  /\ j <= k <=> 2^j <= 2^k
         /\ j < k <=> 2^j < 2^k
         /\ j < k => 2 * 2^j <= 2^k
<1>1. ASSUME NEW a \in Nat, NEW b \in Nat, a <= b PROVE 2^a <= 2^b
  <2>1. b - a \in Nat /\ a + (b - a) = b BY <1>1
  <2>2. 2^b = 2^a * 2^(b - a)
    <3> DEFINE d == b - a
    <3>1. d \in Nat /\ a + d = b BY <2>1
    <3> HIDE DEF d
    <3>2. 2^(a + d) = 2^a * 2^d BY <3>1, PowerSum
    <3> QED BY <3>1, <3>2 DEF d
  <2>3. 2^a \in Nat /\ 2^(b - a) \in Nat \ {0} BY <2>1, PowerFacts
  <2>4. \A x \in Nat, y \in Nat \ {0} : x <= x * y OBVIOUS
  <2> QED BY <2>2, <2>3, <2>4
<1>2. ASSUME NEW a \in Nat, NEW b \in Nat, a < b PROVE 2 * 2^a <= 2^b
  <2>1. a + 1 \in Nat /\ a + 1 <= b BY <1>2
  <2>2. 2^(a + 1) <= 2^b BY <2>1, <1>1
  <2>3. 2^(a + 1) = 2 * 2^a BY PowerFacts
  <2> QED BY <2>2, <2>3
<1>3. 2^j \in Nat \ {0} /\ 2^k \in Nat \ {0} BY PowerFacts
<1>4. j < k => 2^j < 2^k BY <1>2, <1>3
<1>5. k < j => 2^k < 2^j BY <1>2, <1>3
<1>6. j <= k => 2^j <= 2^k BY <1>1
<1>7. k <= j => 2^k <= 2^j BY <1>1
<1> QED BY <1>2, <1>3, <1>4, <1>5, <1>6, <1>7

-----------------------------------------------------------------------------
(* Bit lengths.                                                             *)

\* The values of the word are those of W bits.
LEMMA MaxIntFacts ==
  /\ W \in Nat /\ W >= 2 /\ 2^W \in Nat
  /\ MaxInt \in Nat /\ MaxInt + 1 = 2^W /\ MaxInt = 2^W - 1
  /\ \A x \in 0..MaxInt : x \in Nat /\ x < 2^W
<1>1. W \in Nat /\ W >= 2 BY WAssumption
<1>2. 2^W \in Nat \ {0} BY <1>1, PowerFacts
<1> QED BY <1>1, <1>2 DEF MaxInt

\* The bit length of a value: the least number of bits that hold it.
LEMMA BitLenFacts ==
  ASSUME NEW x \in 0..MaxInt
  PROVE  /\ BitLen(x) \in 0..W
         /\ x < 2^BitLen(x)
         /\ BitLen(x) > 0 => 2^(BitLen(x) - 1) <= x
<1> DEFINE T == {k \in Nat : x < 2^k}
<1> DEFINE P(k) == x < 2^k /\ (k > 0 => 2^(k - 1) <= x)
<1>1. x \in Nat /\ W \in T BY MaxIntFacts
<1>2. PICK k \in T : \A j \in T : k <= j
  <2>1. T \in SUBSET Nat /\ T # {} BY <1>1
  <2> HIDE DEF T
  <2> QED BY <2>1, LeastElement
<1>3. k \in 0..(W + 1) BY <1>1, <1>2, MaxIntFacts
<1>4. ASSUME k > 0 PROVE 2^(k - 1) <= x
  <2>1. k - 1 \in Nat /\ ~(k <= k - 1) BY <1>4
  <2>2. 2^(k - 1) \in Nat BY <2>1, PowerFacts
  <2>3. ~(x < 2^(k - 1)) BY <2>1, <1>2
  <2> QED BY <2>2, <2>3, <1>1
<1>5. P(k) BY <1>2, <1>4
<1> DEFINE B == BitLen(x)
<1>6. B \in 0..(W + 1) /\ P(B)
  <2>1. B = CHOOSE i \in 0..(W + 1) : P(i) BY DEF BitLen
  <2> HIDE DEF P, B
  <2> QED BY <1>3, <1>5, <2>1
<1> HIDE DEF B
<1>7. B # W + 1
  <2> SUFFICES ASSUME B = W + 1 PROVE FALSE OBVIOUS
  <2>1. B > 0 /\ B - 1 = W BY MaxIntFacts
  <2>2. 2^W <= x BY <1>6, <2>1
  <2> QED BY <2>2, MaxIntFacts
<1> QED BY <1>6, <1>7, MaxIntFacts DEF B

\* A value below 2^k has at most k bits, and one that is not below 2^(k-1) has k.
LEMMA BitLenIs ==
  ASSUME NEW x \in 0..MaxInt, NEW k \in Nat, x < 2^k
  PROVE  BitLen(x) <= k /\ (k > 0 /\ 2^(k - 1) <= x => BitLen(x) = k)
<1> DEFINE B == BitLen(x)
<1>1. B \in Nat /\ x \in Nat /\ x < 2^B /\ (B > 0 => 2^(B - 1) <= x)
  BY BitLenFacts, MaxIntFacts
<1> HIDE DEF B
<1>2. 2^k \in Nat /\ 2^B \in Nat BY <1>1, PowerFacts
<1>3. B <= k
  <2> SUFFICES ASSUME k < B PROVE FALSE BY <1>1
  <2>1. B - 1 \in Nat /\ k <= B - 1 /\ B > 0 BY <1>1
  <2>2. 2^k <= 2^(B - 1) /\ 2^(B - 1) \in Nat
    <3> DEFINE j == B - 1
    <3> HIDE DEF j
    <3>1. j \in Nat /\ k <= j BY <2>1 DEF j
    <3>2. 2^k <= 2^j /\ 2^j \in Nat BY <3>1, PowerMonotone, PowerFacts
    <3> QED BY <3>2 DEF j
  <2> QED BY <2>1, <2>2, <1>1, <1>2
<1>4. ASSUME k > 0, 2^(k - 1) <= x PROVE B = k
  <2> SUFFICES ASSUME B < k PROVE FALSE BY <1>1, <1>3
  <2> DEFINE j == k - 1
  <2>1. j \in Nat /\ B <= j /\ 2^j <= x BY <1>1, <1>4
  <2> HIDE DEF j
  <2>2. 2^B <= 2^j /\ 2^j \in Nat BY <1>1, <2>1, PowerMonotone, PowerFacts
  <2> QED BY <2>1, <2>2, <1>1, <1>2
<1> QED BY <1>3, <1>4 DEF B

\* A quotient lies where the dividend lies between multiples of the divisor.
LEMMA DivBetween ==
  ASSUME NEW q \in Nat \ {0}, NEW v \in Nat
  PROVE  /\ v \div q \in Nat
         /\ (v \div q) * q <= v /\ v < ((v \div q) + 1) * q
         /\ \A a \in Nat : (a * q <= v => a <= v \div q) /\ (v < a * q => v \div q < a)
         /\ \A a \in Nat : a * q <= v /\ v < (a + 1) * q => v \div q = a
<1> DEFINE d == v \div q
<1> DEFINE r == v % q
<1>1. r \in 0..(q - 1) /\ d \in Int /\ v = q * d + r BY DivMod
<1> HIDE DEF d, r
<1>2. d \in Nat
  <2> SUFFICES ASSUME d <= -1 PROVE FALSE BY <1>1
  <2>1. q * d <= -q BY <1>1
  <2> QED BY <1>1, <2>1
<1>3. d * q = q * d /\ (d + 1) * q = q * d + q BY <1>1
<1>4. d * q <= v /\ v < (d + 1) * q
  <2>1. q * d \in Int BY <1>1
  <2> QED BY <1>1, <1>3, <2>1
<1>5. ASSUME NEW a \in Nat PROVE (a * q <= v => a <= d) /\ (v < a * q => d < a)
  <2>1. ASSUME a >= d + 1 PROVE a * q >= (d + 1) * q BY <1>2, <2>1
  <2>2. ASSUME a <= d PROVE a * q <= d * q BY <1>2, <2>2
  <2>3. a * q \in Int /\ d * q \in Int /\ (d + 1) * q \in Int BY <1>2
  <2> QED BY <1>2, <1>4, <2>1, <2>2, <2>3
<1>6. ASSUME NEW a \in Nat, a * q <= v, v < (a + 1) * q PROVE d = a
  <2>1. a <= d BY <1>5, <1>6
  <2>2. d < a + 1
    <3>1. a + 1 \in Nat OBVIOUS
    <3> QED BY <3>1, <1>5, <1>6
  <2> QED BY <2>1, <2>2, <1>2
<1> QED BY <1>2, <1>4, <1>5, <1>6 DEF d

-----------------------------------------------------------------------------
(* Buckets.                                                                 *)

\* What the index arithmetic needs of a geometry: the bound of checkGeometry.
Sized(g) == g.u \in Nat /\ g.m \in Nat /\ g.u + g.m <= W - 2

\* v lies in sub-bucket s of bucket b, and not already in bucket b - 1.
At(g, v, b, s) ==
  /\ b \in Nat /\ s \in Nat
  /\ s < 2^(g.m + 1) /\ (b > 0 => 2^g.m <= s)
  /\ s * 2^(b + g.u) <= v /\ v < (s + 1) * 2^(b + g.u)

\* The powers of a geometry.
LEMMA SizedPowers ==
  ASSUME NEW g, Sized(g), NEW b \in Nat
  PROVE  /\ 2^g.m \in Nat \ {0} /\ 2^(g.m + 1) = 2 * 2^g.m
         /\ 2^(b + g.u) \in Nat \ {0}
         /\ 2^(b + g.u + g.m) = 2^g.m * 2^(b + g.u)
         /\ 2^(b + g.u + g.m + 1) = 2^(g.m + 1) * 2^(b + g.u)
         /\ 2^((b + 1) + g.u) = 2 * 2^(b + g.u)
<1> DEFINE e == b + g.u
<1> DEFINE k == g.m
<1>1. e \in Nat /\ k \in Nat /\ k + 1 \in Nat BY DEF Sized
<1>2. (b + 1) + g.u = e + 1 /\ b + g.u + g.m = k + e /\ b + g.u + g.m + 1 = (k + 1) + e BY <1>1 DEF Sized
<1> HIDE DEF e, k
<1>3. /\ 2^k \in Nat \ {0} /\ 2^(k + 1) = 2 * 2^k
      /\ 2^e \in Nat \ {0} /\ 2^(e + 1) = 2 * 2^e
  BY <1>1, PowerFacts
<1>4. 2^(k + e) = 2^k * 2^e /\ 2^((k + 1) + e) = 2^(k + 1) * 2^e BY <1>1, PowerSum
<1> QED BY <1>2, <1>3, <1>4 DEF e, k

\* getBucketIndex and getSubBucketIdx find the sub-bucket v lies in.
LEMMA Located ==
  ASSUME NEW g, Sized(g), NEW v \in 0..MaxInt
  PROVE  /\ At(g, v, BucketIndex(g, v), SubBucketIndex(g, v, BucketIndex(g, v)))
         /\ BucketIndex(g, v) + g.u + g.m + 1 <= W
<1> DEFINE B == BitLen(v)
<1> DEFINE D == g.u + g.m + 1
<1> DEFINE b == BucketIndex(g, v)
<1> DEFINE q == 2^(b + g.u)
<1> DEFINE s == v \div q
<1>1. /\ g.u \in Nat /\ g.m \in Nat /\ g.u + g.m <= W - 2 /\ D \in Nat /\ v \in Nat /\ W \in Nat
      /\ g.m + 1 \in Nat
  BY MaxIntFacts DEF Sized
<1>2. B \in Nat /\ B <= W /\ v < 2^B /\ (B > 0 => 2^(B - 1) <= v) BY BitLenFacts, MaxIntFacts
<1> HIDE DEF B
<1>3. b = IF B >= D THEN B - D ELSE 0 BY <1>1, <1>2 DEF BucketIndex, Larger, B
<1>4. b \in Nat /\ b + g.u + g.m + 1 <= W BY <1>1, <1>2, <1>3
<1>5. SubBucketIndex(g, v, b) = s BY DEF SubBucketIndex
<1> HIDE DEF b
<1>6. /\ 2^g.m \in Nat \ {0} /\ 2^(g.m + 1) = 2 * 2^g.m /\ q \in Nat \ {0}
      /\ 2^(b + g.u + g.m) = 2^g.m * q
      /\ 2^(b + g.u + g.m + 1) = 2^(g.m + 1) * q
  BY <1>4, SizedPowers
<1>7. v < 2^(g.m + 1) * q
  <2> DEFINE k == b + g.u + g.m + 1
  <2>1. k \in Nat /\ B <= k BY <1>1, <1>2, <1>3, <1>4
  <2>2. 2^B <= 2^k /\ 2^k \in Nat /\ 2^B \in Nat
    <3> HIDE DEF k
    <3> QED BY <2>1, <1>2, PowerMonotone, PowerFacts
  <2>3. v < 2^k
    <3> HIDE DEF k
    <3> QED BY <2>2, <1>1, <1>2
  <2> QED BY <2>3, <1>6
<1>8. ASSUME b > 0 PROVE 2^g.m * q <= v
  <2>1. B > 0 /\ B - 1 = b + g.u + g.m BY <1>1, <1>2, <1>3, <1>8
  <2> QED BY <2>1, <1>2, <1>6
<1> HIDE DEF q
<1>9. /\ s \in Nat /\ s * q <= v /\ v < (s + 1) * q
      /\ \A a \in Nat : (a * q <= v => a <= s) /\ (v < a * q => s < a)
  BY <1>1, <1>6, DivBetween
<1> HIDE DEF s
<1>10. s < 2^(g.m + 1)
  <2>1. 2^(g.m + 1) \in Nat BY <1>6
  <2> QED BY <2>1, <1>7, <1>9
<1>11. b > 0 => 2^g.m <= s BY <1>6, <1>8, <1>9
<1>12. At(g, v, b, s) BY <1>4, <1>9, <1>10, <1>11 DEF At, q
<1> QED BY <1>4, <1>5, <1>12 DEF b

\* There is only one such sub-bucket.
LEMMA LocatedOnly ==
  ASSUME NEW g, Sized(g), NEW v \in 0..MaxInt, NEW b, NEW s, At(g, v, b, s)
  PROVE  /\ BucketIndex(g, v) = b /\ SubBucketIndex(g, v, b) = s
         /\ CountsIndexFor(g, v) = b * 2^g.m + s
<1> DEFINE q == 2^(b + g.u)
<1> DEFINE B == BitLen(v)
<1>1. /\ g.u \in Nat /\ g.m \in Nat /\ b \in Nat /\ s \in Nat /\ v \in Nat /\ g.m + 1 \in Nat
      /\ s < 2^(g.m + 1) /\ (b > 0 => 2^g.m <= s)
      /\ s * q <= v /\ v < (s + 1) * q
  BY MaxIntFacts DEF Sized, At
<1>2. /\ 2^g.m \in Nat \ {0} /\ 2^(g.m + 1) = 2 * 2^g.m /\ q \in Nat \ {0}
      /\ 2^(b + g.u + g.m) = 2^g.m * q
      /\ 2^(b + g.u + g.m + 1) = 2^(g.m + 1) * q
  BY <1>1, SizedPowers
<1> HIDE DEF q, B
<1>3. \A a, c \in Nat : a <= c => a * q <= c * q BY <1>2
<1>4. v < 2^(b + g.u + g.m + 1)
  <2>1. 2^(g.m + 1) \in Nat /\ s + 1 \in Nat /\ s + 1 <= 2^(g.m + 1) BY <1>1, <1>2
  <2>2. (s + 1) * q <= 2^(g.m + 1) * q BY <2>1, <1>3
  <2>3. (s + 1) * q \in Nat /\ 2^(g.m + 1) * q \in Nat BY <2>1, <1>2
  <2> QED BY <2>2, <2>3, <1>1, <1>2
<1>5. b > 0 => 2^(b + g.u + g.m) <= v
  <2> SUFFICES ASSUME b > 0 PROVE 2^g.m * q <= v BY <1>2
  <2>1. 2^g.m * q <= s * q BY <1>1, <1>2, <1>3
  <2>2. s * q \in Nat /\ 2^g.m * q \in Nat BY <1>1, <1>2
  <2> QED BY <2>1, <2>2, <1>1
<1>6. BucketIndex(g, v) = b
  <2> DEFINE k == b + g.u + g.m + 1
  <2>1. k \in Nat /\ k > 0 /\ k - 1 = b + g.u + g.m BY <1>1
  <2>2. v < 2^k BY <1>4
  <2>3. B \in Nat /\ B <= k /\ (2^(k - 1) <= v => B = k)
    <3>1. B \in Nat BY BitLenFacts, MaxIntFacts DEF B
    <3> HIDE DEF k
    <3> QED BY <3>1, <2>1, <2>2, BitLenIs DEF B
  <2>4. BucketIndex(g, v) = IF B >= g.u + g.m + 1 THEN B - g.u - (g.m + 1) ELSE 0
    BY <1>1, <2>3 DEF BucketIndex, Larger, B
  <2>5. CASE b > 0
    <3>1. B = k BY <2>1, <2>3, <2>5, <1>5
    <3> QED BY <3>1, <2>4, <1>1
  <2>6. CASE b = 0 BY <2>3, <2>4, <2>6, <1>1
  <2> QED BY <2>5, <2>6, <1>1
<1>7. SubBucketIndex(g, v, b) = s
  <2>1. v \div q = s BY <1>1, <1>2, DivBetween
  <2> QED BY <2>1 DEF SubBucketIndex, q
<1>8. CountsIndexFor(g, v) = (b + 1) * 2^g.m + s - 2^g.m
  BY <1>6, <1>7 DEF CountsIndexFor, CountsIndex
<1>9. \A a \in Nat : (b + 1) * a + s - a = b * a + s BY <1>1
<1> QED BY <1>2, <1>6, <1>7, <1>8, <1>9

-----------------------------------------------------------------------------
(* Positions and values.                                                    *)

\* b and s are the bucket and sub-bucket of a position of the counts array.
Cell(g, b, s) == b \in Nat /\ s \in Nat /\ s < 2^(g.m + 1) /\ (b > 0 => 2^g.m <= s)

\* valueFromFlatIndex splits a position into its bucket and sub-bucket.
LEMMA FlatValue ==
  ASSUME NEW g, Sized(g), NEW b, NEW s, Cell(g, b, s)
  PROVE  ValueFromFlatIndex(g, b * 2^g.m + s) = s * 2^(b + g.u)
<1> DEFINE half == 2^g.m
<1> DEFINE i == b * half + s
<1>1. b \in Nat /\ s \in Nat /\ s < 2 * half /\ (b > 0 => half <= s) /\ half \in Nat \ {0} /\ g.u \in Nat
  BY SizedPowers DEF Cell, Sized
<1> HIDE DEF half
<1>2. CASE s < half
  <2>1. b = 0 BY <1>1, <1>2
  <2>2. s \in 0..(half - 1) /\ 0 \in Int /\ i = half * 0 + s BY <1>1, <1>2, <2>1
  <2>3. i % half = s /\ i \div half = 0
    <3> HIDE DEF i
    <3> QED BY <1>1, <2>2, ModOf
  <2>4. ValueFromFlatIndex(g, i) = ValueFromIndex(g, 0, s)
    <3> HIDE DEF i
    <3>1. i \div half - 1 < 0 BY <2>3
    <3> QED BY <2>3, <3>1 DEF ValueFromFlatIndex, half
  <2> QED BY <2>1, <2>4 DEF ValueFromIndex, half
<1>3. CASE s >= half
  <2>1. s - half \in 0..(half - 1) /\ b + 1 \in Int /\ i = half * (b + 1) + (s - half) BY <1>1, <1>3
  <2>2. i % half = s - half /\ i \div half = b + 1
    <3> DEFINE c == b + 1
    <3> DEFINE r == s - half
    <3>1. r \in 0..(half - 1) /\ c \in Int /\ i = half * c + r BY <2>1
    <3> HIDE DEF i, c, r
    <3>2. i % half = r /\ i \div half = c BY <1>1, <3>1, ModOf
    <3> QED BY <3>2 DEF c, r
  <2>3. ValueFromFlatIndex(g, i) = ValueFromIndex(g, b, s)
    <3> HIDE DEF i
    <3>1. i \div half - 1 = b /\ ~(i \div half - 1 < 0) /\ (i % half) + half = s BY <1>1, <2>2
    <3> QED BY <3>1 DEF ValueFromFlatIndex, half
  <2> QED BY <2>3 DEF ValueFromIndex, half
<1> QED BY <1>1, <1>2, <1>3

\* Every natural number is the position of one cell.
LEMMA FlatCell ==
  ASSUME NEW g, Sized(g), NEW i \in Nat
  PROVE  \E b, s : Cell(g, b, s) /\ i = b * 2^g.m + s
<1> DEFINE half == 2^g.m
<1>1. half \in Nat \ {0} /\ 2^(g.m + 1) = 2 * half BY SizedPowers
<1> HIDE DEF half
<1> DEFINE c == i \div half
<1> DEFINE r == i % half
<1>2. r \in 0..(half - 1) /\ c \in Nat /\ i = half * c + r
  <2>1. c \in Nat BY <1>1, DivBetween
  <2>2. i \in Int OBVIOUS
  <2>3. r \in 0..(half - 1) /\ i = half * c + r BY <1>1, <2>2, DivMod
  <2> QED BY <2>1, <2>3
<1> HIDE DEF c, r
<1>3. CASE c = 0
  <2>1. Cell(g, 0, r) BY <1>1, <1>2 DEF Cell
  <2>2. i = 0 * half + r BY <1>1, <1>2, <1>3
  <2> QED BY <2>1, <2>2 DEF half
<1>4. CASE c # 0
  <2> DEFINE b == c - 1
  <2> DEFINE s == r + half
  <2>1. b \in Nat /\ s \in Nat /\ s < 2 * half /\ half <= s BY <1>1, <1>2, <1>4
  <2>2. i = b * half + s BY <1>1, <1>2
  <2> HIDE DEF b, s
  <2>3. Cell(g, b, s) BY <1>1, <2>1 DEF Cell, half
  <2> QED BY <2>2, <2>3 DEF half
<1> QED BY <1>3, <1>4

\* The cell (b, s) is one whose values the word can hold.
Reaches(g, b) == b + g.u + g.m + 1 <= W

\* The end of a cell that fits is at most the first value past MaxInt.
LEMMA CellEnds ==
  ASSUME NEW g, Sized(g), NEW b, NEW s, Cell(g, b, s), Reaches(g, b)
  PROVE  /\ 2^(b + g.u) \in Nat \ {0}
         /\ s * 2^(b + g.u) \in Nat
         /\ (s + 1) * 2^(b + g.u) = s * 2^(b + g.u) + 2^(b + g.u)
         /\ s * 2^(b + g.u) + 2^(b + g.u) <= MaxInt + 1
<1> DEFINE q == 2^(b + g.u)
<1>1. b \in Nat /\ s \in Nat /\ s < 2^(g.m + 1) /\ g.u \in Nat /\ g.m \in Nat BY DEF Cell, Sized
<1>2. /\ 2^g.m \in Nat \ {0} /\ 2^(g.m + 1) = 2 * 2^g.m /\ q \in Nat \ {0}
      /\ 2^(b + g.u + g.m + 1) = 2^(g.m + 1) * q
  BY <1>1, SizedPowers
<1>3. 2^(b + g.u + g.m + 1) <= 2^W
  <2> DEFINE k == b + g.u + g.m + 1
  <2>1. k \in Nat /\ k <= W /\ W \in Nat BY <1>1, MaxIntFacts DEF Reaches
  <2> HIDE DEF k
  <2>2. 2^k <= 2^W BY <2>1, PowerMonotone
  <2> QED BY <2>2 DEF k
<1> HIDE DEF q
<1>4. s * q \in Nat /\ (s + 1) * q = s * q + q BY <1>1, <1>2
<1>5. (s + 1) * q <= 2^(g.m + 1) * q
  <2>1. \A a, c \in Nat : a <= c => a * q <= c * q BY <1>2
  <2>2. s + 1 \in Nat /\ 2^(g.m + 1) \in Nat /\ s + 1 <= 2^(g.m + 1) BY <1>1, <1>2
  <2> QED BY <2>1, <2>2
<1>6. (s + 1) * q <= MaxInt + 1
  <2>1. 2^(g.m + 1) * q \in Nat BY <1>2
  <2> QED BY <2>1, <1>2, <1>3, <1>4, <1>5, MaxIntFacts
<1> QED BY <1>2, <1>4, <1>6 DEF q

\* A sum that reaches 2^W and loses one again is exact.
LEMMA WrapBack ==
  ASSUME NEW x \in Nat, x <= MaxInt + 1, x > 0
  PROVE  WrapValue(WrapValue(x) - 1) = x - 1
BY MaxIntFacts DEF WrapValue

\* All the values of a cell have its position, its first value and its size, in
\* the arithmetic that wraps and in the one that saturates.
LEMMA Equivalent ==
  ASSUME NEW g, Sized(g), NEW v \in 0..MaxInt, NEW b, NEW s, At(g, v, b, s), Reaches(g, b)
  PROVE  LET q == 2^(b + g.u) IN
         /\ CountsIndexFor(g, v) = b * 2^g.m + s
         /\ LowestEquivalent(g, v) = s * q
         /\ SizeOfRange(g, v) = q
         /\ HighestEquivalent(g, v) = s * q + q - 1
         /\ PackedHighestEquivalent(g, v) = s * q + q - 1
         /\ s * q <= MedianEquivalent(g, v) /\ MedianEquivalent(g, v) <= s * q + q - 1
         /\ s * q <= v /\ v <= s * q + q - 1
<1> DEFINE q == 2^(b + g.u)
<1>1. b \in Nat /\ s \in Nat /\ s < 2^(g.m + 1) /\ Cell(g, b, s) /\ g.u \in Nat /\ s * q <= v /\ v < (s + 1) * q
  BY DEF At, Cell, Sized
<1>2. q \in Nat \ {0} /\ s * q \in Nat /\ (s + 1) * q = s * q + q /\ s * q + q <= MaxInt + 1
  BY <1>1, CellEnds
<1>3. BucketIndex(g, v) = b /\ SubBucketIndex(g, v, b) = s /\ CountsIndexFor(g, v) = b * 2^g.m + s
  BY LocatedOnly
<1>4. LowestEquivalent(g, v) = s * q BY <1>3 DEF LowestEquivalent, ValueFromIndex
<1>5. SizeOfRange(g, v) = q
  <2>1. 2^(g.m + 1) \in Nat BY SizedPowers
  <2>2. ~(s >= 2^(g.m + 1)) BY <1>1, <2>1
  <2>3. g.u + b = b + g.u BY <1>1
  <2> QED BY <1>3, <2>2, <2>3 DEF SizeOfRange
<1> HIDE DEF q
<1> DEFINE lo == s * q
<1>6. lo \in Nat /\ lo + q \in Nat /\ lo + q > 0 /\ lo + q <= MaxInt + 1 /\ MaxInt \in Nat
  BY <1>2, MaxIntFacts
<1>7. LowestEquivalent(g, v) = lo /\ v < lo + q /\ lo <= v BY <1>1, <1>2, <1>4
<1> HIDE DEF lo
<1>8. HighestEquivalent(g, v) = lo + q - 1
  <2> DEFINE x == lo + q
  <2>1. x \in Nat /\ x <= MaxInt + 1 /\ x > 0 BY <1>6
  <2>2. HighestEquivalent(g, v) = WrapValue(WrapValue(x) - 1)
    BY <1>5, <1>7 DEF HighestEquivalent, NextNonEquivalent
  <2> HIDE DEF x
  <2>3. HighestEquivalent(g, v) = x - 1 BY <2>1, <2>2, WrapBack
  <2> QED BY <2>3, <1>2, <1>6 DEF x
<1>9. PackedHighestEquivalent(g, v) = lo + q - 1
  BY <1>2, <1>5, <1>6, <1>7 DEF PackedHighestEquivalent
<1>10. lo <= MedianEquivalent(g, v) /\ MedianEquivalent(g, v) <= lo + q - 1
  <2>1. q \div 2 \in 0..(q - 1) BY <1>2
  <2>2. lo + q \div 2 <= MaxInt /\ lo + q \div 2 >= 0 BY <2>1, <1>2, <1>6
  <2>3. WrapValue(lo + q \div 2) = lo + q \div 2 BY <2>1, <2>2, <1>6 DEF WrapValue
  <2> QED BY <2>1, <2>3, <1>2, <1>5, <1>6, <1>7 DEF MedianEquivalent
<1> QED BY <1>2, <1>3, <1>5, <1>6, <1>7, <1>8, <1>9, <1>10, MaxIntFacts DEF lo, q

\* Every value of a cell that fits lies in it.
LEMMA CellAt ==
  ASSUME NEW g, Sized(g), NEW b, NEW s, Cell(g, b, s), Reaches(g, b), NEW x \in Int,
         s * 2^(b + g.u) <= x, x <= s * 2^(b + g.u) + 2^(b + g.u) - 1
  PROVE  x \in 0..MaxInt /\ At(g, x, b, s)
<1> DEFINE q == 2^(b + g.u)
<1>1. q \in Nat \ {0} /\ s * q \in Nat /\ (s + 1) * q = s * q + q /\ s * q + q <= MaxInt + 1
  BY CellEnds
<1>2. s * q <= x /\ x <= s * q + q - 1 OBVIOUS
<1> HIDE DEF q
<1>3. x \in 0..MaxInt /\ x < (s + 1) * q BY <1>1, <1>2, MaxIntFacts
<1> QED BY <1>2, <1>3 DEF At, Cell, q

\* The position of a value, and the values of a position.
LEMMA ValueCell ==
  ASSUME NEW g, Sized(g), NEW v \in 0..MaxInt
  PROVE  \E b, s : Cell(g, b, s) /\ Reaches(g, b) /\ At(g, v, b, s)
BY Located DEF At, Cell, Reaches

\* What GeometryWalk's IndexRoundTrip says of a value: the value read back is the
\* lowest of v's bucket, the bucket contains v, both its ends are stored at v's
\* index and the next bucket starts right after it.
InvertsAt(g, v) ==
  LET i  == CountsIndexFor(g, v)
      lo == ValueFromFlatIndex(g, i)
      hi == HighestEquivalent(g, v)
  IN  /\ lo = LowestEquivalent(g, v)
      /\ lo \in 0..MaxInt /\ hi \in 0..MaxInt
      /\ lo <= v /\ v <= hi
      /\ CountsIndexFor(g, lo) = i
      /\ CountsIndexFor(g, hi) = i
      /\ hi < MaxInt => CountsIndexFor(g, hi + 1) = i + 1
      /\ hi = PackedHighestEquivalent(g, v)
      /\ lo <= MedianEquivalent(g, v) /\ MedianEquivalent(g, v) <= hi

\* countsIndexFor and valueFromFlatIndex are inverse up to the bucket.
LEMMA IndexInverse == ASSUME NEW g, Sized(g), NEW v \in 0..MaxInt PROVE InvertsAt(g, v)
<1>1. PICK b, s : Cell(g, b, s) /\ Reaches(g, b) /\ At(g, v, b, s) BY ValueCell
<1> DEFINE q == 2^(b + g.u)
<1> DEFINE half == 2^g.m
<1> DEFINE i == b * half + s
<1> DEFINE lo == s * q
<1> DEFINE hi == s * q + q - 1
<1>2. b \in Nat /\ s \in Nat /\ s < 2 * half /\ (b > 0 => half <= s) /\ half \in Nat \ {0} /\ g.u \in Nat
      /\ 2^(g.m + 1) = 2 * half
  BY <1>1, SizedPowers DEF Cell, Sized
<1>3. /\ q \in Nat \ {0} /\ lo \in Nat /\ lo + q <= MaxInt + 1 /\ 2^((b + 1) + g.u) = 2 * q
      /\ (s + 1) * q = s * q + q
  BY <1>1, <1>2, CellEnds, SizedPowers
<1>4. /\ CountsIndexFor(g, v) = i /\ LowestEquivalent(g, v) = lo
      /\ HighestEquivalent(g, v) = hi /\ PackedHighestEquivalent(g, v) = hi
      /\ lo <= MedianEquivalent(g, v) /\ MedianEquivalent(g, v) <= hi
      /\ lo <= v /\ v <= hi
  BY <1>1, Equivalent
<1>5. ValueFromFlatIndex(g, i) = lo BY <1>1, FlatValue
<1>6. lo \in 0..MaxInt /\ At(g, lo, b, s)
  <2>1. lo \in Int /\ s * q <= lo /\ lo <= s * q + q - 1 BY <1>3
  <2> HIDE DEF lo
  <2> QED BY <1>1, <2>1, CellAt
<1>7. hi \in 0..MaxInt /\ At(g, hi, b, s)
  <2>1. hi \in Int /\ s * q <= hi /\ hi <= s * q + q - 1 BY <1>3
  <2> HIDE DEF hi
  <2> QED BY <1>1, <2>1, CellAt
<1>8. CountsIndexFor(g, lo) = i
  <2> HIDE DEF lo
  <2> QED BY <1>6, LocatedOnly
<1>9. CountsIndexFor(g, hi) = i
  <2> HIDE DEF hi
  <2> QED BY <1>7, LocatedOnly
<1>10. ASSUME hi < MaxInt PROVE CountsIndexFor(g, hi + 1) = i + 1
  <2> DEFINE x == hi + 1
  <2>1. x \in 0..MaxInt /\ x = s * q + q BY <1>3, <1>7, <1>10, MaxIntFacts
  <2> HIDE DEF q, half, x
  <2>2. CASE s + 1 < 2 * half
    <3> DEFINE t == s + 1
    <3>1. t \in Nat /\ t < 2^(g.m + 1) /\ (b > 0 => half <= t) BY <1>2, <2>2
    <3>2. t * q = x /\ x < (t + 1) * q
      <4>1. (t + 1) * q = s * q + q + q BY <1>2, <1>3
      <4>2. t * q = x BY <1>3, <2>1
      <4> QED BY <4>1, <4>2, <2>1, <1>3
    <3>3. At(g, x, b, t)
      <4> HIDE DEF t
      <4> QED BY <3>1, <3>2, <1>2, <2>1 DEF At, q, half
    <3>4. CountsIndexFor(g, x) = b * half + t
      <4> HIDE DEF t
      <4> QED BY <2>1, <3>3, LocatedOnly DEF half
    <3> QED BY <3>4, <1>2 DEF x
  <2>3. CASE s + 1 = 2 * half
    <3> DEFINE c == b + 1
    <3> DEFINE r == 2^(c + g.u)
    <3>1. c \in Nat /\ r = 2 * q BY <1>2, <1>3
    <3> HIDE DEF r
    <3>2. half * r = x
      <4>1. half * (2 * q) = (2 * half) * q BY <1>2, <1>3
      <4>2. (2 * half) * q = s * q + q BY <1>2, <1>3, <2>3
      <4> QED BY <4>1, <4>2, <3>1, <2>1
    <3>3. x < (half + 1) * r
      <4>1. (half + 1) * r = half * r + r BY <1>2, <1>3, <3>1
      <4> QED BY <4>1, <3>1, <3>2, <1>3, <2>1
    <3>4. c * half + half = i + 1 BY <1>2, <2>3
    <3> HIDE DEF c
    <3>5. half < 2^(g.m + 1) BY <1>2
    <3>6. At(g, x, c, half) BY <3>1, <3>2, <3>3, <3>5, <1>2, <2>1 DEF At, r, half
    <3>7. CountsIndexFor(g, x) = c * half + half BY <2>1, <3>6, LocatedOnly DEF half
    <3> QED BY <3>4, <3>7 DEF x
  <2> QED BY <1>2, <2>2, <2>3
<1> HIDE DEF i, lo, hi
<1> QED BY <1>4, <1>5, <1>6, <1>7, <1>8, <1>9, <1>10 DEF InvertsAt

\* Larger values are stored at larger positions: the counts array is in the order
\* of the values.
LEMMA IndexMonotone ==
  ASSUME NEW g, Sized(g), NEW x \in 0..MaxInt, NEW y \in 0..MaxInt, x <= y
  PROVE  CountsIndexFor(g, x) <= CountsIndexFor(g, y)
<1>1. PICK b, s : Cell(g, b, s) /\ Reaches(g, b) /\ At(g, x, b, s) BY ValueCell
<1>2. PICK c, t : Cell(g, c, t) /\ Reaches(g, c) /\ At(g, y, c, t) BY ValueCell
<1> DEFINE half == 2^g.m
<1>3. CountsIndexFor(g, x) = b * half + s /\ CountsIndexFor(g, y) = c * half + t
  BY <1>1, <1>2, LocatedOnly
<1>4. /\ b \in Nat /\ s \in Nat /\ s < 2 * half /\ (b > 0 => half <= s)
      /\ c \in Nat /\ t \in Nat /\ t < 2 * half /\ (c > 0 => half <= t)
      /\ half \in Nat \ {0} /\ g.u \in Nat /\ g.m \in Nat /\ x \in Nat /\ y \in Nat
      /\ 2^(g.m + 1) = 2 * half
  BY <1>1, <1>2, SizedPowers, MaxIntFacts DEF Cell, Sized
<1> HIDE DEF half
<1>5. CASE b = c
  <2> DEFINE q == 2^(b + g.u)
  <2>1. q \in Nat \ {0} BY <1>1, CellEnds
  <2>2. s * q <= x /\ y < (t + 1) * q BY <1>1, <1>2, <1>5 DEF At
  <2> HIDE DEF q
  <2>3. s <= t
    <3> SUFFICES ASSUME t + 1 <= s PROVE FALSE BY <1>4
    <3>1. (t + 1) * q <= s * q BY <1>4, <2>1
    <3>2. (t + 1) * q \in Nat /\ s * q \in Nat BY <1>4, <2>1
    <3> QED BY <3>1, <3>2, <2>2, <1>4
  <2> QED BY <2>3, <1>3, <1>4, <1>5
<1>6. CASE b < c
  <2>1. (b + 1) * half <= c * half BY <1>4, <1>6
  <2>2. (b + 1) * half = b * half + half /\ b * half \in Nat /\ c * half \in Nat BY <1>4
  <2>3. half <= t BY <1>4, <1>6
  <2> QED BY <2>1, <2>2, <2>3, <1>3, <1>4
<1>7. CASE c < b
  <2> DEFINE e == c + g.u + g.m + 1
  <2> DEFINE f == b + g.u + g.m
  <2>1. e \in Nat /\ f \in Nat /\ e <= f BY <1>4, <1>7
  <2>2. 2^e <= 2^f /\ 2^e \in Nat /\ 2^f \in Nat
    <3> HIDE DEF e, f
    <3> QED BY <2>1, PowerMonotone, PowerFacts
  <2> DEFINE p == 2^(c + g.u)
  <2> DEFINE q == 2^(b + g.u)
  <2>3. 2^e = 2^(g.m + 1) * p /\ 2^f = half * q /\ p \in Nat /\ q \in Nat
    BY <1>4, SizedPowers DEF half
  <2>4. y < (t + 1) * p /\ s * q <= x BY <1>1, <1>2 DEF At
  <2> HIDE DEF e, f, p, q
  <2>5. (t + 1) * p <= (2 * half) * p
    <3>1. \A a, d \in Nat : a <= d => a * p <= d * p BY <2>3
    <3> QED BY <3>1, <1>4
  <2>6. half * q <= s * q
    <3>1. \A a, d \in Nat : a <= d => a * q <= d * q BY <2>3
    <3> QED BY <3>1, <1>4, <1>7
  <2>7. (t + 1) * p \in Nat /\ s * q \in Nat BY <1>4, <2>3
  <2> QED BY <2>2, <2>3, <2>4, <2>5, <2>6, <2>7, <1>4
<1> QED BY <1>4, <1>5, <1>6, <1>7

-----------------------------------------------------------------------------
(* Construction.                                                            *)

\* geometryMagnitudes: a bucket's upper half has at least 10^sig sub-buckets.
LEMMA HalfCountFacts ==
  ASSUME NEW sig \in 0..5
  PROVE  /\ 10^sig \in Nat \ {0}
         /\ HalfCountMagnitude(sig) \in Nat
         /\ 10^sig <= 2^HalfCountMagnitude(sig)
<1> DEFINE t == 2 * 10^sig
<1>1. 10^sig \in Nat \ {0} /\ 2 * 10^sig <= 2^18
  <2>1. sig = 0 \/ sig = 1 \/ sig = 2 \/ sig = 3 \/ sig = 4 \/ sig = 5 OBVIOUS
  <2>2. CASE sig = 0 BY <2>2, SMT
  <2>3. CASE sig = 1 BY <2>3, SMT
  <2>4. CASE sig = 2 BY <2>4, SMT
  <2>5. CASE sig = 3 BY <2>5, SMT
  <2>6. CASE sig = 4 BY <2>6, SMT
  <2>7. CASE sig = 5 BY <2>7, SMT
  <2> QED BY <2>1, <2>2, <2>3, <2>4, <2>5, <2>6, <2>7, SMT
<1>2. t \in Nat /\ t >= 2 /\ t <= 2^18 BY <1>1, SMT
<1> HIDE DEF t
<1> DEFINE P(k) == 2^k >= t /\ \A j \in 0..(k - 1) : 2^j < t
<1> DEFINE T == {k \in Nat : 2^k >= t}
<1>3. 18 \in T BY <1>2, SMT
<1>4. PICK k \in T : \A j \in T : k <= j
  <2>1. T \in SUBSET Nat /\ T # {} BY <1>3
  <2> HIDE DEF T
  <2> QED BY <2>1, LeastElement
<1>5. k \in 0..18 /\ P(k)
  <2>1. \A j \in 0..(k - 1) : 2^j < t
    <3> SUFFICES ASSUME NEW j \in 0..(k - 1) PROVE 2^j < t OBVIOUS
    <3>1. j \in Nat /\ ~(k <= j) BY <1>4
    <3>2. j \notin T BY <3>1, <1>4
    <3>3. 2^j \in Nat BY <3>1, PowerFacts
    <3> QED BY <3>1, <3>2, <3>3, <1>2
  <2>2. k \in Nat /\ 2^k >= t BY <1>4
  <2>3. k <= 18
    <3> HIDE DEF T
    <3> QED BY <1>3, <1>4
  <2> QED BY <2>1, <2>2, <2>3
<1> DEFINE bits == CHOOSE i \in 0..18 : P(i)
<1>6. bits \in 0..18 /\ P(bits)
  <2> HIDE DEF P
  <2> QED BY <1>5
<1>7. HalfCountMagnitude(sig) = Larger(bits, 1) - 1 BY DEF HalfCountMagnitude, t
<1>8. bits # 0
  <2>1. bits = 0 => 2^bits = 1 BY PowerZero
  <2> HIDE DEF bits
  <2> QED BY <2>1, <1>2, <1>6
<1> HIDE DEF bits
<1> DEFINE i == bits - 1
<1>9. i \in Nat /\ bits = i + 1 /\ HalfCountMagnitude(sig) = i BY <1>6, <1>7, <1>8 DEF Larger
<1> HIDE DEF i
<1>10. 2^(i + 1) = 2 * 2^i /\ 2^i \in Nat BY <1>9, PowerFacts
<1>11. 2 * 2^i >= 2 * 10^sig BY <1>6, <1>9, <1>10 DEF t
<1> QED BY <1>1, <1>9, <1>10, <1>11

\* The values of one unit: lowestDiscernibleValue, or the power of two above it
\* where its float64 logarithm rounds up.
LowUnit(low) == IF low \in RoundsUp THEN 2^BitLen(low) ELSE low

\* geometryMagnitudes: the unit is a power of two.
LEMMA UnitFacts ==
  ASSUME NEW low \in 1..MaxInt
  PROVE  UnitMagnitude(low) \in Nat /\ 2^UnitMagnitude(low) <= LowUnit(low)
<1> DEFINE B == BitLen(low)
<1>1. low \in 0..MaxInt /\ low \in Nat /\ low >= 1 BY MaxIntFacts
<1>2. B \in Nat /\ low < 2^B /\ (B > 0 => 2^(B - 1) <= low) BY <1>1, BitLenFacts
<1>3. B # 0
  <2>1. B = 0 => 2^B = 1 BY PowerZero
  <2> HIDE DEF B
  <2> QED BY <2>1, <1>1, <1>2
<1>4. UnitMagnitude(low) = IF low \in RoundsUp THEN B ELSE B - 1
  <2>1. B - 1 + 1 = B /\ B - 1 + 0 = B - 1 BY <1>2
  <2> QED BY <2>1 DEF UnitMagnitude
<1>5. LowUnit(low) = IF low \in RoundsUp THEN 2^B ELSE low BY DEF LowUnit
<1>6. 2^B \in Nat BY <1>2, PowerFacts
<1> HIDE DEF B
<1>7. CASE low \in RoundsUp BY <1>2, <1>4, <1>5, <1>6, <1>7
<1>8. CASE low \notin RoundsUp BY <1>2, <1>3, <1>4, <1>5, <1>8
<1> QED BY <1>7, <1>8

\* getBucketsNeededToCoverValue: the buckets reach past the highest value or to
\* the end of the word, none starts above it, and all of them fit the word.
LEMMA BucketsFacts ==
  ASSUME NEW u \in Nat, NEW m \in Nat, u + m <= W - 2, NEW high \in Int
  PROVE  LET N == BucketsNeeded(2^(m + 1 + u), high) IN
         /\ N \in Nat \ {0}
         /\ N + u + m <= W
         /\ high < 2^(u + m + N) \/ u + m + N = W
         /\ N > 1 => 2^(u + m + N - 1) <= high
<1> DEFINE su == 2^(m + 1 + u)
<1> DEFINE Value(k) == su * 2^k
<1> DEFINE Leaves(k) == Value(k) > high \/ Value(k) > MaxInt \div 2
<1> DEFINE P(k) == Leaves(k) /\ \A j \in 0..(k - 1) : ~Leaves(j)
<1> DEFINE K == W - 2 - m - u
<1>1. W \in Nat /\ W - 1 \in Nat /\ K \in Nat /\ K <= W BY MaxIntFacts
<1>2. ASSUME NEW k \in Nat PROVE Value(k) = 2^(u + m + 1 + k) /\ Value(k) \in Nat
  <2> DEFINE e == m + 1 + u
  <2>1. e \in Nat /\ e + k = u + m + 1 + k /\ u + m + 1 + k \in Nat OBVIOUS
  <2>2. 2^(e + k) = 2^e * 2^k
    <3> HIDE DEF e
    <3> QED BY <2>1, PowerSum
  <2>3. 2^(u + m + 1 + k) \in Nat BY <2>1, PowerFacts
  <2> QED BY <2>1, <2>2, <2>3
<1>3. MaxInt \div 2 = 2^(W - 1) - 1 /\ 2^(W - 1) \in Nat
  <2> DEFINE j == W - 1
  <2>1. j \in Nat /\ W = j + 1 BY <1>1
  <2> HIDE DEF j
  <2>2. 2^(j + 1) = 2 * 2^j /\ 2^j \in Nat \ {0} BY <2>1, PowerFacts
  <2>3. MaxInt = 2 * 2^j - 1 BY <2>1, <2>2, MaxIntFacts
  <2>4. \A x \in Nat \ {0} : (2 * x - 1) \div 2 = x - 1 OBVIOUS
  <2>5. MaxInt \div 2 = 2^j - 1 BY <2>2, <2>3, <2>4
  <2> QED BY <2>2, <2>5 DEF j
<1> HIDE DEF su, Value
<1>4. Leaves(K)
  <2>1. u + m + 1 + K = W - 1 BY <1>1
  <2>2. Value(K) = 2^(W - 1) BY <1>1, <1>2, <2>1
  <2> HIDE DEF K
  <2> QED BY <2>2, <1>3
<1> DEFINE T == {k \in Nat : Leaves(k)}
<1>5. PICK k \in T : \A j \in T : k <= j
  <2>1. T \in SUBSET Nat /\ K \in T
    <3> HIDE DEF Leaves
    <3> QED BY <1>1, <1>4
  <2> HIDE DEF T, K
  <2> QED BY <2>1, LeastElement
<1>6. k <= K /\ k \in 0..W
  <2>1. K \in T
    <3> HIDE DEF Leaves
    <3> QED BY <1>1, <1>4
  <2> HIDE DEF T
  <2>2. k <= K /\ k \in Nat BY <2>1, <1>5 DEF T
  <2> HIDE DEF K
  <2> QED BY <2>2, <1>1
<1>7. P(k)
  <2>1. \A j \in 0..(k - 1) : j \in Nat /\ ~(k <= j) BY <1>5
  <2>2. \A j \in 0..(k - 1) : ~Leaves(j)
    <3> HIDE DEF Leaves
    <3> QED BY <2>1, <1>5
  <2> HIDE DEF Leaves
  <2> QED BY <2>2, <1>5
<1> DEFINE c == CHOOSE i \in 0..W : P(i)
<1>8. c \in 0..W /\ P(c)
  <2> HIDE DEF P
  <2> QED BY <1>6, <1>7
<1> DEFINE N == BucketsNeeded(2^(m + 1 + u), high)
<1>9. N = IF Value(c) > high THEN c + 1 ELSE c + 2 BY DEF BucketsNeeded, su, Value
<1> HIDE DEF c, N
<1>10. c <= K /\ c \in Nat
  <2>1. c \in Nat /\ (K <= c - 1 => K \in 0..(c - 1)) BY <1>1, <1>8
  <2> HIDE DEF K, Leaves
  <2> QED BY <2>1, <1>1, <1>4, <1>8
<1>11. N \in Nat \ {0} /\ N + u + m <= W BY <1>1, <1>9, <1>10
<1>12. Value(c) = 2^(u + m + 1 + c) /\ Value(c) \in Nat BY <1>2, <1>10
<1>13. CASE Value(c) > high
  <2>1. N = c + 1 /\ u + m + N = u + m + 1 + c BY <1>9, <1>10, <1>13
  <2>2. high < 2^(u + m + N) BY <2>1, <1>12, <1>13
  <2>3. ASSUME N > 1 PROVE 2^(u + m + N - 1) <= high
    <3> DEFINE d == c - 1
    <3>1. d \in Nat /\ d \in 0..(c - 1) /\ u + m + 1 + d = u + m + N - 1 BY <2>1, <2>3, <1>10
    <3>2. Value(d) = 2^(u + m + 1 + d) /\ Value(d) \in Nat
      <4> HIDE DEF d
      <4> QED BY <3>1, <1>2
    <3>3. ~(Value(d) > high)
      <4> HIDE DEF d
      <4> QED BY <3>1, <1>8
    <3> HIDE DEF d
    <3> QED BY <3>1, <3>2, <3>3
  <2> QED BY <2>2, <2>3, <1>11 DEF N
<1>14. CASE ~(Value(c) > high)
  <2>1. N = c + 2 /\ u + m + N - 1 = u + m + 1 + c BY <1>9, <1>10, <1>14
  <2>2. 2^(u + m + N - 1) <= high BY <2>1, <1>12, <1>14
  <2>3. u + m + N = W
    <3> DEFINE e == u + m + 1 + c
    <3> DEFINE j == W - 1
    <3>1. e \in Nat /\ j \in Nat /\ e + 1 = u + m + N BY <2>1, <1>1, <1>10
    <3>2. 2^e > 2^j - 1 /\ 2^e \in Nat /\ 2^j \in Nat BY <1>3, <1>8, <1>12, <1>14
    <3>3. j <= e
      <4> HIDE DEF e, j
      <4>1. ~(2^e < 2^j) BY <3>2
      <4> QED BY <3>1, <4>1, PowerMonotone
    <3> QED BY <3>1, <3>3, <1>1, <1>11
  <2> QED BY <2>2, <2>3, <1>11 DEF N
<1> QED BY <1>13, <1>14

\* Constructor arguments are int64 values.
IsArgs(a) == a.low \in -(MaxInt + 1)..MaxInt /\ a.high \in -(MaxInt + 1)..MaxInt /\ a.sig \in Int

\* What every geometry that a constructor builds satisfies.
Built(g) ==
  /\ Sized(g)
  /\ g.low \in 1..MaxInt /\ g.high \in Int /\ g.sig \in 0..5
  /\ 10^g.sig <= 2^g.m /\ 2^g.u <= LowUnit(g.low)
  /\ g.bucketCount \in Nat \ {0}
  /\ g.bucketCount + g.u + g.m <= W
  /\ g.high < 2^(g.u + g.m + g.bucketCount) \/ g.u + g.m + g.bucketCount = W
  /\ g.bucketCount > 1 => 2^(g.u + g.m + g.bucketCount - 1) <= g.high
  /\ g.countsLen = (g.bucketCount + 1) * 2^g.m
  /\ g = ExactGeometry(g.low, g.high, g.sig) /\ Representable(g.low, g.sig)

\* newExactGeometry.
LEMMA ExactBuilt ==
  ASSUME NEW low \in 1..MaxInt, NEW high \in Int, NEW sig \in 0..5, Representable(low, sig)
  PROVE  Built(ExactGeometry(low, high, sig))
<1> DEFINE u == UnitMagnitude(low)
<1> DEFINE m == HalfCountMagnitude(sig)
<1> DEFINE N == BucketsNeeded(2^(m + 1 + u), high)
<1> DEFINE g == ExactGeometry(low, high, sig)
<1>1. u \in Nat /\ 2^u <= LowUnit(low) BY UnitFacts
<1>2. m \in Nat /\ 10^sig <= 2^m BY HalfCountFacts
<1>3. u + m <= W - 2 BY DEF Representable
<1>4. g = [low |-> low, high |-> high, sig |-> sig, u |-> u, m |-> m,
           bucketCount |-> N, countsLen |-> (N + 1) * 2^m]
  BY DEF ExactGeometry
<1> HIDE DEF u, m
<1>5. /\ N \in Nat \ {0} /\ N + u + m <= W
      /\ high < 2^(u + m + N) \/ u + m + N = W
      /\ N > 1 => 2^(u + m + N - 1) <= high
  BY <1>1, <1>2, <1>3, BucketsFacts
<1> HIDE DEF N, g
<1>6. /\ g.low = low /\ g.high = high /\ g.sig = sig /\ g.u = u /\ g.m = m
      /\ g.bucketCount = N /\ g.countsLen = (N + 1) * 2^m
  BY <1>4
<1>7. Sized(g) BY <1>1, <1>2, <1>3, <1>6 DEF Sized
<1>8. g = ExactGeometry(g.low, g.high, g.sig) BY <1>6 DEF g
<1>9. Built(g) BY <1>1, <1>2, <1>5, <1>6, <1>7, <1>8 DEF Built
<1> QED BY <1>9 DEF g

\* A lowest value below 1 is read as 1.
LEMMA ClampFacts ==
  ASSUME NEW a, IsArgs(a)
  PROVE  /\ ClampLow(a.low) \in 1..MaxInt
         /\ ClampSig(a.sig) \in 1..5
<1>1. MaxInt >= 1
  <2>1. W \in Nat /\ 1 <= W BY MaxIntFacts
  <2>2. 2^1 <= 2^W BY <2>1, PowerMonotone
  <2>3. 2^1 = 2 OBVIOUS
  <2> QED BY <2>2, <2>3, MaxIntFacts
<1> QED BY <1>1, MaxIntFacts DEF IsArgs, ClampLow, ClampSig, Larger, Smaller

\* New and newGeometry.
LEMMA NewBuilt == ASSUME NEW a, IsArgs(a), NewAccepts(a) PROVE Built(NewGeometry(a))
<1>1. ClampLow(a.low) \in 1..MaxInt /\ ClampSig(a.sig) \in 0..5 BY ClampFacts
<1>2. a.high \in Int BY MaxIntFacts DEF IsArgs
<1>3. Representable(ClampLow(a.low), ClampSig(a.sig)) BY DEF NewAccepts
<1> QED BY <1>1, <1>2, <1>3, ExactBuilt DEF NewGeometry

\* wireGeometry, of Import and of the decoders.
LEMMA WireBuilt == ASSUME NEW a, IsArgs(a), WireAccepts(a) PROVE Built(WireGeometry(a))
<1>1. ClampLow(a.low) \in 1..MaxInt BY ClampFacts
<1>2. a.high \in Int BY MaxIntFacts DEF IsArgs
<1>3. Representable(ClampLow(a.low), a.sig) /\ a.sig \in 0..5 BY DEF WireAccepts
<1> QED BY <1>1, <1>2, <1>3, ExactBuilt DEF WireGeometry

\* Export writes the arguments of a geometry and wireGeometry rebuilds it.
LEMMA WireRebuilds ==
  ASSUME NEW g, Built(g), NEW a, a.low = g.low, a.high = g.high, a.sig = g.sig
  PROVE  WireAccepts(a) /\ WireGeometry(a) = g
<1>1. ClampLow(a.low) = g.low BY MaxIntFacts DEF Built, ClampLow, Larger
<1> QED BY <1>1 DEF Built, WireAccepts, WireGeometry

\* The counts array is long enough for every value up to highestTrackableValue.
LEMMA Covered ==
  ASSUME NEW g, Built(g), NEW v \in 0..MaxInt
  PROVE  /\ CountsIndexFor(g, v) \in Nat
         /\ v <= g.high => CountsIndexFor(g, v) \in 0..(g.countsLen - 1)
<1> DEFINE half == 2^g.m
<1> DEFINE N == g.bucketCount
<1>1. Sized(g) /\ N \in Nat \ {0} /\ g.countsLen = (N + 1) * half
      /\ (g.high < 2^(g.u + g.m + N) \/ g.u + g.m + N = W) /\ g.high \in Int
  BY DEF Built
<1>2. PICK b, s : Cell(g, b, s) /\ Reaches(g, b) /\ At(g, v, b, s) BY <1>1, ValueCell
<1>3. CountsIndexFor(g, v) = b * half + s BY <1>1, <1>2, LocatedOnly
<1>4. /\ b \in Nat /\ s \in Nat /\ s < 2 * half /\ (b > 0 => half <= s)
      /\ half \in Nat \ {0} /\ g.u \in Nat /\ g.m \in Nat /\ W \in Nat /\ v \in Nat
  BY <1>1, <1>2, SizedPowers, MaxIntFacts DEF Cell, Sized
<1> HIDE DEF half
<1>5. CountsIndexFor(g, v) \in Nat
  <2>1. b * half \in Nat BY <1>4
  <2> QED BY <2>1, <1>3, <1>4
<1>6. ASSUME v <= g.high PROVE b < N
  <2> SUFFICES ASSUME N <= b PROVE FALSE BY <1>1, <1>4
  <2>1. g.u + g.m + N # W BY <1>1, <1>2, <1>4 DEF Reaches
  <2>2. g.high < 2^(g.u + g.m + N) BY <1>1, <2>1
  <2> DEFINE q == 2^(b + g.u)
  <2> DEFINE e == g.u + g.m + N
  <2> DEFINE f == b + g.u + g.m
  <2>3. 2^f = half * q /\ q \in Nat BY <1>1, <1>4, SizedPowers DEF half
  <2>4. e \in Nat /\ f \in Nat /\ e <= f BY <1>1, <1>4
  <2>5. s * q <= v BY <1>2 DEF At
  <2> HIDE DEF q, e, f
  <2>6. 2^e <= 2^f /\ 2^e \in Nat /\ 2^f \in Nat BY <2>4, PowerMonotone, PowerFacts
  <2>7. half <= s BY <1>1, <1>4
  <2>8. half * q <= s * q
    <3>1. \A a, d \in Nat : a <= d => a * q <= d * q BY <2>3
    <3> QED BY <3>1, <2>7, <1>4
  <2>9. s * q \in Nat BY <1>4, <2>3
  <2>10. g.high < 2^e BY <2>2 DEF e
  <2> QED BY <2>3, <2>5, <2>6, <2>8, <2>9, <2>10, <1>1, <1>4, <1>6
<1>7. ASSUME b < N PROVE b * half + s < (N + 1) * half
  <2> HIDE DEF N
  <2>1. (b + 1) * half <= N * half BY <1>1, <1>4, <1>7
  <2>2. (b + 1) * half = b * half + half /\ (N + 1) * half = N * half + half BY <1>1, <1>4
  <2>3. b * half \in Nat /\ N * half \in Nat BY <1>1, <1>4
  <2> QED BY <2>1, <2>2, <2>3, <1>4
<1>8. (N + 1) * half \in Nat BY <1>1, <1>4
<1> QED BY <1>1, <1>3, <1>5, <1>6, <1>7, <1>8

\* Every position of the counts array is the index of the value valueFromFlatIndex
\* gives it, and that value is the lowest of its bucket.
LEMMA FlatInverse ==
  ASSUME NEW g, Built(g), NEW i \in 0..(g.countsLen - 1)
  PROVE  /\ ValueFromFlatIndex(g, i) \in 0..MaxInt
         /\ CountsIndexFor(g, ValueFromFlatIndex(g, i)) = i
<1> DEFINE half == 2^g.m
<1> DEFINE N == g.bucketCount
<1>1. Sized(g) /\ N \in Nat \ {0} /\ N + g.u + g.m <= W /\ g.countsLen = (N + 1) * half
  BY DEF Built
<1>2. half \in Nat \ {0} /\ g.u \in Nat /\ g.m \in Nat /\ W \in Nat
  BY <1>1, SizedPowers, MaxIntFacts DEF Sized
<1>3. i \in Nat /\ i < (N + 1) * half
  <2>1. (N + 1) * half \in Nat
    <3> HIDE DEF N, half
    <3> QED BY <1>1, <1>2
  <2> QED BY <2>1, <1>1
<1>4. PICK b, s : Cell(g, b, s) /\ i = b * half + s BY <1>1, <1>3, FlatCell
<1>5. b \in Nat /\ s \in Nat /\ (b > 0 => half <= s) BY <1>4 DEF Cell
<1> HIDE DEF half
<1>6. b < N
  <2> SUFFICES ASSUME N <= b PROVE FALSE BY <1>1, <1>5
  <2> HIDE DEF N
  <2>1. N * half <= b * half BY <1>1, <1>2, <1>5
  <2>2. (N + 1) * half = N * half + half /\ N * half \in Nat /\ b * half \in Nat BY <1>1, <1>2, <1>5
  <2>3. half <= s BY <1>1, <1>5
  <2> QED BY <2>1, <2>2, <2>3, <1>2, <1>3, <1>4, <1>5
<1>7. Reaches(g, b) BY <1>1, <1>2, <1>5, <1>6 DEF Reaches
<1> DEFINE x == s * 2^(b + g.u)
<1>8. ValueFromFlatIndex(g, i) = x BY <1>1, <1>4, FlatValue DEF half
<1>9. x \in 0..MaxInt /\ At(g, x, b, s)
  <2> DEFINE q == 2^(b + g.u)
  <2>1. q \in Nat \ {0} /\ s * q \in Nat BY <1>1, <1>4, <1>7, CellEnds
  <2>2. x \in Int /\ s * q <= x /\ x <= s * q + q - 1 BY <2>1
  <2> HIDE DEF x
  <2> QED BY <2>2, <1>1, <1>4, <1>7, CellAt
<1> HIDE DEF x
<1>10. CountsIndexFor(g, x) = i BY <1>1, <1>4, <1>9, LocatedOnly DEF half
<1> QED BY <1>8, <1>9, <1>10

\* The precision of a geometry: no bucket is wider than the unit, or than the
\* last significant digit of the values in it.
LEMMA BucketWidth ==
  ASSUME NEW g, Built(g), NEW v \in 0..MaxInt
  PROVE  SizeOfRange(g, v) <= LowUnit(g.low) \/ SizeOfRange(g, v) <= v \div 10^g.sig
<1>1. Sized(g) /\ 10^g.sig <= 2^g.m /\ 2^g.u <= LowUnit(g.low) /\ g.sig \in 0..5 BY DEF Built
<1>2. PICK b, s : Cell(g, b, s) /\ Reaches(g, b) /\ At(g, v, b, s) BY <1>1, ValueCell
<1> DEFINE q == 2^(b + g.u)
<1>3. SizeOfRange(g, v) = q /\ s * q <= v BY <1>1, <1>2, Equivalent
<1>4. b \in Nat /\ s \in Nat /\ (b > 0 => 2^g.m <= s) /\ q \in Nat \ {0} /\ v \in Nat /\ g.u \in Nat
      /\ 2^g.m \in Nat /\ s * q \in Nat
  BY <1>1, <1>2, CellEnds, SizedPowers, MaxIntFacts DEF Cell, Sized
<1>5. CASE b = 0
  <2>1. b + g.u = g.u BY <1>4, <1>5
  <2> QED BY <1>1, <1>3, <2>1
<1>6. CASE b > 0
  <2> DEFINE d == 10^g.sig
  <2>1. d \in Nat \ {0} /\ d <= 2^g.m BY <1>1, HalfCountFacts
  <2> HIDE DEF d, q
  <2>2. q * d <= s * q
    <3>1. d <= s BY <2>1, <1>4, <1>6
    <3>2. \A x, y \in Nat : x <= y => q * x <= y * q BY <1>4
    <3> QED BY <2>1, <3>1, <3>2, <1>4
  <2>3. q * d <= v
    <3>1. q * d \in Nat BY <2>1, <1>4
    <3> QED BY <2>2, <3>1, <1>3, <1>4
  <2>4. q <= v \div d BY <2>1, <2>3, <1>4, DivBetween
  <2> QED BY <2>4, <1>3 DEF d
<1> QED BY <1>4, <1>5, <1>6

-----------------------------------------------------------------------------
(* What the iterators visit.                                               *)

\* A nonempty set of positions has a first one and a last one.
LEMMA EndsOf ==
  ASSUME NEW L \in Nat, NEW T, T \subseteq 0..(L - 1), T # {}
  PROVE  /\ \E i \in T : \A j \in T : i <= j
         /\ \E i \in T : \A j \in T : j <= i
<1>1. \E i \in T : \A j \in T : i <= j
  <2>1. T \in SUBSET Nat OBVIOUS
  <2> QED BY <2>1, LeastElement
<1>2. \E i \in T : \A j \in T : j <= i
  <2> DEFINE U == {L - i : i \in T}
  <2>1. U \in SUBSET Nat /\ U # {} OBVIOUS
  <2>2. PICK m \in U : \A k \in U : m <= k BY <2>1, LeastElement
  <2>3. PICK i \in T : m = L - i BY <2>2
  <2>4. \A j \in T : L - i <= L - j BY <2>2, <2>3
  <2>5. \A j \in T : j <= i BY <2>4
  <2> QED BY <2>5
<1> QED BY <1>1, <1>2

\* The iterator's limit, the total, cuts off no populated position, and a
\* histogram with a total has one.
LEMMA PopulatedVisited ==
  ASSUME NEW x, NEW L \in Nat, x.counts \in [0..(L - 1) -> Nat],
         x.total = PrefixSum(x.counts)[L], x.total > 0
  PROVE  Populated(x) \subseteq Visited(x) /\ Populated(x) # {} /\ Populated(x) \subseteq 0..(L - 1)
<1> DEFINE c == x.counts
<1>1. DOMAIN c = 0..(L - 1) /\ \A i \in 0..(L - 1) : c[i] \in Nat OBVIOUS
<1> HIDE DEF c
<1>2. ASSUME NEW i \in 0..(L - 1), c[i] # 0 PROVE PrefixSum(c)[i] < PrefixSum(c)[L]
  <2>1. c[i] \in Nat /\ L \in 0..L /\ i + 1 \in 0..L /\ i \in 0..(i + 1) /\ i \in Nat BY <1>1
  <2>2. PrefixSum(c)[i + 1] = PrefixSum(c)[i] + c[i] BY <2>1, PrefixSumStep
  <2>3. PrefixSum(c)[i] \in Nat /\ PrefixSum(c)[i + 1] \in Nat /\ PrefixSum(c)[L] \in Nat
        /\ PrefixSum(c)[i + 1] <= PrefixSum(c)[L]
    BY <1>1, <2>1, PrefixSumMonotone
  <2> QED BY <1>2, <2>1, <2>2, <2>3
<1>3. Populated(x) \subseteq Visited(x) /\ Populated(x) \subseteq 0..(L - 1)
  BY <1>1, <1>2 DEF Populated, Visited, c
<1>4. Populated(x) # {}
  <2> SUFFICES ASSUME Populated(x) = {} PROVE FALSE OBVIOUS
  <2>1. \A i \in 0..(L - 1) : c[i] = 0 BY <1>1 DEF Populated, c
  <2>2. PrefixSum(c)[L] = 0
    <3>1. L \in 0..L OBVIOUS
    <3> QED BY <2>1, <3>1, PrefixSumOfZeros
  <2> QED BY <2>2 DEF c
<1> QED BY <1>3, <1>4

\* The ends of the bucket at a position: both are stored there and each is its
\* own end; a later position has a later bucket.
LEMMA PositionEnds ==
  ASSUME NEW g, Built(g), NEW i \in 0..(g.countsLen - 1)
  PROVE  LET lo == ValueFromFlatIndex(g, i)
             hi == HighestEquivalent(g, lo)
         IN  /\ lo \in 0..MaxInt /\ hi \in 0..MaxInt
             /\ CountsIndexFor(g, lo) = i /\ CountsIndexFor(g, hi) = i
             /\ LowestEquivalent(g, hi) = lo /\ HighestEquivalent(g, hi) = hi
<1> DEFINE lo == ValueFromFlatIndex(g, i)
           hi == HighestEquivalent(g, lo)
           top == HighestEquivalent(g, hi)
<1>0. Sized(g) BY DEF Built
<1>1. lo \in 0..MaxInt /\ CountsIndexFor(g, lo) = i BY FlatInverse
<1>2. InvertsAt(g, lo) BY <1>0, <1>1, IndexInverse
<1>3. hi \in 0..MaxInt /\ CountsIndexFor(g, hi) = i /\ (hi < MaxInt => CountsIndexFor(g, hi + 1) = i + 1)
  BY <1>1, <1>2 DEF InvertsAt
<1>4. InvertsAt(g, hi) BY <1>0, <1>3, IndexInverse
<1>5. LowestEquivalent(g, hi) = lo /\ top \in 0..MaxInt /\ hi <= top /\ CountsIndexFor(g, top) = i
  BY <1>3, <1>4 DEF InvertsAt
<1>6. top = hi
  <2> HIDE DEF lo, hi, top
  <2> SUFFICES ASSUME hi < top PROVE FALSE BY <1>3, <1>5, MaxIntFacts
  <2>1. hi < MaxInt /\ hi + 1 \in 0..MaxInt /\ hi + 1 <= top BY <1>3, <1>5, MaxIntFacts
  <2>2. CountsIndexFor(g, hi + 1) <= CountsIndexFor(g, top) BY <1>0, <1>5, <2>1, IndexMonotone
  <2> QED BY <1>3, <1>5, <2>1, <2>2
<1> QED BY <1>1, <1>3, <1>5, <1>6

\* Values at different positions compare as the positions do.
LEMMA PositionOrder ==
  ASSUME NEW g, Built(g), NEW x \in 0..MaxInt, NEW y \in 0..MaxInt,
         CountsIndexFor(g, x) \in Int, CountsIndexFor(g, y) \in Int,
         CountsIndexFor(g, x) < CountsIndexFor(g, y)
  PROVE  x <= y
<1> SUFFICES ASSUME y <= x PROVE FALSE BY MaxIntFacts
<1>1. CountsIndexFor(g, y) <= CountsIndexFor(g, x) BY IndexMonotone DEF Built
<1> QED BY <1>1

\* Max and Min of a consistent histogram with values in it: the bounds and the
\* populated buckets they are in.
LEMMA ExtremesOf ==
  ASSUME NEW x, Built(x.geom), NEW L \in Nat, x.geom.countsLen = L,
         x.counts \in [0..(L - 1) -> Nat], x.total = PrefixSum(x.counts)[L], x.total > 0
  PROVE  /\ \A i \in Populated(x) :
              /\ MinOf(x) <= ValueFromFlatIndex(x.geom, i)
              /\ HighestEquivalent(x.geom, ValueFromFlatIndex(x.geom, i)) <= MaxOf(x)
         /\ CountsIndexFor(x.geom, MinOf(x)) \in Populated(x)
         /\ CountsIndexFor(x.geom, MaxOf(x)) \in Populated(x)
<1> DEFINE g == x.geom
           P == Populated(x)
           first == CHOOSE i \in P : \A j \in P : i <= j
           last == CHOOSE i \in P : \A j \in P : j <= i
           Lo(i) == ValueFromFlatIndex(g, i)
           Hi(i) == HighestEquivalent(g, Lo(i))
<1>1. P \subseteq Visited(x) /\ P # {} /\ P \subseteq 0..(L - 1) BY PopulatedVisited
<1>2. Visited(x) \intersect Populated(x) = P BY <1>1
<1>3. first \in P /\ \A j \in P : first <= j
  <2>1. \E i \in P : \A j \in P : i <= j BY <1>1, EndsOf
  <2> HIDE DEF P
  <2> QED BY <2>1
<1>4. last \in P /\ \A j \in P : j <= last
  <2>1. \E i \in P : \A j \in P : j <= i BY <1>1, EndsOf
  <2> HIDE DEF P
  <2> QED BY <2>1
<1>5. \A i \in P : /\ Lo(i) \in 0..MaxInt /\ Hi(i) \in 0..MaxInt
                   /\ CountsIndexFor(g, Lo(i)) = i /\ CountsIndexFor(g, Hi(i)) = i
                   /\ LowestEquivalent(g, Hi(i)) = Lo(i) /\ HighestEquivalent(g, Hi(i)) = Hi(i)
  <2> SUFFICES ASSUME NEW i \in P
               PROVE  /\ Lo(i) \in 0..MaxInt /\ Hi(i) \in 0..MaxInt
                      /\ CountsIndexFor(g, Lo(i)) = i /\ CountsIndexFor(g, Hi(i)) = i
                      /\ LowestEquivalent(g, Hi(i)) = Lo(i) /\ HighestEquivalent(g, Hi(i)) = Hi(i)
    OBVIOUS
  <2>1. i \in 0..(g.countsLen - 1) BY <1>1
  <2> QED BY <2>1, PositionEnds
<1>6. MinOf(x) = Lo(first)
  <2>1. MinOf(x) = LowestEquivalent(g, Hi(first)) BY <1>1, <1>2 DEF MinOf
  <2> QED BY <2>1, <1>3, <1>5
<1>7. MaxOf(x) = Hi(last)
  <2>1. MaxOf(x) = HighestEquivalent(g, Hi(last)) BY <1>1, <1>2 DEF MaxOf
  <2> QED BY <2>1, <1>4, <1>5
<1> HIDE DEF first, last, P, Lo, Hi
<1>8. ASSUME NEW i \in P PROVE Lo(first) <= Lo(i) /\ Hi(i) <= Hi(last)
  <2>1. i \in Nat /\ first \in Nat /\ last \in Nat BY <1>1, <1>3, <1>4
  <2>2. Lo(first) <= Lo(i)
    <3>1. CASE first = i BY <3>1, <1>5, MaxIntFacts
    <3>2. CASE first < i BY <3>2, <2>1, <1>3, <1>5, PositionOrder
    <3> QED BY <3>1, <3>2, <2>1, <1>3
  <2>3. Hi(i) <= Hi(last)
    <3>1. CASE last = i BY <3>1, <1>5, MaxIntFacts
    <3>2. CASE i < last
      <4>1. /\ Hi(i) \in 0..MaxInt /\ CountsIndexFor(g, Hi(i)) = i
            /\ Hi(last) \in 0..MaxInt /\ CountsIndexFor(g, Hi(last)) = last
        BY <1>4, <1>5
      <4> HIDE DEF g
      <4> QED BY <3>2, <2>1, <4>1, PositionOrder DEF g
    <3> QED BY <3>1, <3>2, <2>1, <1>4
  <2> QED BY <2>2, <2>3
<1> QED BY <1>3, <1>4, <1>5, <1>6, <1>7, <1>8 DEF P, Lo, Hi
=============================================================================
