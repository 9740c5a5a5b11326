----------------------- MODULE PackedHistogramProofs ------------------------
(***************************************************************************)
(* The packed type, for every set of histograms, geometry, width table and *)
(* input: its storage stays well formed, its totals are its sums, every    *)
(* call computes what its documentation says, and it implements the        *)
(* abstract store of BucketStore.                                          *)
(*                                                                         *)
(* The inductive invariant is Sound, near the end: every packed histogram  *)
(* is Good (ascending indices, positive counts that fit the width, and the *)
(* saturated sum as total) and every dense partner is Plain.  What leads   *)
(* up to it is one lemma per operation, saying that it maps Good to Good   *)
(* and what it does to Count, the count that the stored buckets give a     *)
(* position.  A loop of the model is a recursive function; its ...Loop     *)
(* lemma turns it into a history g with one step equation for each         *)
(* iteration, and the facts about the loop are an induction over g with a  *)
(* named loop invariant (Searching, Caught, Merging, Passed, Filling,      *)
(* Decoding).                                                              *)
(***************************************************************************)
EXTENDS PackedHistogram, ArithmeticProofs

-----------------------------------------------------------------------------
(* Geometries, widths and slots.                                            *)

\* Every geometry is one that the constructors build from int64 arguments.
LEMMA GeometriesBuilt ==
  \A g \in Geometries : Built(g) /\ g.countsLen \in Nat \ {0}
<1>1. \A a \in Args : IsArgs(a) BY ArgsAssumption DEF IsArgs
<1>2. ASSUME NEW g \in Geometries PROVE Built(g) BY <1>1, NewBuilt, WireBuilt DEF Geometries
<1>3. ASSUME NEW g \in Geometries PROVE g.countsLen \in Nat \ {0}
  <2> DEFINE half == 2^g.m
  <2> DEFINE n == g.bucketCount + 1
  <2>1. g.bucketCount \in Nat \ {0} /\ g.countsLen = n * half /\ Sized(g) BY <1>2 DEF Built
  <2>2. half \in Nat \ {0}
    <3>1. 0 \in Nat OBVIOUS
    <3> QED BY <2>1, <3>1, SizedPowers
  <2>3. n \in Nat \ {0} BY <2>1
  <2> HIDE DEF half, n
  <2>4. n * half \in Nat /\ n * half # 0 BY <2>2, <2>3
  <2> QED BY <2>1, <2>4
<1> QED BY <1>2, <1>3

\* The wider a slot the more it holds, up to MaxInt64.
LEMMA LimitFacts ==
  /\ Top \in Nat \ {0}
  /\ \A w \in 1..Top : Limit[w] \in Nat \ {0} /\ Limit[w] <= MaxCount
  /\ \A v, w \in 1..Top : v <= w => Limit[v] <= Limit[w]
<1>1. Top \in Nat \ {0} /\ \A w \in 1..Top : Limit[w] \in Nat \ {0}
  BY LimitAssumption DEF Top
<1>2. \A w \in 1..(Top - 1) : Limit[w] < Limit[w + 1] BY LimitAssumption
<1>3. ASSUME NEW v \in 1..Top, NEW w \in 1..Top, v <= w PROVE Limit[v] <= Limit[w]
  <2> DEFINE S == {n \in Nat : v + n <= Top => Limit[v] <= Limit[v + n]}
  <2>1. 0 \in S BY <1>1
  <2>2. ASSUME NEW n \in S PROVE n + 1 \in S
    <3> SUFFICES ASSUME v + (n + 1) <= Top PROVE Limit[v] <= Limit[v + (n + 1)] OBVIOUS
    <3>1. v + n \in 1..(Top - 1) /\ v + (n + 1) = (v + n) + 1 /\ v + n \in 1..Top /\ (v + n) + 1 \in 1..Top BY <1>1
    <3>2. Limit[v] <= Limit[v + n] BY <3>1
    <3>3. Limit[v + n] < Limit[(v + n) + 1] BY <3>1, <1>2
    <3>4. Limit[v] \in Nat /\ Limit[v + n] \in Nat /\ Limit[(v + n) + 1] \in Nat BY <3>1, <1>1
    <3> QED BY <3>1, <3>2, <3>3, <3>4
  <2>3. S = Nat
    <3>1. S \in SUBSET Nat OBVIOUS
    <3> HIDE DEF S
    <3> QED BY <2>1, <2>2, <3>1, SetInduction
  <2>4. w - v \in Nat /\ v + (w - v) = w /\ w <= Top BY <1>1, <1>3
  <2>5. w - v \in S BY <2>3, <2>4
  <2> QED BY <2>4, <2>5
<1>4. ASSUME NEW w \in 1..Top PROVE Limit[w] <= MaxCount
  <2>1. Top \in 1..Top /\ w <= Top BY <1>1
  <2>2. Limit[w] <= Limit[Top] BY <2>1, <1>3
  <2> QED BY <2>2, LimitAssumption
<1> QED BY <1>1, <1>3, <1>4

\* A count within the limit of a width survives being written at it.
LEMMA SlotExact ==
  ASSUME NEW w \in 1..Top, NEW val \in 0..Limit[w]
  PROVE  Slot(w, val) = val
<1>1. Limit[w] \in Nat /\ Limit[w] <= MaxCount BY LimitFacts
<1>2. CASE w < Top
  <2>1. val % (Limit[w] + 1) = val BY <1>1
  <2> QED BY <1>2, <2>1 DEF Slot
<1>3. CASE ~(w < Top)
  <2>1. val \in Int64 BY <1>1, MaxCountAssumption DEF Int64
  <2> QED BY <1>3, <2>1, Wrap64Id DEF Slot
<1> QED BY <1>2, <1>3

\* widenToFit finds a width that holds what is needed.
LEMMA FittingFacts ==
  ASSUME NEW w \in 1..Top, NEW need \in 0..MaxCount
  PROVE  /\ Fitting(w, need) \in w..Top
         /\ Fitting(w, need) \in 1..Top
         /\ need <= Limit[Fitting(w, need)]
<1> DEFINE T == {k \in Nat : k \in w..Top /\ need <= Limit[k]}
<1> DEFINE P(k) == /\ need <= Limit[k] \/ k = Top
                   /\ \A j \in w..(k - 1) : need > Limit[j]
<1>1. /\ Top \in Nat \ {0} /\ Limit[Top] = MaxCount
      /\ \A k \in w..Top : Limit[k] \in Nat
  BY LimitFacts, LimitAssumption
<1>2. Top \in T BY <1>1
<1>3. PICK m \in T : \A k \in T : m <= k
  <2>1. T \in SUBSET Nat /\ T # {} BY <1>2
  <2> HIDE DEF T
  <2> QED BY <2>1, LeastElement
<1>4. m \in w..Top /\ P(m)
  <2>1. m \in w..Top /\ need <= Limit[m] OBVIOUS
  <2>2. ASSUME NEW j \in w..(m - 1) PROVE need > Limit[j]
    <3>1. j \in w..Top /\ j \in Nat /\ j < m BY <2>1, <1>1
    <3>2. j \notin T BY <3>1, <1>3
    <3>3. Limit[j] \in Nat BY <3>1, <1>1
    <3> QED BY <3>1, <3>2, <3>3
  <2> QED BY <2>1, <2>2
<1> DEFINE F == Fitting(w, need)
<1>5. F = CHOOSE k \in w..Top : P(k) BY DEF Fitting
<1>6. F \in w..Top /\ P(F)
  <2> HIDE DEF P, F
  <2> QED BY <1>4, <1>5
<1>7. F \in 1..Top /\ need <= Limit[F]
  <2> HIDE DEF F
  <2> QED BY <1>6, <1>1
<1> QED BY <1>6, <1>7

-----------------------------------------------------------------------------
(* The shape of the storage.                                                *)

Fields == {"geom", "idx", "cnt", "width", "size", "total", "lastIndex", "lastPos"}

\* The array a of length n ascends.
Ascending(a, n) == \A i, j \in 0..(n - 1) : i < j => a[i] < a[j]

\* r is a packed histogram whose buckets are in order, within its geometry, and
\* populated, and whose counts fit the width.
Stored(r) ==
  /\ DOMAIN r = Fields
  /\ r.geom \in Geometries
  /\ r.size \in Nat
  /\ r.width \in 1..Top
  /\ r.idx \in [0..(r.size - 1) -> 0..(r.geom.countsLen - 1)]
  /\ r.cnt \in [0..(r.size - 1) -> 1..Limit[r.width]]
  /\ Ascending(r.idx, r.size)
  /\ r.lastIndex \in Nat /\ r.lastPos \in Nat

\* s differs from r in its buckets and its width only.
Kept(r, s) ==
  /\ s.geom = r.geom /\ s.total = r.total
  /\ s.lastIndex = r.lastIndex /\ s.lastPos = r.lastPos

\* What Stored says of one bucket.
LEMMA BucketFacts ==
  ASSUME NEW r, Stored(r), NEW k \in 0..(r.size - 1)
  PROVE  /\ r.idx[k] \in Nat /\ r.idx[k] \in 0..(r.geom.countsLen - 1)
         /\ r.cnt[k] \in Nat /\ r.cnt[k] \in 1..MaxCount /\ r.cnt[k] <= Limit[r.width]
         /\ r.geom.countsLen \in Nat
<1>1. r.geom.countsLen \in Nat BY GeometriesBuilt DEF Stored
<1>2. Limit[r.width] \in Nat /\ Limit[r.width] <= MaxCount BY LimitFacts DEF Stored
<1>3. r.idx[k] \in 0..(r.geom.countsLen - 1) /\ r.cnt[k] \in 1..Limit[r.width] BY DEF Stored
<1> QED BY <1>1, <1>2, <1>3, MaxCountAssumption

\* Rewriting the counts at a width that holds them changes nothing but the width.
LEMMA RepackedFacts ==
  ASSUME NEW r, Stored(r), NEW w \in 1..Top, \A i \in 0..(r.size - 1) : r.cnt[i] <= Limit[w]
  PROVE  LET s == Repacked(r, w) IN
         Stored(s) /\ Kept(r, s) /\ s.size = r.size /\ s.idx = r.idx /\ s.cnt = r.cnt /\ s.width = w
<1> DEFINE s == Repacked(r, w)
<1> DEFINE c == [i \in DOMAIN r.cnt |-> Slot(w, r.cnt[i])]
<1>1. /\ DOMAIN s = Fields /\ s.geom = r.geom /\ s.total = r.total /\ s.lastIndex = r.lastIndex
      /\ s.lastPos = r.lastPos /\ s.size = r.size /\ s.idx = r.idx /\ s.width = w /\ s.cnt = c
  BY DEF Repacked, Stored, Fields
<1> HIDE DEF s
<1>2. DOMAIN r.cnt = 0..(r.size - 1) /\ r.cnt = [i \in 0..(r.size - 1) |-> r.cnt[i]] BY DEF Stored
<1>3. ASSUME NEW i \in 0..(r.size - 1) PROVE Slot(w, r.cnt[i]) = r.cnt[i] /\ r.cnt[i] \in 1..Limit[w]
  <2>1. r.cnt[i] \in Nat /\ r.cnt[i] \in 1..MaxCount BY BucketFacts
  <2>2. Limit[w] \in Nat BY LimitFacts
  <2>3. r.cnt[i] \in 0..Limit[w] BY <2>1, <2>2
  <2> QED BY <2>1, <2>2, <2>3, SlotExact
<1>4. c = r.cnt BY <1>2, <1>3
<1>5. r.cnt \in [0..(r.size - 1) -> 1..Limit[w]] BY <1>2, <1>3
<1> HIDE DEF c
<1>6. Stored(s) BY <1>1, <1>4, <1>5 DEF Stored
<1> QED BY <1>1, <1>4, <1>6 DEF s, Kept

\* widenToFit changes nothing but the width, which then holds the need.
LEMMA WidenFacts ==
  ASSUME NEW r, Stored(r), NEW need \in 0..MaxCount
  PROVE  LET s == WidenToFit(r, need) IN
         /\ Stored(s) /\ Kept(r, s) /\ s.size = r.size /\ s.idx = r.idx /\ s.cnt = r.cnt
         /\ need <= Limit[s.width]
<1> DEFINE w == Fitting(r.width, need)
<1>1. r.width \in 1..Top BY DEF Stored
<1>2. w \in r.width..Top /\ w \in 1..Top /\ need <= Limit[w] BY <1>1, FittingFacts
<1> HIDE DEF w
<1>3. Limit[r.width] <= Limit[w] /\ Limit[r.width] \in Nat /\ Limit[w] \in Nat
  <2>1. r.width <= w BY <1>1, <1>2, LimitFacts
  <2> QED BY <1>1, <1>2, <2>1, LimitFacts
<1>4. \A i \in 0..(r.size - 1) : r.cnt[i] <= Limit[w]
  <2> SUFFICES ASSUME NEW i \in 0..(r.size - 1) PROVE r.cnt[i] <= Limit[w] OBVIOUS
  <2>1. r.cnt[i] \in Nat /\ r.cnt[i] <= Limit[r.width] BY BucketFacts
  <2> QED BY <2>1, <1>3
<1>5. WidenToFit(r, need) = Repacked(r, w) BY DEF WidenToFit, w
<1> QED BY <1>2, <1>4, <1>5, RepackedFacts

\* Writing a count that fits the width.
LEMMA SlotSetFacts ==
  ASSUME NEW r, Stored(r), NEW pos \in 0..(r.size - 1), NEW val \in 1..Limit[r.width]
  PROVE  LET s == SlotSet(r, pos, val) IN
         /\ Stored(s) /\ Kept(r, s) /\ s.size = r.size /\ s.idx = r.idx
         /\ s.cnt = [r.cnt EXCEPT ![pos] = val]
<1> DEFINE s == SlotSet(r, pos, val)
<1>1. /\ DOMAIN s = Fields /\ s.geom = r.geom /\ s.total = r.total /\ s.lastIndex = r.lastIndex
      /\ s.lastPos = r.lastPos /\ s.size = r.size /\ s.idx = r.idx /\ s.width = r.width
      /\ s.cnt = [r.cnt EXCEPT ![pos] = Slot(r.width, val)]
  BY DEF SlotSet, Stored, Fields
<1> HIDE DEF s
<1>2. Slot(r.width, val) = val
  <2>1. r.width \in 1..Top /\ Limit[r.width] \in Nat BY LimitFacts DEF Stored
  <2>2. val \in 0..Limit[r.width] BY <2>1
  <2> QED BY <2>1, <2>2, SlotExact
<1>3. s.cnt = [r.cnt EXCEPT ![pos] = val] BY <1>1, <1>2
<1>4. s.cnt \in [0..(r.size - 1) -> 1..Limit[r.width]] BY <1>3 DEF Stored
<1>5. Stored(s) BY <1>1, <1>4 DEF Stored
<1> QED BY <1>1, <1>3, <1>5 DEF s, Kept

-----------------------------------------------------------------------------
(* The binary search.                                                       *)

\* The binary search is a loop.
LEMMA LowerBoundLoop ==
  ASSUME NEW r, NEW key, r.size \in Nat
  PROVE  \E g : /\ g[0] = [base |-> 0, n |-> r.size]
                /\ \A k \in 0..(r.size - 1) : g[k + 1] = Halved(r, key, g[k])
                /\ LowerBound(r, key) = g[r.size].base
<1> DEFINE N == r.size
<1> DEFINE x == [base |-> 0, n |-> r.size]
<1> DEFINE Eq(f, n) == f = [k \in 0..n |-> IF k = 0 THEN x ELSE Halved(r, key, f[k - 1])]
<1> DEFINE T == {n \in Nat : \E f : Eq(f, n)}
<1>1. 0 \in T
  <2>1. Eq([k \in 0..0 |-> x], 0) OBVIOUS
  <2> QED BY <2>1
<1>2. ASSUME NEW n \in T PROVE n + 1 \in T
  <2>1. PICK f : Eq(f, n) OBVIOUS
  <2> DEFINE h == [k \in 0..(n + 1) |-> IF k = n + 1 THEN Halved(r, key, f[n]) ELSE f[k]]
  <2>2. ASSUME NEW k \in 0..(n + 1)
        PROVE  h[k] = IF k = 0 THEN x ELSE Halved(r, key, h[k - 1])
    <3> HIDE DEF x
    <3>1. CASE k = n + 1
      <4>1. k - 1 = n /\ k # 0 /\ h[k - 1] = f[n] BY <3>1
      <4>2. h[k] = Halved(r, key, f[n]) BY <3>1
      <4> HIDE DEF h
      <4> QED BY <3>1, <4>1, <4>2
    <3>2. CASE k # n + 1
      <4>1. k \in 0..n /\ h[k] = f[k] /\ (k # 0 => h[k - 1] = f[k - 1]) BY <3>2
      <4> HIDE DEF h
      <4>2. f[k] = IF k = 0 THEN x ELSE Halved(r, key, f[k - 1]) BY <2>1, <4>1
      <4> QED BY <4>1, <4>2
    <3> QED BY <3>1, <3>2
  <2>3. Eq(h, n + 1)
    <3> DEFINE d == [k \in 0..(n + 1) |-> IF k = 0 THEN x ELSE Halved(r, key, h[k - 1])]
    <3>1. \A k \in 0..(n + 1) : h[k] = d[k] BY <2>2
    <3>2. h = d BY <3>1
    <3> QED BY <3>2
  <2>4. \E f1 : Eq(f1, n + 1)
    <3> HIDE DEF h, Eq
    <3> QED BY <2>3
  <2> HIDE DEF Eq
  <2> QED BY <2>4
<1>3. T = Nat
  <2>1. T \in SUBSET Nat OBVIOUS
  <2> HIDE DEF T
  <2> QED BY <1>1, <1>2, <2>1, SetInduction
<1>4. \E f : Eq(f, N)
  <2> HIDE DEF Eq
  <2> QED BY <1>3
<1> DEFINE after == CHOOSE f : Eq(f, N)
<1>5. Eq(after, N)
  <2> HIDE DEF Eq
  <2> QED BY <1>4
<1>6. LowerBound(r, key) = after[r.size].base BY DEF LowerBound
<1> HIDE DEF after
<1>7. after[0] = x BY <1>5
<1>8. ASSUME NEW k \in 0..(N - 1) PROVE after[k + 1] = Halved(r, key, after[k])
  <2>1. k + 1 \in 0..N /\ k + 1 # 0 /\ (k + 1) - 1 = k OBVIOUS
  <2> HIDE DEF x
  <2> QED BY <1>5, <2>1
<1> QED BY <1>6, <1>7, <1>8

\* What is left of base is below the key, what is right of the n positions still
\* to be searched is not.
Searching(r, key, s) ==
  /\ s.base \in Nat /\ s.n \in Nat /\ s.base + s.n <= r.size
  /\ \A i \in 0..(s.base - 1) : r.idx[i] < key
  /\ \A i \in (s.base + s.n)..(r.size - 1) : r.idx[i] >= key

\* One iteration halves what is to be searched and excludes nothing wrongly.
LEMMA HalvedFacts ==
  ASSUME NEW r, Stored(r), NEW key \in Int, NEW s, Searching(r, key, s)
  PROVE  /\ Searching(r, key, Halved(r, key, s))
         /\ Halved(r, key, s).n <= s.n
         /\ s.n > 0 => Halved(r, key, s).n < s.n
<1> DEFINE half == s.n \div 2
<1> DEFINE t == Halved(r, key, s)
<1>1. s.base \in Nat /\ s.n \in Nat /\ s.base + s.n <= r.size /\ r.size \in Nat
  BY DEF Searching, Stored
<1>2. CASE s.n = 0
  <2>1. t = s BY <1>2 DEF Halved
  <2> QED BY <1>1, <1>2, <2>1
<1>3. CASE s.n # 0
  <2> DEFINE mid == s.base + half
  <2>1. half \in Nat /\ half < s.n BY <1>1, <1>3
  <2> HIDE DEF half
  <2>2. mid \in 0..(r.size - 1) /\ mid \in Nat BY <1>1, <2>1
  <2>3. \A i \in 0..(r.size - 1) : r.idx[i] \in Int
    <3> SUFFICES ASSUME NEW i \in 0..(r.size - 1) PROVE r.idx[i] \in Int OBVIOUS
    <3>1. r.idx[i] \in Nat BY BucketFacts
    <3> QED BY <3>1
  <2>4. \A i, j \in 0..(r.size - 1) : i < j => r.idx[i] < r.idx[j] BY DEF Stored, Ascending
  <2>5. CASE r.idx[mid] < key
    <3>1. t.base = mid + 1 /\ t.n = s.n - half - 1 BY <1>3, <2>5 DEF Halved, half
    <3>2. t.base \in Nat /\ t.n \in Nat /\ t.base + t.n = s.base + s.n /\ t.n < s.n
      BY <1>1, <2>1, <3>1
    <3>3. ASSUME NEW i \in 0..(t.base - 1) PROVE r.idx[i] < key
      <4>1. i \in 0..(r.size - 1) /\ (i < mid \/ i = mid) BY <3>1, <2>2, <1>1
      <4>2. i = mid \/ r.idx[i] < r.idx[mid] BY <4>1, <2>2, <2>4
      <4>3. r.idx[i] \in Int /\ r.idx[mid] \in Int BY <4>1, <2>2, <2>3
      <4> QED BY <2>5, <4>2, <4>3
    <3>4. \A i \in (t.base + t.n)..(r.size - 1) : r.idx[i] >= key BY <3>2 DEF Searching
    <3> HIDE DEF t, mid
    <3>5. Searching(r, key, t) BY <1>1, <3>2, <3>3, <3>4 DEF Searching
    <3>6. t.n <= s.n BY <3>2, <1>1
    <3> QED BY <3>2, <3>5, <3>6 DEF t
  <2>6. CASE ~(r.idx[mid] < key)
    <3>1. t.base = s.base /\ t.n = half BY <1>3, <2>6 DEF Halved, half
    <3>2. t.base \in Nat /\ t.n \in Nat /\ t.base + t.n <= r.size /\ t.n < s.n /\ t.base + t.n = mid
      BY <1>1, <2>1, <3>1
    <3>3. ASSUME NEW i \in (t.base + t.n)..(r.size - 1) PROVE r.idx[i] >= key
      <4>1. i \in 0..(r.size - 1) /\ (mid < i \/ i = mid) BY <3>2, <2>2, <1>1
      <4>2. i = mid \/ r.idx[mid] < r.idx[i] BY <4>1, <2>2, <2>4
      <4>3. r.idx[i] \in Int /\ r.idx[mid] \in Int BY <4>1, <2>2, <2>3
      <4> QED BY <2>6, <4>2, <4>3
    <3>4. \A i \in 0..(t.base - 1) : r.idx[i] < key BY <3>1 DEF Searching
    <3> HIDE DEF t, mid
    <3>5. Searching(r, key, t) BY <3>2, <3>3, <3>4 DEF Searching
    <3>6. t.n <= s.n BY <3>2, <1>1
    <3> QED BY <3>2, <3>5, <3>6 DEF t
  <2> QED BY <2>5, <2>6
<1> QED BY <1>2, <1>3

\* lowerBound finds the border between what is below the key and what is not.
LEMMA LowerBoundFacts ==
  ASSUME NEW r, Stored(r), NEW key \in Int
  PROVE  /\ LowerBound(r, key) \in 0..r.size
         /\ \A i \in 0..(LowerBound(r, key) - 1) : r.idx[i] < key
         /\ \A i \in LowerBound(r, key)..(r.size - 1) : r.idx[i] >= key
<1>1. r.size \in Nat BY DEF Stored
<1>2. PICK g : /\ g[0] = [base |-> 0, n |-> r.size]
               /\ \A k \in 0..(r.size - 1) : g[k + 1] = Halved(r, key, g[k])
               /\ LowerBound(r, key) = g[r.size].base
  BY <1>1, LowerBoundLoop
<1> DEFINE S == {k \in Nat : k <= r.size => Searching(r, key, g[k]) /\ g[k].n <= r.size - k}
<1>3. 0 \in S
  <2>1. g[0].base = 0 /\ g[0].n = r.size BY <1>2
  <2>2. Searching(r, key, g[0]) BY <1>1, <2>1 DEF Searching
  <2> QED BY <1>1, <2>1, <2>2
<1>4. ASSUME NEW k \in S PROVE k + 1 \in S
  <2> SUFFICES ASSUME k + 1 <= r.size PROVE Searching(r, key, g[k + 1]) /\ g[k + 1].n <= r.size - (k + 1)
    OBVIOUS
  <2>1. k \in 0..(r.size - 1) /\ k <= r.size BY <1>1
  <2>2. Searching(r, key, g[k]) /\ g[k].n <= r.size - k BY <2>1
  <2>3. g[k + 1] = Halved(r, key, g[k]) BY <1>2, <2>1
  <2> HIDE DEF S
  <2>4. /\ Searching(r, key, g[k + 1]) /\ g[k + 1].n <= g[k].n
        /\ g[k].n > 0 => g[k + 1].n < g[k].n
    BY <2>2, <2>3, HalvedFacts
  <2>5. g[k].n \in Nat /\ g[k + 1].n \in Nat BY <2>2, <2>4 DEF Searching
  <2>6. g[k + 1].n <= r.size - (k + 1) BY <1>1, <2>1, <2>2, <2>4, <2>5
  <2> QED BY <2>4, <2>6
<1>5. S = Nat
  <2>1. S \in SUBSET Nat OBVIOUS
  <2> HIDE DEF S
  <2> QED BY <1>3, <1>4, <2>1, SetInduction
<1>6. Searching(r, key, g[r.size]) /\ g[r.size].n <= 0 BY <1>1, <1>5
<1> DEFINE b == g[r.size].base
<1>7. b \in Nat /\ g[r.size].n = 0 /\ b <= r.size BY <1>1, <1>6 DEF Searching
<1>8. /\ \A i \in 0..(b - 1) : r.idx[i] < key
      /\ \A i \in b..(r.size - 1) : r.idx[i] >= key
  <2>1. b + g[r.size].n = b BY <1>7
  <2> QED BY <1>6, <2>1 DEF Searching
<1> QED BY <1>1, <1>2, <1>7, <1>8

\* Positions of an ascending array are found by what they hold.
LEMMA Distinct ==
  ASSUME NEW r, Stored(r), NEW j \in 0..(r.size - 1), NEW k \in 0..(r.size - 1)
  PROVE  /\ r.idx[j] = r.idx[k] => j = k
         /\ r.idx[j] < r.idx[k] <=> j < k
<1>1. r.idx[j] \in Nat /\ r.idx[k] \in Nat BY BucketFacts
<1>2. j < k => r.idx[j] < r.idx[k] BY DEF Stored, Ascending
<1>3. k < j => r.idx[k] < r.idx[j] BY DEF Stored, Ascending
<1> QED BY <1>1, <1>2, <1>3

\* A histogram has no more buckets than positions.
LEMMA SizeBound ==
  ASSUME NEW r, Stored(r)
  PROVE  r.size \in 0..r.geom.countsLen
<1>1. r.size \in Nat /\ r.geom.countsLen \in Nat BY GeometriesBuilt DEF Stored
<1> DEFINE S == {k \in Nat : k < r.size => k <= r.idx[k]}
<1>2. 0 \in S
  <2> SUFFICES ASSUME 0 < r.size PROVE 0 <= r.idx[0] OBVIOUS
  <2>1. 0 \in 0..(r.size - 1) BY <1>1
  <2>2. r.idx[0] \in Nat BY <2>1, BucketFacts
  <2> QED BY <2>2
<1>3. ASSUME NEW k \in S PROVE k + 1 \in S
  <2> SUFFICES ASSUME k + 1 < r.size PROVE k + 1 <= r.idx[k + 1] OBVIOUS
  <2>1. k \in 0..(r.size - 1) /\ k + 1 \in 0..(r.size - 1) /\ k < k + 1 BY <1>1
  <2>2. k <= r.idx[k]
    <3>1. k \in Nat /\ k < r.size BY <1>1, <2>1
    <3> QED BY <3>1
  <2>3. r.idx[k] < r.idx[k + 1] BY <2>1, Distinct
  <2>4. r.idx[k] \in Nat /\ r.idx[k + 1] \in Nat BY <2>1, BucketFacts
  <2> QED BY <2>2, <2>3, <2>4
<1>4. S = Nat
  <2>1. S \in SUBSET Nat OBVIOUS
  <2> HIDE DEF S
  <2> QED BY <1>2, <1>3, <2>1, SetInduction
<1>5. CASE r.size = 0 BY <1>1, <1>5
<1>6. CASE r.size # 0
  <2> DEFINE k == r.size - 1
  <2>1. k \in Nat /\ k \in 0..(r.size - 1) /\ k < r.size BY <1>1, <1>6
  <2>2. k <= r.idx[k] BY <1>4, <2>1
  <2>3. r.idx[k] \in 0..(r.geom.countsLen - 1) BY <2>1, BucketFacts
  <2> QED BY <1>1, <2>1, <2>2, <2>3
<1> QED BY <1>5, <1>6

-----------------------------------------------------------------------------
(* The counts by position.                                                  *)

\* An array with one entry that is not zero has that entry as its sum.
LEMMA SumOfOne ==
  ASSUME NEW L \in Nat, NEW c, NEW j \in 0..(L - 1), NEW v \in Int,
         \A k \in 0..(L - 1) : c[k] = IF k = j THEN v ELSE 0
  PROVE  PrefixSum(c)[L] = v
<1> DEFINE z == [k \in 0..(L - 1) |-> 0]
<1>1. PrefixSum(z)[L] = 0
  <2>1. \A i \in 0..(L - 1) : z[i] = 0 OBVIOUS
  <2>2. L \in 0..L OBVIOUS
  <2> HIDE DEF z
  <2> QED BY <2>1, <2>2, PrefixSumOfZeros
<1>2. Raised(z, c, L, j, v) BY DEF Raised
<1>3. L \in 0..L /\ j < L OBVIOUS
<1> HIDE DEF z
<1>4. \A n \in 0..L : PrefixSum(c)[n] = PrefixSum(z)[n] + (IF j < n THEN v ELSE 0)
  BY <1>2, PrefixSumUpdate
<1> QED BY <1>1, <1>3, <1>4

\* The count of a position is that of its bucket, or zero.
LEMMA CountFacts ==
  ASSUME NEW r, Stored(r)
  PROVE  /\ \A k \in 0..(r.size - 1) : Count(r, r.idx[k]) = r.cnt[k]
         /\ \A i : (\A k \in 0..(r.size - 1) : r.idx[k] # i) => Count(r, i) = 0
<1>1. r.size \in Nat /\ r.size \in 0..r.size BY DEF Stored
<1>2. ASSUME NEW j \in 0..(r.size - 1) PROVE Count(r, r.idx[j]) = r.cnt[j]
  <2> DEFINE c == [k \in 0..(r.size - 1) |-> IF r.idx[k] = r.idx[j] THEN r.cnt[k] ELSE 0]
  <2>1. Count(r, r.idx[j]) = PrefixSum(c)[r.size] BY DEF Count
  <2>2. r.cnt[j] \in Int
    <3>1. r.cnt[j] \in Nat BY BucketFacts
    <3> QED BY <3>1
  <2>3. ASSUME NEW k \in 0..(r.size - 1) PROVE c[k] = IF k = j THEN r.cnt[j] ELSE 0
    BY Distinct
  <2> HIDE DEF c
  <2>4. PrefixSum(c)[r.size] = r.cnt[j] BY <1>1, <2>2, <2>3, SumOfOne
  <2> QED BY <2>1, <2>4
<1>3. ASSUME NEW i, \A k \in 0..(r.size - 1) : r.idx[k] # i PROVE Count(r, i) = 0
  <2> DEFINE c == [k \in 0..(r.size - 1) |-> IF r.idx[k] = i THEN r.cnt[k] ELSE 0]
  <2>1. Count(r, i) = PrefixSum(c)[r.size] BY DEF Count
  <2>2. \A k \in 0..(r.size - 1) : c[k] = 0 BY <1>3
  <2> HIDE DEF c
  <2>3. PrefixSum(c)[r.size] = 0 BY <1>1, <2>2, PrefixSumOfZeros
  <2> QED BY <2>1, <2>3
<1> QED BY <1>2, <1>3

\* Counts are naturals within the limit.
LEMMA CountType ==
  ASSUME NEW r, Stored(r), NEW i PROVE Count(r, i) \in Nat /\ Count(r, i) <= MaxCount
<1>1. CASE \E k \in 0..(r.size - 1) : r.idx[k] = i
  <2>1. PICK k \in 0..(r.size - 1) : r.idx[k] = i BY <1>1
  <2>2. Count(r, i) = r.cnt[k] BY <2>1, CountFacts
  <2>3. r.cnt[k] \in Nat /\ r.cnt[k] \in 1..MaxCount BY BucketFacts
  <2> QED BY <2>2, <2>3, MaxCountAssumption
<1>2. CASE \A k \in 0..(r.size - 1) : r.idx[k] # i
  <2>1. Count(r, i) = 0 BY <1>2, CountFacts
  <2> QED BY <2>1, MaxCountAssumption
<1> QED BY <1>1, <1>2

\* The counts of a histogram as an array of all positions, and their sum.
Spread(r) == [i \in 0..(r.geom.countsLen - 1) |-> Count(r, i)]
Sum(r) == PrefixSum(r.cnt)[r.size]

\* The first k buckets are those below position b.
Border(r, k, b) ==
  /\ \A j \in 0..(k - 1) : r.idx[j] < b
  /\ \A j \in k..(r.size - 1) : r.idx[j] >= b

\* How the buckets lie around the borders.
LEMMA BorderFacts ==
  ASSUME NEW r, Stored(r)
  PROVE  /\ Border(r, r.size, r.geom.countsLen)
         /\ \A k \in 0..r.size : Border(r, k, 0) => k = 0
         /\ \A b \in 0..(r.geom.countsLen - 1) : \A k \in 0..r.size : Border(r, k, b + 1) =>
              \/ \E j \in 0..(r.size - 1) : r.idx[j] = b /\ k = j + 1 /\ Border(r, j, b)
              \/ (\A j \in 0..(r.size - 1) : r.idx[j] # b) /\ Border(r, k, b)
<1> DEFINE L == r.geom.countsLen
<1>1. L \in Nat /\ r.size \in Nat BY GeometriesBuilt DEF Stored
<1> HIDE DEF L
<1>2. \A j \in 0..(r.size - 1) : r.idx[j] \in Nat /\ r.idx[j] \in 0..(L - 1) BY BucketFacts DEF L
<1>3. Border(r, r.size, L)
  <2> SUFFICES ASSUME NEW j \in 0..(r.size - 1) PROVE r.idx[j] < L BY <1>1 DEF Border
  <2>1. r.idx[j] \in 0..(L - 1) BY <1>2
  <2> QED BY <2>1, <1>1
<1>4. ASSUME NEW k \in 0..r.size, Border(r, k, 0) PROVE k = 0
  <2> SUFFICES ASSUME k # 0 PROVE FALSE OBVIOUS
  <2>1. 0 \in 0..(k - 1) /\ 0 \in 0..(r.size - 1) BY <1>1
  <2>2. r.idx[0] < 0 /\ r.idx[0] \in Nat BY <2>1, <1>2, <1>4 DEF Border
  <2> QED BY <2>2
<1>5. ASSUME NEW b \in 0..(L - 1), NEW k \in 0..r.size, Border(r, k, b + 1)
      PROVE  \/ \E j \in 0..(r.size - 1) : r.idx[j] = b /\ k = j + 1 /\ Border(r, j, b)
             \/ (\A j \in 0..(r.size - 1) : r.idx[j] # b) /\ Border(r, k, b)
  <2>1. b \in Nat BY <1>1
  <2>4. CASE \E j \in 0..(r.size - 1) : r.idx[j] = b
    <3>1. PICK j \in 0..(r.size - 1) : r.idx[j] = b BY <2>4
    <3>2. k = j + 1
      <4>1. j < k
        <5> SUFFICES ASSUME ~(j < k) PROVE FALSE OBVIOUS
        <5>1. j \in k..(r.size - 1) BY <1>1
        <5>2. r.idx[j] >= b + 1 BY <5>1, <1>5 DEF Border
        <5> QED BY <5>2, <3>1, <2>1
      <4>2. ~(j + 1 < k)
        <5> SUFFICES ASSUME j + 1 < k PROVE FALSE OBVIOUS
        <5>1. j + 1 \in 0..(k - 1) /\ j + 1 \in 0..(r.size - 1) /\ j < j + 1 BY <1>1
        <5>2. r.idx[j + 1] < b + 1 BY <5>1, <1>5 DEF Border
        <5>3. r.idx[j] < r.idx[j + 1] BY <5>1, Distinct
        <5>4. r.idx[j + 1] \in Nat BY <5>1, <1>2
        <5> QED BY <5>2, <5>3, <5>4, <3>1, <2>1
      <4> QED BY <4>1, <4>2
    <3>3. Border(r, j, b)
      <4>1. ASSUME NEW i \in 0..(j - 1) PROVE r.idx[i] < b
        <5>1. i \in 0..(r.size - 1) /\ i < j BY <1>1
        <5> QED BY <5>1, <3>1, Distinct
      <4>2. ASSUME NEW i \in j..(r.size - 1) PROVE r.idx[i] >= b
        <5>1. i \in 0..(r.size - 1) /\ (j < i \/ i = j) BY <1>1
        <5>2. i = j \/ r.idx[j] < r.idx[i] BY <5>1, Distinct
        <5>3. r.idx[i] \in Nat BY <5>1, <1>2
        <5> QED BY <5>2, <5>3, <3>1, <2>1
      <4> QED BY <4>1, <4>2 DEF Border
    <3> QED BY <3>1, <3>2, <3>3
  <2>5. CASE \A j \in 0..(r.size - 1) : r.idx[j] # b
    <3>1. ASSUME NEW i \in 0..(k - 1) PROVE r.idx[i] < b
      <4>1. i \in 0..(r.size - 1) BY <1>1
      <4>2. r.idx[i] < b + 1 /\ r.idx[i] # b /\ r.idx[i] \in Nat BY <4>1, <2>5, <1>2, <1>5 DEF Border
      <4> QED BY <4>2, <2>1
    <3>2. ASSUME NEW i \in k..(r.size - 1) PROVE r.idx[i] >= b
      <4>1. i \in 0..(r.size - 1) BY <1>1
      <4>2. r.idx[i] >= b + 1 /\ r.idx[i] \in Nat BY <4>1, <1>2, <1>5 DEF Border
      <4> QED BY <4>2, <2>1
    <3> QED BY <2>5, <3>1, <3>2 DEF Border
  <2> QED BY <2>4, <2>5
<1> QED BY <1>3, <1>4, <1>5 DEF L

\* The counts below a position are those of the buckets below it.
LEMMA SpreadSums ==
  ASSUME NEW r, Stored(r)
  PROVE  \A b \in 0..r.geom.countsLen : \A k \in 0..r.size :
           Border(r, k, b) => PrefixSum(Spread(r))[b] = PrefixSum(r.cnt)[k]
<1> DEFINE L == r.geom.countsLen
<1> DEFINE D == Spread(r)
<1>1. L \in Nat /\ r.size \in Nat BY GeometriesBuilt DEF Stored
<1>2. \A i \in 0..(L - 1) : D[i] = Count(r, i) BY DEF Spread
<1> HIDE DEF L, D
<1>3. \A j \in 0..(r.size - 1) : r.idx[j] \in Nat /\ r.idx[j] \in 0..(L - 1) /\ r.cnt[j] \in Nat
  BY BucketFacts DEF L
<1>4. \A n \in 0..r.size : PrefixSum(r.cnt)[n] \in Int
  <2>1. \A j \in 0..(r.size - 1) : r.cnt[j] \in Int BY <1>3
  <2> QED BY <1>1, <2>1, PrefixSumType
<1> DEFINE S == {b \in Nat : b <= L => \A k \in 0..r.size :
                   Border(r, k, b) => PrefixSum(D)[b] = PrefixSum(r.cnt)[k]}
<1>5. 0 \in S
  <2> SUFFICES ASSUME NEW k \in 0..r.size, Border(r, k, 0) PROVE PrefixSum(D)[0] = PrefixSum(r.cnt)[k]
    OBVIOUS
  <2>1. k = 0 BY BorderFacts
  <2> QED BY <2>1, PrefixSumZero
<1>6. ASSUME NEW b \in S PROVE b + 1 \in S
  <2> SUFFICES ASSUME b + 1 <= L, NEW k \in 0..r.size, Border(r, k, b + 1)
               PROVE  PrefixSum(D)[b + 1] = PrefixSum(r.cnt)[k]
    OBVIOUS
  <2>1. b \in Nat /\ b <= L /\ b \in 0..(L - 1) BY <1>1
  <2>2. \A n \in 0..r.size : Border(r, n, b) => PrefixSum(D)[b] = PrefixSum(r.cnt)[n] BY <2>1
  <2> HIDE DEF S
  <2>3. PrefixSum(D)[b + 1] = PrefixSum(D)[b] + Count(r, b) BY <2>1, <1>2, PrefixSumStep
  <2>4. \/ \E j \in 0..(r.size - 1) : r.idx[j] = b /\ k = j + 1 /\ Border(r, j, b)
        \/ (\A j \in 0..(r.size - 1) : r.idx[j] # b) /\ Border(r, k, b)
    BY <2>1, BorderFacts DEF L
  <2>5. CASE \E j \in 0..(r.size - 1) : r.idx[j] = b /\ k = j + 1 /\ Border(r, j, b)
    <3>1. PICK j \in 0..(r.size - 1) : r.idx[j] = b /\ k = j + 1 /\ Border(r, j, b) BY <2>5
    <3>2. j \in 0..r.size /\ j \in Nat BY <1>1
    <3>3. PrefixSum(D)[b] = PrefixSum(r.cnt)[j] BY <2>2, <3>1, <3>2
    <3>4. Count(r, b) = r.cnt[j] BY <3>1, CountFacts
    <3>5. PrefixSum(r.cnt)[j + 1] = PrefixSum(r.cnt)[j] + r.cnt[j] BY <3>2, PrefixSumStep
    <3> QED BY <2>3, <3>1, <3>3, <3>4, <3>5
  <2>6. CASE (\A j \in 0..(r.size - 1) : r.idx[j] # b) /\ Border(r, k, b)
    <3>1. PrefixSum(D)[b] = PrefixSum(r.cnt)[k] BY <2>2, <2>6
    <3>2. Count(r, b) = 0 BY <2>6, CountFacts
    <3> QED BY <2>3, <3>1, <3>2, <1>4
  <2> QED BY <2>4, <2>5, <2>6
<1>7. S = Nat
  <2>1. S \in SUBSET Nat OBVIOUS
  <2> HIDE DEF S
  <2> QED BY <1>5, <1>6, <2>1, SetInduction
<1>8. ASSUME NEW b \in 0..L, NEW k \in 0..r.size, Border(r, k, b)
      PROVE  PrefixSum(D)[b] = PrefixSum(r.cnt)[k]
  <2>1. b \in S /\ b <= L BY <1>1, <1>7
  <2> QED BY <2>1, <1>8
<1> QED BY <1>8 DEF D, L

\* The buckets and the positions have the same sum.
LEMMA SpreadSum ==
  ASSUME NEW r, Stored(r)
  PROVE  /\ PrefixSum(Spread(r))[r.geom.countsLen] = Sum(r)
         /\ Sum(r) \in Nat
         /\ Spread(r) \in [0..(r.geom.countsLen - 1) -> Nat]
         /\ \A i \in 0..(r.geom.countsLen - 1) : Spread(r)[i] = Count(r, i) /\ Count(r, i) <= Sum(r)
<1> DEFINE L == r.geom.countsLen
<1> DEFINE D == Spread(r)
<1>1. L \in Nat /\ r.size \in Nat /\ L \in 0..L /\ r.size \in 0..r.size BY GeometriesBuilt DEF Stored
<1>2. Border(r, r.size, L)
  <2> SUFFICES ASSUME NEW j \in 0..(r.size - 1) PROVE r.idx[j] < L BY <1>1 DEF Border
  <2>1. r.idx[j] \in 0..(L - 1) BY BucketFacts
  <2> QED BY <2>1, <1>1
<1>3. PrefixSum(D)[L] = Sum(r) BY <1>1, <1>2, SpreadSums DEF Sum
<1>4. \A i \in 0..(L - 1) : D[i] = Count(r, i) /\ Count(r, i) \in Nat BY CountType DEF Spread
<1>5. D \in [0..(L - 1) -> Nat] BY <1>4 DEF Spread
<1> HIDE DEF D
<1>6. ASSUME NEW i \in 0..(L - 1) PROVE D[i] <= PrefixSum(D)[L]
  <2>1. 0 \in Nat OBVIOUS
  <2> HIDE DEF L
  <2> QED BY <1>1, <1>5, <2>1, SumAfterAdd
<1>7. Sum(r) \in Nat
  <2>1. \A j \in 0..(r.size - 1) : r.cnt[j] \in Nat BY BucketFacts
  <2> QED BY <1>1, <2>1, PrefixSumMonotone DEF Sum
<1> QED BY <1>3, <1>4, <1>5, <1>6, <1>7 DEF D

-----------------------------------------------------------------------------
(* Adding to a bucket.                                                      *)

\* addAtExisting raises one count, widening the slots when it must.
LEMMA AddAtExistingFacts ==
  ASSUME NEW r, Stored(r), NEW pos \in 0..(r.size - 1), NEW d \in Nat, r.cnt[pos] + d <= MaxCount
  PROVE  LET s == AddAtExisting(r, pos, d) IN
         /\ Stored(s) /\ Kept(r, s) /\ s.size = r.size /\ s.idx = r.idx
         /\ s.cnt = [r.cnt EXCEPT ![pos] = r.cnt[pos] + d]
<1> DEFINE nv == r.cnt[pos] + d
<1>1. r.cnt[pos] \in Nat /\ r.cnt[pos] \in 1..MaxCount BY BucketFacts
<1>2. nv \in 1..MaxCount /\ nv \in 0..MaxCount /\ nv \in Nat BY <1>1, MaxCountAssumption
<1>3. Wrap64(nv) = nv
  <2>1. nv \in Int64 BY <1>2, Int64Facts
  <2> QED BY <2>1, Wrap64Id
<1> HIDE DEF nv
<1>4. r.width \in 1..Top /\ Limit[r.width] \in Nat /\ Top \in Nat BY LimitFacts DEF Stored
<1>5. CASE r.width < Top /\ nv > Limit[r.width]
  <2> DEFINE w == WidenToFit(r, nv)
  <2>1. /\ Stored(w) /\ Kept(r, w) /\ w.size = r.size /\ w.idx = r.idx /\ w.cnt = r.cnt
        /\ nv <= Limit[w.width]
    BY <1>2, WidenFacts
  <2> HIDE DEF w
  <2>2. Limit[w.width] \in Nat BY <2>1, LimitFacts DEF Stored
  <2>3. nv \in 1..Limit[w.width] /\ pos \in 0..(w.size - 1) BY <1>2, <2>1, <2>2
  <2> DEFINE s == SlotSet(w, pos, nv)
  <2>4. /\ Stored(s) /\ Kept(w, s) /\ s.size = w.size /\ s.idx = w.idx
        /\ s.cnt = [w.cnt EXCEPT ![pos] = nv]
    BY <2>1, <2>3, SlotSetFacts
  <2>5. AddAtExisting(r, pos, d) = s BY <1>3, <1>5 DEF AddAtExisting, nv, w
  <2> HIDE DEF s
  <2>6. Kept(r, s) BY <2>1, <2>4 DEF Kept
  <2> QED BY <2>1, <2>4, <2>5, <2>6 DEF nv
<1>6. CASE ~(r.width < Top /\ nv > Limit[r.width])
  <2>1. nv <= Limit[r.width]
    <3>1. CASE r.width = Top BY <1>2, <3>1, LimitAssumption
    <3>2. CASE r.width # Top BY <1>2, <1>4, <1>6, <3>2
    <3> QED BY <3>1, <3>2
  <2>2. nv \in 1..Limit[r.width] BY <1>2, <1>4, <2>1
  <2> DEFINE s == SlotSet(r, pos, nv)
  <2>4. /\ Stored(s) /\ Kept(r, s) /\ s.size = r.size /\ s.idx = r.idx
        /\ s.cnt = [r.cnt EXCEPT ![pos] = nv]
    BY <2>2, SlotSetFacts
  <2>5. AddAtExisting(r, pos, d) = s BY <1>3, <1>6 DEF AddAtExisting, nv
  <2> HIDE DEF s
  <2> QED BY <2>4, <2>5 DEF nv
<1> QED BY <1>5, <1>6

\* An insertion at the border keeps an array ascending.
LEMMA InsertedFacts ==
  ASSUME NEW a, NEW n \in Nat, NEW S \in SUBSET Int, a \in [0..(n - 1) -> S], NEW pos \in 0..n, NEW x \in S
  PROVE  /\ Inserted(a, n, pos, x) \in [0..n -> S]
         /\ \A i \in 0..n : Inserted(a, n, pos, x)[i] =
              IF i < pos THEN a[i] ELSE IF i = pos THEN x ELSE a[i - 1]
<1> DEFINE b == Inserted(a, n, pos, x)
<1>1. \A i \in 0..n : b[i] = IF i < pos THEN a[i] ELSE IF i = pos THEN x ELSE a[i - 1]
  BY DEF Inserted
<1>2. ASSUME NEW i \in 0..n
      PROVE  (IF i < pos THEN a[i] ELSE IF i = pos THEN x ELSE a[i - 1]) \in S
  <2>1. CASE i < pos
    <3>1. i \in 0..(n - 1) BY <2>1
    <3> QED BY <2>1, <3>1
  <2>2. CASE i = pos BY <2>2
  <2>3. CASE i > pos
    <3>1. i - 1 \in 0..(n - 1) /\ ~(i < pos) /\ i # pos BY <2>3
    <3> QED BY <3>1
  <2> QED BY <2>1, <2>2, <2>3
<1>3. b \in [0..n -> S] BY <1>2 DEF Inserted
<1> QED BY <1>1, <1>3

\* sparseAdd's insertion opens one bucket.
LEMMA OpenedFacts ==
  ASSUME NEW r, Stored(r), NEW ci \in 0..(r.geom.countsLen - 1), NEW pos \in 0..r.size,
         NEW d \in 1..MaxCount,
         \A i \in 0..(pos - 1) : r.idx[i] < ci, \A i \in pos..(r.size - 1) : r.idx[i] > ci
  PROVE  LET s == Opened(r, pos, ci, d) IN
         /\ Stored(s) /\ Kept(r, s) /\ s.size = r.size + 1
         /\ s.idx = Inserted(r.idx, r.size, pos, ci) /\ s.cnt = Inserted(r.cnt, r.size, pos, d)
<1> DEFINE n == r.size
<1> DEFINE w == WidenToFit(r, d)
<1> DEFINE L == r.geom.countsLen
<1> DEFINE x == [w EXCEPT !.idx = Inserted(@, r.size, pos, ci), !.cnt = Inserted(@, r.size, pos, 0),
                          !.size = @ + 1]
<1> DEFINE s == SlotSet(x, pos, d)
<1>1. n \in Nat /\ pos \in 0..n /\ L \in Nat /\ d \in 0..MaxCount /\ d \in Nat
  BY GeometriesBuilt, MaxCountAssumption DEF Stored
<1>2. /\ Stored(w) /\ Kept(r, w) /\ w.size = n /\ w.idx = r.idx /\ w.cnt = r.cnt
      /\ d <= Limit[w.width]
  BY <1>1, WidenFacts
<1>3. Opened(r, pos, ci, d) = s BY DEF Opened
<1> DEFINE I == Inserted(r.idx, n, pos, ci)
<1> DEFINE C == Inserted(r.cnt, n, pos, 0)
<1> DEFINE D == Inserted(r.cnt, n, pos, d)
<1> HIDE DEF w
<1>4. /\ DOMAIN x = Fields /\ x.geom = r.geom /\ x.total = r.total /\ x.lastIndex = r.lastIndex
      /\ x.lastPos = r.lastPos /\ x.size = n + 1 /\ x.width = w.width /\ x.idx = I /\ x.cnt = C
  BY <1>2 DEF Stored, Fields, Kept
<1> HIDE DEF x
<1>5. /\ DOMAIN s = Fields /\ s.geom = r.geom /\ s.total = r.total /\ s.lastIndex = r.lastIndex
      /\ s.lastPos = r.lastPos /\ s.size = n + 1 /\ s.width = w.width /\ s.idx = I
      /\ s.cnt = [C EXCEPT ![pos] = Slot(w.width, d)]
  BY <1>4 DEF SlotSet, Fields
<1> HIDE DEF s
<1>6. w.width \in 1..Top /\ Limit[w.width] \in Nat BY <1>2, LimitFacts DEF Stored
<1>7. d \in 0..Limit[w.width] /\ d \in 1..Limit[w.width] BY <1>1, <1>2, <1>6
<1>8. Slot(w.width, d) = d BY <1>6, <1>7, SlotExact
<1>9. r.cnt \in [0..(n - 1) -> 1..Limit[w.width]] BY <1>2 DEF Stored
<1>10. D \in [0..n -> 1..Limit[w.width]]
  <2> DEFINE S == 1..Limit[w.width]
  <2>1. S \in SUBSET Int BY <1>6
  <2>2. d \in S /\ r.cnt \in [0..(n - 1) -> S] BY <1>7, <1>9
  <2> HIDE DEF S, n
  <2>3. D \in [0..n -> S] BY <1>1, <2>1, <2>2, InsertedFacts
  <2> QED BY <2>3 DEF S
<1>11. [C EXCEPT ![pos] = d] = D
  <2> DEFINE E == [C EXCEPT ![pos] = d]
  <2>1. DOMAIN C = 0..n /\ DOMAIN D = 0..n /\ DOMAIN E = 0..n BY DEF Inserted
  <2>2. ASSUME NEW i \in 0..n PROVE E[i] = D[i]
    <3>1. CASE i = pos BY <3>1, <1>1 DEF Inserted
    <3>2. CASE i # pos BY <3>2, <1>1 DEF Inserted
    <3> QED BY <3>1, <3>2
  <2>3. E = [i \in 0..n |-> E[i]] /\ D = [i \in 0..n |-> D[i]] BY <2>1 DEF Inserted
  <2> HIDE DEF E, D, n
  <2>4. E = D BY <2>2, <2>3
  <2> QED BY <2>4 DEF E
<1>12. s.cnt = D BY <1>5, <1>8, <1>11
<1>13. I \in [0..n -> 0..(L - 1)] /\ \A i \in 0..n : I[i] = IF i < pos THEN r.idx[i] ELSE IF i = pos THEN ci ELSE r.idx[i - 1]
  <2> DEFINE S == 0..(L - 1)
  <2>1. S \in SUBSET Int BY <1>1
  <2>2. ci \in S /\ r.idx \in [0..(n - 1) -> S] BY DEF Stored
  <2> HIDE DEF S, n
  <2>3. I \in [0..n -> S] BY <1>1, <2>1, <2>2, InsertedFacts
  <2>4. \A i \in 0..n : I[i] = IF i < pos THEN r.idx[i] ELSE IF i = pos THEN ci ELSE r.idx[i - 1]
    BY DEF Inserted
  <2> QED BY <2>3, <2>4 DEF S
<1>14. Ascending(I, n + 1)
  <2> SUFFICES ASSUME NEW i \in 0..n, NEW j \in 0..n, i < j PROVE I[i] < I[j] BY <1>1 DEF Ascending
  <2>1. \A k \in 0..(n - 1) : r.idx[k] \in Nat BY BucketFacts
  <2>2. \A k, l \in 0..(n - 1) : k < l => r.idx[k] < r.idx[l] BY DEF Stored, Ascending
  <2> HIDE DEF I, n
  <2>3. CASE j < pos
    <3>1. i < pos /\ i \in 0..(n - 1) /\ j \in 0..(n - 1) BY <1>1, <2>3
    <3> QED BY <2>3, <3>1, <2>2, <1>13
  <2>4. CASE j = pos
    <3>1. i < pos /\ i \in 0..(pos - 1) /\ ~(j < pos) BY <1>1, <2>4
    <3> QED BY <2>4, <3>1, <1>13
  <2>5. CASE j > pos
    <3>1. j - 1 \in 0..(n - 1) /\ j - 1 \in pos..(n - 1) /\ ~(j < pos) /\ j # pos BY <1>1, <2>5 DEF n
    <3>2. I[j] = r.idx[j - 1] /\ ci < r.idx[j - 1] BY <3>1, <1>13 DEF n
    <3>3. CASE i < pos
      <4>1. i \in 0..(n - 1) /\ i < j - 1 BY <1>1, <2>5, <3>3
      <4> QED BY <3>1, <3>2, <3>3, <4>1, <1>13, <2>2
    <3>4. CASE i = pos BY <3>2, <3>4, <1>13
    <3>5. CASE i > pos
      <4>1. i - 1 \in 0..(n - 1) /\ i - 1 < j - 1 /\ ~(i < pos) /\ i # pos BY <1>1, <3>5
      <4> QED BY <3>1, <3>2, <4>1, <1>13, <2>2
    <3> QED BY <3>3, <3>4, <3>5
  <2> QED BY <2>3, <2>4, <2>5 DEF n
<1>15. n + 1 \in Nat /\ (n + 1) - 1 = n BY <1>1
<1> HIDE DEF I, D, C, n
<1>16. Stored(s) BY <1>5, <1>6, <1>10, <1>12, <1>13, <1>14, <1>15 DEF Stored
<1>17. Kept(r, s) BY <1>5 DEF Kept
<1> QED BY <1>3, <1>5, <1>12, <1>16, <1>17 DEF I, D, n

\* s counts d more than r at position ci, and the same elsewhere.
Adds(r, s, ci, d) == \A i \in Int : Count(s, i) = Count(r, i) + (IF i = ci THEN d ELSE 0)

\* A raised count adds to its position.
LEMMA RaisedAdds ==
  ASSUME NEW r, NEW s, Stored(r), Stored(s), s.size = r.size, s.idx = r.idx,
         NEW pos \in 0..(r.size - 1), NEW d \in Nat, s.cnt = [r.cnt EXCEPT ![pos] = r.cnt[pos] + d]
  PROVE  Adds(r, s, r.idx[pos], d)
<1> SUFFICES ASSUME NEW i \in Int PROVE Count(s, i) = Count(r, i) + (IF i = r.idx[pos] THEN d ELSE 0)
  BY DEF Adds
<1>1. CASE \E k \in 0..(r.size - 1) : r.idx[k] = i
  <2>1. PICK k \in 0..(r.size - 1) : r.idx[k] = i BY <1>1
  <2>2. Count(r, i) = r.cnt[k] /\ Count(s, i) = s.cnt[k]
    <3>1. k \in 0..(s.size - 1) /\ s.idx[k] = i BY <2>1
    <3> QED BY <2>1, <3>1, CountFacts
  <2>3. i = r.idx[pos] <=> k = pos BY <2>1, Distinct
  <2>4. r.cnt \in [0..(r.size - 1) -> 1..Limit[r.width]] BY DEF Stored
  <2>5. s.cnt[k] = IF k = pos THEN r.cnt[pos] + d ELSE r.cnt[k] BY <2>4
  <2>6. r.cnt[k] \in Nat BY BucketFacts
  <2> QED BY <2>2, <2>3, <2>5, <2>6
<1>2. CASE \A k \in 0..(r.size - 1) : r.idx[k] # i
  <2>1. Count(r, i) = 0 /\ Count(s, i) = 0 BY <1>2, CountFacts
  <2>2. i # r.idx[pos] BY <1>2
  <2> QED BY <2>1, <2>2
<1> QED BY <1>1, <1>2

\* An opened bucket adds to its position.
LEMMA OpenedAdds ==
  ASSUME NEW r, NEW s, Stored(r), Stored(s), NEW pos \in 0..r.size, NEW ci \in Int, NEW d \in Nat,
         s.size = r.size + 1, s.idx = Inserted(r.idx, r.size, pos, ci),
         s.cnt = Inserted(r.cnt, r.size, pos, d)
  PROVE  Adds(r, s, ci, d)
<1> DEFINE n == r.size
<1>1. n \in Nat /\ s.size = n + 1 /\ (n + 1) - 1 = n /\ pos \in 0..n BY DEF Stored
<1>2. \A k \in 0..n : /\ s.idx[k] = IF k < pos THEN r.idx[k] ELSE IF k = pos THEN ci ELSE r.idx[k - 1]
                      /\ s.cnt[k] = IF k < pos THEN r.cnt[k] ELSE IF k = pos THEN d ELSE r.cnt[k - 1]
  BY DEF Inserted
<1> HIDE DEF n
<1>3. \A k \in 0..n : Count(s, s.idx[k]) = s.cnt[k] BY <1>1, CountFacts
<1>4. \A k \in 0..(n - 1) : Count(r, r.idx[k]) = r.cnt[k] /\ r.cnt[k] \in Nat
  BY CountFacts, BucketFacts DEF n
<1>5. pos \in 0..n /\ s.idx[pos] = ci /\ s.cnt[pos] = d
  <2>1. ~(pos < pos) BY <1>1
  <2> QED BY <1>1, <1>2, <2>1
<1>6. \A k \in 0..n : s.idx[k] = ci => k = pos
  <2> SUFFICES ASSUME NEW k \in 0..n, s.idx[k] = ci PROVE k = pos OBVIOUS
  <2>1. k \in 0..(s.size - 1) /\ pos \in 0..(s.size - 1) BY <1>1
  <2> QED BY <2>1, <1>5, Distinct
<1>7. ASSUME NEW k \in 0..(n - 1)
      PROVE  LET l == IF k < pos THEN k ELSE k + 1 IN
             l \in 0..n /\ l # pos /\ s.idx[l] = r.idx[k] /\ s.cnt[l] = r.cnt[k]
  <2>1. CASE k < pos
    <3>1. k \in 0..n /\ k # pos BY <1>1, <2>1
    <3> QED BY <2>1, <3>1, <1>2
  <2>2. CASE ~(k < pos)
    <3>1. k + 1 \in 0..n /\ ~(k + 1 < pos) /\ k + 1 # pos /\ (k + 1) - 1 = k BY <1>1, <2>2
    <3> QED BY <2>2, <3>1, <1>2
  <2> QED BY <2>1, <2>2
<1> SUFFICES ASSUME NEW i \in Int PROVE Count(s, i) = Count(r, i) + (IF i = ci THEN d ELSE 0)
  BY DEF Adds
<1>8. CASE \E k \in 0..(n - 1) : r.idx[k] = i
  <2>1. PICK k \in 0..(n - 1) : r.idx[k] = i BY <1>8
  <2> DEFINE l == IF k < pos THEN k ELSE k + 1
  <2>2. l \in 0..n /\ l # pos /\ s.idx[l] = r.idx[k] /\ s.cnt[l] = r.cnt[k] BY <1>7
  <2> HIDE DEF l
  <2>3. i # ci BY <2>1, <2>2, <1>6
  <2>4. Count(s, i) = r.cnt[k] /\ Count(r, i) = r.cnt[k] /\ r.cnt[k] \in Nat BY <2>1, <2>2, <1>3, <1>4
  <2> QED BY <2>3, <2>4
<1>9. CASE \A k \in 0..(n - 1) : r.idx[k] # i
  <2>1. Count(r, i) = 0 BY <1>9, CountFacts DEF n
  <2>2. CASE i = ci
    <3>1. Count(s, i) = d BY <2>2, <1>3, <1>5
    <3> QED BY <2>1, <2>2, <3>1
  <2>3. CASE i # ci
    <3>1. ASSUME NEW k \in 0..n PROVE s.idx[k] # i
      <4>1. CASE k < pos
        <5>1. k \in 0..(n - 1) BY <4>1, <1>1
        <5> QED BY <4>1, <5>1, <1>2, <1>9
      <4>2. CASE k = pos BY <4>2, <1>5, <2>3
      <4>3. CASE k > pos
        <5>1. k - 1 \in 0..(n - 1) /\ ~(k < pos) /\ k # pos BY <4>3, <1>1
        <5> QED BY <5>1, <1>2, <1>9
      <4> QED BY <4>1, <4>2, <4>3, <1>1
    <3>2. \A k \in 0..(s.size - 1) : s.idx[k] # i BY <3>1, <1>1
    <3>3. Count(s, i) = 0 BY <3>2, CountFacts
    <3> QED BY <2>1, <2>3, <3>3
  <2> QED BY <2>2, <2>3
<1> QED BY <1>8, <1>9

\* sparseAdd adds to a position, whether it is populated or not.
LEMMA SparseAddFacts ==
  ASSUME NEW r, Stored(r), NEW ci \in 0..(r.geom.countsLen - 1), NEW d \in 1..MaxCount,
         Count(r, ci) + d <= MaxCount
  PROVE  LET s == SparseAdd(r, ci, d) IN
         /\ Stored(s) /\ Kept(r, s) /\ Adds(r, s, ci, d)
         /\ LowerBound(r, ci) \in Nat
         /\ \A k \in 0..(r.size - 1) : r.idx[k] = ci =>
              s.size = r.size /\ s.idx = r.idx /\ s.cnt = [r.cnt EXCEPT ![k] = r.cnt[k] + d]
<1> DEFINE pos == LowerBound(r, ci)
<1> DEFINE s == SparseAdd(r, ci, d)
<1>1. r.geom.countsLen \in Nat /\ r.size \in Nat BY GeometriesBuilt DEF Stored
<1>2. ci \in Int /\ d \in Nat BY <1>1, MaxCountAssumption
<1>3. /\ pos \in 0..r.size /\ pos \in Nat
      /\ \A i \in 0..(pos - 1) : r.idx[i] < ci
      /\ \A i \in pos..(r.size - 1) : r.idx[i] >= ci
  BY <1>1, <1>2, LowerBoundFacts
<1> HIDE DEF pos
<1>4. CASE Holds(r, pos, ci)
  <2>1. pos \in 0..(r.size - 1) /\ r.idx[pos] = ci BY <1>1, <1>3, <1>4 DEF Holds
  <2>2. r.cnt[pos] + d <= MaxCount BY <2>1, CountFacts
  <2>3. s = AddAtExisting(r, pos, d) BY <1>4 DEF SparseAdd, pos
  <2>4. /\ Stored(s) /\ Kept(r, s) /\ s.size = r.size /\ s.idx = r.idx
        /\ s.cnt = [r.cnt EXCEPT ![pos] = r.cnt[pos] + d]
    BY <1>2, <2>1, <2>2, <2>3, AddAtExistingFacts
  <2> HIDE DEF s
  <2>5. Adds(r, s, r.idx[pos], d) BY <1>2, <2>1, <2>4, RaisedAdds
  <2>6. \A k \in 0..(r.size - 1) : r.idx[k] = ci => k = pos BY <2>1, Distinct
  <2> QED BY <1>3, <2>1, <2>4, <2>5, <2>6 DEF s, pos
<1>5. CASE ~Holds(r, pos, ci)
  <2>1. \A i \in pos..(r.size - 1) : r.idx[i] > ci
    <3> SUFFICES ASSUME NEW i \in pos..(r.size - 1) PROVE r.idx[i] > ci OBVIOUS
    <3>1. pos \in 0..(r.size - 1) /\ i \in 0..(r.size - 1) /\ (pos < i \/ pos = i) BY <1>1, <1>3
    <3>2. r.idx[pos] # ci /\ r.idx[pos] >= ci
      <4>1. pos < r.size /\ pos \in pos..(r.size - 1) BY <1>1, <3>1, <1>3
      <4> QED BY <4>1, <1>3, <1>5 DEF Holds
    <3>3. i = pos \/ r.idx[pos] < r.idx[i] BY <3>1, Distinct
    <3>4. r.idx[pos] \in Nat /\ r.idx[i] \in Nat BY <3>1, BucketFacts
    <3> QED BY <1>2, <3>2, <3>3, <3>4
  <2>2. s = Opened(r, pos, ci, d) BY <1>5 DEF SparseAdd, pos
  <2>3. /\ Stored(s) /\ Kept(r, s) /\ s.size = r.size + 1
        /\ s.idx = Inserted(r.idx, r.size, pos, ci) /\ s.cnt = Inserted(r.cnt, r.size, pos, d)
    BY <1>3, <2>1, <2>2, OpenedFacts
  <2> HIDE DEF s
  <2>4. Adds(r, s, ci, d) BY <1>2, <1>3, <2>3, OpenedAdds
  <2>5. \A k \in 0..(r.size - 1) : r.idx[k] # ci
    <3> SUFFICES ASSUME NEW k \in 0..(r.size - 1) PROVE r.idx[k] # ci OBVIOUS
    <3>1. k \in 0..(pos - 1) \/ k \in pos..(r.size - 1) BY <1>1, <1>3
    <3>2. r.idx[k] < ci \/ r.idx[k] > ci BY <3>1, <1>3, <2>1
    <3>3. r.idx[k] \in Nat BY BucketFacts
    <3> QED BY <1>2, <3>2, <3>3
  <2> QED BY <1>3, <2>3, <2>4, <2>5 DEF s, pos
<1> QED BY <1>4, <1>5

\* What is added to a position is added to the sum.
LEMMA AddsSum ==
  ASSUME NEW r, NEW s, Stored(r), Stored(s), s.geom = r.geom,
         NEW ci \in 0..(r.geom.countsLen - 1), NEW d \in Nat, Adds(r, s, ci, d)
  PROVE  Sum(s) = Sum(r) + d
<1> DEFINE L == r.geom.countsLen
<1> DEFINE A == Spread(r)
<1> DEFINE B == Spread(s)
<1>1. L \in Nat BY GeometriesBuilt DEF Stored
<1>2. /\ PrefixSum(A)[L] = Sum(r) /\ A \in [0..(L - 1) -> Nat]
      /\ \A i \in 0..(L - 1) : A[i] = Count(r, i)
  BY SpreadSum
<1>3. /\ PrefixSum(B)[L] = Sum(s) /\ B \in [0..(L - 1) -> Nat]
      /\ \A i \in 0..(L - 1) : B[i] = Count(s, i)
  <2>1. /\ PrefixSum(B)[s.geom.countsLen] = Sum(s) /\ B \in [0..(s.geom.countsLen - 1) -> Nat]
        /\ \A i \in 0..(s.geom.countsLen - 1) : B[i] = Count(s, i)
    BY SpreadSum
  <2> HIDE DEF B
  <2> QED BY <2>1
<1> HIDE DEF A, B, L
<1>4. ci \in 0..(L - 1) BY DEF L
<1>5. \A i \in 0..(L - 1) : B[i] = [A EXCEPT ![ci] = A[ci] + d][i]
  <2> SUFFICES ASSUME NEW i \in 0..(L - 1) PROVE B[i] = [A EXCEPT ![ci] = A[ci] + d][i] OBVIOUS
  <2>1. i \in Int BY <1>1
  <2>2. B[i] = A[i] + (IF i = ci THEN d ELSE 0) BY <1>2, <1>3, <2>1 DEF Adds
  <2>3. A[i] \in Nat BY <1>2
  <2> QED BY <1>2, <1>4, <2>2, <2>3
<1>6. B = [A EXCEPT ![ci] = A[ci] + d]
  <2>1. [A EXCEPT ![ci] = A[ci] + d] \in [0..(L - 1) -> Nat] BY <1>2, <1>4
  <2> DEFINE E == [A EXCEPT ![ci] = A[ci] + d]
  <2> HIDE DEF E
  <2>2. E \in [0..(L - 1) -> Nat] /\ \A i \in 0..(L - 1) : B[i] = E[i] BY <1>5, <2>1 DEF E
  <2>3. B = [i \in 0..(L - 1) |-> B[i]] /\ E = [i \in 0..(L - 1) |-> E[i]] BY <1>3, <2>2
  <2>4. B = E BY <2>2, <2>3
  <2> QED BY <2>4 DEF E
<1>7. PrefixSum([A EXCEPT ![ci] = A[ci] + d])[L] = PrefixSum(A)[L] + d BY <1>1, <1>2, <1>4, SumAfterAdd
<1> QED BY <1>2, <1>3, <1>6, <1>7

-----------------------------------------------------------------------------
(* Histograms with their totals.                                            *)

\* r is well formed and its total is its sum, saturated.
Good(r) ==
  /\ Stored(r)
  /\ r.total \in 0..MaxCount
  /\ r.total = Smaller(MaxCount, Sum(r))

\* x has the buckets of s.
Alike(s, x) ==
  /\ DOMAIN x = Fields /\ x.geom = s.geom /\ x.size = s.size /\ x.width = s.width
  /\ x.idx = s.idx /\ x.cnt = s.cnt
  /\ x.lastIndex \in Nat /\ x.lastPos \in Nat

\* The total and the last-hit cache do not matter to the buckets.
LEMMA AlikeFacts ==
  ASSUME NEW s, NEW x, Stored(s), Alike(s, x)
  PROVE  Stored(x) /\ Sum(x) = Sum(s) /\ \A i : Count(x, i) = Count(s, i)
BY DEF Alike, Stored, Sum, Count

\* A total below the limit is the sum.
LEMMA RoomFacts ==
  ASSUME NEW r, Good(r)
  PROVE  /\ Wrap64(MaxCount - r.total) = MaxCount - r.total
         /\ Sum(r) \in Nat
         /\ \A d \in 1..MaxCount : d <= MaxCount - r.total =>
              /\ r.total = Sum(r)
              /\ r.total + d \in 0..MaxCount
              /\ Wrap64(r.total + d) = r.total + d
              /\ \A ci \in 0..(r.geom.countsLen - 1) : Count(r, ci) + d <= MaxCount
<1>1. MaxCount \in Nat /\ r.total \in 0..MaxCount /\ r.total \in Nat BY MaxCountAssumption DEF Good
<1>2. Wrap64(MaxCount - r.total) = MaxCount - r.total
  <2>1. MaxCount - r.total \in 0..MaxCount BY <1>1
  <2> QED BY <2>1, Int64Facts, Wrap64Id
<1>3. Sum(r) \in Nat /\ \A ci \in 0..(r.geom.countsLen - 1) : Count(r, ci) <= Sum(r)
  BY SpreadSum DEF Good
<1>4. ASSUME NEW d \in 1..MaxCount, d <= MaxCount - r.total
      PROVE  /\ r.total = Sum(r)
             /\ r.total + d \in 0..MaxCount
             /\ Wrap64(r.total + d) = r.total + d
             /\ \A ci \in 0..(r.geom.countsLen - 1) : Count(r, ci) + d <= MaxCount
  <2>1. r.total < MaxCount /\ r.total + d \in 0..MaxCount BY <1>1, <1>4
  <2>2. r.total = Sum(r)
    <3>1. r.total = IF MaxCount <= Sum(r) THEN MaxCount ELSE Sum(r) BY DEF Good, Smaller
    <3> QED BY <1>1, <2>1, <3>1
  <2>3. Wrap64(r.total + d) = r.total + d BY <2>1, Int64Facts, Wrap64Id
  <2>4. ASSUME NEW ci \in 0..(r.geom.countsLen - 1) PROVE Count(r, ci) + d <= MaxCount
    <3>1. Count(r, ci) <= Sum(r) /\ Count(r, ci) \in Nat BY <1>3, CountType DEF Good
    <3> QED BY <1>1, <1>3, <2>1, <2>2, <3>1
  <2> QED BY <2>1, <2>2, <2>3, <2>4
<1> QED BY <1>2, <1>3, <1>4

\* x is r with d more at position ci, in the total too.
Gains(r, x, ci, d) == Good(x) /\ x.geom = r.geom /\ x.total = r.total + d /\ Adds(r, x, ci, d)

\* A histogram that has gained.
LEMMA GainFacts ==
  ASSUME NEW r, Good(r), NEW ci \in 0..(r.geom.countsLen - 1), NEW d \in 1..MaxCount,
         d <= MaxCount - r.total,
         NEW s, Stored(s), Kept(r, s), Adds(r, s, ci, d),
         NEW x, Alike(s, x), x.total = Wrap64(r.total + d)
  PROVE  Gains(r, x, ci, d)
<1>1. /\ r.total = Sum(r) /\ r.total + d \in 0..MaxCount /\ Wrap64(r.total + d) = r.total + d
  BY RoomFacts
<1>2. Stored(x) /\ Sum(x) = Sum(s) /\ \A i : Count(x, i) = Count(s, i) BY AlikeFacts
<1>3. s.geom = r.geom /\ x.geom = r.geom BY DEF Kept, Alike
<1>4. d \in Nat BY MaxCountAssumption
<1>5. Sum(s) = Sum(r) + d
  <2>1. Stored(r) BY DEF Good
  <2> QED BY <1>3, <1>4, <2>1, AddsSum
<1>6. Adds(r, x, ci, d) BY <1>2 DEF Adds
<1>7. x.total = r.total + d /\ x.total = Sum(x) BY <1>1, <1>2, <1>5
<1>8. x.total = Smaller(MaxCount, Sum(x))
  <2>1. Sum(x) \in 0..MaxCount BY <1>1, <1>7
  <2>2. Sum(x) = IF MaxCount <= Sum(x) THEN MaxCount ELSE Sum(x) BY <2>1, MaxCountAssumption
  <2> QED BY <1>7, <2>2 DEF Smaller
<1> QED BY <1>1, <1>2, <1>3, <1>6, <1>7, <1>8 DEF Gains, Good

-----------------------------------------------------------------------------
(* Recording.                                                               *)

\* A record call that is let through has a position and room.
LEMMA RecordAdmits ==
  ASSUME NEW r, Good(r), NEW v, NEW n \in Int64, ~RecordFails(r, v, n)
  PROVE  /\ CountsIndexFor(r.geom, v) \in 0..(r.geom.countsLen - 1)
         /\ n \in 0..MaxCount /\ n <= MaxCount - r.total
<1>1. Wrap64(MaxCount - r.total) = MaxCount - r.total BY RoomFacts
<1>2. /\ CountsIndexFor(r.geom, v) \in 0..(r.geom.countsLen - 1)
      /\ ~(n < 0) /\ ~(n > MaxCount - r.total)
  BY <1>1 DEF RecordFails, Fits
<1>3. n \in Int /\ MaxCount \in Nat /\ r.total \in Int BY MaxCountAssumption DEF Good, Int64
<1>4. n \in 0..MaxCount BY <1>2, <1>3, Int64Facts
<1> QED BY <1>2, <1>3, <1>4

\* RecordValues raises one count and the total, whatever the cache holds.
LEMMA RecordedFacts ==
  ASSUME NEW r, Good(r), NEW v, NEW n \in Int64, ~RecordFails(r, v, n)
  PROVE  Gains(r, Recorded(r, v, n), CountsIndexFor(r.geom, v), n)
<1> DEFINE ci == CountsIndexFor(r.geom, v)
<1> DEFINE x == Recorded(r, v, n)
<1>1. ci \in 0..(r.geom.countsLen - 1) /\ n \in 0..MaxCount /\ n <= MaxCount - r.total BY RecordAdmits
<1>2. Stored(r) /\ r.total \in 0..MaxCount /\ MaxCount \in Nat /\ n \in Nat
  BY <1>1, MaxCountAssumption DEF Good
<1>3. ci \in Nat
  <2>1. r.geom.countsLen \in Nat BY <1>2, GeometriesBuilt DEF Stored
  <2> HIDE DEF ci
  <2> QED BY <1>1, <2>1
<1>4. CASE n = 0
  <2>1. x = [r EXCEPT !.total = Wrap64(@ + n)] BY <1>4 DEF Recorded
  <2>2. Wrap64(r.total + n) = r.total
    <3>1. r.total + n = r.total BY <1>2, <1>4
    <3> QED BY <1>2, <3>1, Int64Facts, Wrap64Id
  <2> HIDE DEF ci
  <2>3. x.geom = r.geom /\ x.total = r.total /\ Alike(r, x)
    BY <1>2, <2>1, <2>2 DEF Alike, Stored, Fields
  <2> HIDE DEF x
  <2>4. Stored(x) /\ Sum(x) = Sum(r) /\ \A i : Count(x, i) = Count(r, i) BY <1>2, <2>3, AlikeFacts
  <2>5. Good(x) BY <2>3, <2>4 DEF Good
  <2>6. Adds(r, x, ci, n)
    <3> SUFFICES ASSUME NEW i \in Int PROVE Count(x, i) = Count(r, i) + (IF i = ci THEN n ELSE 0)
      BY DEF Adds
    <3>1. Count(r, i) \in Nat BY <1>2, CountType
    <3> QED BY <1>4, <2>4, <3>1
  <2>7. x.total = r.total + n BY <1>2, <1>4, <2>3
  <2>8. Gains(r, x, ci, n) BY <2>3, <2>5, <2>6, <2>7 DEF Gains
  <2> QED BY <2>8 DEF x, ci
<1>5. CASE n # 0 /\ CacheHit(r, ci)
  <2> DEFINE s == AddAtExisting(r, r.lastPos, n)
  <2>1. n \in 1..MaxCount BY <1>1, <1>2, <1>5
  <2>2. r.lastPos \in 0..(r.size - 1) /\ r.idx[r.lastPos] = ci
    BY <1>2, <1>5 DEF CacheHit, Holds, Stored
  <2>3. r.cnt[r.lastPos] + n <= MaxCount
    <3>1. Count(r, ci) + n <= MaxCount BY <1>1, <2>1, RoomFacts
    <3>2. Count(r, ci) = r.cnt[r.lastPos] BY <1>2, <2>2, CountFacts
    <3> QED BY <3>1, <3>2
  <2>4. /\ Stored(s) /\ Kept(r, s) /\ s.size = r.size /\ s.idx = r.idx
        /\ s.cnt = [r.cnt EXCEPT ![r.lastPos] = r.cnt[r.lastPos] + n]
    BY <1>2, <2>2, <2>3, AddAtExistingFacts
  <2>5. x = [s EXCEPT !.total = Wrap64(@ + n)] BY <1>5 DEF Recorded
  <2> HIDE DEF s, ci
  <2>6. Adds(r, s, ci, n)
    <3>1. Adds(r, s, r.idx[r.lastPos], n) BY <1>2, <2>2, <2>4, RaisedAdds
    <3> QED BY <2>2, <3>1
  <2>7. Alike(s, x) /\ x.total = Wrap64(r.total + n)
    BY <2>4, <2>5 DEF Alike, Stored, Fields, Kept
  <2> HIDE DEF x
  <2>8. Gains(r, x, ci, n) BY <1>1, <2>1, <2>4, <2>6, <2>7, GainFacts
  <2> QED BY <2>8 DEF x, ci
<1>6. CASE n # 0 /\ ~CacheHit(r, ci)
  <2> DEFINE s == SparseAdd(r, ci, n)
  <2> DEFINE y == [s EXCEPT !.lastIndex = ci, !.lastPos = LowerBound(r, ci)]
  <2>1. n \in 1..MaxCount BY <1>1, <1>2, <1>6
  <2>2. Count(r, ci) + n <= MaxCount BY <1>1, <2>1, RoomFacts
  <2>3. Stored(s) /\ Kept(r, s) /\ Adds(r, s, ci, n) /\ LowerBound(r, ci) \in Nat
    BY <1>1, <1>2, <2>1, <2>2, SparseAddFacts
  <2>4. x = [y EXCEPT !.total = Wrap64(@ + n)] BY <1>6 DEF Recorded
  <2> HIDE DEF s, ci
  <2>5. Alike(s, y) /\ y.total = r.total
    BY <1>3, <2>3 DEF Alike, Stored, Fields, Kept
  <2> HIDE DEF y
  <2>6. Alike(s, x) /\ x.total = Wrap64(r.total + n) BY <2>4, <2>5 DEF Alike, Fields
  <2> HIDE DEF x
  <2>7. Gains(r, x, ci, n) BY <1>1, <2>1, <2>3, <2>6, GainFacts
  <2> QED BY <2>7 DEF x, ci
<1> QED BY <1>4, <1>5, <1>6

\* The missing values are recorded in a loop.
LEMMA CorrectedLoop ==
  ASSUME NEW r, NEW v, NEW interval, Due(v, interval) \in Nat
  PROVE  \E g : /\ g[0] = [hist |-> Recorded(r, v, 1), err |-> FALSE]
                /\ \A k \in 0..(Due(v, interval) - 1) : g[k + 1] = Backfilled(g[k], v - (k + 1) * interval)
                /\ Corrected(r, v, interval) = g[Due(v, interval)].hist
<1> DEFINE N == Due(v, interval)
<1> DEFINE x == [hist |-> Recorded(r, v, 1), err |-> FALSE]
<1> DEFINE Eq(f, n) == f = [k \in 0..n |-> IF k = 0 THEN x ELSE Backfilled(f[k - 1], v - k * interval)]
<1> DEFINE T == {n \in Nat : \E f : Eq(f, n)}
<1>1. 0 \in T
  <2>1. Eq([k \in 0..0 |-> x], 0) OBVIOUS
  <2> QED BY <2>1
<1>2. ASSUME NEW n \in T PROVE n + 1 \in T
  <2>1. PICK f : Eq(f, n) OBVIOUS
  <2> DEFINE h == [k \in 0..(n + 1) |-> IF k = n + 1 THEN Backfilled(f[n], v - (n + 1) * interval) ELSE f[k]]
  <2>2. ASSUME NEW k \in 0..(n + 1)
        PROVE  h[k] = IF k = 0 THEN x ELSE Backfilled(h[k - 1], v - k * interval)
    <3> HIDE DEF x
    <3>1. CASE k = n + 1
      <4>1. k - 1 = n /\ k # 0 /\ h[k - 1] = f[n] BY <3>1
      <4>2. h[k] = Backfilled(f[n], v - (n + 1) * interval) BY <3>1
      <4> HIDE DEF h
      <4> QED BY <3>1, <4>1, <4>2
    <3>2. CASE k # n + 1
      <4>1. k \in 0..n /\ h[k] = f[k] /\ (k # 0 => h[k - 1] = f[k - 1]) BY <3>2
      <4> HIDE DEF h
      <4>2. f[k] = IF k = 0 THEN x ELSE Backfilled(f[k - 1], v - k * interval) BY <2>1, <4>1
      <4> QED BY <4>1, <4>2
    <3> QED BY <3>1, <3>2
  <2>3. Eq(h, n + 1)
    <3> DEFINE d == [k \in 0..(n + 1) |-> IF k = 0 THEN x ELSE Backfilled(h[k - 1], v - k * interval)]
    <3>1. \A k \in 0..(n + 1) : h[k] = d[k] BY <2>2
    <3>2. h = d BY <3>1
    <3> QED BY <3>2
  <2>4. \E f1 : Eq(f1, n + 1)
    <3> HIDE DEF h, Eq
    <3> QED BY <2>3
  <2> HIDE DEF Eq
  <2> QED BY <2>4
<1>3. T = Nat
  <2>1. T \in SUBSET Nat OBVIOUS
  <2> HIDE DEF T
  <2> QED BY <1>1, <1>2, <2>1, SetInduction
<1>4. \E f : Eq(f, N)
  <2> HIDE DEF Eq
  <2> QED BY <1>3
<1> DEFINE after == CHOOSE f : Eq(f, N)
<1>5. Eq(after, N)
  <2> HIDE DEF Eq
  <2> QED BY <1>4
<1>6. Corrected(r, v, interval) = after[Due(v, interval)].hist BY DEF Corrected
<1> HIDE DEF after
<1>7. after[0] = x BY <1>5
<1>8. ASSUME NEW k \in 0..(N - 1) PROVE after[k + 1] = Backfilled(after[k], v - (k + 1) * interval)
  <2>1. k + 1 \in 0..N /\ k + 1 # 0 /\ (k + 1) - 1 = k OBVIOUS
  <2> HIDE DEF x
  <2> QED BY <1>5, <2>1
<1> QED BY <1>6, <1>7, <1>8

\* How many of the first m missing values fall on position i.
Missed(g, v, interval, m, i) == Cardinality({k \in 1..m : CountsIndexFor(g, v - k * interval) = i})

\* The missing values counted one more at a time.
LEMMA MissedFacts ==
  ASSUME NEW g, NEW v, NEW interval, NEW i, NEW m \in Nat
  PROVE  /\ Missed(g, v, interval, 0, i) = 0
         /\ Missed(g, v, interval, m, i) \in Nat
         /\ CountsIndexFor(g, v - (m + 1) * interval) = i =>
              Missed(g, v, interval, m + 1, i) = Missed(g, v, interval, m, i) + 1
         /\ CountsIndexFor(g, v - (m + 1) * interval) # i =>
              Missed(g, v, interval, m + 1, i) = Missed(g, v, interval, m, i)
<1> DEFINE M(n) == {k \in 1..n : CountsIndexFor(g, v - k * interval) = i}
<1>1. Missed(g, v, interval, 0, i) = 0
  <2>1. M(0) = {} OBVIOUS
  <2>2. Cardinality(M(0)) = 0 BY <2>1, FS_EmptySet
  <2> QED BY <2>2 DEF Missed
<1>2. /\ Cardinality(M(m)) \in Nat
      /\ CountsIndexFor(g, v - (m + 1) * interval) = i => Cardinality(M(m + 1)) = Cardinality(M(m)) + 1
      /\ CountsIndexFor(g, v - (m + 1) * interval) # i => Cardinality(M(m + 1)) = Cardinality(M(m))
  <2> DEFINE hit == CountsIndexFor(g, v - (m + 1) * interval) = i
  <2>1. M(m + 1) = IF hit THEN M(m) \union {m + 1} ELSE M(m)
    <3>1. 1..(m + 1) = (1..m) \union {m + 1} OBVIOUS
    <3>2. CASE hit
      <4>1. ASSUME NEW k PROVE k \in M(m + 1) <=> k \in M(m) \union {m + 1} BY <3>1, <3>2
      <4>2. M(m + 1) = M(m) \union {m + 1}
        <5> HIDE DEF M
        <5> QED BY <4>1
      <4> QED BY <3>2, <4>2
    <3>3. CASE ~hit
      <4>1. ASSUME NEW k PROVE k \in M(m + 1) <=> k \in M(m) BY <3>1, <3>3
      <4>2. M(m + 1) = M(m)
        <5> HIDE DEF M
        <5> QED BY <4>1
      <4> QED BY <3>3, <4>2
    <3> QED BY <3>2, <3>3
  <2>2. IsFiniteSet(M(m))
    <3>1. M(m) \subseteq 1..m /\ 1 \in Int /\ m \in Int OBVIOUS
    <3>2. IsFiniteSet(1..m) BY <3>1, FS_Interval
    <3> HIDE DEF M
    <3> QED BY <3>1, <3>2, FS_Subset
  <2>3. m + 1 \notin M(m) OBVIOUS
  <2> HIDE DEF M, hit
  <2>4. Cardinality(M(m)) \in Nat BY <2>2, FS_CardinalityType
  <2>5. Cardinality(M(m) \union {m + 1}) = Cardinality(M(m)) + 1 BY <2>2, <2>3, FS_AddElement
  <2> QED BY <2>1, <2>4, <2>5 DEF hit
<1> QED BY <1>1, <1>2 DEF Missed

\* A missing value lies between zero and the value recorded.
LEMMA MissingFacts ==
  ASSUME NEW v \in 0..MaxInt, NEW interval \in -(MaxInt + 1)..MaxInt
  PROVE  /\ Due(v, interval) \in Nat
         /\ \A k \in 1..Due(v, interval) :
              v - k * interval \in 0..MaxInt /\ v - k * interval <= v
<1>1. MaxInt \in Nat /\ v \in Nat /\ interval \in Int BY MaxIntFacts
<1>2. CASE interval <= 0 \/ v <= interval
  <2>1. Due(v, interval) = 0 BY <1>2 DEF Due
  <2> QED BY <2>1
<1>3. CASE ~(interval <= 0 \/ v <= interval)
  <2> DEFINE q == v \div interval
  <2>1. interval \in Nat \ {0} /\ v > interval BY <1>1, <1>3
  <2>2. q \in Nat /\ q * interval <= v /\ v < (q + 1) * interval /\ (\A a \in Nat : a * interval <= v => a <= q)
    BY <1>1, <2>1, DivBetween
  <2>3. Due(v, interval) = q - 1 BY <1>3 DEF Due
  <2> HIDE DEF q
  <2>4. q >= 1
    <3>1. 1 * interval <= v BY <2>1, <1>1
    <3>2. 1 \in Nat OBVIOUS
    <3> QED BY <2>2, <3>1, <3>2
  <2>5. ASSUME NEW k \in 1..(q - 1) PROVE v - k * interval \in 0..MaxInt /\ v - k * interval <= v
    <3>1. k \in Nat /\ q - k \in Nat /\ q = k + (q - k) BY <2>2
    <3>2. \A x, y, z \in Nat : (x + y) * z = x * z + y * z /\ x * z \in Nat /\ y * z \in Nat OBVIOUS
    <3>3. (k + (q - k)) * interval = k * interval + (q - k) * interval /\ k * interval \in Nat /\ (q - k) * interval \in Nat
      BY <2>1, <3>1, <3>2
    <3> DEFINE a == k * interval
    <3> DEFINE b == (q - k) * interval
    <3>4. a \in Nat /\ b \in Nat /\ a + b <= v BY <2>2, <3>1, <3>3
    <3> HIDE DEF a, b
    <3>5. v - a \in 0..MaxInt /\ v - a <= v BY <1>1, <3>4
    <3> QED BY <3>5 DEF a
  <2>6. q - 1 \in Nat BY <2>2, <2>4
  <2> QED BY <2>3, <2>5, <2>6
<1> QED BY <1>2, <1>3

\* What RecordCorrectedValue has done to r after k of the missing values.
Caught(r, v, interval, a, k) ==
  LET m == Smaller(k, MaxCount - (r.total + 1))
  IN  /\ DOMAIN a = {"hist", "err"}
      /\ Good(a.hist) /\ a.hist.geom = r.geom /\ a.hist.total = r.total + 1 + m
      /\ \A i \in Int : Count(a.hist, i) = Count(r, i)
                          + (IF i = CountsIndexFor(r.geom, v) THEN 1 ELSE 0)
                          + Missed(r.geom, v, interval, m, i)
      /\ a.err = TRUE \/ a.err = FALSE
      /\ a.err => a.hist.total = MaxCount

\* One more missing value.
LEMMA BackfilledFacts ==
  ASSUME NEW r, Good(r), NEW v \in 0..MaxInt, NEW interval \in Int, ~RecordFails(r, v, 1),
         NEW k \in Nat, NEW a, Caught(r, v, interval, a, k),
         v - (k + 1) * interval \in 0..MaxInt, v - (k + 1) * interval <= v
  PROVE  Caught(r, v, interval, Backfilled(a, v - (k + 1) * interval), k + 1)
<1> DEFINE x == v - (k + 1) * interval
<1> DEFINE T == MaxCount - (r.total + 1)
<1> DEFINE m == Smaller(k, T)
<1> DEFINE b == Backfilled(a, x)
<1> DEFINE ci == CountsIndexFor(r.geom, x)
<1>0. 1 \in Int64 BY MaxCountAssumption DEF Int64
<1>1. T \in Nat /\ r.total \in Nat /\ MaxCount \in Nat
  <2>1. 1 <= MaxCount - r.total BY <1>0, RecordAdmits
  <2>2. r.total \in Nat /\ MaxCount \in Nat BY MaxCountAssumption DEF Good
  <2> QED BY <2>1, <2>2
<1>2. /\ DOMAIN a = {"hist", "err"}
      /\ Good(a.hist) /\ a.hist.geom = r.geom /\ a.hist.total = r.total + 1 + m
      /\ \A i \in Int : Count(a.hist, i) = Count(r, i)
                          + (IF i = CountsIndexFor(r.geom, v) THEN 1 ELSE 0)
                          + Missed(r.geom, v, interval, m, i)
      /\ a.err = TRUE \/ a.err = FALSE
      /\ a.err => a.hist.total = MaxCount
  BY DEF Caught
<1>3. m \in Nat /\ m <= k /\ m <= T /\ (m = k \/ m = T) BY <1>1 DEF Smaller
<1>4. ci \in 0..(r.geom.countsLen - 1)
  <2>1. Built(r.geom) /\ r.geom.countsLen \in Nat BY GeometriesBuilt DEF Good, Stored
  <2>2. ci <= CountsIndexFor(r.geom, v) /\ ci \in Nat BY <2>1, IndexMonotone, Covered DEF Built
  <2>3. CountsIndexFor(r.geom, v) \in 0..(r.geom.countsLen - 1) BY <1>0, RecordAdmits
  <2> HIDE DEF ci
  <2> QED BY <2>1, <2>2, <2>3
<1>5. RecordFails(a.hist, x, 1) <=> a.hist.total = MaxCount
  <2>1. Wrap64(MaxCount - a.hist.total) = MaxCount - a.hist.total BY <1>2, RoomFacts
  <2>2. a.hist.total \in 0..MaxCount BY <1>2 DEF Good
  <2>3. ~(x < 0)
    <3>1. x \in 0..MaxInt /\ MaxInt \in Nat BY MaxIntFacts
    <3> HIDE DEF x
    <3> QED BY <3>1
  <2>4. Fits(a.hist.geom, CountsIndexFor(a.hist.geom, x)) BY <1>2, <1>4 DEF Fits
  <2>5. RecordFails(a.hist, x, 1) <=> 1 > MaxCount - a.hist.total
    <3>1. ~(1 < 0) OBVIOUS
    <3> HIDE DEF x
    <3> QED BY <2>1, <2>3, <2>4, <3>1 DEF RecordFails
  <2> HIDE DEF x
  <2> QED BY <1>1, <2>2, <2>5
<1> HIDE DEF x
<1>6. CASE a.hist.total = MaxCount
  <2>1. b = [a EXCEPT !.err = TRUE] BY <1>5, <1>6 DEF Backfilled
  <2>2. DOMAIN b = {"hist", "err"} /\ b.hist = a.hist /\ b.err = TRUE BY <1>2, <2>1
  <2>3. m = T BY <1>1, <1>2, <1>3, <1>6
  <2>4. Smaller(k + 1, T) = m BY <1>1, <1>3, <2>3 DEF Smaller
  <2> HIDE DEF b, m, T, ci
  <2>5. Caught(r, v, interval, b, k + 1) BY <1>2, <1>6, <2>2, <2>4 DEF Caught, T
  <2> QED BY <2>5 DEF b, x
<1>7. CASE a.hist.total # MaxCount
  <2>1. ~a.err /\ ~RecordFails(a.hist, x, 1) BY <1>2, <1>5, <1>7
  <2> DEFINE h == Recorded(a.hist, x, 1)
  <2>2. b = [a EXCEPT !.hist = h] BY <2>1 DEF Backfilled
  <2>3. DOMAIN b = {"hist", "err"} /\ b.hist = h /\ b.err = FALSE BY <1>2, <2>1, <2>2
  <2>4. Gains(a.hist, h, CountsIndexFor(a.hist.geom, x), 1) BY <1>0, <1>2, <2>1, RecordedFacts
  <2>5. Gains(a.hist, h, ci, 1) BY <1>2, <2>4
  <2> HIDE DEF h, b
  <2>6. Good(h) /\ h.geom = r.geom /\ h.total = r.total + 1 + m + 1 /\ Adds(a.hist, h, ci, 1)
    BY <1>2, <2>5 DEF Gains
  <2>7. m = k /\ k + 1 <= T
    <3>1. h.total \in 0..MaxCount BY <2>6 DEF Good
    <3> HIDE DEF m
    <3> QED BY <1>1, <1>3, <2>6, <3>1
  <2>8. Smaller(k + 1, T) = k + 1 BY <2>7, <1>1 DEF Smaller
  <2>9. h.total = r.total + 1 + (k + 1)
    <3> HIDE DEF m
    <3> QED BY <1>1, <2>6, <2>7
  <2>10. ASSUME NEW i \in Int
         PROVE  Count(h, i) = Count(r, i) + (IF i = CountsIndexFor(r.geom, v) THEN 1 ELSE 0)
                                + Missed(r.geom, v, interval, k + 1, i)
    <3> DEFINE z == IF i = CountsIndexFor(r.geom, v) THEN 1 ELSE 0
    <3> DEFINE y == IF ci = i THEN 1 ELSE 0
    <3>1. Missed(r.geom, v, interval, k + 1, i) = Missed(r.geom, v, interval, k, i) + y
      <4>1. Missed(r.geom, v, interval, k, i) \in Nat BY MissedFacts
      <4>2. CountsIndexFor(r.geom, v - (k + 1) * interval) = ci BY DEF x
      <4>3. ci = i => Missed(r.geom, v, interval, k + 1, i) = Missed(r.geom, v, interval, k, i) + 1
        BY <4>2, MissedFacts
      <4>4. ci # i => Missed(r.geom, v, interval, k + 1, i) = Missed(r.geom, v, interval, k, i)
        BY <4>2, MissedFacts
      <4> HIDE DEF ci
      <4> QED BY <4>1, <4>3, <4>4
    <3>2. Missed(r.geom, v, interval, k, i) \in Nat BY MissedFacts
    <3>3. Count(h, i) = Count(a.hist, i) + y BY <2>6 DEF Adds
    <3>4. Count(a.hist, i) = Count(r, i) + z + Missed(r.geom, v, interval, k, i) BY <1>2, <2>7
    <3>5. Count(r, i) \in Nat BY CountType DEF Good
    <3>6. z \in Nat /\ y \in Nat OBVIOUS
    <3> HIDE DEF z, y
    <3>7. Count(h, i) = Count(r, i) + z + Missed(r.geom, v, interval, k + 1, i)
      BY <3>1, <3>2, <3>3, <3>4, <3>5, <3>6
    <3> QED BY <3>7 DEF z
  <2> HIDE DEF m, T, ci
  <2>11. Caught(r, v, interval, b, k + 1)
    BY <2>3, <2>6, <2>8, <2>9, <2>10 DEF Caught, T
  <2> QED BY <2>11 DEF b, x
<1> QED BY <1>6, <1>7

\* RecordCorrectedValue records the value and, while the total has room, what it
\* missed.
LEMMA CorrectedFacts ==
  ASSUME NEW r, Good(r), NEW v \in 0..MaxInt, NEW interval \in -(MaxInt + 1)..MaxInt,
         ~RecordFails(r, v, 1)
  PROVE  /\ Due(v, interval) \in Nat
         /\ \E a : Caught(r, v, interval, a, Due(v, interval)) /\ a.hist = Corrected(r, v, interval)
<1> DEFINE D == Due(v, interval)
<1>1. /\ D \in Nat
      /\ \A k \in 1..D : v - k * interval \in 0..MaxInt /\ v - k * interval <= v
  BY MissingFacts
<1>2. PICK g : /\ g[0] = [hist |-> Recorded(r, v, 1), err |-> FALSE]
               /\ \A k \in 0..(D - 1) : g[k + 1] = Backfilled(g[k], v - (k + 1) * interval)
               /\ Corrected(r, v, interval) = g[D].hist
  BY <1>1, CorrectedLoop
<1> HIDE DEF D
<1> DEFINE S == {k \in Nat : k <= D => Caught(r, v, interval, g[k], k)}
<1>3. 0 \in S
  <2> DEFINE h == Recorded(r, v, 1)
  <2>0. 1 \in Int64 BY MaxCountAssumption DEF Int64
  <2>1. Gains(r, h, CountsIndexFor(r.geom, v), 1) BY <2>0, RecordedFacts
  <2>2. MaxCount - (r.total + 1) \in Nat /\ r.total \in Nat
    <3>1. 1 <= MaxCount - r.total BY <2>0, RecordAdmits
    <3>2. r.total \in Nat /\ MaxCount \in Nat BY MaxCountAssumption DEF Good
    <3> QED BY <3>1, <3>2
  <2>3. Smaller(0, MaxCount - (r.total + 1)) = 0 BY <2>2 DEF Smaller
  <2>4. DOMAIN g[0] = {"hist", "err"} /\ g[0].hist = h /\ g[0].err = FALSE BY <1>2
  <2> HIDE DEF h
  <2>5. Good(h) /\ h.geom = r.geom /\ h.total = r.total + 1 + 0 BY <2>1, <2>2 DEF Gains
  <2>6. ASSUME NEW i \in Int
        PROVE  Count(h, i) = Count(r, i) + (IF i = CountsIndexFor(r.geom, v) THEN 1 ELSE 0)
                               + Missed(r.geom, v, interval, 0, i)
    <3>1. Count(r, i) \in Nat BY CountType DEF Good
    <3>2. Missed(r.geom, v, interval, 0, i) = 0
      <4>1. 0 \in Nat OBVIOUS
      <4> QED BY <4>1, MissedFacts
    <3>3. Count(h, i) = Count(r, i) + (IF i = CountsIndexFor(r.geom, v) THEN 1 ELSE 0)
      BY <2>1 DEF Gains, Adds
    <3> QED BY <3>1, <3>2, <3>3
  <2>7. Caught(r, v, interval, g[0], 0) BY <2>3, <2>4, <2>5, <2>6 DEF Caught
  <2> QED BY <2>7
<1>4. ASSUME NEW k \in S PROVE k + 1 \in S
  <2> SUFFICES ASSUME k + 1 <= D PROVE Caught(r, v, interval, g[k + 1], k + 1) OBVIOUS
  <2>1. k \in 0..(D - 1) /\ k \in Nat /\ k <= D /\ k + 1 \in 1..D BY <1>1
  <2>2. Caught(r, v, interval, g[k], k) BY <2>1
  <2> HIDE DEF S
  <2>3. g[k + 1] = Backfilled(g[k], v - (k + 1) * interval) BY <1>2, <2>1
  <2>4. v - (k + 1) * interval \in 0..MaxInt /\ v - (k + 1) * interval <= v BY <1>1, <2>1
  <2>5. interval \in Int BY MaxIntFacts
  <2>6. Caught(r, v, interval, Backfilled(g[k], v - (k + 1) * interval), k + 1)
    BY <2>1, <2>2, <2>4, <2>5, BackfilledFacts
  <2> QED BY <2>3, <2>6
<1>5. S = Nat
  <2>1. S \in SUBSET Nat OBVIOUS
  <2> HIDE DEF S
  <2> QED BY <1>3, <1>4, <2>1, SetInduction
<1>6. Caught(r, v, interval, g[D], D) BY <1>1, <1>5
<1> QED BY <1>1, <1>2, <1>6 DEF D

-----------------------------------------------------------------------------
(* Merging bucket by bucket.                                                *)

\* The counts, the total and the dropped values of a store as BucketStore has them.
Entry(c, t, d) == [counts |-> c, total |-> t, dropped |-> d]

\* What the abstract store does with an offered count that it admits.
LEMMA OfferedAdmitted ==
  ASSUME NEW C, NEW t \in Int, NEW d, NEW ci \in DOMAIN C, NEW c \in Int, c <= MaxCount - t
  PROVE  Store!Offered(Entry(C, t, d), ci, c) = Entry([C EXCEPT ![ci] = C[ci] + c], t + c, d)
<1> DEFINE e == [counts |-> C, total |-> t, dropped |-> d]
<1> DEFINE D == [C EXCEPT ![ci] = C[ci] + c]
<1>1. Store!Offered(e, ci, c) = [e EXCEPT !.counts[ci] = @ + c, !.total = @ + c]
  BY DEF Store!Offered
<1>2. [e EXCEPT !.counts[ci] = @ + c] = [counts |-> D, total |-> t, dropped |-> d] OBVIOUS
<1>3. [[counts |-> D, total |-> t, dropped |-> d] EXCEPT !.total = @ + c]
        = [counts |-> D, total |-> t + c, dropped |-> d]
  OBVIOUS
<1>4. [e EXCEPT !.counts[ci] = @ + c, !.total = @ + c] = [counts |-> D, total |-> t + c, dropped |-> d]
  BY <1>2, <1>3
<1> QED BY <1>1, <1>4 DEF Entry

\* What the abstract store does with an offered count that it drops.
LEMMA OfferedDropped ==
  ASSUME NEW C, NEW t \in Int, NEW d, NEW ci, NEW c \in Int, ~(ci \in DOMAIN C /\ c <= MaxCount - t)
  PROVE  Store!Offered(Entry(C, t, d), ci, c) = Entry(C, t, Smaller(MaxCount, d + c))
<1> DEFINE x == [counts |-> C, total |-> t, dropped |-> d]
<1>1. Store!Offered(x, ci, c) = [x EXCEPT !.dropped = Smaller(MaxCount, @ + c)]
  BY DEF Store!Offered, Store!Smaller, Smaller
<1>2. [x EXCEPT !.dropped = Smaller(MaxCount, @ + c)]
        = [counts |-> C, total |-> t, dropped |-> Smaller(MaxCount, d + c)]
  OBVIOUS
<1> QED BY <1>1, <1>2 DEF Entry

\* Offering nothing does nothing.
LEMMA OfferedNothing ==
  ASSUME NEW C, NEW t, t \in 0..MaxCount, NEW d, d \in 0..MaxCount, NEW ci, NEW z, z = 0,
         C = [i \in DOMAIN C |-> C[i]], \A i \in DOMAIN C : C[i] \in Nat
  PROVE  Store!Offered(Entry(C, t, d), ci, z) = Entry(C, t, d)
<1>1. MaxCount \in Nat /\ t \in Int /\ z \in Int BY MaxCountAssumption
<1>2. z <= MaxCount - t /\ t + z = t /\ d + z = d BY <1>1
<1>3. CASE ci \in DOMAIN C
  <2>1. C[ci] + z = C[ci] BY <1>3
  <2>2. [C EXCEPT ![ci] = C[ci]] = C BY <1>3
  <2>3. Store!Offered(Entry(C, t, d), ci, z) = Entry([C EXCEPT ![ci] = C[ci] + z], t + z, d)
    BY <1>1, <1>2, <1>3, OfferedAdmitted
  <2> QED BY <1>2, <2>1, <2>2, <2>3
<1>4. CASE ci \notin DOMAIN C
  <2>1. Smaller(MaxCount, d + z) = d BY <1>1, <1>2 DEF Smaller
  <2>2. Store!Offered(Entry(C, t, d), ci, z) = Entry(C, t, Smaller(MaxCount, d + z))
    BY <1>1, <1>4, OfferedDropped
  <2> QED BY <2>1, <2>2
<1> QED BY <1>3, <1>4

\* The state of a merge into a packed histogram with geometry g, and into a dense
\* one, seen as BucketStore sees it.
Merging(a, g) ==
  DOMAIN a = {"hist", "dropped"} /\ Good(a.hist) /\ a.hist.geom = g /\ a.dropped \in 0..MaxCount
View(a) == Entry(Spread(a.hist), a.hist.total, a.dropped)

\* A bucket taken is a count offered.
LEMMA TakenFacts ==
  ASSUME NEW g, NEW a, Merging(a, g), NEW ci \in Nat, NEW c \in 1..MaxCount
  PROVE  LET b == Taken(a, ci, c) IN
         /\ Merging(b, g)
         /\ View(b) = Store!Offered(View(a), ci, c)
         /\ \A k \in 0..(a.hist.size - 1) : a.hist.idx[k] = ci =>
              /\ b.hist.size = a.hist.size /\ b.hist.idx = a.hist.idx
              /\ \A j \in 0..(a.hist.size - 1) : j # k => b.hist.cnt[j] = a.hist.cnt[j]
<1> DEFINE r == a.hist
<1> DEFINE b == Taken(a, ci, c)
<1> DEFINE L == r.geom.countsLen
<1>1. DOMAIN a = {"hist", "dropped"} /\ Good(r) /\ r.geom = g /\ a.dropped \in 0..MaxCount /\ Stored(r)
  BY DEF Merging, Good
<1>2. L \in Nat /\ MaxCount \in Nat /\ c \in 0..MaxCount /\ c \in Nat
  BY <1>1, GeometriesBuilt, MaxCountAssumption DEF Stored
<1>3. Wrap64(MaxCount - r.total) = MaxCount - r.total BY <1>1, RoomFacts
<1>4. Spread(r) \in [0..(L - 1) -> Nat] /\ \A i \in 0..(L - 1) : Spread(r)[i] = Count(r, i)
  BY <1>1, SpreadSum
<1>5. r.total \in Nat BY <1>1, <1>2 DEF Good
<1>6. CASE Fits(r.geom, ci) /\ c <= MaxCount - r.total
  <2> DEFINE s == SparseAdd(r, ci, c)
  <2> DEFINE x == Credited(r, ci, c)
  <2>1. ci \in 0..(L - 1) BY <1>6 DEF Fits
  <2>2. Count(r, ci) + c <= MaxCount BY <1>1, <1>6, <2>1, RoomFacts
  <2>3. /\ Stored(s) /\ Kept(r, s) /\ Adds(r, s, ci, c)
        /\ \A k \in 0..(r.size - 1) : r.idx[k] = ci =>
             s.size = r.size /\ s.idx = r.idx /\ s.cnt = [r.cnt EXCEPT ![k] = r.cnt[k] + c]
    BY <1>1, <2>1, <2>2, SparseAddFacts
  <2>4. ~(c > MaxCount - r.total) BY <1>2, <1>5, <1>6
  <2>5. b = [a EXCEPT !.hist = x]
    <3>1. ~(~Fits(a.hist.geom, ci) \/ c > Wrap64(MaxCount - a.hist.total)) BY <1>3, <1>6, <2>4
    <3> QED BY <3>1 DEF Taken
  <2>0. x = [s EXCEPT !.total = Wrap64(@ + c)] BY DEF Credited
  <2>6. DOMAIN b = {"hist", "dropped"} /\ b.hist = x /\ b.dropped = a.dropped BY <1>1, <2>5
  <2> HIDE DEF s
  <2>7. Alike(s, x) /\ x.total = Wrap64(r.total + c) BY <2>0, <2>3 DEF Alike, Stored, Fields, Kept
  <2> HIDE DEF x, b
  <2>8. Gains(r, x, ci, c) BY <1>1, <1>6, <2>1, <2>3, <2>7, GainFacts
  <2>9. Good(x) /\ x.geom = g /\ x.total = r.total + c /\ Adds(r, x, ci, c) BY <1>1, <2>8 DEF Gains
  <2>10. Merging(b, g) BY <1>1, <2>6, <2>9 DEF Merging
  <2>11. Spread(x) = [Spread(r) EXCEPT ![ci] = Spread(r)[ci] + c]
    <3> DEFINE A == Spread(r)
    <3> DEFINE E == [A EXCEPT ![ci] = A[ci] + c]
    <3>1. x.geom.countsLen = L BY <1>1, <2>9
    <3>2. Stored(x) BY <2>9 DEF Good
    <3>3. Spread(x) \in [0..(L - 1) -> Nat] /\ \A i \in 0..(L - 1) : Spread(x)[i] = Count(x, i)
      BY <3>1, <3>2, SpreadSum
    <3> HIDE DEF A, L
    <3>4. A \in [0..(L - 1) -> Nat] /\ \A i \in 0..(L - 1) : A[i] = Count(r, i) BY <1>4 DEF A
    <3>5. E \in [0..(L - 1) -> Nat] BY <1>2, <2>1, <3>4
    <3>6. ASSUME NEW i \in 0..(L - 1) PROVE Spread(x)[i] = E[i]
      <4>1. i \in Int BY <1>2
      <4>2. Spread(x)[i] = A[i] + (IF i = ci THEN c ELSE 0) BY <2>9, <3>3, <3>4, <4>1 DEF Adds
      <4>3. A[i] \in Nat BY <3>4
      <4> QED BY <2>1, <3>4, <4>2, <4>3
    <3> HIDE DEF E
    <3>7. Spread(x) = [i \in 0..(L - 1) |-> Spread(x)[i]] /\ E = [i \in 0..(L - 1) |-> E[i]] BY <3>3, <3>5
    <3>8. Spread(x) = E BY <3>6, <3>7
    <3> QED BY <3>8 DEF E, A
  <2>12. View(b) = Store!Offered(View(a), ci, c)
    <3>1. ci \in DOMAIN Spread(r) BY <1>4, <2>1
    <3>2. Store!Offered(View(a), ci, c)
            = Entry([Spread(r) EXCEPT ![ci] = Spread(r)[ci] + c], r.total + c, a.dropped)
      <4>1. r.total \in Int /\ c \in Int BY <1>2, <1>5
      <4> QED BY <1>6, <3>1, <4>1, OfferedAdmitted DEF View
    <3>3. View(b) = Entry(Spread(x), x.total, a.dropped) BY <2>6 DEF View
    <3> QED BY <2>9, <2>11, <3>2, <3>3
  <2>13. ASSUME NEW k \in 0..(r.size - 1), r.idx[k] = ci
         PROVE  /\ x.size = r.size /\ x.idx = r.idx
                /\ \A j \in 0..(r.size - 1) : j # k => x.cnt[j] = r.cnt[j]
    <3>1. x.size = r.size /\ x.idx = r.idx /\ x.cnt = [r.cnt EXCEPT ![k] = r.cnt[k] + c]
      BY <2>3, <2>7, <2>13 DEF Alike
    <3>2. r.cnt \in [0..(r.size - 1) -> 1..Limit[r.width]] BY <1>1 DEF Stored
    <3> QED BY <3>1, <3>2
  <2> QED BY <2>6, <2>10, <2>12, <2>13 DEF b
<1>7. CASE ~(Fits(r.geom, ci) /\ c <= MaxCount - r.total)
  <2>1. ~Fits(r.geom, ci) \/ c > MaxCount - r.total BY <1>2, <1>5, <1>7
  <2>2. b = [a EXCEPT !.dropped = AddDropped(@, c)] BY <1>3, <2>1 DEF Taken
  <2>3. DOMAIN b = {"hist", "dropped"} /\ b.hist = r /\ b.dropped = AddDropped(a.dropped, c) BY <1>1, <2>2
  <2> HIDE DEF b
  <2>4. b.dropped = Smaller(MaxCount, a.dropped + c) /\ b.dropped \in 0..MaxCount
    BY <1>1, <1>2, <2>3, AddDroppedFacts
  <2>5. Merging(b, g) BY <1>1, <2>3, <2>4 DEF Merging
  <2>6. View(b) = Store!Offered(View(a), ci, c)
    <3>1. ~(ci \in DOMAIN Spread(r) /\ c <= MaxCount - r.total) BY <1>4, <1>7 DEF Fits
    <3>2. Store!Offered(Entry(Spread(r), r.total, a.dropped), ci, c)
            = Entry(Spread(r), r.total, Smaller(MaxCount, a.dropped + c))
      <4>1. r.total \in Int /\ c \in Int BY <1>2, <1>5
      <4> QED BY <3>1, <4>1, OfferedDropped
    <3> QED BY <2>3, <2>4, <3>2 DEF View
  <2> QED BY <2>3, <2>5, <2>6 DEF b
<1> QED BY <1>6, <1>7

\* A dense histogram with its total.
Plain(x) ==
  /\ DOMAIN x = {"geom", "counts", "total"}
  /\ x.geom \in Geometries
  /\ x.counts \in [0..(x.geom.countsLen - 1) -> 0..MaxCount]
  /\ x.total \in 0..MaxCount
  /\ x.total = PrefixSum(x.counts)[x.geom.countsLen]

\* A dense histogram's position raised with room for it.
LEMMA SetCountFacts ==
  ASSUME NEW x, Plain(x), NEW ci \in 0..(x.geom.countsLen - 1), NEW c \in Nat, c <= MaxCount - x.total
  PROVE  LET y == SetCountAtIndex(x, ci, c) IN
         /\ Plain(y) /\ y.geom = x.geom /\ y.total = x.total + c
         /\ y.counts = [x.counts EXCEPT ![ci] = x.counts[ci] + c]
<1> DEFINE L == x.geom.countsLen
<1> DEFINE y == SetCountAtIndex(x, ci, c)
<1>1. MaxCount \in Nat /\ L \in Nat /\ x.total \in Nat BY GeometriesBuilt, MaxCountAssumption DEF Plain
<1> HIDE DEF L
<1>2. x.counts \in [0..(L - 1) -> Nat] /\ ci \in 0..(L - 1) /\ x.counts \in [0..(L - 1) -> 0..MaxCount]
      /\ x.total = PrefixSum(x.counts)[L]
  BY <1>1 DEF Plain, L
<1>3. /\ x.counts[ci] <= PrefixSum(x.counts)[L]
      /\ PrefixSum([x.counts EXCEPT ![ci] = x.counts[ci] + c])[L] = PrefixSum(x.counts)[L] + c
  BY <1>1, <1>2, SumAfterAdd
<1>4. x.counts[ci] + c \in 0..MaxCount /\ x.total + c \in 0..MaxCount
  <2>1. x.counts[ci] \in Nat /\ x.counts[ci] <= x.total BY <1>2, <1>3
  <2> QED BY <1>1, <2>1
<1>5. Wrap64(x.counts[ci] + c) = x.counts[ci] + c /\ Wrap64(x.total + c) = x.total + c
  BY <1>4, Int64Facts, Wrap64Id
<1>6. /\ DOMAIN y = {"geom", "counts", "total"} /\ y.geom = x.geom
      /\ y.counts = [x.counts EXCEPT ![ci] = Wrap64(x.counts[ci] + c)]
      /\ y.total = Wrap64(x.total + c)
  BY DEF SetCountAtIndex, Plain
<1> HIDE DEF y
<1>7. y.counts = [x.counts EXCEPT ![ci] = x.counts[ci] + c] /\ y.total = x.total + c BY <1>5, <1>6
<1>8. y.counts \in [0..(L - 1) -> 0..MaxCount] BY <1>2, <1>4, <1>7
<1>9. y.total = PrefixSum(y.counts)[L] /\ y.total \in 0..MaxCount BY <1>2, <1>3, <1>4, <1>7
<1>10. Plain(y) BY <1>6, <1>8, <1>9 DEF Plain, L
<1> QED BY <1>6, <1>7, <1>10 DEF y

\* The state of a merge into a dense histogram.
MergingDense(a, g) ==
  DOMAIN a = {"hist", "dropped"} /\ Plain(a.hist) /\ a.hist.geom = g /\ a.dropped \in 0..MaxCount
ViewDense(a) == Entry(a.hist.counts, a.hist.total, a.dropped)

\* A bucket taken by a dense histogram is a count offered.
LEMMA TakenDenseFacts ==
  ASSUME NEW g, NEW a, MergingDense(a, g), NEW ci \in Nat, NEW c \in 1..MaxCount
  PROVE  LET b == TakenDense(a, ci, c) IN
         MergingDense(b, g) /\ ViewDense(b) = Store!Offered(ViewDense(a), ci, c)
<1> DEFINE x == a.hist
<1> DEFINE b == TakenDense(a, ci, c)
<1> DEFINE L == x.geom.countsLen
<1>1. DOMAIN a = {"hist", "dropped"} /\ Plain(x) /\ x.geom = g /\ a.dropped \in 0..MaxCount
  BY DEF MergingDense
<1>2. L \in Nat /\ MaxCount \in Nat /\ c \in 0..MaxCount /\ c \in Nat /\ x.total \in 0..MaxCount /\ x.total \in Nat
  BY <1>1, GeometriesBuilt, MaxCountAssumption DEF Plain
<1>3. Wrap64(MaxCount - x.total) = MaxCount - x.total
  <2>1. MaxCount - x.total \in 0..MaxCount BY <1>2
  <2> QED BY <2>1, Int64Facts, Wrap64Id
<1>4. DOMAIN x.counts = 0..(L - 1) /\ x.total \in Int /\ c \in Int BY <1>1, <1>2 DEF Plain
<1>5. CASE Fits(x.geom, ci) /\ c <= MaxCount - x.total
  <2> DEFINE y == SetCountAtIndex(x, ci, c)
  <2>1. ci \in 0..(L - 1) /\ c <= Wrap64(MaxCount - a.hist.total) BY <1>3, <1>5 DEF Fits
  <2>2. b = [a EXCEPT !.hist = y] BY <1>5, <2>1 DEF TakenDense
  <2>3. DOMAIN b = {"hist", "dropped"} /\ b.hist = y /\ b.dropped = a.dropped BY <1>1, <2>2
  <2>4. /\ Plain(y) /\ y.geom = x.geom /\ y.total = x.total + c
        /\ y.counts = [x.counts EXCEPT ![ci] = x.counts[ci] + c]
    BY <1>1, <1>2, <1>5, <2>1, SetCountFacts
  <2> HIDE DEF y, b
  <2>5. MergingDense(b, g) BY <1>1, <2>3, <2>4 DEF MergingDense
  <2>6. ViewDense(b) = Store!Offered(ViewDense(a), ci, c)
    <3>1. Store!Offered(Entry(x.counts, x.total, a.dropped), ci, c)
            = Entry([x.counts EXCEPT ![ci] = x.counts[ci] + c], x.total + c, a.dropped)
      <4>1. ci \in DOMAIN x.counts BY <1>4, <2>1
      <4>2. x.total \in Int /\ c \in Int BY <1>4
      <4> QED BY <1>5, <4>1, <4>2, OfferedAdmitted
    <3> QED BY <2>3, <2>4, <3>1 DEF ViewDense
  <2> QED BY <2>5, <2>6 DEF b
<1>6. CASE ~(Fits(x.geom, ci) /\ c <= MaxCount - x.total)
  <2>1. ~(Fits(a.hist.geom, ci) /\ c <= Wrap64(MaxCount - a.hist.total)) BY <1>3, <1>6
  <2>2. b = [a EXCEPT !.dropped = AddDropped(@, c)] BY <2>1 DEF TakenDense
  <2>3. DOMAIN b = {"hist", "dropped"} /\ b.hist = x /\ b.dropped = AddDropped(a.dropped, c) BY <1>1, <2>2
  <2> HIDE DEF b
  <2>4. b.dropped = Smaller(MaxCount, a.dropped + c) /\ b.dropped \in 0..MaxCount
    BY <1>1, <1>2, <2>3, AddDroppedFacts
  <2>5. MergingDense(b, g) BY <1>1, <2>3, <2>4 DEF MergingDense
  <2>6. ViewDense(b) = Store!Offered(ViewDense(a), ci, c)
    <3>1. Store!Offered(Entry(x.counts, x.total, a.dropped), ci, c)
            = Entry(x.counts, x.total, Smaller(MaxCount, a.dropped + c))
      <4>1. ~(ci \in DOMAIN x.counts /\ c <= MaxCount - x.total) BY <1>4, <1>6 DEF Fits
      <4>2. x.total \in Int /\ c \in Int BY <1>4
      <4> QED BY <4>1, <4>2, OfferedDropped
    <3> QED BY <2>3, <2>4, <3>1 DEF ViewDense
  <2> QED BY <2>5, <2>6 DEF b
<1> QED BY <1>5, <1>6

\* The position that a merge moves position i to is that of its value.
LEMMA TargetFacts ==
  ASSUME NEW g \in Geometries, NEW h \in Geometries, NEW i \in 0..(h.countsLen - 1)
  PROVE  /\ Remapped(g, h, i) = CountsIndexFor(g, ValueFromFlatIndex(h, i))
         /\ Remapped(g, h, i) \in Nat
         /\ SameIndexing(g, h) => CountsIndexFor(g, ValueFromFlatIndex(h, i)) = i
<1>1. Built(g) /\ Built(h) BY GeometriesBuilt
<1>2. ValueFromFlatIndex(h, i) \in 0..MaxInt /\ CountsIndexFor(h, ValueFromFlatIndex(h, i)) = i
  BY <1>1, FlatInverse
<1> DEFINE v == ValueFromFlatIndex(h, i)
<1> HIDE DEF v
<1>3. CountsIndexFor(g, v) \in Nat BY <1>1, <1>2, Covered DEF v
<1>4. SameIndexing(g, h) => CountsIndexFor(g, v) = CountsIndexFor(h, v)
  BY DEF SameIndexing, CountsIndexFor, BucketIndex, SubBucketIndex, CountsIndex
<1>5. SameIndexing(g, h) => CountsIndexFor(g, v) = i BY <1>2, <1>4 DEF v
<1> QED BY <1>3, <1>5 DEF v, Remapped

\* f re-records the counts d of geometry h into counts c with total t of geometry g.
Rerecording(f, g, c, t, h, d) ==
  /\ f[0] = Entry(c, t, 0)
  /\ \A k \in 0..(h.countsLen - 1) :
       f[k + 1] = Store!Offered(f[k], CountsIndexFor(g, ValueFromFlatIndex(h, k)), d[k])

\* MergeFrom is a loop.
LEMMA MergedFromLoop ==
  ASSUME NEW r, NEW x, x.geom.countsLen \in Nat
  PROVE  \E g : /\ g[0] = [hist |-> r, dropped |-> 0]
                /\ \A k \in 0..(x.geom.countsLen - 1) : g[k + 1] = TakenFrom(g[k], x, k)
                /\ MergedFrom(r, x) = g[x.geom.countsLen]
<1> DEFINE N == x.geom.countsLen
<1> DEFINE start == [hist |-> r, dropped |-> 0]
<1> DEFINE Eq(p, n) == p = [k \in 0..n |-> IF k = 0 THEN start ELSE TakenFrom(p[k - 1], x, k - 1)]
<1> DEFINE T == {n \in Nat : \E p : Eq(p, n)}
<1>1. 0 \in T
  <2>1. Eq([k \in 0..0 |-> start], 0) OBVIOUS
  <2> QED BY <2>1
<1>2. ASSUME NEW n \in T PROVE n + 1 \in T
  <2>1. PICK p : Eq(p, n) OBVIOUS
  <2> DEFINE h == [k \in 0..(n + 1) |-> IF k = n + 1 THEN TakenFrom(p[n], x, n) ELSE p[k]]
  <2>2. ASSUME NEW k \in 0..(n + 1)
        PROVE  h[k] = IF k = 0 THEN start ELSE TakenFrom(h[k - 1], x, k - 1)
    <3> HIDE DEF start
    <3>1. CASE k = n + 1
      <4>1. k - 1 = n /\ k # 0 /\ h[k - 1] = p[n] BY <3>1
      <4>2. h[k] = TakenFrom(p[n], x, n) BY <3>1
      <4> HIDE DEF h
      <4> QED BY <3>1, <4>1, <4>2
    <3>2. CASE k # n + 1
      <4>1. k \in 0..n /\ h[k] = p[k] /\ (k # 0 => h[k - 1] = p[k - 1]) BY <3>2
      <4> HIDE DEF h
      <4>2. p[k] = IF k = 0 THEN start ELSE TakenFrom(p[k - 1], x, k - 1) BY <2>1, <4>1
      <4> QED BY <4>1, <4>2
    <3> QED BY <3>1, <3>2
  <2>3. Eq(h, n + 1)
    <3> DEFINE d == [k \in 0..(n + 1) |-> IF k = 0 THEN start ELSE TakenFrom(h[k - 1], x, k - 1)]
    <3>1. \A k \in 0..(n + 1) : h[k] = d[k] BY <2>2
    <3>2. h = d BY <3>1
    <3> QED BY <3>2
  <2>4. \E q : Eq(q, n + 1)
    <3> HIDE DEF h, Eq
    <3> QED BY <2>3
  <2> HIDE DEF Eq
  <2> QED BY <2>4
<1>3. T = Nat
  <2>1. T \in SUBSET Nat OBVIOUS
  <2> HIDE DEF T
  <2> QED BY <1>1, <1>2, <2>1, SetInduction
<1>4. \E p : Eq(p, N)
  <2> HIDE DEF Eq
  <2> QED BY <1>3
<1> DEFINE after == CHOOSE p : Eq(p, N)
<1>5. Eq(after, N)
  <2> HIDE DEF Eq
  <2> QED BY <1>4
<1>6. MergedFrom(r, x) = after[x.geom.countsLen] BY DEF MergedFrom
<1> HIDE DEF after
<1>7. after[0] = start BY <1>5
<1>8. ASSUME NEW k \in 0..(N - 1) PROVE after[k + 1] = TakenFrom(after[k], x, k)
  <2>1. k + 1 \in 0..N /\ k + 1 # 0 /\ (k + 1) - 1 = k OBVIOUS
  <2> HIDE DEF start
  <2> QED BY <1>5, <2>1
<1> QED BY <1>6, <1>7, <1>8

\* MergeInto is a loop.
LEMMA MergedIntoLoop ==
  ASSUME NEW r, NEW x, r.size \in Nat
  PROVE  \E g : /\ g[0] = [hist |-> x, dropped |-> 0]
                /\ \A k \in 0..(r.size - 1) : g[k + 1] = TakenDense(g[k], Remapped(x.geom, r.geom, r.idx[k]), r.cnt[k])
                /\ MergedInto(r, x) = g[r.size]
<1> DEFINE N == r.size
<1> DEFINE start == [hist |-> x, dropped |-> 0]
<1> DEFINE Eq(p, n) == p = [k \in 0..n |-> IF k = 0 THEN start ELSE TakenDense(p[k - 1], Remapped(x.geom, r.geom, r.idx[k - 1]), r.cnt[k - 1])]
<1> DEFINE T == {n \in Nat : \E p : Eq(p, n)}
<1>1. 0 \in T
  <2>1. Eq([k \in 0..0 |-> start], 0) OBVIOUS
  <2> QED BY <2>1
<1>2. ASSUME NEW n \in T PROVE n + 1 \in T
  <2>1. PICK p : Eq(p, n) OBVIOUS
  <2> DEFINE h == [k \in 0..(n + 1) |-> IF k = n + 1 THEN TakenDense(p[n], Remapped(x.geom, r.geom, r.idx[n]), r.cnt[n]) ELSE p[k]]
  <2>2. ASSUME NEW k \in 0..(n + 1)
        PROVE  h[k] = IF k = 0 THEN start ELSE TakenDense(h[k - 1], Remapped(x.geom, r.geom, r.idx[k - 1]), r.cnt[k - 1])
    <3> HIDE DEF start
    <3>1. CASE k = n + 1
      <4>1. k - 1 = n /\ k # 0 /\ h[k - 1] = p[n] BY <3>1
      <4>2. h[k] = TakenDense(p[n], Remapped(x.geom, r.geom, r.idx[n]), r.cnt[n]) BY <3>1
      <4> HIDE DEF h
      <4> QED BY <3>1, <4>1, <4>2
    <3>2. CASE k # n + 1
      <4>1. k \in 0..n /\ h[k] = p[k] /\ (k # 0 => h[k - 1] = p[k - 1]) BY <3>2
      <4> HIDE DEF h
      <4>2. p[k] = IF k = 0 THEN start ELSE TakenDense(p[k - 1], Remapped(x.geom, r.geom, r.idx[k - 1]), r.cnt[k - 1]) BY <2>1, <4>1
      <4> QED BY <4>1, <4>2
    <3> QED BY <3>1, <3>2
  <2>3. Eq(h, n + 1)
    <3> DEFINE d == [k \in 0..(n + 1) |-> IF k = 0 THEN start ELSE TakenDense(h[k - 1], Remapped(x.geom, r.geom, r.idx[k - 1]), r.cnt[k - 1])]
    <3>1. \A k \in 0..(n + 1) : h[k] = d[k] BY <2>2
    <3>2. h = d BY <3>1
    <3> QED BY <3>2
  <2>4. \E q : Eq(q, n + 1)
    <3> HIDE DEF h, Eq
    <3> QED BY <2>3
  <2> HIDE DEF Eq
  <2> QED BY <2>4
<1>3. T = Nat
  <2>1. T \in SUBSET Nat OBVIOUS
  <2> HIDE DEF T
  <2> QED BY <1>1, <1>2, <2>1, SetInduction
<1>4. \E p : Eq(p, N)
  <2> HIDE DEF Eq
  <2> QED BY <1>3
<1> DEFINE after == CHOOSE p : Eq(p, N)
<1>5. Eq(after, N)
  <2> HIDE DEF Eq
  <2> QED BY <1>4
<1>6. MergedInto(r, x) = after[r.size] BY DEF MergedInto
<1> HIDE DEF after
<1>7. after[0] = start BY <1>5
<1>8. ASSUME NEW k \in 0..(N - 1) PROVE after[k + 1] = TakenDense(after[k], Remapped(x.geom, r.geom, r.idx[k]), r.cnt[k])
  <2>1. k + 1 \in 0..N /\ k + 1 # 0 /\ (k + 1) - 1 = k OBVIOUS
  <2> HIDE DEF start
  <2> QED BY <1>5, <2>1
<1> QED BY <1>6, <1>7, <1>8

\* Merge bucket by bucket is a loop.
LEMMA MergedSlowlyLoop ==
  ASSUME NEW r, NEW f, NEW self, f.size \in Nat
  PROVE  \E g : /\ g[0] = [hist |-> r, dropped |-> 0]
                /\ \A k \in 0..(f.size - 1) : g[k + 1] = TakenBucket(g[k], IF self THEN g[k].hist ELSE f, k)
                /\ MergedSlowly(r, f, self) = g[f.size]
<1> DEFINE N == f.size
<1> DEFINE start == [hist |-> r, dropped |-> 0]
<1> DEFINE Eq(p, n) == p = [k \in 0..n |-> IF k = 0 THEN start ELSE TakenBucket(p[k - 1], IF self THEN p[k - 1].hist ELSE f, k - 1)]
<1> DEFINE T == {n \in Nat : \E p : Eq(p, n)}
<1>1. 0 \in T
  <2>1. Eq([k \in 0..0 |-> start], 0) OBVIOUS
  <2> QED BY <2>1
<1>2. ASSUME NEW n \in T PROVE n + 1 \in T
  <2>1. PICK p : Eq(p, n) OBVIOUS
  <2> DEFINE h == [k \in 0..(n + 1) |-> IF k = n + 1 THEN TakenBucket(p[n], IF self THEN p[n].hist ELSE f, n) ELSE p[k]]
  <2>2. ASSUME NEW k \in 0..(n + 1)
        PROVE  h[k] = IF k = 0 THEN start ELSE TakenBucket(h[k - 1], IF self THEN h[k - 1].hist ELSE f, k - 1)
    <3> HIDE DEF start
    <3>1. CASE k = n + 1
      <4>1. k - 1 = n /\ k # 0 /\ h[k - 1] = p[n] BY <3>1
      <4>2. h[k] = TakenBucket(p[n], IF self THEN p[n].hist ELSE f, n) BY <3>1
      <4> HIDE DEF h
      <4> QED BY <3>1, <4>1, <4>2
    <3>2. CASE k # n + 1
      <4>1. k \in 0..n /\ h[k] = p[k] /\ (k # 0 => h[k - 1] = p[k - 1]) BY <3>2
      <4> HIDE DEF h
      <4>2. p[k] = IF k = 0 THEN start ELSE TakenBucket(p[k - 1], IF self THEN p[k - 1].hist ELSE f, k - 1) BY <2>1, <4>1
      <4> QED BY <4>1, <4>2
    <3> QED BY <3>1, <3>2
  <2>3. Eq(h, n + 1)
    <3> DEFINE d == [k \in 0..(n + 1) |-> IF k = 0 THEN start ELSE TakenBucket(h[k - 1], IF self THEN h[k - 1].hist ELSE f, k - 1)]
    <3>1. \A k \in 0..(n + 1) : h[k] = d[k] BY <2>2
    <3>2. h = d BY <3>1
    <3> QED BY <3>2
  <2>4. \E q : Eq(q, n + 1)
    <3> HIDE DEF h, Eq
    <3> QED BY <2>3
  <2> HIDE DEF Eq
  <2> QED BY <2>4
<1>3. T = Nat
  <2>1. T \in SUBSET Nat OBVIOUS
  <2> HIDE DEF T
  <2> QED BY <1>1, <1>2, <2>1, SetInduction
<1>4. \E p : Eq(p, N)
  <2> HIDE DEF Eq
  <2> QED BY <1>3
<1> DEFINE after == CHOOSE p : Eq(p, N)
<1>5. Eq(after, N)
  <2> HIDE DEF Eq
  <2> QED BY <1>4
<1>6. MergedSlowly(r, f, self) = after[f.size] BY DEF MergedSlowly
<1> HIDE DEF after
<1>7. after[0] = start BY <1>5
<1>8. ASSUME NEW k \in 0..(N - 1) PROVE after[k + 1] = TakenBucket(after[k], IF self THEN after[k].hist ELSE f, k)
  <2>1. k + 1 \in 0..N /\ k + 1 # 0 /\ (k + 1) - 1 = k OBVIOUS
  <2> HIDE DEF start
  <2> QED BY <1>5, <2>1
<1> QED BY <1>6, <1>7, <1>8

\* A merge starts with nothing dropped.
LEMMA MergeStarts ==
  ASSUME NEW r
  PROVE  /\ Good(r) => /\ Merging([hist |-> r, dropped |-> 0], r.geom)
                       /\ View([hist |-> r, dropped |-> 0]) = Entry(Spread(r), r.total, 0)
         /\ Plain(r) => /\ MergingDense([hist |-> r, dropped |-> 0], r.geom)
                        /\ ViewDense([hist |-> r, dropped |-> 0]) = Entry(r.counts, r.total, 0)
<1> DEFINE a == [hist |-> r, dropped |-> 0]
<1>1. DOMAIN a = {"hist", "dropped"} /\ a.hist = r /\ a.dropped = 0 OBVIOUS
<1> HIDE DEF a
<1>2. 0 \in 0..MaxCount BY MaxCountAssumption
<1>3. Good(r) => Merging(a, r.geom) BY <1>1, <1>2 DEF Merging
<1>4. View(a) = Entry(Spread(r), r.total, 0) BY <1>1 DEF View
<1>5. Plain(r) => MergingDense(a, r.geom) BY <1>1, <1>2 DEF MergingDense
<1>6. ViewDense(a) = Entry(r.counts, r.total, 0) BY <1>1 DEF ViewDense
<1> QED BY <1>3, <1>4, <1>5, <1>6 DEF a

\* Offering nothing to either kind of histogram.
LEMMA NothingTaken ==
  ASSUME NEW a, NEW g, NEW ci, NEW z, z = 0
  PROVE  /\ Merging(a, g) => Store!Offered(View(a), ci, z) = View(a)
         /\ MergingDense(a, g) => Store!Offered(ViewDense(a), ci, z) = ViewDense(a)
<1>1. ASSUME Merging(a, g) PROVE Store!Offered(View(a), ci, z) = View(a)
  <2> DEFINE C == Spread(a.hist)
  <2> DEFINE t == a.hist.total
  <2> DEFINE d == a.dropped
  <2>1. Stored(a.hist) /\ t \in 0..MaxCount /\ d \in 0..MaxCount BY <1>1 DEF Merging, Good
  <2>2. C \in [0..(a.hist.geom.countsLen - 1) -> Nat] BY <2>1, SpreadSum
  <2> HIDE DEF C, t, d
  <2>3. C = [i \in DOMAIN C |-> C[i]] /\ \A i \in DOMAIN C : C[i] \in Nat BY <2>2
  <2>4. Store!Offered(Entry(C, t, d), ci, z) = Entry(C, t, d) BY <2>1, <2>3, OfferedNothing
  <2> QED BY <2>4 DEF C, t, d, View
<1>2. ASSUME MergingDense(a, g) PROVE Store!Offered(ViewDense(a), ci, z) = ViewDense(a)
  <2> DEFINE C == a.hist.counts
  <2> DEFINE t == a.hist.total
  <2> DEFINE d == a.dropped
  <2>1. t \in 0..MaxCount /\ d \in 0..MaxCount BY <1>2 DEF MergingDense, Plain
  <2>2. C \in [0..(a.hist.geom.countsLen - 1) -> 0..MaxCount] BY <1>2 DEF MergingDense, Plain
  <2> HIDE DEF C, t, d
  <2>3. C = [i \in DOMAIN C |-> C[i]] /\ \A i \in DOMAIN C : C[i] \in Nat BY <2>2, MaxCountAssumption
  <2>4. Store!Offered(Entry(C, t, d), ci, z) = Entry(C, t, d) BY <2>1, <2>3, OfferedNothing
  <2> QED BY <2>4 DEF C, t, d, ViewDense
<1> QED BY <1>1, <1>2

\* MergeFrom re-records the dense counts.
LEMMA MergedFromFacts ==
  ASSUME NEW r, Good(r), NEW x, Plain(x),
         NEW f, Rerecording(f, r.geom, Spread(r), r.total, x.geom, x.counts)
  PROVE  Merging(MergedFrom(r, x), r.geom) /\ View(MergedFrom(r, x)) = f[x.geom.countsLen]
<1> DEFINE N == x.geom.countsLen
<1> DEFINE G == r.geom
<1>1. N \in Nat /\ G \in Geometries /\ x.geom \in Geometries /\ MaxCount \in Nat
  BY GeometriesBuilt, MaxCountAssumption DEF Plain, Good, Stored
<1>2. PICK e : /\ e[0] = [hist |-> r, dropped |-> 0]
               /\ \A k \in 0..(N - 1) : e[k + 1] = TakenFrom(e[k], x, k)
               /\ MergedFrom(r, x) = e[N]
  BY <1>1, MergedFromLoop
<1>3. /\ f[0] = Entry(Spread(r), r.total, 0)
      /\ \A k \in 0..(N - 1) :
           f[k + 1] = Store!Offered(f[k], CountsIndexFor(G, ValueFromFlatIndex(x.geom, k)), x.counts[k])
  BY DEF Rerecording
<1>4. \A k \in 0..(N - 1) : x.counts[k] \in 0..MaxCount BY DEF Plain
<1> HIDE DEF N, G
<1> DEFINE S == {k \in Nat : k <= N => Merging(e[k], G) /\ View(e[k]) = f[k]}
<1>5. 0 \in S
  <2>1. Merging(e[0], G) /\ View(e[0]) = f[0] BY <1>2, <1>3, MergeStarts DEF G
  <2> QED BY <2>1
<1>6. ASSUME NEW k \in S PROVE k + 1 \in S
  <2> SUFFICES ASSUME k + 1 <= N PROVE Merging(e[k + 1], G) /\ View(e[k + 1]) = f[k + 1] OBVIOUS
  <2>1. k \in 0..(N - 1) /\ k <= N BY <1>1
  <2>2. Merging(e[k], G) /\ View(e[k]) = f[k] BY <2>1
  <2> HIDE DEF S
  <2> DEFINE ci == CountsIndexFor(G, ValueFromFlatIndex(x.geom, k))
  <2> DEFINE c == x.counts[k]
  <2>3. Remapped(G, x.geom, k) = ci /\ ci \in Nat
    <3>1. Remapped(G, x.geom, k) = ci /\ Remapped(G, x.geom, k) \in Nat BY <1>1, <2>1, TargetFacts DEF N
    <3> QED BY <3>1
  <2>4. f[k + 1] = Store!Offered(f[k], ci, c) BY <1>3, <2>1
  <2>5. e[k + 1] = TakenFrom(e[k], x, k) BY <1>2, <2>1
  <2>6. e[k].hist.geom = G BY <2>2 DEF Merging
  <2>7. c \in 0..MaxCount /\ c = x.counts[k] BY <1>4, <2>1
  <2> HIDE DEF ci, c
  <2>8. CASE c = 0
    <3>1. e[k + 1] = e[k] BY <2>5, <2>7, <2>8 DEF TakenFrom
    <3>2. Store!Offered(View(e[k]), ci, c) = View(e[k]) BY <2>2, <2>8, NothingTaken
    <3> QED BY <2>2, <2>4, <3>1, <3>2
  <2>9. CASE c # 0
    <3>1. c \in 1..MaxCount /\ ~(c <= 0) BY <1>1, <2>7, <2>9
    <3>2. e[k + 1] = Taken(e[k], ci, c) BY <2>3, <2>5, <2>6, <2>7, <3>1 DEF TakenFrom
    <3>3. Merging(Taken(e[k], ci, c), G) /\ View(Taken(e[k], ci, c)) = Store!Offered(View(e[k]), ci, c)
      BY <2>2, <2>3, <3>1, TakenFacts
    <3> QED BY <2>2, <2>4, <3>2, <3>3
  <2> QED BY <2>8, <2>9
<1>7. S = Nat
  <2>1. S \in SUBSET Nat OBVIOUS
  <2> HIDE DEF S
  <2> QED BY <1>5, <1>6, <2>1, SetInduction
<1>8. Merging(e[N], G) /\ View(e[N]) = f[N] BY <1>1, <1>7
<1> QED BY <1>2, <1>8 DEF N, G

\* MergeInto re-records the buckets.
LEMMA MergedIntoFacts ==
  ASSUME NEW r, Good(r), NEW x, Plain(x),
         NEW f, Rerecording(f, x.geom, x.counts, x.total, r.geom, Spread(r))
  PROVE  MergingDense(MergedInto(r, x), x.geom) /\ ViewDense(MergedInto(r, x)) = f[r.geom.countsLen]
<1> DEFINE N == r.geom.countsLen
<1> DEFINE G == x.geom
<1>1. N \in Nat /\ G \in Geometries /\ r.geom \in Geometries /\ r.size \in Nat /\ Stored(r)
  BY GeometriesBuilt DEF Plain, Good, Stored
<1>2. PICK e : /\ e[0] = [hist |-> x, dropped |-> 0]
               /\ \A k \in 0..(r.size - 1) :
                    e[k + 1] = TakenDense(e[k], Remapped(G, r.geom, r.idx[k]), r.cnt[k])
               /\ MergedInto(r, x) = e[r.size]
  BY <1>1, MergedIntoLoop
<1>3. /\ f[0] = Entry(x.counts, x.total, 0)
      /\ \A b \in 0..(N - 1) :
           f[b + 1] = Store!Offered(f[b], CountsIndexFor(G, ValueFromFlatIndex(r.geom, b)), Spread(r)[b])
  BY DEF Rerecording
<1>4. \A b \in 0..(N - 1) : Spread(r)[b] = Count(r, b) BY <1>1, SpreadSum
<1>5. Border(r, r.size, N) BY <1>1, BorderFacts
<1> HIDE DEF N, G
<1> DEFINE S == {b \in Nat : b <= N => \A k \in 0..r.size :
                   Border(r, k, b) => MergingDense(e[k], G) /\ ViewDense(e[k]) = f[b]}
<1>6. 0 \in S
  <2>1. ASSUME NEW k \in 0..r.size, Border(r, k, 0) PROVE MergingDense(e[k], G) /\ ViewDense(e[k]) = f[0]
    <3>1. k = 0 BY <1>1, <2>1, BorderFacts
    <3> QED BY <3>1, <1>2, <1>3, MergeStarts DEF G
  <2> QED BY <2>1
<1>7. ASSUME NEW b \in S PROVE b + 1 \in S
  <2> SUFFICES ASSUME b + 1 <= N, NEW k \in 0..r.size, Border(r, k, b + 1)
               PROVE  MergingDense(e[k], G) /\ ViewDense(e[k]) = f[b + 1]
    OBVIOUS
  <2>1. b \in 0..(N - 1) /\ b <= N BY <1>1
  <2>2. \A n \in 0..r.size : Border(r, n, b) => MergingDense(e[n], G) /\ ViewDense(e[n]) = f[b] BY <2>1
  <2> HIDE DEF S
  <2> DEFINE ci == CountsIndexFor(G, ValueFromFlatIndex(r.geom, b))
  <2> DEFINE c == Spread(r)[b]
  <2>3. Remapped(G, r.geom, b) = ci /\ ci \in Nat
    <3>1. Remapped(G, r.geom, b) = ci /\ Remapped(G, r.geom, b) \in Nat BY <1>1, <2>1, TargetFacts DEF N
    <3> QED BY <3>1
  <2>4. f[b + 1] = Store!Offered(f[b], ci, c) BY <1>3, <2>1
  <2>5. c = Count(r, b) BY <1>4, <2>1
  <2> HIDE DEF ci, c
  <2>6. \/ \E j \in 0..(r.size - 1) : r.idx[j] = b /\ k = j + 1 /\ Border(r, j, b)
        \/ (\A j \in 0..(r.size - 1) : r.idx[j] # b) /\ Border(r, k, b)
    BY <1>1, <2>1, BorderFacts DEF N
  <2>7. CASE \E j \in 0..(r.size - 1) : r.idx[j] = b /\ k = j + 1 /\ Border(r, j, b)
    <3>1. PICK j \in 0..(r.size - 1) : r.idx[j] = b /\ k = j + 1 /\ Border(r, j, b) BY <2>7
    <3>2. j \in 0..r.size BY <1>1
    <3>3. MergingDense(e[j], G) /\ ViewDense(e[j]) = f[b] BY <2>2, <3>1, <3>2
    <3>4. c = r.cnt[j] /\ c \in 1..MaxCount BY <1>1, <2>5, <3>1, CountFacts, BucketFacts
    <3>5. e[k] = TakenDense(e[j], ci, c) BY <1>2, <2>3, <3>1, <3>4
    <3>6. /\ MergingDense(TakenDense(e[j], ci, c), G)
          /\ ViewDense(TakenDense(e[j], ci, c)) = Store!Offered(ViewDense(e[j]), ci, c)
      BY <2>3, <3>3, <3>4, TakenDenseFacts
    <3> QED BY <2>4, <3>3, <3>5, <3>6
  <2>8. CASE (\A j \in 0..(r.size - 1) : r.idx[j] # b) /\ Border(r, k, b)
    <3>1. MergingDense(e[k], G) /\ ViewDense(e[k]) = f[b] BY <2>2, <2>8
    <3>2. c = 0 BY <1>1, <2>5, <2>8, CountFacts
    <3>3. Store!Offered(ViewDense(e[k]), ci, c) = ViewDense(e[k]) BY <3>1, <3>2, NothingTaken
    <3> QED BY <2>4, <3>1, <3>3
  <2> QED BY <2>6, <2>7, <2>8
<1>8. S = Nat
  <2>1. S \in SUBSET Nat OBVIOUS
  <2> HIDE DEF S
  <2> QED BY <1>6, <1>7, <2>1, SetInduction
<1>9. MergingDense(e[r.size], G) /\ ViewDense(e[r.size]) = f[N]
  <2>1. N \in S /\ N <= N /\ r.size \in 0..r.size BY <1>1, <1>8
  <2> QED BY <2>1, <1>5
<1> QED BY <1>2, <1>9 DEF N, G

\* Merge bucket by bucket takes the buckets that its source had at the call, even
\* when the source is the histogram that it changes.
LEMMA SlowlySteps ==
  ASSUME NEW r, Good(r), NEW q, Good(q), NEW self \in BOOLEAN, self => q = r
  PROVE  \E e : /\ e[0] = [hist |-> r, dropped |-> 0]
                /\ \A k \in 0..(q.size - 1) :
                     e[k + 1] = Taken(e[k], Remapped(r.geom, q.geom, q.idx[k]), q.cnt[k])
                /\ MergedSlowly(r, q, self) = e[q.size]
<1> DEFINE G == r.geom
<1>1. /\ q.size \in Nat /\ Stored(r) /\ Stored(q) /\ G \in Geometries /\ q.geom \in Geometries
  BY DEF Good, Stored
<1>2. PICK e : /\ e[0] = [hist |-> r, dropped |-> 0]
               /\ \A k \in 0..(q.size - 1) : e[k + 1] = TakenBucket(e[k], IF self THEN e[k].hist ELSE q, k)
               /\ MergedSlowly(r, q, self) = e[q.size]
  BY <1>1, MergedSlowlyLoop
<1>3. \A k \in 0..(q.size - 1) : /\ q.idx[k] \in 0..(q.geom.countsLen - 1) /\ q.cnt[k] \in 1..MaxCount
                                 /\ Remapped(G, q.geom, q.idx[k]) \in Nat
  BY <1>1, BucketFacts, TargetFacts
<1> HIDE DEF G
<1> DEFINE Q(k) == /\ Merging(e[k], G)
                   /\ self => /\ e[k].hist.size = r.size /\ e[k].hist.idx = r.idx
                              /\ \A j \in k..(r.size - 1) : e[k].hist.cnt[j] = r.cnt[j]
<1> DEFINE S == {k \in Nat : k <= q.size => Q(k)}
<1>4. 0 \in S
  <2>1. Merging(e[0], G) BY <1>2, MergeStarts DEF G
  <2>2. e[0].hist = r BY <1>2
  <2> QED BY <2>1, <2>2
<1>5. ASSUME NEW k \in 0..(q.size - 1), Q(k)
      PROVE  e[k + 1] = Taken(e[k], Remapped(G, q.geom, q.idx[k]), q.cnt[k])
  <2>1. e[k + 1] = TakenBucket(e[k], IF self THEN e[k].hist ELSE q, k) BY <1>2
  <2>2. e[k].hist.geom = G BY <1>5 DEF Merging
  <2>3. CASE ~self BY <2>1, <2>2, <2>3 DEF TakenBucket
  <2>4. CASE self
    <3>1. q = r /\ k \in k..(r.size - 1) BY <1>1, <2>4
    <3>2. e[k].hist.idx = q.idx /\ e[k].hist.cnt[k] = q.cnt[k] /\ q.geom = G BY <1>5, <2>4, <3>1 DEF G
    <3>3. e[k + 1] = TakenBucket(e[k], e[k].hist, k) BY <2>1, <2>4
    <3> QED BY <2>2, <3>2, <3>3 DEF TakenBucket
  <2> QED BY <2>3, <2>4
<1>6. ASSUME NEW k \in S PROVE k + 1 \in S
  <2> SUFFICES ASSUME k + 1 <= q.size PROVE Q(k + 1) OBVIOUS
  <2>1. k \in 0..(q.size - 1) /\ k <= q.size BY <1>1
  <2>2. Q(k) BY <2>1
  <2> DEFINE ci == Remapped(G, q.geom, q.idx[k])
  <2> DEFINE c == q.cnt[k]
  <2>3. e[k + 1] = Taken(e[k], ci, c) BY <1>5, <2>1, <2>2
  <2>4. ci \in Nat /\ c \in 1..MaxCount BY <1>3, <2>1
  <2> HIDE DEF S
  <2>5. self => q = r /\ ci = r.idx[k] /\ k \in 0..(r.size - 1)
    <3> SUFFICES ASSUME self PROVE q = r /\ ci = r.idx[k] /\ k \in 0..(r.size - 1) OBVIOUS
    <3>1. q = r /\ q.geom = G BY DEF G
    <3>2. SameIndexing(G, q.geom) BY <3>1 DEF SameIndexing
    <3> QED BY <2>1, <3>1, <3>2 DEF Remapped
  <2> HIDE DEF ci, c
  <2>6. /\ Merging(e[k + 1], G)
        /\ \A n \in 0..(e[k].hist.size - 1) : e[k].hist.idx[n] = ci =>
             /\ e[k + 1].hist.size = e[k].hist.size /\ e[k + 1].hist.idx = e[k].hist.idx
             /\ \A j \in 0..(e[k].hist.size - 1) : j # n => e[k + 1].hist.cnt[j] = e[k].hist.cnt[j]
    <3> DEFINE a == e[k]
    <3> DEFINE t == Taken(a, ci, c)
    <3>1. Merging(a, G) BY <2>2
    <3> HIDE DEF a
    <3>2. /\ Merging(t, G)
          /\ \A n \in 0..(a.hist.size - 1) : a.hist.idx[n] = ci =>
               /\ t.hist.size = a.hist.size /\ t.hist.idx = a.hist.idx
               /\ \A j \in 0..(a.hist.size - 1) : j # n => t.hist.cnt[j] = a.hist.cnt[j]
      BY <2>4, <3>1, TakenFacts
    <3>3. e[k + 1] = t BY <2>3 DEF a
    <3> HIDE DEF t
    <3> QED BY <3>2, <3>3 DEF a
  <2>7. ASSUME self
        PROVE  /\ e[k + 1].hist.size = r.size /\ e[k + 1].hist.idx = r.idx
               /\ \A j \in (k + 1)..(r.size - 1) : e[k + 1].hist.cnt[j] = r.cnt[j]
    <3>1. e[k].hist.size = r.size /\ e[k].hist.idx = r.idx /\ e[k].hist.idx[k] = ci /\ k \in 0..(r.size - 1)
      BY <2>2, <2>5, <2>7
    <3>2. /\ e[k + 1].hist.size = r.size /\ e[k + 1].hist.idx = r.idx
          /\ \A j \in 0..(r.size - 1) : j # k => e[k + 1].hist.cnt[j] = e[k].hist.cnt[j]
      BY <2>6, <3>1
    <3>3. ASSUME NEW j \in (k + 1)..(r.size - 1) PROVE e[k + 1].hist.cnt[j] = r.cnt[j]
      <4>1. j \in 0..(r.size - 1) /\ j # k /\ j \in k..(r.size - 1) BY <2>1
      <4> QED BY <2>2, <2>7, <3>2, <4>1
    <3> QED BY <3>2, <3>3
  <2> QED BY <2>6, <2>7
<1>7. S = Nat
  <2>1. S \in SUBSET Nat OBVIOUS
  <2> HIDE DEF S
  <2> QED BY <1>4, <1>6, <2>1, SetInduction
<1>8. ASSUME NEW k \in 0..(q.size - 1) PROVE e[k + 1] = Taken(e[k], Remapped(G, q.geom, q.idx[k]), q.cnt[k])
  <2>1. k \in S /\ k <= q.size BY <1>1, <1>7
  <2>2. Q(k) BY <2>1
  <2> HIDE DEF Q, S
  <2> QED BY <1>5, <2>2
<1> QED BY <1>2, <1>8 DEF G

\* Merge bucket by bucket re-records the buckets.
LEMMA MergedSlowlyFacts ==
  ASSUME NEW x, Good(x), NEW r, Good(r), NEW self \in BOOLEAN, self => r = x,
         NEW f, Rerecording(f, x.geom, Spread(x), x.total, r.geom, Spread(r))
  PROVE  Merging(MergedSlowly(x, r, self), x.geom) /\ View(MergedSlowly(x, r, self)) = f[r.geom.countsLen]
<1> DEFINE N == r.geom.countsLen
<1> DEFINE G == x.geom
<1>1. N \in Nat /\ G \in Geometries /\ r.geom \in Geometries /\ r.size \in Nat /\ Stored(r)
  BY GeometriesBuilt DEF Good, Stored
<1>2. PICK e : /\ e[0] = [hist |-> x, dropped |-> 0]
               /\ \A k \in 0..(r.size - 1) :
                    e[k + 1] = Taken(e[k], Remapped(G, r.geom, r.idx[k]), r.cnt[k])
               /\ MergedSlowly(x, r, self) = e[r.size]
  BY SlowlySteps
<1>3. /\ f[0] = Entry(Spread(x), x.total, 0)
      /\ \A b \in 0..(N - 1) :
           f[b + 1] = Store!Offered(f[b], CountsIndexFor(G, ValueFromFlatIndex(r.geom, b)), Spread(r)[b])
  BY DEF Rerecording
<1>4. \A b \in 0..(N - 1) : Spread(r)[b] = Count(r, b) BY <1>1, SpreadSum
<1>5. Border(r, r.size, N) BY <1>1, BorderFacts
<1> HIDE DEF N, G
<1> DEFINE S == {b \in Nat : b <= N => \A k \in 0..r.size :
                   Border(r, k, b) => Merging(e[k], G) /\ View(e[k]) = f[b]}
<1>6. 0 \in S
  <2>1. ASSUME NEW k \in 0..r.size, Border(r, k, 0) PROVE Merging(e[k], G) /\ View(e[k]) = f[0]
    <3>1. k = 0 BY <1>1, <2>1, BorderFacts
    <3> QED BY <3>1, <1>2, <1>3, MergeStarts DEF G
  <2> QED BY <2>1
<1>7. ASSUME NEW b \in S PROVE b + 1 \in S
  <2> SUFFICES ASSUME b + 1 <= N, NEW k \in 0..r.size, Border(r, k, b + 1)
               PROVE  Merging(e[k], G) /\ View(e[k]) = f[b + 1]
    OBVIOUS
  <2>1. b \in 0..(N - 1) /\ b <= N BY <1>1
  <2>2. \A n \in 0..r.size : Border(r, n, b) => Merging(e[n], G) /\ View(e[n]) = f[b] BY <2>1
  <2> HIDE DEF S
  <2> DEFINE ci == CountsIndexFor(G, ValueFromFlatIndex(r.geom, b))
  <2> DEFINE c == Spread(r)[b]
  <2>3. Remapped(G, r.geom, b) = ci /\ ci \in Nat
    <3>1. Remapped(G, r.geom, b) = ci /\ Remapped(G, r.geom, b) \in Nat BY <1>1, <2>1, TargetFacts DEF N
    <3> QED BY <3>1
  <2>4. f[b + 1] = Store!Offered(f[b], ci, c) BY <1>3, <2>1
  <2>5. c = Count(r, b) BY <1>4, <2>1
  <2> HIDE DEF ci, c
  <2>6. \/ \E j \in 0..(r.size - 1) : r.idx[j] = b /\ k = j + 1 /\ Border(r, j, b)
        \/ (\A j \in 0..(r.size - 1) : r.idx[j] # b) /\ Border(r, k, b)
    BY <1>1, <2>1, BorderFacts DEF N
  <2>7. CASE \E j \in 0..(r.size - 1) : r.idx[j] = b /\ k = j + 1 /\ Border(r, j, b)
    <3>1. PICK j \in 0..(r.size - 1) : r.idx[j] = b /\ k = j + 1 /\ Border(r, j, b) BY <2>7
    <3>2. j \in 0..r.size BY <1>1
    <3>3. Merging(e[j], G) /\ View(e[j]) = f[b] BY <2>2, <3>1, <3>2
    <3>4. c = r.cnt[j] /\ c \in 1..MaxCount BY <1>1, <2>5, <3>1, CountFacts, BucketFacts
    <3>5. e[k] = Taken(e[j], ci, c) BY <1>2, <2>3, <3>1, <3>4
    <3>6. /\ Merging(Taken(e[j], ci, c), G)
          /\ View(Taken(e[j], ci, c)) = Store!Offered(View(e[j]), ci, c)
      <4> DEFINE a == e[j]
      <4> DEFINE t == Taken(a, ci, c)
      <4>1. Merging(a, G) BY <3>3
      <4> HIDE DEF a
      <4>2. Merging(t, G) /\ View(t) = Store!Offered(View(a), ci, c)
        BY <2>3, <3>4, <4>1, TakenFacts
      <4> QED BY <4>2 DEF a
    <3> QED BY <2>4, <3>3, <3>5, <3>6
  <2>8. CASE (\A j \in 0..(r.size - 1) : r.idx[j] # b) /\ Border(r, k, b)
    <3>1. Merging(e[k], G) /\ View(e[k]) = f[b] BY <2>2, <2>8
    <3>2. c = 0 BY <1>1, <2>5, <2>8, CountFacts
    <3>3. Store!Offered(View(e[k]), ci, c) = View(e[k]) BY <3>1, <3>2, NothingTaken
    <3> QED BY <2>4, <3>1, <3>3
  <2> QED BY <2>6, <2>7, <2>8
<1>8. S = Nat
  <2>1. S \in SUBSET Nat OBVIOUS
  <2> HIDE DEF S
  <2> QED BY <1>6, <1>7, <2>1, SetInduction
<1>9. Merging(e[r.size], G) /\ View(e[r.size]) = f[N]
  <2>1. N \in S /\ N <= N /\ r.size \in 0..r.size BY <1>1, <1>8
  <2> QED BY <2>1, <1>5
<1> QED BY <1>2, <1>9 DEF N, G

-----------------------------------------------------------------------------
(* The fast merge.                                                          *)

\* Trimming is a loop.
LEMMA TrimmedLoop ==
  ASSUME NEW r, NEW f, f.size \in Nat
  PROVE  \E g : /\ g[0] = [n |-> f.size, dropped |-> 0]
                /\ \A k \in 0..(f.size - 1) : g[k + 1] = TrimStep(g[k], r.geom.countsLen, f)
                /\ Trimmed(r, f) = g[f.size]
<1> DEFINE N == f.size
<1> DEFINE start == [n |-> f.size, dropped |-> 0]
<1> DEFINE Eq(p, n) == p = [k \in 0..n |-> IF k = 0 THEN start ELSE TrimStep(p[k - 1], r.geom.countsLen, f)]
<1> DEFINE T == {n \in Nat : \E p : Eq(p, n)}
<1>1. 0 \in T
  <2>1. Eq([k \in 0..0 |-> start], 0) OBVIOUS
  <2> QED BY <2>1
<1>2. ASSUME NEW n \in T PROVE n + 1 \in T
  <2>1. PICK p : Eq(p, n) OBVIOUS
  <2> DEFINE h == [k \in 0..(n + 1) |-> IF k = n + 1 THEN TrimStep(p[n], r.geom.countsLen, f) ELSE p[k]]
  <2>2. ASSUME NEW k \in 0..(n + 1)
        PROVE  h[k] = IF k = 0 THEN start ELSE TrimStep(h[k - 1], r.geom.countsLen, f)
    <3> HIDE DEF start
    <3>1. CASE k = n + 1
      <4>1. k - 1 = n /\ k # 0 /\ h[k - 1] = p[n] BY <3>1
      <4>2. h[k] = TrimStep(p[n], r.geom.countsLen, f) BY <3>1
      <4> HIDE DEF h
      <4> QED BY <3>1, <4>1, <4>2
    <3>2. CASE k # n + 1
      <4>1. k \in 0..n /\ h[k] = p[k] /\ (k # 0 => h[k - 1] = p[k - 1]) BY <3>2
      <4> HIDE DEF h
      <4>2. p[k] = IF k = 0 THEN start ELSE TrimStep(p[k - 1], r.geom.countsLen, f) BY <2>1, <4>1
      <4> QED BY <4>1, <4>2
    <3> QED BY <3>1, <3>2
  <2>3. Eq(h, n + 1)
    <3> DEFINE d == [k \in 0..(n + 1) |-> IF k = 0 THEN start ELSE TrimStep(h[k - 1], r.geom.countsLen, f)]
    <3>1. \A k \in 0..(n + 1) : h[k] = d[k] BY <2>2
    <3>2. h = d BY <3>1
    <3> QED BY <3>2
  <2>4. \E q : Eq(q, n + 1)
    <3> HIDE DEF h, Eq
    <3> QED BY <2>3
  <2> HIDE DEF Eq
  <2> QED BY <2>4
<1>3. T = Nat
  <2>1. T \in SUBSET Nat OBVIOUS
  <2> HIDE DEF T
  <2> QED BY <1>1, <1>2, <2>1, SetInduction
<1>4. \E p : Eq(p, N)
  <2> HIDE DEF Eq
  <2> QED BY <1>3
<1> DEFINE after == CHOOSE p : Eq(p, N)
<1>5. Eq(after, N)
  <2> HIDE DEF Eq
  <2> QED BY <1>4
<1>6. Trimmed(r, f) = after[f.size] BY DEF Trimmed
<1> HIDE DEF after
<1>7. after[0] = start BY <1>5
<1>8. ASSUME NEW k \in 0..(N - 1) PROVE after[k + 1] = TrimStep(after[k], r.geom.countsLen, f)
  <2>1. k + 1 \in 0..N /\ k + 1 # 0 /\ (k + 1) - 1 = k OBVIOUS
  <2> HIDE DEF start
  <2> QED BY <1>5, <2>1
<1> QED BY <1>6, <1>7, <1>8

\* The first pass is a loop.
LEMMA Pass1Loop ==
  ASSUME NEW r, NEW f, NEW m, r.size + m \in Nat
  PROVE  \E g : /\ g[0] = [i |-> 0, j |-> 0, added |-> 0, largest |-> 0]
                /\ \A k \in 0..((r.size + m) - 1) : g[k + 1] = Pass1Step(g[k], r, f, m)
                /\ Pass1(r, f, m) = g[r.size + m]
<1> DEFINE N == r.size + m
<1> DEFINE start == [i |-> 0, j |-> 0, added |-> 0, largest |-> 0]
<1> DEFINE Eq(p, n) == p = [k \in 0..n |-> IF k = 0 THEN start ELSE Pass1Step(p[k - 1], r, f, m)]
<1> DEFINE T == {n \in Nat : \E p : Eq(p, n)}
<1>1. 0 \in T
  <2>1. Eq([k \in 0..0 |-> start], 0) OBVIOUS
  <2> QED BY <2>1
<1>2. ASSUME NEW n \in T PROVE n + 1 \in T
  <2>1. PICK p : Eq(p, n) OBVIOUS
  <2> DEFINE h == [k \in 0..(n + 1) |-> IF k = n + 1 THEN Pass1Step(p[n], r, f, m) ELSE p[k]]
  <2>2. ASSUME NEW k \in 0..(n + 1)
        PROVE  h[k] = IF k = 0 THEN start ELSE Pass1Step(h[k - 1], r, f, m)
    <3> HIDE DEF start
    <3>1. CASE k = n + 1
      <4>1. k - 1 = n /\ k # 0 /\ h[k - 1] = p[n] BY <3>1
      <4>2. h[k] = Pass1Step(p[n], r, f, m) BY <3>1
      <4> HIDE DEF h
      <4> QED BY <3>1, <4>1, <4>2
    <3>2. CASE k # n + 1
      <4>1. k \in 0..n /\ h[k] = p[k] /\ (k # 0 => h[k - 1] = p[k - 1]) BY <3>2
      <4> HIDE DEF h
      <4>2. p[k] = IF k = 0 THEN start ELSE Pass1Step(p[k - 1], r, f, m) BY <2>1, <4>1
      <4> QED BY <4>1, <4>2
    <3> QED BY <3>1, <3>2
  <2>3. Eq(h, n + 1)
    <3> DEFINE d == [k \in 0..(n + 1) |-> IF k = 0 THEN start ELSE Pass1Step(h[k - 1], r, f, m)]
    <3>1. \A k \in 0..(n + 1) : h[k] = d[k] BY <2>2
    <3>2. h = d BY <3>1
    <3> QED BY <3>2
  <2>4. \E q : Eq(q, n + 1)
    <3> HIDE DEF h, Eq
    <3> QED BY <2>3
  <2> HIDE DEF Eq
  <2> QED BY <2>4
<1>3. T = Nat
  <2>1. T \in SUBSET Nat OBVIOUS
  <2> HIDE DEF T
  <2> QED BY <1>1, <1>2, <2>1, SetInduction
<1>4. \E p : Eq(p, N)
  <2> HIDE DEF Eq
  <2> QED BY <1>3
<1> DEFINE after == CHOOSE p : Eq(p, N)
<1>5. Eq(after, N)
  <2> HIDE DEF Eq
  <2> QED BY <1>4
<1>6. Pass1(r, f, m) = after[r.size + m] BY DEF Pass1
<1> HIDE DEF after
<1>7. after[0] = start BY <1>5
<1>8. ASSUME NEW k \in 0..(N - 1) PROVE after[k + 1] = Pass1Step(after[k], r, f, m)
  <2>1. k + 1 \in 0..N /\ k + 1 # 0 /\ (k + 1) - 1 = k OBVIOUS
  <2> HIDE DEF start
  <2> QED BY <1>5, <2>1
<1> QED BY <1>6, <1>7, <1>8

\* The second pass is a loop.
LEMMA Pass2Loop ==
  ASSUME NEW r, NEW f, NEW m, NEW newSize, r.size + m \in Nat
  PROVE  \E g : /\ g[0] = [hist |-> r, i |-> r.size - 1, j |-> m - 1, out |-> newSize - 1]
                /\ \A k \in 0..((r.size + m) - 1) : g[k + 1] = Pass2Step(g[k], f)
                /\ Pass2(r, f, m, newSize) = g[r.size + m].hist
<1> DEFINE N == r.size + m
<1> DEFINE start == [hist |-> r, i |-> r.size - 1, j |-> m - 1, out |-> newSize - 1]
<1> DEFINE Eq(p, n) == p = [k \in 0..n |-> IF k = 0 THEN start ELSE Pass2Step(p[k - 1], f)]
<1> DEFINE T == {n \in Nat : \E p : Eq(p, n)}
<1>1. 0 \in T
  <2>1. Eq([k \in 0..0 |-> start], 0) OBVIOUS
  <2> QED BY <2>1
<1>2. ASSUME NEW n \in T PROVE n + 1 \in T
  <2>1. PICK p : Eq(p, n) OBVIOUS
  <2> DEFINE h == [k \in 0..(n + 1) |-> IF k = n + 1 THEN Pass2Step(p[n], f) ELSE p[k]]
  <2>2. ASSUME NEW k \in 0..(n + 1)
        PROVE  h[k] = IF k = 0 THEN start ELSE Pass2Step(h[k - 1], f)
    <3> HIDE DEF start
    <3>1. CASE k = n + 1
      <4>1. k - 1 = n /\ k # 0 /\ h[k - 1] = p[n] BY <3>1
      <4>2. h[k] = Pass2Step(p[n], f) BY <3>1
      <4> HIDE DEF h
      <4> QED BY <3>1, <4>1, <4>2
    <3>2. CASE k # n + 1
      <4>1. k \in 0..n /\ h[k] = p[k] /\ (k # 0 => h[k - 1] = p[k - 1]) BY <3>2
      <4> HIDE DEF h
      <4>2. p[k] = IF k = 0 THEN start ELSE Pass2Step(p[k - 1], f) BY <2>1, <4>1
      <4> QED BY <4>1, <4>2
    <3> QED BY <3>1, <3>2
  <2>3. Eq(h, n + 1)
    <3> DEFINE d == [k \in 0..(n + 1) |-> IF k = 0 THEN start ELSE Pass2Step(h[k - 1], f)]
    <3>1. \A k \in 0..(n + 1) : h[k] = d[k] BY <2>2
    <3>2. h = d BY <3>1
    <3> QED BY <3>2
  <2>4. \E q : Eq(q, n + 1)
    <3> HIDE DEF h, Eq
    <3> QED BY <2>3
  <2> HIDE DEF Eq
  <2> QED BY <2>4
<1>3. T = Nat
  <2>1. T \in SUBSET Nat OBVIOUS
  <2> HIDE DEF T
  <2> QED BY <1>1, <1>2, <2>1, SetInduction
<1>4. \E p : Eq(p, N)
  <2> HIDE DEF Eq
  <2> QED BY <1>3
<1> DEFINE after == CHOOSE p : Eq(p, N)
<1>5. Eq(after, N)
  <2> HIDE DEF Eq
  <2> QED BY <1>4
<1>6. Pass2(r, f, m, newSize) = after[r.size + m].hist BY DEF Pass2
<1> HIDE DEF after
<1>7. after[0] = start BY <1>5
<1>8. ASSUME NEW k \in 0..(N - 1) PROVE after[k + 1] = Pass2Step(after[k], f)
  <2>1. k + 1 \in 0..N /\ k + 1 # 0 /\ (k + 1) - 1 = k OBVIOUS
  <2> HIDE DEF start
  <2> QED BY <1>5, <2>1
<1> QED BY <1>6, <1>7, <1>8

\* The sums of the first counts are within the sum of all.
LEMMA PartialSums ==
  ASSUME NEW q, Stored(q)
  PROVE  /\ \A k \in 0..q.size : PrefixSum(q.cnt)[k] \in Nat /\ PrefixSum(q.cnt)[k] <= Sum(q)
         /\ \A k \in 0..(q.size - 1) : PrefixSum(q.cnt)[k + 1] = PrefixSum(q.cnt)[k] + q.cnt[k]
         /\ \A k \in 0..(q.size - 1) : q.cnt[k] <= Sum(q)
<1>1. q.size \in Nat /\ q.size \in 0..q.size BY DEF Stored
<1>2. \A k \in 0..(q.size - 1) : q.cnt[k] \in Nat BY BucketFacts
<1>3. \A k \in 0..q.size : PrefixSum(q.cnt)[k] \in Nat /\ PrefixSum(q.cnt)[k] <= Sum(q)
  BY <1>1, <1>2, PrefixSumMonotone DEF Sum
<1>4. \A k \in 0..(q.size - 1) : PrefixSum(q.cnt)[k + 1] = PrefixSum(q.cnt)[k] + q.cnt[k]
  BY <1>1, PrefixSumStep
<1>5. ASSUME NEW k \in 0..(q.size - 1) PROVE q.cnt[k] <= Sum(q)
  <2>1. k \in 0..q.size /\ k + 1 \in 0..q.size BY <1>1
  <2>2. PrefixSum(q.cnt)[k] \in Nat /\ PrefixSum(q.cnt)[k + 1] \in Nat /\ PrefixSum(q.cnt)[k + 1] <= Sum(q)
        /\ Sum(q) \in Nat
    BY <1>1, <1>3, <2>1 DEF Sum
  <2> QED BY <1>2, <1>4, <2>2
<1> QED BY <1>3, <1>4, <1>5

\* The trim keeps the buckets within the length and drops the sum of the others.
LEMMA TrimmedFacts ==
  ASSUME NEW r, Stored(r), NEW q, Stored(q), Sum(q) <= MaxCount
  PROVE  /\ Trimmed(r, q).n \in 0..q.size
         /\ Border(q, Trimmed(r, q).n, r.geom.countsLen)
         /\ Trimmed(r, q).dropped = Sum(q) - PrefixSum(q.cnt)[Trimmed(r, q).n]
<1> DEFINE N == q.size
<1> DEFINE L == r.geom.countsLen
<1> DEFINE P == PrefixSum(q.cnt)
<1>1. N \in Nat /\ L \in Nat /\ MaxCount \in Nat BY GeometriesBuilt, MaxCountAssumption DEF Stored
<1>2. PICK g : /\ g[0] = [n |-> q.size, dropped |-> 0]
               /\ \A k \in 0..(N - 1) : g[k + 1] = TrimStep(g[k], L, q)
               /\ Trimmed(r, q) = g[N]
  BY <1>1, TrimmedLoop
<1>3. /\ \A k \in 0..N : P[k] \in Nat /\ P[k] <= Sum(q)
      /\ \A k \in 0..(N - 1) : P[k + 1] = P[k] + q.cnt[k]
      /\ P[N] = Sum(q) /\ Sum(q) \in Nat
  BY PartialSums, SpreadSum DEF Sum
<1>4. \A k \in 0..(N - 1) : q.idx[k] \in Nat /\ q.cnt[k] \in Nat /\ q.cnt[k] \in 1..MaxCount BY BucketFacts
<1> HIDE DEF N, L, P
<1> DEFINE Q(t, k) == /\ DOMAIN t = {"n", "dropped"} /\ t.n \in 0..N
                      /\ \A i \in t.n..(N - 1) : q.idx[i] >= L
                      /\ t.dropped = Sum(q) - P[t.n]
                      /\ t.n <= N - k \/ (t.n > 0 => q.idx[t.n - 1] < L)
<1> DEFINE S == {k \in Nat : k <= N => Q(g[k], k)}
<1>5. 0 \in S
  <2>1. DOMAIN g[0] = {"n", "dropped"} /\ g[0].n = N /\ g[0].dropped = 0 BY <1>2 DEF N
  <2>2. Sum(q) - P[N] = 0 /\ N \in 0..N /\ N <= N - 0 BY <1>1, <1>3
  <2>3. \A i \in N..(N - 1) : q.idx[i] >= L BY <1>1
  <2>4. Q(g[0], 0) BY <2>1, <2>2, <2>3
  <2> QED BY <2>4
<1>6. ASSUME NEW k \in S PROVE k + 1 \in S
  <2> SUFFICES ASSUME k + 1 <= N PROVE Q(g[k + 1], k + 1) OBVIOUS
  <2>1. k \in 0..(N - 1) /\ k <= N BY <1>1
  <2>2. Q(g[k], k) BY <2>1
  <2>3. g[k + 1] = TrimStep(g[k], L, q) BY <1>2, <2>1
  <2> DEFINE t == g[k]
  <2> DEFINE u == g[k + 1]
  <2> HIDE DEF S, t, u
  <2>4. Q(t, k) /\ u = TrimStep(t, L, q) BY <2>2, <2>3 DEF t, u
  <2>5. CASE t.n > 0 /\ q.idx[t.n - 1] >= L
    <3> DEFINE m == t.n - 1
    <3>1. m \in 0..(N - 1) /\ m \in 0..N /\ t.n = m + 1 BY <1>1, <2>4, <2>5
    <3>2. u = [n |-> m, dropped |-> AddDropped(t.dropped, q.cnt[m])] BY <2>4, <2>5 DEF TrimStep
    <3>3. DOMAIN u = {"n", "dropped"} /\ u.n = m /\ u.dropped = AddDropped(t.dropped, q.cnt[m]) BY <3>2
    <3> HIDE DEF m
    <3>4. P[m + 1] = P[m] + q.cnt[m] /\ P[m] \in Nat /\ P[m + 1] \in Nat /\ P[m + 1] <= Sum(q)
          /\ P[m] <= Sum(q) /\ q.cnt[m] \in Nat /\ q.cnt[m] \in 1..MaxCount
      <4>1. m + 1 \in 0..N BY <1>1, <3>1
      <4> QED BY <1>3, <1>4, <3>1, <4>1
    <3>5. t.dropped = Sum(q) - P[m + 1] BY <2>4, <3>1
    <3>6. t.dropped \in 0..MaxCount /\ q.cnt[m] \in 0..MaxCount BY <1>1, <1>3, <3>4, <3>5
    <3>7. AddDropped(t.dropped, q.cnt[m]) = Smaller(MaxCount, t.dropped + q.cnt[m]) BY <3>6, AddDroppedFacts
    <3>8. t.dropped + q.cnt[m] = Sum(q) - P[m] /\ Sum(q) - P[m] <= MaxCount /\ Sum(q) - P[m] \in Nat
      BY <1>1, <1>3, <3>4, <3>5
    <3>9. Smaller(MaxCount, t.dropped + q.cnt[m]) = t.dropped + q.cnt[m] BY <1>1, <3>8 DEF Smaller
    <3>10. u.dropped = Sum(q) - P[u.n] BY <3>3, <3>7, <3>8, <3>9
    <3>11. \A i \in u.n..(N - 1) : q.idx[i] >= L
      <4> SUFFICES ASSUME NEW i \in m..(N - 1) PROVE q.idx[i] >= L BY <3>3
      <4>1. i = m \/ i \in t.n..(N - 1) BY <1>1, <3>1
      <4>2. i = m => q.idx[i] >= L BY <2>5, <3>1
      <4> QED BY <2>4, <4>1, <4>2
    <3>12. u.n <= N - (k + 1) \/ (u.n > 0 => q.idx[u.n - 1] < L)
      <4>1. t.n <= N - k BY <1>1, <2>4, <2>5, <1>4, <3>1
      <4> QED BY <1>1, <2>1, <3>1, <3>3, <4>1
    <3> QED BY <3>1, <3>3, <3>10, <3>11, <3>12 DEF u
  <2>6. CASE ~(t.n > 0 /\ q.idx[t.n - 1] >= L)
    <3>1. u = t BY <2>4, <2>6 DEF TrimStep
    <3>2. t.n > 0 => q.idx[t.n - 1] < L
      <4> SUFFICES ASSUME t.n > 0 PROVE q.idx[t.n - 1] < L OBVIOUS
      <4>1. t.n - 1 \in 0..(N - 1) BY <1>1, <2>4
      <4>2. q.idx[t.n - 1] \in Nat BY <1>4, <4>1
      <4> QED BY <1>1, <2>6, <4>2
    <3> QED BY <2>4, <3>1, <3>2 DEF u
  <2> QED BY <2>5, <2>6
<1>7. S = Nat
  <2>1. S \in SUBSET Nat OBVIOUS
  <2> HIDE DEF S
  <2> QED BY <1>5, <1>6, <2>1, SetInduction
<1>8. Q(g[N], N) BY <1>1, <1>7
<1> DEFINE t == g[N]
<1>9. \A i \in 0..(t.n - 1) : q.idx[i] < L
  <2> SUFFICES ASSUME NEW i \in 0..(t.n - 1) PROVE q.idx[i] < L OBVIOUS
  <2> HIDE DEF t
  <2>1. t.n \in 0..N /\ t.n > 0 /\ i \in 0..(N - 1) /\ t.n - 1 \in 0..(N - 1) BY <1>1, <1>8 DEF t
  <2>2. q.idx[t.n - 1] < L BY <1>1, <1>8, <2>1 DEF t
  <2>3. i = t.n - 1 \/ q.idx[i] < q.idx[t.n - 1]
    <3>1. i = t.n - 1 \/ i < t.n - 1 BY <2>1
    <3> QED BY <2>1, <3>1, Distinct DEF N
  <2>4. q.idx[i] \in Nat /\ q.idx[t.n - 1] \in Nat BY <1>4, <2>1
  <2> QED BY <1>1, <2>2, <2>3, <2>4
<1> QED BY <1>2, <1>8, <1>9 DEF N, L, P, Border

\* Which buckets of q are new to r.
Fresh(r, q) == [j \in 0..(q.size - 1) |-> IF Count(r, q.idx[j]) = 0 THEN 1 ELSE 0]

\* How many of the first buckets are new.
LEMMA FreshFacts ==
  ASSUME NEW r, NEW q, Stored(q)
  PROVE  /\ PrefixSum(Fresh(r, q))[0] = 0
         /\ \A j \in 0..q.size : PrefixSum(Fresh(r, q))[j] \in Nat
         /\ \A j \in 0..(q.size - 1) : PrefixSum(Fresh(r, q))[j + 1] =
              PrefixSum(Fresh(r, q))[j] + (IF Count(r, q.idx[j]) = 0 THEN 1 ELSE 0)
         /\ \A n \in 0..q.size : \A j \in 0..n : PrefixSum(Fresh(r, q))[j] <= PrefixSum(Fresh(r, q))[n]
<1> DEFINE F == Fresh(r, q)
<1>1. q.size \in Nat BY DEF Stored
<1>2. \A j \in 0..(q.size - 1) : F[j] = (IF Count(r, q.idx[j]) = 0 THEN 1 ELSE 0) /\ F[j] \in Nat
  BY DEF Fresh
<1> HIDE DEF F
<1>3. \A n \in 0..q.size : \A k \in 0..n : PrefixSum(F)[n] \in Nat /\ PrefixSum(F)[k] <= PrefixSum(F)[n]
  BY <1>1, <1>2, PrefixSumMonotone
<1>4. \A j \in 0..(q.size - 1) : PrefixSum(F)[j + 1] = PrefixSum(F)[j] + F[j]
  <2> SUFFICES ASSUME NEW j \in 0..(q.size - 1) PROVE PrefixSum(F)[j + 1] = PrefixSum(F)[j] + F[j] OBVIOUS
  <2>1. j \in Nat BY <1>1
  <2> QED BY <2>1, PrefixSumStep
<1>5. \A n \in 0..q.size : PrefixSum(F)[n] \in Nat
  <2> SUFFICES ASSUME NEW n \in 0..q.size PROVE PrefixSum(F)[n] \in Nat OBVIOUS
  <2>1. 0 \in 0..n BY <1>1
  <2> QED BY <2>1, <1>3
<1> QED BY <1>2, <1>3, <1>4, <1>5, PrefixSumZero DEF F

\* The larger of two counts.
LEMMA LargerFacts ==
  ASSUME NEW x \in 0..MaxCount, NEW y \in 0..MaxCount
  PROVE  Larger(x, y) \in 0..MaxCount /\ x <= Larger(x, y) /\ y <= Larger(x, y)
BY MaxCountAssumption DEF Larger

\* The first pass as far as it has got: the first s.i buckets of r and the first
\* s.j buckets of q are merged.
Passed(r, q, n, s) ==
  /\ DOMAIN s = {"i", "j", "added", "largest"}
  /\ s.i \in 0..r.size /\ s.j \in 0..n
  /\ s.added = PrefixSum(Fresh(r, q))[s.j]
  /\ s.largest \in 0..MaxCount
  /\ \A l \in 0..(s.j - 1) : Count(r, q.idx[l]) + q.cnt[l] <= s.largest
  /\ s.j < n => \A l \in 0..(s.i - 1) : r.idx[l] < q.idx[s.j]

\* One step of the first pass.
LEMMA Pass1StepFacts ==
  ASSUME NEW r, Stored(r), NEW q, Stored(q), NEW n \in 0..q.size, Sum(r) + Sum(q) <= MaxCount,
         NEW s, Passed(r, q, n, s)
  PROVE  LET t == Pass1Step(s, r, q, n) IN
         Passed(r, q, n, t) /\ (t.j = n \/ t.i + t.j >= s.i + s.j + 1)
<1> DEFINE t == Pass1Step(s, r, q, n)
<1> DEFINE F == PrefixSum(Fresh(r, q))
<1>1. r.size \in Nat /\ q.size \in Nat /\ n \in Nat /\ n <= q.size /\ MaxCount \in Nat /\ Sum(r) \in Nat /\ Sum(q) \in Nat
  <2>1. r.size \in Nat /\ q.size \in Nat BY DEF Stored
  <2>2. Sum(r) \in Nat /\ Sum(q) \in Nat BY SpreadSum
  <2> QED BY <2>1, <2>2, MaxCountAssumption
<1>2. /\ DOMAIN s = {"i", "j", "added", "largest"}
      /\ s.i \in 0..r.size /\ s.j \in 0..n /\ s.i \in Nat /\ s.j \in Nat
      /\ s.added = F[s.j]
      /\ s.largest \in 0..MaxCount
      /\ \A l \in 0..(s.j - 1) : Count(r, q.idx[l]) + q.cnt[l] <= s.largest
      /\ s.j < n => \A l \in 0..(s.i - 1) : r.idx[l] < q.idx[s.j]
  BY <1>1 DEF Passed
<1>3. \A j \in 0..(q.size - 1) : F[j + 1] = F[j] + (IF Count(r, q.idx[j]) = 0 THEN 1 ELSE 0) /\ F[j] \in Nat
  <2> SUFFICES ASSUME NEW j \in 0..(q.size - 1)
               PROVE  F[j + 1] = F[j] + (IF Count(r, q.idx[j]) = 0 THEN 1 ELSE 0) /\ F[j] \in Nat
    OBVIOUS
  <2>1. j \in 0..q.size BY <1>1
  <2> QED BY <2>1, FreshFacts
<1>4. \A l \in 0..(r.size - 1) : r.idx[l] \in Nat /\ r.cnt[l] \in 1..MaxCount /\ r.cnt[l] \in Nat /\ r.cnt[l] <= Sum(r)
  BY BucketFacts, PartialSums
<1>5. \A l \in 0..(q.size - 1) : q.idx[l] \in Nat /\ q.cnt[l] \in 1..MaxCount /\ q.cnt[l] \in Nat /\ q.cnt[l] <= Sum(q)
  BY BucketFacts, PartialSums
<1> HIDE DEF F
<1>6. CASE s.j = n
  <2>1. t = s BY <1>6 DEF Pass1Step
  <2> QED BY <1>6, <2>1
<1>7. CASE s.j # n
  <2> DEFINE i == s.i
  <2> DEFINE j == s.j
  <2>1. j \in 0..(q.size - 1) /\ j < n /\ j + 1 \in 0..n BY <1>1, <1>2, <1>7
  <2>2. q.idx[j] \in Nat /\ q.cnt[j] \in 0..MaxCount BY <1>5, <2>1, <1>1
  <2>3. CASE i < r.size /\ r.idx[i] < q.idx[j]
    <3>1. t = [s EXCEPT !.i = @ + 1] BY <1>7, <2>3 DEF Pass1Step
    <3>2. /\ DOMAIN t = {"i", "j", "added", "largest"}
          /\ t.i = i + 1 /\ t.j = j /\ t.added = s.added /\ t.largest = s.largest
      BY <1>2, <3>1
    <3> HIDE DEF t
    <3>3. i + 1 \in 0..r.size BY <1>1, <1>2, <2>3
    <3>4. \A l \in 0..i : r.idx[l] < q.idx[j]
      <4> SUFFICES ASSUME NEW l \in 0..i PROVE r.idx[l] < q.idx[j] OBVIOUS
      <4>1. l = i \/ l \in 0..(i - 1) BY <1>2
      <4> QED BY <1>2, <2>1, <2>3, <4>1
    <3>5. (i + 1) - 1 = i BY <1>2
    <3>6. Passed(r, q, n, t) BY <1>2, <2>1, <3>2, <3>3, <3>4, <3>5 DEF Passed, F
    <3>7. t.i + t.j >= s.i + s.j + 1 BY <1>2, <3>2
    <3> QED BY <3>6, <3>7 DEF t
  <2>4. CASE i < r.size /\ r.idx[i] = q.idx[j]
    <3> DEFINE sum == r.cnt[i] + q.cnt[j]
    <3>1. i \in 0..(r.size - 1) /\ ~(r.idx[i] < q.idx[j]) BY <1>1, <1>2, <2>2, <2>4
    <3>2. sum \in 0..MaxCount BY <1>1, <1>4, <1>5, <2>1, <3>1
    <3>3. Wrap64(sum) = sum BY <3>2, Int64Facts, Wrap64Id
    <3>4. Count(r, q.idx[j]) = r.cnt[i] /\ Count(r, q.idx[j]) # 0
      <4>1. Count(r, r.idx[i]) = r.cnt[i] BY <3>1, CountFacts
      <4>2. r.cnt[i] # 0 BY <1>1, <1>4, <3>1
      <4> QED BY <2>4, <4>1, <4>2
    <3> DEFINE big == Larger(s.largest, Wrap64(r.cnt[i] + q.cnt[j]))
    <3>5. t = [s EXCEPT !.i = @ + 1, !.j = @ + 1, !.largest = Larger(@, Wrap64(r.cnt[s.i] + q.cnt[s.j]))]
      BY <1>7, <2>4, <3>1 DEF Pass1Step
    <3>6. /\ DOMAIN t = {"i", "j", "added", "largest"}
          /\ t.i = i + 1 /\ t.j = j + 1 /\ t.added = s.added /\ t.largest = big
      BY <1>2, <3>5
    <3> HIDE DEF t
    <3>7. big \in 0..MaxCount /\ s.largest <= big /\ sum <= big BY <1>2, <3>2, <3>3, LargerFacts
    <3> HIDE DEF big
    <3>8. t.added = F[j + 1] BY <1>2, <1>3, <2>1, <3>4, <3>6
    <3>9. ASSUME NEW l \in 0..j PROVE Count(r, q.idx[l]) + q.cnt[l] <= big
      <4>1. CASE l = j BY <3>4, <3>7, <4>1
      <4>2. CASE l # j
        <5>1. l \in 0..(j - 1) /\ l \in 0..(q.size - 1) BY <1>2, <2>1, <4>2, <1>1
        <5>2. Count(r, q.idx[l]) + q.cnt[l] <= s.largest BY <1>2, <5>1
        <5>3. Count(r, q.idx[l]) \in Nat /\ q.cnt[l] \in Nat BY <1>5, <5>1, CountType
        <5> QED BY <1>1, <1>2, <3>7, <5>2, <5>3
      <4> QED BY <4>1, <4>2
    <3>10. ASSUME j + 1 < n, NEW l \in 0..i PROVE r.idx[l] < q.idx[j + 1]
      <4>1. j + 1 \in 0..(q.size - 1) /\ j < j + 1 BY <1>1, <1>2, <3>10
      <4>2. q.idx[j] < q.idx[j + 1] /\ q.idx[j + 1] \in Nat BY <2>1, <4>1, Distinct, <1>5
      <4>3. l \in 0..(r.size - 1) /\ (l = i \/ l \in 0..(i - 1)) BY <1>1, <1>2, <3>1
      <4>4. l = i \/ r.idx[l] < q.idx[j] BY <1>2, <2>1, <4>3
      <4> QED BY <1>4, <2>2, <2>4, <4>2, <4>3, <4>4
    <3>11. (i + 1) - 1 = i /\ (j + 1) - 1 = j /\ i + 1 \in 0..r.size BY <1>1, <1>2, <3>1
    <3>12. Passed(r, q, n, t) BY <2>1, <3>6, <3>7, <3>8, <3>9, <3>10, <3>11 DEF Passed, F
    <3>13. t.i + t.j >= s.i + s.j + 1 BY <1>2, <3>6
    <3> QED BY <3>12, <3>13 DEF t
  <2>5. CASE ~(i < r.size /\ r.idx[i] < q.idx[j]) /\ ~(i < r.size /\ r.idx[i] = q.idx[j])
    <3> DEFINE big == Larger(s.largest, q.cnt[j])
    <3>1. Count(r, q.idx[j]) = 0
      <4>1. ASSUME NEW l \in 0..(r.size - 1) PROVE r.idx[l] # q.idx[j]
        <5>1. CASE l < i
          <6>1. l \in 0..(i - 1) BY <1>2, <5>1, <1>1
          <6>2. r.idx[l] < q.idx[j] BY <1>2, <2>1, <6>1
          <6> QED BY <1>4, <2>2, <6>2
        <5>2. CASE ~(l < i)
          <6>1. i \in 0..(r.size - 1) /\ i < r.size /\ (l = i \/ i < l) BY <1>1, <1>2, <5>2
          <6>2. r.idx[i] > q.idx[j] BY <1>4, <2>2, <2>5, <6>1
          <6>3. l = i \/ r.idx[i] < r.idx[l] BY <6>1, Distinct
          <6> QED BY <1>4, <2>2, <6>1, <6>2, <6>3
        <5> QED BY <5>1, <5>2
      <4> QED BY <4>1, CountFacts
    <3>2. t = [s EXCEPT !.j = @ + 1, !.added = @ + 1, !.largest = Larger(@, q.cnt[s.j])]
      BY <1>7, <2>5 DEF Pass1Step
    <3>3. /\ DOMAIN t = {"i", "j", "added", "largest"}
          /\ t.i = i /\ t.j = j + 1 /\ t.added = s.added + 1 /\ t.largest = big
      BY <1>2, <3>2
    <3> HIDE DEF t
    <3>4. big \in 0..MaxCount /\ s.largest <= big /\ q.cnt[j] <= big BY <1>2, <2>2, LargerFacts
    <3> HIDE DEF big
    <3>5. t.added = F[j + 1] BY <1>2, <1>3, <2>1, <3>1, <3>3
    <3>6. ASSUME NEW l \in 0..j PROVE Count(r, q.idx[l]) + q.cnt[l] <= big
      <4>1. CASE l = j BY <2>2, <3>1, <3>4, <4>1
      <4>2. CASE l # j
        <5>1. l \in 0..(j - 1) /\ l \in 0..(q.size - 1) BY <1>2, <2>1, <4>2, <1>1
        <5>2. Count(r, q.idx[l]) + q.cnt[l] <= s.largest BY <1>2, <5>1
        <5>3. Count(r, q.idx[l]) \in Nat /\ q.cnt[l] \in Nat BY <1>5, <5>1, CountType
        <5> QED BY <1>1, <1>2, <3>4, <5>2, <5>3
      <4> QED BY <4>1, <4>2
    <3>7. ASSUME j + 1 < n, NEW l \in 0..(i - 1) PROVE r.idx[l] < q.idx[j + 1]
      <4>1. j + 1 \in 0..(q.size - 1) /\ j < j + 1 BY <1>1, <1>2, <3>7
      <4>2. q.idx[j] < q.idx[j + 1] /\ q.idx[j + 1] \in Nat BY <2>1, <4>1, Distinct, <1>5
      <4>3. l \in 0..(r.size - 1) /\ r.idx[l] < q.idx[j] BY <1>1, <1>2, <2>1
      <4> QED BY <1>4, <2>2, <4>2, <4>3
    <3>8. (j + 1) - 1 = j BY <1>2
    <3>9. Passed(r, q, n, t) BY <1>2, <2>1, <3>3, <3>4, <3>5, <3>6, <3>7, <3>8 DEF Passed, F
    <3>10. t.i + t.j >= s.i + s.j + 1 BY <1>2, <3>3
    <3> QED BY <3>9, <3>10 DEF t
  <2> QED BY <2>3, <2>4, <2>5
<1> QED BY <1>6, <1>7

\* The first pass counts the new buckets and finds the largest count.
LEMMA Pass1Facts ==
  ASSUME NEW r, Stored(r), NEW q, Stored(q), NEW n \in 0..q.size, Sum(r) + Sum(q) <= MaxCount
  PROVE  /\ Pass1(r, q, n).added = PrefixSum(Fresh(r, q))[n]
         /\ Pass1(r, q, n).largest \in 0..MaxCount
         /\ \A l \in 0..(n - 1) : Count(r, q.idx[l]) + q.cnt[l] <= Pass1(r, q, n).largest
<1> DEFINE N == r.size + n
<1>1. r.size \in Nat /\ n \in Nat /\ N \in Nat BY DEF Stored
<1>2. PICK g : /\ g[0] = [i |-> 0, j |-> 0, added |-> 0, largest |-> 0]
               /\ \A k \in 0..(N - 1) : g[k + 1] = Pass1Step(g[k], r, q, n)
               /\ Pass1(r, q, n) = g[N]
  BY <1>1, Pass1Loop
<1> DEFINE S == {k \in Nat : k <= N => Passed(r, q, n, g[k]) /\ (g[k].j = n \/ g[k].i + g[k].j >= k)}
<1>3. 0 \in S
  <2>1. /\ DOMAIN g[0] = {"i", "j", "added", "largest"}
        /\ g[0].i = 0 /\ g[0].j = 0 /\ g[0].added = 0 /\ g[0].largest = 0
    BY <1>2
  <2>2. PrefixSum(Fresh(r, q))[0] = 0 BY PrefixSumZero
  <2>3. 0 \in 0..MaxCount /\ 0 \in 0..n /\ 0 \in 0..r.size /\ 0..(0 - 1) = {} BY <1>1, MaxCountAssumption
  <2>4. Passed(r, q, n, g[0]) BY <2>1, <2>2, <2>3 DEF Passed
  <2> QED BY <2>1, <2>4
<1>4. ASSUME NEW k \in S PROVE k + 1 \in S
  <2> SUFFICES ASSUME k + 1 <= N
               PROVE  Passed(r, q, n, g[k + 1]) /\ (g[k + 1].j = n \/ g[k + 1].i + g[k + 1].j >= k + 1)
    OBVIOUS
  <2>1. k \in 0..(N - 1) /\ k <= N /\ k \in Nat BY <1>1
  <2> DEFINE s == g[k]
  <2> DEFINE t == g[k + 1]
  <2>2. Passed(r, q, n, s) /\ (s.j = n \/ s.i + s.j >= k) BY <2>1
  <2>3. t = Pass1Step(s, r, q, n) BY <1>2, <2>1
  <2> HIDE DEF S, N, s, t
  <2>4. Passed(r, q, n, t) /\ (t.j = n \/ t.i + t.j >= s.i + s.j + 1) BY <2>2, <2>3, Pass1StepFacts
  <2>5. s.i \in Nat /\ s.j \in Nat /\ t.i \in Nat /\ t.j \in Nat BY <1>1, <2>2, <2>4 DEF Passed
  <2>6. CASE s.j = n
    <3>1. t = s BY <2>3, <2>6 DEF Pass1Step
    <3> QED BY <2>4, <2>6, <3>1 DEF t
  <2>7. CASE s.j # n
    <3>1. t.j = n \/ t.i + t.j >= k + 1 BY <2>1, <2>2, <2>4, <2>5, <2>7
    <3> QED BY <2>4, <3>1 DEF t
  <2> QED BY <2>6, <2>7
<1>5. S = Nat
  <2>1. S \in SUBSET Nat OBVIOUS
  <2> HIDE DEF S
  <2> QED BY <1>3, <1>4, <2>1, SetInduction
<1>6. Passed(r, q, n, g[N]) /\ (g[N].j = n \/ g[N].i + g[N].j >= N) BY <1>1, <1>5
<1> DEFINE t == g[N]
<1>7. t.j = n
  <2>1. t.i \in Nat /\ t.j \in Nat /\ t.i <= r.size /\ t.j <= n BY <1>1, <1>6 DEF Passed
  <2> HIDE DEF t
  <2>2. t.j = n \/ t.i + t.j >= N BY <1>6 DEF t
  <2> QED BY <1>1, <2>1, <2>2
<1> QED BY <1>2, <1>6, <1>7 DEF Passed

\* The second pass as far as it has got: the last buckets of r and of q are merged
\* behind x.out, the first x.i + 1 of r are still in place, and there is room for
\* the x.j + 1 of q that are left.
Filling(r, q, n, x) ==
  LET F == PrefixSum(Fresh(r, q))
      M == r.size + F[n]
      s == x.hist
  IN  /\ DOMAIN x = {"hist", "i", "j", "out"}
      /\ DOMAIN s = Fields /\ Kept(r, s) /\ s.width = r.width
      /\ x.i \in -1..(r.size - 1) /\ x.j \in -1..(n - 1) /\ x.out = x.i + F[x.j + 1]
      /\ s.idx = [p \in 0..(M - 1) |-> s.idx[p]] /\ s.cnt = [p \in 0..(M - 1) |-> s.cnt[p]]
      /\ \A p \in 0..x.i : s.idx[p] = r.idx[p] /\ s.cnt[p] = r.cnt[p]
      /\ \A p \in (x.out + 1)..(M - 1) :
           /\ s.idx[p] \in 0..(r.geom.countsLen - 1) /\ s.cnt[p] \in 1..Limit[r.width]
           /\ s.cnt[p] = Count(r, s.idx[p]) + Count(q, s.idx[p])
           /\ x.i >= 0 => s.idx[p] > r.idx[x.i]
           /\ x.j >= 0 => s.idx[p] > q.idx[x.j]
      /\ \A a, b \in (x.out + 1)..(M - 1) : a < b => s.idx[a] < s.idx[b]
      /\ \A l \in (x.i + 1)..(r.size - 1) : \E p \in (x.out + 1)..(M - 1) : s.idx[p] = r.idx[l]
      /\ \A l \in (x.j + 1)..(n - 1) : \E p \in (x.out + 1)..(M - 1) : s.idx[p] = q.idx[l]

\* The bucket ci with count c put at x.out, as one step of the second pass does.
Placed(x, ci, c, i, j) ==
  [hist |-> SlotSet([x.hist EXCEPT !.idx[x.out] = ci], x.out, c), i |-> i, j |-> j, out |-> x.out - 1]

\* What a bucket must be for the second pass to put it next.
LEMMA PlacedFacts ==
  ASSUME NEW r, Stored(r), NEW q, Stored(q), NEW n \in 0..q.size,
         NEW x, Filling(r, q, n, x),
         NEW i \in -1..x.i, NEW j \in -1..x.j,
         x.out >= 0, i < x.out, x.out - 1 = i + PrefixSum(Fresh(r, q))[j + 1],
         NEW ci \in 0..(r.geom.countsLen - 1), NEW c \in 1..Limit[r.width],
         c = Count(r, ci) + Count(q, ci),
         \A p \in (x.out + 1)..((r.size + PrefixSum(Fresh(r, q))[n]) - 1) : ci < x.hist.idx[p],
         i >= 0 => ci > r.idx[i], j >= 0 => ci > q.idx[j],
         \A l \in (i + 1)..x.i : r.idx[l] = ci, \A l \in (j + 1)..x.j : q.idx[l] = ci
  PROVE  Filling(r, q, n, Placed(x, ci, c, i, j))
<1> DEFINE F == PrefixSum(Fresh(r, q))
<1> DEFINE M == r.size + F[n]
<1> DEFINE s == x.hist
<1> DEFINE o == x.out
<1> DEFINE y == Placed(x, ci, c, i, j)
<1> DEFINE u == SlotSet([s EXCEPT !.idx[o] = ci], o, c)
<1>1. r.size \in Nat /\ q.size \in Nat /\ n \in Nat /\ n <= q.size BY DEF Stored
<1>2. \A k \in 0..n : F[k] \in Nat /\ F[k] <= F[n]
  <2>1. \A k \in 0..q.size : F[k] \in Nat BY FreshFacts
  <2>2. \A k \in 0..n : F[k] <= F[n] BY FreshFacts
  <2> QED BY <1>1, <2>1, <2>2
<1>3. /\ DOMAIN s = Fields /\ Kept(r, s) /\ s.width = r.width
      /\ x.i \in -1..(r.size - 1) /\ x.j \in -1..(n - 1) /\ o = x.i + F[x.j + 1]
      /\ s.idx = [p \in 0..(M - 1) |-> s.idx[p]] /\ s.cnt = [p \in 0..(M - 1) |-> s.cnt[p]]
      /\ \A p \in 0..x.i : s.idx[p] = r.idx[p] /\ s.cnt[p] = r.cnt[p]
  BY DEF Filling
<1>4. \A p \in (o + 1)..(M - 1) :
           /\ s.idx[p] \in 0..(r.geom.countsLen - 1) /\ s.cnt[p] \in 1..Limit[r.width]
           /\ s.cnt[p] = Count(r, s.idx[p]) + Count(q, s.idx[p])
  BY DEF Filling
<1>5. \A a, b \in (o + 1)..(M - 1) : a < b => s.idx[a] < s.idx[b] BY DEF Filling
<1>6. /\ \A l \in (x.i + 1)..(r.size - 1) : \E p \in (o + 1)..(M - 1) : s.idx[p] = r.idx[l]
      /\ \A l \in (x.j + 1)..(n - 1) : \E p \in (o + 1)..(M - 1) : s.idx[p] = q.idx[l]
  BY DEF Filling
<1>7. o \in Int /\ o \in 0..(M - 1) /\ M \in Nat /\ i \in Int /\ j \in Int /\ x.i \in Int /\ x.j \in Int
  <2>1. x.j + 1 \in 0..n /\ n \in 0..n BY <1>1, <1>3
  <2>2. F[x.j + 1] \in Nat /\ F[x.j + 1] <= F[n] /\ F[n] \in Nat BY <1>2, <2>1
  <2>3. x.i \in -1..(r.size - 1) /\ x.j \in -1..(n - 1) /\ o = x.i + F[x.j + 1] BY <1>3
  <2>4. M = r.size + F[n] /\ o >= 0 OBVIOUS
  <2> HIDE DEF F, M, o, s, y, u
  <2>5. o \in Int /\ M \in Nat /\ i \in Int /\ j \in Int /\ x.i \in Int /\ x.j \in Int BY <1>1, <2>2, <2>3, <2>4
  <2>6. x.i <= r.size - 1 BY <1>1, <2>3
  <2>7. o <= M - 1 BY <1>1, <2>2, <2>3, <2>4, <2>5, <2>6
  <2> QED BY <2>4, <2>5, <2>7
<1>8. DOMAIN y = {"hist", "i", "j", "out"} /\ y.hist = u /\ y.i = i /\ y.j = j /\ y.out = o - 1 BY DEF Placed
<1>9. r.width \in 1..Top /\ c \in 0..Limit[r.width] /\ Slot(r.width, c) = c
  <2>1. r.width \in 1..Top /\ Limit[r.width] \in Nat BY LimitFacts DEF Stored
  <2>2. c \in 0..Limit[r.width] BY <2>1
  <2> QED BY <2>1, <2>2, SlotExact
<1>10. /\ DOMAIN u = Fields /\ Kept(r, u) /\ u.width = r.width
       /\ u.idx = [s.idx EXCEPT ![o] = ci] /\ u.cnt = [s.cnt EXCEPT ![o] = c]
  <2> DEFINE z == [s EXCEPT !.idx[o] = ci]
  <2>1. /\ DOMAIN z = Fields /\ Kept(r, z) /\ z.width = r.width
        /\ z.idx = [s.idx EXCEPT ![o] = ci] /\ z.cnt = s.cnt
    BY <1>3 DEF Fields, Kept
  <2>2. u = SlotSet(z, o, c) OBVIOUS
  <2> HIDE DEF z, u
  <2>3. u = [z EXCEPT !.cnt[o] = c] BY <1>9, <2>1, <2>2 DEF SlotSet
  <2> QED BY <2>1, <2>3 DEF Fields, Kept
<1> HIDE DEF u, y, F, M, s, o
<1>11. /\ u.idx[o] = ci /\ u.cnt[o] = c
       /\ \A p \in 0..(M - 1) : p # o => u.idx[p] = s.idx[p] /\ u.cnt[p] = s.cnt[p]
       /\ u.idx = [p \in 0..(M - 1) |-> u.idx[p]] /\ u.cnt = [p \in 0..(M - 1) |-> u.cnt[p]]
  BY <1>3, <1>7, <1>10
<1>12. i \in -1..(r.size - 1) /\ j \in -1..(n - 1) /\ o - 1 = i + F[j + 1]
  <2>1. x.i \in -1..(r.size - 1) /\ x.j \in -1..(n - 1) BY <1>3
  <2>2. o - 1 = i + F[j + 1] BY DEF o, F
  <2> QED BY <1>1, <1>7, <2>1, <2>2
<1>13. ASSUME NEW p \in 0..i PROVE u.idx[p] = r.idx[p] /\ u.cnt[p] = r.cnt[p]
  <2>1. p \in 0..x.i /\ p # o /\ p \in 0..(M - 1) BY <1>7 DEF o
  <2> QED BY <1>3, <1>11, <2>1
<1>14. \A p \in o..(M - 1) : p = o \/ (p \in (o + 1)..(M - 1) /\ p # o /\ p \in 0..(M - 1)) BY <1>7
<1>15. i >= 0 => r.idx[i] \in Int /\ ci > r.idx[i]
  <2> SUFFICES ASSUME i >= 0 PROVE r.idx[i] \in Int OBVIOUS
  <2>1. i \in 0..(r.size - 1) BY <1>12
  <2> QED BY <2>1, BucketFacts
<1>16. j >= 0 => q.idx[j] \in Int /\ ci > q.idx[j]
  <2> SUFFICES ASSUME j >= 0 PROVE q.idx[j] \in Int OBVIOUS
  <2>1. j \in 0..(q.size - 1) BY <1>1, <1>12
  <2> QED BY <2>1, BucketFacts
<1>17. ASSUME NEW p \in (o + 1)..(M - 1) PROVE ci < s.idx[p] /\ s.idx[p] \in Int
  <2>1. s.idx[p] \in 0..(r.geom.countsLen - 1) BY <1>4
  <2>2. ci < s.idx[p] BY DEF o, M, F, s
  <2> QED BY <2>1, <2>2
<1>18. ASSUME NEW p \in o..(M - 1)
       PROVE  /\ u.idx[p] \in 0..(r.geom.countsLen - 1) /\ u.cnt[p] \in 1..Limit[r.width]
              /\ u.cnt[p] = Count(r, u.idx[p]) + Count(q, u.idx[p])
              /\ i >= 0 => u.idx[p] > r.idx[i]
              /\ j >= 0 => u.idx[p] > q.idx[j]
  <2>1. CASE p = o BY <1>11, <1>15, <1>16, <2>1
  <2>2. CASE p # o
    <3>1. p \in (o + 1)..(M - 1) /\ p \in 0..(M - 1) BY <1>14, <2>2
    <3>2. u.idx[p] = s.idx[p] /\ u.cnt[p] = s.cnt[p] BY <1>11, <2>2, <3>1
    <3>3. ci < s.idx[p] /\ s.idx[p] \in Int /\ ci \in Int BY <1>17, <3>1
    <3>4. (i >= 0 => s.idx[p] > r.idx[i]) /\ (j >= 0 => s.idx[p] > q.idx[j]) BY <1>15, <1>16, <3>3
    <3> QED BY <1>4, <3>1, <3>2, <3>4
  <2> QED BY <2>1, <2>2
<1>19. ASSUME NEW a \in o..(M - 1), NEW b \in o..(M - 1), a < b PROVE u.idx[a] < u.idx[b]
  <2>1. b # o /\ b \in (o + 1)..(M - 1) /\ b \in 0..(M - 1) BY <1>7, <1>19
  <2>2. u.idx[b] = s.idx[b] BY <1>11, <2>1
  <2>3. CASE a = o BY <1>11, <1>17, <2>1, <2>2, <2>3
  <2>4. CASE a # o
    <3>1. a \in (o + 1)..(M - 1) /\ a \in 0..(M - 1) BY <1>14, <2>4
    <3>2. u.idx[a] = s.idx[a] BY <1>11, <2>4, <3>1
    <3> QED BY <1>5, <1>19, <2>1, <2>2, <3>1, <3>2
  <2> QED BY <2>3, <2>4
<1>20. ASSUME NEW v, \E p \in (o + 1)..(M - 1) : s.idx[p] = v PROVE \E p \in o..(M - 1) : u.idx[p] = v
  <2>1. PICK p \in (o + 1)..(M - 1) : s.idx[p] = v BY <1>20
  <2>2. p \in o..(M - 1) /\ p # o /\ p \in 0..(M - 1) BY <1>7
  <2> QED BY <1>11, <2>1, <2>2
<1>21. o \in o..(M - 1) BY <1>7
<1>22. ASSUME NEW l \in (i + 1)..(r.size - 1) PROVE \E p \in o..(M - 1) : u.idx[p] = r.idx[l]
  <2>1. l \in (i + 1)..x.i \/ l \in (x.i + 1)..(r.size - 1) BY <1>1, <1>7
  <2>2. l \in (i + 1)..x.i => r.idx[l] = u.idx[o] BY <1>11
  <2> QED BY <1>6, <1>20, <1>21, <2>1, <2>2
<1>23. ASSUME NEW l \in (j + 1)..(n - 1) PROVE \E p \in o..(M - 1) : u.idx[p] = q.idx[l]
  <2>1. l \in (j + 1)..x.j \/ l \in (x.j + 1)..(n - 1) BY <1>1, <1>7
  <2>2. l \in (j + 1)..x.j => q.idx[l] = u.idx[o] BY <1>11
  <2> QED BY <1>6, <1>20, <1>21, <2>1, <2>2
<1>24. (o - 1) + 1 = o BY <1>7
<1>25. /\ DOMAIN y.hist = Fields /\ Kept(r, y.hist) /\ y.hist.width = r.width
       /\ y.i \in -1..(r.size - 1) /\ y.j \in -1..(n - 1) /\ y.out = y.i + F[y.j + 1]
       /\ y.hist.idx = [p \in 0..(M - 1) |-> y.hist.idx[p]] /\ y.hist.cnt = [p \in 0..(M - 1) |-> y.hist.cnt[p]]
       /\ \A p \in 0..y.i : y.hist.idx[p] = r.idx[p] /\ y.hist.cnt[p] = r.cnt[p]
  BY <1>8, <1>10, <1>11, <1>12, <1>13
<1>26. \A p \in (y.out + 1)..(M - 1) :
           /\ y.hist.idx[p] \in 0..(r.geom.countsLen - 1) /\ y.hist.cnt[p] \in 1..Limit[r.width]
           /\ y.hist.cnt[p] = Count(r, y.hist.idx[p]) + Count(q, y.hist.idx[p])
           /\ y.i >= 0 => y.hist.idx[p] > r.idx[y.i]
           /\ y.j >= 0 => y.hist.idx[p] > q.idx[y.j]
  BY <1>8, <1>18, <1>24
<1>27. \A a, b \in (y.out + 1)..(M - 1) : a < b => y.hist.idx[a] < y.hist.idx[b] BY <1>8, <1>19, <1>24
<1>28. /\ \A l \in (y.i + 1)..(r.size - 1) : \E p \in (y.out + 1)..(M - 1) : y.hist.idx[p] = r.idx[l]
       /\ \A l \in (y.j + 1)..(n - 1) : \E p \in (y.out + 1)..(M - 1) : y.hist.idx[p] = q.idx[l]
  BY <1>8, <1>22, <1>23, <1>24
<1>29. Filling(r, q, n, y) BY <1>8, <1>25, <1>26, <1>27, <1>28 DEF Filling, F, M
<1> QED BY <1>29 DEF y

\* One step of the second pass.
LEMMA Pass2StepFacts ==
  ASSUME NEW r, Stored(r), NEW q, Stored(q), NEW n \in 0..q.size, Border(q, n, r.geom.countsLen),
         \A l \in 0..(n - 1) : Count(r, q.idx[l]) + q.cnt[l] <= Limit[r.width],
         NEW x, Filling(r, q, n, x)
  PROVE  LET y == Pass2Step(x, q) IN
         Filling(r, q, n, y) /\ (x.j < 0 => y = x) /\ (x.j >= 0 => y.i + y.j <= x.i + x.j - 1)
<1> DEFINE F == PrefixSum(Fresh(r, q))
<1> DEFINE M == r.size + F[n]
<1> DEFINE L == r.geom.countsLen
<1> DEFINE s == x.hist
<1> DEFINE y == Pass2Step(x, q)
<1> DEFINE i == x.i
<1> DEFINE j == x.j
<1>1. /\ r.size \in Nat /\ q.size \in Nat /\ n \in Nat /\ n <= q.size /\ L \in Nat
      /\ r.width \in 1..Top /\ Limit[r.width] \in Nat
  <2>1. r.size \in Nat /\ q.size \in Nat /\ r.width \in 1..Top /\ r.geom \in Geometries BY DEF Stored
  <2>2. L \in Nat BY <2>1, GeometriesBuilt
  <2>3. Limit[r.width] \in Nat BY <2>1, LimitFacts
  <2>4. n \in Nat /\ n <= q.size BY <2>1
  <2> QED BY <2>1, <2>2, <2>3, <2>4
<1>2. /\ i \in -1..(r.size - 1) /\ j \in -1..(n - 1) /\ x.out = i + F[j + 1]
      /\ \A p \in 0..i : s.idx[p] = r.idx[p] /\ s.cnt[p] = r.cnt[p]
  BY DEF Filling
<1>3. \A p \in (x.out + 1)..(M - 1) : s.idx[p] \in Int /\ (i >= 0 => s.idx[p] > r.idx[i]) /\ (j >= 0 => s.idx[p] > q.idx[j])
  <2> SUFFICES ASSUME NEW p \in (x.out + 1)..(M - 1)
               PROVE  s.idx[p] \in Int /\ (i >= 0 => s.idx[p] > r.idx[i]) /\ (j >= 0 => s.idx[p] > q.idx[j])
    OBVIOUS
  <2>1. s.idx[p] \in 0..(L - 1) BY DEF Filling
  <2>2. (i >= 0 => s.idx[p] > r.idx[i]) /\ (j >= 0 => s.idx[p] > q.idx[j]) BY DEF Filling
  <2> QED BY <1>1, <2>1, <2>2
<1>4. /\ \A l \in (i + 1)..(r.size - 1) : \E p \in (x.out + 1)..(M - 1) : s.idx[p] = r.idx[l]
      /\ \A l \in (j + 1)..(n - 1) : \E p \in (x.out + 1)..(M - 1) : s.idx[p] = q.idx[l]
  BY DEF Filling
<1>5. \A l \in 0..(r.size - 1) : r.idx[l] \in Nat /\ r.idx[l] \in 0..(L - 1) /\ r.cnt[l] \in 1..Limit[r.width]
                                 /\ r.cnt[l] \in Nat /\ Count(r, r.idx[l]) = r.cnt[l] /\ r.cnt[l] # 0
  <2> SUFFICES ASSUME NEW l \in 0..(r.size - 1)
               PROVE  r.idx[l] \in Nat /\ r.idx[l] \in 0..(L - 1) /\ r.cnt[l] \in 1..Limit[r.width]
                                 /\ r.cnt[l] \in Nat /\ Count(r, r.idx[l]) = r.cnt[l] /\ r.cnt[l] # 0
    OBVIOUS
  <2>1. r.idx[l] \in Nat /\ r.idx[l] \in 0..(L - 1) /\ r.cnt[l] \in Nat BY BucketFacts
  <2>2. r.cnt[l] \in 1..Limit[r.width] BY DEF Stored
  <2>3. Count(r, r.idx[l]) = r.cnt[l] BY CountFacts
  <2> QED BY <1>1, <2>1, <2>2, <2>3
<1>6. \A l \in 0..(q.size - 1) : q.idx[l] \in Nat /\ q.cnt[l] \in Nat /\ Count(q, q.idx[l]) = q.cnt[l] /\ q.cnt[l] >= 1
  <2> SUFFICES ASSUME NEW l \in 0..(q.size - 1)
               PROVE  q.idx[l] \in Nat /\ q.cnt[l] \in Nat /\ Count(q, q.idx[l]) = q.cnt[l] /\ q.cnt[l] >= 1
    OBVIOUS
  <2>1. q.idx[l] \in Nat /\ q.cnt[l] \in Nat /\ q.cnt[l] \in 1..MaxCount BY BucketFacts
  <2>2. Count(q, q.idx[l]) = q.cnt[l] BY CountFacts
  <2> QED BY <2>1, <2>2, MaxCountAssumption
<1>7. \A l \in 0..(q.size - 1) : F[l + 1] = F[l] + (IF Count(r, q.idx[l]) = 0 THEN 1 ELSE 0) /\ F[l] \in Nat /\ F[l + 1] \in Nat
  <2> SUFFICES ASSUME NEW l \in 0..(q.size - 1)
               PROVE  F[l + 1] = F[l] + (IF Count(r, q.idx[l]) = 0 THEN 1 ELSE 0) /\ F[l] \in Nat /\ F[l + 1] \in Nat
    OBVIOUS
  <2>1. l \in 0..q.size /\ l + 1 \in 0..q.size BY <1>1
  <2> QED BY <2>1, FreshFacts
<1>8. (\A l \in 0..(n - 1) : q.idx[l] < L) /\ (\A l \in n..(q.size - 1) : q.idx[l] >= L) BY DEF Border
<1>9. i \in Int /\ j \in Int /\ x.out \in Int
  <2>1. j + 1 \in 0..q.size BY <1>1, <1>2
  <2>2. F[j + 1] \in Nat BY <2>1, FreshFacts
  <2> QED BY <1>1, <1>2, <2>2
<1> HIDE DEF F, M, L, s
<1>10. CASE j < 0
  <2>1. y = x BY <1>10 DEF Pass2Step
  <2> HIDE DEF y
  <2> QED BY <1>9, <1>10, <2>1 DEF y
<1>11. CASE j >= 0
  <2>1. j \in 0..(q.size - 1) /\ j \in 0..(n - 1) /\ ~(j < 0) BY <1>1, <1>2, <1>11
  <2>2. q.idx[j] \in Nat /\ q.cnt[j] \in Nat /\ q.idx[j] < L /\ q.idx[j] \in 0..(L - 1) BY <1>1, <1>6, <1>8, <2>1
  <2>3. i >= 0 => /\ i \in 0..(r.size - 1) /\ r.idx[i] \in Nat /\ s.idx[i] = r.idx[i] /\ s.cnt[i] = r.cnt[i]
    <3> SUFFICES ASSUME i >= 0 PROVE i \in 0..(r.size - 1) /\ r.idx[i] \in Nat /\ s.idx[i] = r.idx[i] /\ s.cnt[i] = r.cnt[i]
      OBVIOUS
    <3>1. i \in 0..(r.size - 1) /\ i \in 0..i BY <1>1, <1>2
    <3> QED BY <1>2, <1>5, <3>1
  <2>4. x.out = i + F[j + 1] /\ F[j + 1] \in Nat /\ F[j] \in Nat
        /\ F[j + 1] = F[j] + (IF Count(r, q.idx[j]) = 0 THEN 1 ELSE 0)
    BY <1>2, <1>7, <2>1
  <2>5. CASE i >= 0 /\ s.idx[i] > q.idx[j]
    <3>1. y = Placed(x, s.idx[i], s.cnt[i], i - 1, j) BY <2>1, <2>5 DEF Pass2Step, Placed, s
    <3>2. y = Placed(x, r.idx[i], r.cnt[i], i - 1, j) BY <2>3, <2>5, <3>1
    <3>3. Count(q, r.idx[i]) = 0
      <4>1. ASSUME NEW l \in 0..(q.size - 1) PROVE q.idx[l] # r.idx[i]
        <5>1. l \in 0..j \/ l \in (j + 1)..(n - 1) \/ l \in n..(q.size - 1) BY <1>1, <1>9
        <5>2. q.idx[l] \in Nat /\ r.idx[i] \in 0..(L - 1) BY <1>5, <1>6, <2>3, <2>5
        <5>3. CASE l \in 0..j
          <6>1. l = j \/ l < j BY <1>9, <5>3
          <6>2. l = j \/ q.idx[l] < q.idx[j] BY <2>1, <6>1, Distinct
          <6> QED BY <2>2, <2>3, <2>5, <5>2, <6>2
        <5>4. CASE l \in (j + 1)..(n - 1)
          <6>1. PICK p \in (x.out + 1)..(M - 1) : s.idx[p] = q.idx[l] BY <1>4, <5>4
          <6>2. s.idx[p] > r.idx[i] BY <1>3, <2>5
          <6> QED BY <2>3, <2>5, <5>2, <6>1, <6>2
        <5>5. CASE l \in n..(q.size - 1) BY <1>1, <1>8, <5>2, <5>5
        <5> QED BY <5>1, <5>3, <5>4, <5>5
      <4> QED BY <4>1, CountFacts
    <3>4. r.cnt[i] = Count(r, r.idx[i]) + Count(q, r.idx[i]) BY <1>5, <2>3, <2>5, <3>3
    <3>5. /\ i - 1 \in -1..x.i /\ j \in -1..x.j /\ x.out >= 0 /\ i - 1 < x.out
          /\ x.out - 1 = (i - 1) + F[j + 1]
      BY <1>9, <2>1, <2>3, <2>4, <2>5
    <3>6. \A p \in (x.out + 1)..(M - 1) : r.idx[i] < s.idx[p]
      <4> SUFFICES ASSUME NEW p \in (x.out + 1)..(M - 1) PROVE r.idx[i] < s.idx[p] OBVIOUS
      <4>1. s.idx[p] > r.idx[i] /\ s.idx[p] \in Int BY <1>3, <2>5
      <4> QED BY <2>3, <2>5, <4>1
    <3>7. i - 1 >= 0 => r.idx[i] > r.idx[i - 1]
      <4> SUFFICES ASSUME i - 1 >= 0 PROVE r.idx[i] > r.idx[i - 1] OBVIOUS
      <4>1. i - 1 \in 0..(r.size - 1) /\ i - 1 < i BY <1>1, <1>9, <2>3, <2>5
      <4>2. r.idx[i - 1] < r.idx[i] /\ r.idx[i - 1] \in Nat /\ r.idx[i] \in Nat BY <1>5, <2>3, <2>5, <4>1, Distinct
      <4> QED BY <4>2
    <3>8. j >= 0 => r.idx[i] > q.idx[j] BY <2>3, <2>5
    <3>9. (\A l \in ((i - 1) + 1)..x.i : r.idx[l] = r.idx[i]) /\ (\A l \in (j + 1)..x.j : q.idx[l] = r.idx[i])
      BY <1>9
    <3>10. r.idx[i] \in 0..(L - 1) /\ r.cnt[i] \in 1..Limit[r.width] BY <1>5, <2>3, <2>5
    <3>11. Filling(r, q, n, Placed(x, r.idx[i], r.cnt[i], i - 1, j))
      BY <3>4, <3>5, <3>6, <3>7, <3>8, <3>9, <3>10, PlacedFacts DEF F, M, L, s
    <3>12. y.i = i - 1 /\ y.j = j BY <3>2 DEF Placed
    <3> HIDE DEF y
    <3> QED BY <1>9, <2>1, <3>2, <3>11, <3>12 DEF y
  <2>6. CASE i >= 0 /\ s.idx[i] = q.idx[j]
    <3> DEFINE c == r.cnt[i] + q.cnt[j]
    <3>1. ~(s.idx[i] > q.idx[j]) BY <2>2, <2>6
    <3>2. y = Placed(x, s.idx[i], s.cnt[i] + q.cnt[j], i - 1, j - 1) BY <2>1, <2>6, <3>1 DEF Pass2Step, Placed, s
    <3>3. r.idx[i] = q.idx[j] /\ i \in 0..(r.size - 1) /\ y = Placed(x, r.idx[i], c, i - 1, j - 1) BY <2>3, <2>6, <3>2
    <3>4. Count(r, r.idx[i]) = r.cnt[i] /\ Count(q, r.idx[i]) = q.cnt[j] /\ r.cnt[i] # 0 /\ r.cnt[i] \in Nat
      BY <1>5, <1>6, <2>1, <3>3
    <3>5. Count(r, q.idx[j]) # 0 /\ Count(r, q.idx[j]) + q.cnt[j] <= Limit[r.width] BY <2>1, <3>3, <3>4
    <3>6. c = Count(r, r.idx[i]) + Count(q, r.idx[i]) /\ c \in 1..Limit[r.width]
      <4>1. c \in Nat /\ c >= 1 /\ c <= Limit[r.width] BY <2>2, <3>3, <3>4, <3>5
      <4> QED BY <1>1, <3>4, <4>1
    <3>7. F[j + 1] = F[j] BY <2>4, <3>5
    <3>8. /\ i - 1 \in -1..x.i /\ j - 1 \in -1..x.j /\ x.out >= 0 /\ i - 1 < x.out
          /\ x.out - 1 = (i - 1) + F[(j - 1) + 1]
      <4>1. (j - 1) + 1 = j BY <1>9
      <4> QED BY <1>9, <2>1, <2>4, <2>6, <3>7, <4>1
    <3>9. \A p \in (x.out + 1)..(M - 1) : r.idx[i] < s.idx[p]
      <4> SUFFICES ASSUME NEW p \in (x.out + 1)..(M - 1) PROVE r.idx[i] < s.idx[p] OBVIOUS
      <4>1. s.idx[p] > r.idx[i] /\ s.idx[p] \in Int BY <1>3, <2>6
      <4> QED BY <2>3, <2>6, <4>1
    <3>10. i - 1 >= 0 => r.idx[i] > r.idx[i - 1]
      <4> SUFFICES ASSUME i - 1 >= 0 PROVE r.idx[i] > r.idx[i - 1] OBVIOUS
      <4>1. i - 1 \in 0..(r.size - 1) /\ i - 1 < i BY <1>1, <1>9, <3>3
      <4>2. r.idx[i - 1] < r.idx[i] /\ r.idx[i - 1] \in Nat /\ r.idx[i] \in Nat BY <1>5, <3>3, <4>1, Distinct
      <4> QED BY <4>2
    <3>11. j - 1 >= 0 => r.idx[i] > q.idx[j - 1]
      <4> SUFFICES ASSUME j - 1 >= 0 PROVE r.idx[i] > q.idx[j - 1] OBVIOUS
      <4>1. j - 1 \in 0..(q.size - 1) /\ j - 1 < j BY <1>1, <1>9, <2>1
      <4>2. q.idx[j - 1] < q.idx[j] /\ q.idx[j - 1] \in Nat BY <1>6, <2>1, <4>1, Distinct
      <4> QED BY <2>2, <3>3, <4>2
    <3>12. (\A l \in ((i - 1) + 1)..x.i : r.idx[l] = r.idx[i]) /\ (\A l \in ((j - 1) + 1)..x.j : q.idx[l] = r.idx[i])
      BY <1>9, <3>3
    <3>13. r.idx[i] \in 0..(L - 1) BY <1>5, <3>3
    <3> HIDE DEF c
    <3>14. Filling(r, q, n, Placed(x, r.idx[i], c, i - 1, j - 1))
      BY <3>6, <3>8, <3>9, <3>10, <3>11, <3>12, <3>13, PlacedFacts DEF F, M, L, s
    <3>15. y.i = i - 1 /\ y.j = j - 1 BY <3>3 DEF Placed
    <3> HIDE DEF y
    <3> QED BY <1>9, <2>1, <3>3, <3>14, <3>15 DEF y
  <2>7. CASE ~(i >= 0 /\ s.idx[i] > q.idx[j]) /\ ~(i >= 0 /\ s.idx[i] = q.idx[j])
    <3>1. y = Placed(x, q.idx[j], q.cnt[j], i, j - 1) BY <2>1, <2>7 DEF Pass2Step, Placed, s
    <3>2. i >= 0 => r.idx[i] < q.idx[j] BY <2>2, <2>3, <2>7
    <3>3. Count(r, q.idx[j]) = 0
      <4>1. ASSUME NEW l \in 0..(r.size - 1) PROVE r.idx[l] # q.idx[j]
        <5>1. l \in 0..i \/ l \in (i + 1)..(r.size - 1) BY <1>1, <1>9
        <5>2. r.idx[l] \in Nat BY <1>5
        <5>3. CASE l \in 0..i
          <6>1. i >= 0 /\ (l = i \/ l < i) BY <1>9, <5>3
          <6>2. l = i \/ r.idx[l] < r.idx[i] BY <2>3, <6>1, Distinct
          <6> QED BY <2>2, <2>3, <3>2, <5>2, <6>1, <6>2
        <5>4. CASE l \in (i + 1)..(r.size - 1)
          <6>1. PICK p \in (x.out + 1)..(M - 1) : s.idx[p] = r.idx[l] BY <1>4, <5>4
          <6>2. s.idx[p] > q.idx[j] BY <1>3, <1>11
          <6> QED BY <2>2, <5>2, <6>1, <6>2
        <5> QED BY <5>1, <5>3, <5>4
      <4> QED BY <4>1, CountFacts
    <3>4. /\ q.cnt[j] = Count(r, q.idx[j]) + Count(q, q.idx[j])
          /\ q.cnt[j] \in 1..Limit[r.width]
      <4>1. Count(q, q.idx[j]) = q.cnt[j] /\ q.cnt[j] >= 1 BY <1>6, <2>1
      <4>2. Count(r, q.idx[j]) + q.cnt[j] <= Limit[r.width] BY <2>1
      <4> QED BY <1>1, <2>2, <3>3, <4>1, <4>2
    <3>5. F[j + 1] = F[j] + 1 BY <2>4, <3>3
    <3>6. /\ i \in -1..x.i /\ j - 1 \in -1..x.j /\ x.out >= 0 /\ i < x.out
          /\ x.out - 1 = i + F[(j - 1) + 1]
      <4>1. (j - 1) + 1 = j BY <1>9
      <4>2. i >= -1 BY <1>1, <1>2
      <4> QED BY <1>9, <2>1, <2>4, <3>5, <4>1, <4>2
    <3>7. \A p \in (x.out + 1)..(M - 1) : q.idx[j] < s.idx[p]
      <4> SUFFICES ASSUME NEW p \in (x.out + 1)..(M - 1) PROVE q.idx[j] < s.idx[p] OBVIOUS
      <4>1. s.idx[p] > q.idx[j] /\ s.idx[p] \in Int BY <1>3, <1>11
      <4> QED BY <2>2, <4>1
    <3>8. i >= 0 => q.idx[j] > r.idx[i] BY <2>2, <2>3, <3>2
    <3>9. j - 1 >= 0 => q.idx[j] > q.idx[j - 1]
      <4> SUFFICES ASSUME j - 1 >= 0 PROVE q.idx[j] > q.idx[j - 1] OBVIOUS
      <4>1. j - 1 \in 0..(q.size - 1) /\ j - 1 < j BY <1>1, <1>9, <2>1
      <4>2. q.idx[j - 1] < q.idx[j] /\ q.idx[j - 1] \in Nat BY <1>6, <2>1, <4>1, Distinct
      <4> QED BY <2>2, <4>2
    <3>10. (\A l \in (i + 1)..x.i : r.idx[l] = q.idx[j]) /\ (\A l \in ((j - 1) + 1)..x.j : q.idx[l] = q.idx[j])
      BY <1>9
    <3>11. Filling(r, q, n, Placed(x, q.idx[j], q.cnt[j], i, j - 1))
      BY <2>2, <3>4, <3>6, <3>7, <3>8, <3>9, <3>10, PlacedFacts DEF F, M, L, s
    <3>12. y.i = i /\ y.j = j - 1 BY <3>1 DEF Placed
    <3> HIDE DEF y
    <3> QED BY <1>9, <2>1, <3>1, <3>11, <3>12 DEF y
  <2> QED BY <2>5, <2>6, <2>7
<1> QED BY <1>9, <1>10, <1>11

\* When no bucket of q is left the arrays hold the merged buckets.
LEMMA FilledFacts ==
  ASSUME NEW r, Stored(r), NEW q, Stored(q), NEW n \in 0..q.size, Border(q, n, r.geom.countsLen),
         NEW x, Filling(r, q, n, x), x.j = -1,
         NEW z, DOMAIN z = Fields, z.geom = r.geom, z.width = r.width,
         z.size = r.size + PrefixSum(Fresh(r, q))[n], z.idx = x.hist.idx, z.cnt = x.hist.cnt,
         z.lastIndex \in Nat, z.lastPos \in Nat
  PROVE  Stored(z) /\ \A v \in 0..(r.geom.countsLen - 1) : Count(z, v) = Count(r, v) + Count(q, v)
<1> DEFINE F == PrefixSum(Fresh(r, q))
<1> DEFINE M == r.size + F[n]
<1> DEFINE L == r.geom.countsLen
<1> DEFINE s == x.hist
<1> DEFINE i == x.i
<1>1. /\ r.size \in Nat /\ q.size \in Nat /\ n \in Nat /\ n <= q.size /\ L \in Nat
      /\ r.width \in 1..Top /\ Limit[r.width] \in Nat /\ r.geom \in Geometries
  <2>1. r.size \in Nat /\ q.size \in Nat /\ r.width \in 1..Top /\ r.geom \in Geometries BY DEF Stored
  <2>2. L \in Nat BY <2>1, GeometriesBuilt
  <2>3. Limit[r.width] \in Nat BY <2>1, LimitFacts
  <2>4. n \in Nat /\ n <= q.size BY <2>1
  <2> QED BY <2>1, <2>2, <2>3, <2>4
<1>2. F[0] = 0 /\ F[n] \in Nat BY FreshFacts
<1>3. i \in -1..(r.size - 1) /\ x.out = i + F[x.j + 1] BY DEF Filling
<1>4. -1 + 1 = 0 OBVIOUS
<1>5. x.out = i /\ i \in Int /\ i <= M - 1 /\ M \in Nat
  <2>1. x.out = i + 0 BY <1>2, <1>3, <1>4
  <2> HIDE DEF i, F
  <2> QED BY <1>1, <1>2, <1>3, <2>1
<1>6. /\ s.idx = [p \in 0..(M - 1) |-> s.idx[p]] /\ s.cnt = [p \in 0..(M - 1) |-> s.cnt[p]]
      /\ \A p \in 0..i : s.idx[p] = r.idx[p] /\ s.cnt[p] = r.cnt[p]
  BY DEF Filling
<1>7. \A p \in (i + 1)..(M - 1) :
        /\ s.idx[p] \in 0..(L - 1) /\ s.cnt[p] \in 1..Limit[r.width]
        /\ s.cnt[p] = Count(r, s.idx[p]) + Count(q, s.idx[p])
        /\ i >= 0 => s.idx[p] > r.idx[i]
  BY <1>5 DEF Filling
<1>8. \A a, b \in (i + 1)..(M - 1) : a < b => s.idx[a] < s.idx[b] BY <1>5 DEF Filling
<1>9. /\ \A l \in (i + 1)..(r.size - 1) : \E p \in (i + 1)..(M - 1) : s.idx[p] = r.idx[l]
      /\ \A l \in 0..(n - 1) : \E p \in (i + 1)..(M - 1) : s.idx[p] = q.idx[l]
  BY <1>4, <1>5 DEF Filling
<1>10. \A l \in n..(q.size - 1) : q.idx[l] >= L BY DEF Border
<1>11. z.size = M /\ z.idx = s.idx /\ z.cnt = s.cnt OBVIOUS
<1>12. \A l \in 0..(r.size - 1) : r.idx[l] \in 0..(L - 1) /\ r.idx[l] \in Nat /\ r.cnt[l] \in 1..Limit[r.width] /\ Count(r, r.idx[l]) = r.cnt[l]
  <2> SUFFICES ASSUME NEW l \in 0..(r.size - 1)
               PROVE  r.idx[l] \in 0..(L - 1) /\ r.idx[l] \in Nat /\ r.cnt[l] \in 1..Limit[r.width] /\ Count(r, r.idx[l]) = r.cnt[l]
    OBVIOUS
  <2>1. r.idx[l] \in 0..(L - 1) /\ r.idx[l] \in Nat BY BucketFacts
  <2>2. r.cnt[l] \in 1..Limit[r.width] BY DEF Stored
  <2>3. Count(r, r.idx[l]) = r.cnt[l] BY CountFacts
  <2> QED BY <2>1, <2>2, <2>3
<1>13. \A l \in 0..(q.size - 1) : q.idx[l] \in Nat BY BucketFacts
<1> HIDE DEF F, M, L, s, i
<1>14. \A p \in 0..(M - 1) : p \in 0..i \/ p \in (i + 1)..(M - 1) BY <1>5
<1>15. \A p \in 0..i : i >= 0 /\ i \in 0..(r.size - 1) /\ p \in 0..(r.size - 1) BY <1>1, <1>3, <1>5 DEF i
<1>16. \A p \in 0..i : r.idx[p] <= r.idx[i]
  <2> SUFFICES ASSUME NEW p \in 0..i PROVE r.idx[p] <= r.idx[i] OBVIOUS
  <2>1. i \in 0..(r.size - 1) /\ p \in 0..(r.size - 1) BY <1>15
  <2>2. p = i \/ p < i BY <1>5
  <2>3. p = i \/ r.idx[p] < r.idx[i] BY <2>1, <2>2, Distinct
  <2>4. r.idx[p] \in Nat /\ r.idx[i] \in Nat BY <1>12, <2>1
  <2> QED BY <2>3, <2>4
<1>17. \A p \in 0..(M - 1) : s.idx[p] \in 0..(L - 1) /\ s.cnt[p] \in 1..Limit[r.width]
  <2> SUFFICES ASSUME NEW p \in 0..(M - 1) PROVE s.idx[p] \in 0..(L - 1) /\ s.cnt[p] \in 1..Limit[r.width] OBVIOUS
  <2>1. CASE p \in 0..i BY <1>6, <1>12, <1>15, <2>1
  <2>2. CASE p \in (i + 1)..(M - 1) BY <1>7, <2>2
  <2> QED BY <1>14, <2>1, <2>2
<1>18. ASSUME NEW a \in 0..(M - 1), NEW b \in 0..(M - 1), a < b PROVE s.idx[a] < s.idx[b]
  <2>1. CASE a \in (i + 1)..(M - 1)
    <3>1. b \in (i + 1)..(M - 1) BY <1>5, <1>18, <2>1
    <3> QED BY <1>8, <1>18, <2>1, <3>1
  <2>2. CASE a \in 0..i /\ b \in 0..i
    <3>1. a \in 0..(r.size - 1) /\ b \in 0..(r.size - 1) BY <1>15, <2>2
    <3>2. r.idx[a] < r.idx[b] BY <1>18, <3>1, Distinct
    <3> QED BY <1>6, <2>2, <3>2
  <2>3. CASE a \in 0..i /\ b \in (i + 1)..(M - 1)
    <3>1. s.idx[a] = r.idx[a] /\ r.idx[a] <= r.idx[i] BY <1>6, <1>16, <2>3
    <3>2. i >= 0 /\ i \in 0..(r.size - 1) /\ a \in 0..(r.size - 1) BY <1>15, <2>3
    <3>3. s.idx[b] > r.idx[i] BY <1>7, <2>3, <3>2
    <3>4. r.idx[i] \in Nat /\ r.idx[a] \in Nat BY <1>12, <3>2
    <3>5. s.idx[b] \in 0..(L - 1) BY <1>17
    <3> QED BY <3>1, <3>3, <3>4, <3>5
  <2> QED BY <1>14, <2>1, <2>2, <2>3
<1>19. Stored(z)
  <2>1. z.idx \in [0..(z.size - 1) -> 0..(z.geom.countsLen - 1)] BY <1>6, <1>11, <1>17 DEF L
  <2>2. z.cnt \in [0..(z.size - 1) -> 1..Limit[z.width]] BY <1>6, <1>11, <1>17
  <2>3. Ascending(z.idx, z.size) BY <1>11, <1>18 DEF Ascending
  <2> QED BY <1>1, <1>5, <1>11, <2>1, <2>2, <2>3 DEF Stored
<1>20. ASSUME NEW v \in 0..(L - 1) PROVE Count(z, v) = Count(r, v) + Count(q, v)
  <2>1. CASE \E p \in (i + 1)..(M - 1) : s.idx[p] = v
    <3>1. PICK p \in (i + 1)..(M - 1) : s.idx[p] = v BY <2>1
    <3>2. p \in 0..(z.size - 1)
      <4>1. i >= -1 BY <1>1, <1>3 DEF i
      <4> QED BY <1>5, <1>11, <4>1
    <3>3. Count(z, z.idx[p]) = z.cnt[p] BY <1>19, <3>2, CountFacts
    <3> QED BY <1>7, <1>11, <3>1, <3>3
  <2>2. CASE \A p \in (i + 1)..(M - 1) : s.idx[p] # v
    <3>1. Count(q, v) = 0
      <4>1. ASSUME NEW l \in 0..(q.size - 1) PROVE q.idx[l] # v
        <5>1. l \in 0..(n - 1) \/ l \in n..(q.size - 1) BY <1>1
        <5>2. CASE l \in 0..(n - 1) BY <1>9, <2>2, <5>2
        <5>3. CASE l \in n..(q.size - 1) BY <1>1, <1>10, <1>13, <5>3 DEF L
        <5> QED BY <5>1, <5>2, <5>3
      <4> QED BY <4>1, CountFacts
    <3>2. CASE \E l \in 0..i : r.idx[l] = v
      <4>1. PICK l \in 0..i : r.idx[l] = v BY <3>2
      <4>2. l \in 0..(r.size - 1) /\ l \in 0..(z.size - 1) BY <1>5, <1>11, <1>15
      <4>3. Count(r, v) = r.cnt[l] /\ r.cnt[l] \in 1..Limit[r.width] BY <1>12, <4>1, <4>2
      <4>4. Count(z, z.idx[l]) = z.cnt[l] BY <1>19, <4>2, CountFacts
      <4>5. z.idx[l] = v /\ z.cnt[l] = r.cnt[l] BY <1>6, <1>11, <4>1
      <4> QED BY <3>1, <4>3, <4>4, <4>5
    <3>3. CASE \A l \in 0..i : r.idx[l] # v
      <4>1. ASSUME NEW l \in 0..(r.size - 1) PROVE r.idx[l] # v
        <5>1. l \in 0..i \/ l \in (i + 1)..(r.size - 1) BY <1>1, <1>5
        <5>2. CASE l \in (i + 1)..(r.size - 1) BY <1>9, <2>2, <5>2
        <5> QED BY <3>3, <5>1, <5>2
      <4>2. Count(r, v) = 0 BY <4>1, CountFacts
      <4>3. ASSUME NEW p \in 0..(z.size - 1) PROVE z.idx[p] # v
        <5>1. p \in 0..i \/ p \in (i + 1)..(M - 1) BY <1>11, <1>14
        <5> QED BY <1>6, <1>11, <2>2, <3>3, <5>1
      <4>4. Count(z, v) = 0 BY <1>19, <4>3, CountFacts
      <4> QED BY <3>1, <4>2, <4>4
    <3> QED BY <3>2, <3>3
  <2> QED BY <2>1, <2>2
<1> QED BY <1>19, <1>20 DEF L

\* The second pass merges the buckets of q below the length into those of r.
LEMMA Pass2Facts ==
  ASSUME NEW r, Stored(r), NEW q, Stored(q), NEW n \in 0..q.size, Border(q, n, r.geom.countsLen),
         \A l \in 0..(n - 1) : Count(r, q.idx[l]) + q.cnt[l] <= Limit[r.width]
  PROVE  LET M == r.size + PrefixSum(Fresh(r, q))[n] IN
         \E x : Filling(r, q, n, x) /\ x.j = -1 /\ Pass2(Grown(r, M), q, n, M) = x.hist
<1> DEFINE F == PrefixSum(Fresh(r, q))
<1> DEFINE M == r.size + F[n]
<1> DEFINE G == Grown(r, M)
<1> DEFINE N == r.size + n
<1>1. r.size \in Nat /\ q.size \in Nat /\ n \in Nat /\ n <= q.size /\ N \in Nat BY DEF Stored
<1>2. F[n] \in Nat /\ M \in Nat /\ M >= r.size
  <2>1. F[n] \in Nat BY FreshFacts
  <2> HIDE DEF F
  <2> QED BY <1>1, <2>1
<1> HIDE DEF M
<1>3. /\ DOMAIN G = Fields /\ Kept(r, G) /\ G.width = r.width /\ G.size = r.size
      /\ G.idx = [p \in 0..(M - 1) |-> IF p < r.size THEN r.idx[p] ELSE -1]
      /\ G.cnt = [p \in 0..(M - 1) |-> IF p < r.size THEN r.cnt[p] ELSE 0]
  <2>1. DOMAIN r = Fields BY DEF Stored
  <2> DEFINE a == [p \in 0..(M - 1) |-> IF p < r.size THEN r.idx[p] ELSE -1]
  <2> DEFINE b == [p \in 0..(M - 1) |-> IF p < r.size THEN r.cnt[p] ELSE 0]
  <2> DEFINE H == [r EXCEPT !.idx = a]
  <2>2. G = [r EXCEPT !.idx = a, !.cnt = b] BY DEF Grown
  <2> HIDE DEF a, b, G
  <2>3. G = [H EXCEPT !.cnt = b] BY <2>2
  <2>4. DOMAIN H = Fields /\ Kept(r, H) /\ H.width = r.width /\ H.size = r.size /\ H.idx = a
    BY <2>1 DEF Fields, Kept
  <2> HIDE DEF H
  <2>5. DOMAIN G = Fields /\ Kept(r, G) /\ G.width = r.width /\ G.size = r.size /\ G.idx = a /\ G.cnt = b
    BY <2>3, <2>4 DEF Fields, Kept
  <2> QED BY <2>5 DEF a, b
<1> HIDE DEF G
<1>4. PICK g : /\ g[0] = [hist |-> G, i |-> G.size - 1, j |-> n - 1, out |-> M - 1]
               /\ \A k \in 0..((G.size + n) - 1) : g[k + 1] = Pass2Step(g[k], q)
               /\ Pass2(G, q, n, M) = g[G.size + n].hist
  <2>1. G.size + n \in Nat BY <1>1, <1>3
  <2> QED BY <2>1, Pass2Loop
<1>5. /\ g[0] = [hist |-> G, i |-> r.size - 1, j |-> n - 1, out |-> M - 1]
      /\ \A k \in 0..(N - 1) : g[k + 1] = Pass2Step(g[k], q)
      /\ Pass2(G, q, n, M) = g[N].hist
  BY <1>3, <1>4
<1> DEFINE Q(x, k) == Filling(r, q, n, x) /\ (x.j < 0 \/ x.i + x.j <= (N - 2) - k)
<1> DEFINE S == {k \in Nat : k <= N => Q(g[k], k)}
<1>6. 0 \in S
  <2> DEFINE x == g[0]
  <2>1. /\ DOMAIN x = {"hist", "i", "j", "out"} /\ x.hist = G
        /\ x.i = r.size - 1 /\ x.j = n - 1 /\ x.out = M - 1
    BY <1>5
  <2> HIDE DEF x
  <2>2. (n - 1) + 1 = n /\ (M - 1) + 1 = M /\ (r.size - 1) + 1 = r.size /\ M - 1 = (r.size - 1) + F[n]
    <3>1. M = r.size + F[n] BY DEF M
    <3> HIDE DEF F
    <3> QED BY <1>1, <1>2, <3>1
  <2>3. /\ x.i \in -1..(r.size - 1) /\ x.j \in -1..(n - 1) /\ x.out = x.i + F[x.j + 1]
    BY <1>1, <2>1, <2>2
  <2>4. /\ x.hist.idx = [p \in 0..(M - 1) |-> x.hist.idx[p]] /\ x.hist.cnt = [p \in 0..(M - 1) |-> x.hist.cnt[p]]
        /\ \A p \in 0..x.i : x.hist.idx[p] = r.idx[p] /\ x.hist.cnt[p] = r.cnt[p]
    <3>1. ASSUME NEW p \in 0..(r.size - 1) PROVE p \in 0..(M - 1) /\ p < r.size BY <1>1, <1>2
    <3> QED BY <1>3, <2>1, <3>1
  <2>5. (x.out + 1)..(M - 1) = {} /\ (x.i + 1)..(r.size - 1) = {} /\ (x.j + 1)..(n - 1) = {}
    BY <1>1, <1>2, <2>1, <2>2
  <2>6. Filling(r, q, n, x)
    BY <1>3, <2>1, <2>3, <2>4, <2>5 DEF Filling, M, F
  <2>7. x.i + x.j <= (N - 2) - 0 BY <1>1, <2>1
  <2> QED BY <2>6, <2>7 DEF x
<1>7. ASSUME NEW k \in S PROVE k + 1 \in S
  <2> SUFFICES ASSUME k + 1 <= N PROVE Q(g[k + 1], k + 1) OBVIOUS
  <2>1. k \in 0..(N - 1) /\ k <= N /\ k \in Nat BY <1>1
  <2> DEFINE x == g[k]
  <2> DEFINE y == g[k + 1]
  <2>2. Q(x, k) BY <2>1
  <2>3. y = Pass2Step(x, q) BY <1>5, <2>1
  <2> HIDE DEF S, N, x, y
  <2>4. Filling(r, q, n, y) /\ (x.j < 0 => y = x) /\ (x.j >= 0 => y.i + y.j <= x.i + x.j - 1)
    BY <2>2, <2>3, Pass2StepFacts
  <2>5. x.i \in Int /\ x.j \in Int /\ y.i \in Int /\ y.j \in Int
    <3>1. x.i \in -1..(r.size - 1) /\ x.j \in -1..(n - 1) BY <2>2 DEF Filling
    <3>2. y.i \in -1..(r.size - 1) /\ y.j \in -1..(n - 1) BY <2>4 DEF Filling
    <3> QED BY <1>1, <3>1, <3>2
  <2>6. y.j < 0 \/ y.i + y.j <= (N - 2) - (k + 1)
    <3>1. CASE x.j < 0 BY <2>4, <3>1
    <3>2. CASE x.j >= 0
      <4>1. x.i + x.j <= (N - 2) - k BY <2>2, <2>5, <3>2
      <4> QED BY <1>1, <2>1, <2>4, <2>5, <3>2, <4>1
    <3> QED BY <2>5, <3>1, <3>2
  <2> QED BY <2>4, <2>6 DEF y
<1>8. S = Nat
  <2>1. S \in SUBSET Nat OBVIOUS
  <2> HIDE DEF S
  <2> QED BY <1>6, <1>7, <2>1, SetInduction
<1>9. Q(g[N], N) BY <1>1, <1>8
<1> DEFINE x == g[N]
<1>10. x.j = -1
  <2>1. Filling(r, q, n, x) /\ (x.j < 0 \/ x.i + x.j <= (N - 2) - N) BY <1>9
  <2> HIDE DEF x
  <2>2. x.i \in -1..(r.size - 1) /\ x.j \in -1..(n - 1) BY <2>1 DEF Filling
  <2> QED BY <1>1, <2>1, <2>2
<1> QED BY <1>5, <1>9, <1>10 DEF G, M, F

\* The counts of r with those of the first b positions of q added.
Mixed(r, q, b) ==
  [i \in 0..(r.geom.countsLen - 1) |-> Count(r, i) + (IF i < b THEN Count(q, i) ELSE 0)]

\* How much q counts in its first b positions.
PartBelow(q, b) == PrefixSum(Spread(q))[b]

\* The partial sums of the positions.
LEMMA BelowFacts ==
  ASSUME NEW q, Stored(q)
  PROVE  /\ PartBelow(q, 0) = 0
         /\ \A b \in 0..q.geom.countsLen : PartBelow(q, b) \in Nat /\ PartBelow(q, b) <= Sum(q)
         /\ \A b \in 0..(q.geom.countsLen - 1) : PartBelow(q, b + 1) = PartBelow(q, b) + Count(q, b)
         /\ PartBelow(q, q.geom.countsLen) = Sum(q)
         /\ \A i \in Int : i >= q.geom.countsLen => Count(q, i) = 0
<1> DEFINE K == q.geom.countsLen
<1> DEFINE c == Spread(q)
<1>1. K \in Nat BY GeometriesBuilt DEF Stored
<1>2. PrefixSum(c)[K] = Sum(q) /\ \A i \in 0..(K - 1) : c[i] = Count(q, i) /\ c[i] \in Nat
  BY SpreadSum, CountType
<1> HIDE DEF K, c
<1>3. \A b \in 0..K : PrefixSum(c)[b] \in Nat /\ PrefixSum(c)[b] <= PrefixSum(c)[K]
  <2>1. K \in 0..K /\ \A i \in 0..(K - 1) : c[i] \in Nat BY <1>1, <1>2
  <2> QED BY <1>1, <2>1, PrefixSumMonotone
<1>4. \A b \in 0..(K - 1) : PrefixSum(c)[b + 1] = PrefixSum(c)[b] + Count(q, b)
  <2> SUFFICES ASSUME NEW b \in 0..(K - 1) PROVE PrefixSum(c)[b + 1] = PrefixSum(c)[b] + Count(q, b) OBVIOUS
  <2>1. b \in Nat BY <1>1
  <2> QED BY <1>2, <2>1, PrefixSumStep
<1>5. ASSUME NEW i \in Int, i >= K PROVE Count(q, i) = 0
  <2>1. ASSUME NEW k \in 0..(q.size - 1) PROVE q.idx[k] # i
    <3>1. q.idx[k] \in 0..(K - 1) BY BucketFacts DEF K
    <3> QED BY <1>1, <1>5, <3>1
  <2> QED BY <2>1, CountFacts
<1> QED BY <1>2, <1>3, <1>4, <1>5, PrefixSumZero DEF PartBelow, K, c

\* A histogram with the counts of both has the sum of both below its length.
LEMMA MixedSum ==
  ASSUME NEW r, Stored(r), NEW q, Stored(q), NEW z, Stored(z), z.geom = r.geom,
         \A v \in 0..(r.geom.countsLen - 1) : Count(z, v) = Count(r, v) + Count(q, v)
  PROVE  Sum(z) = Sum(r) + PartBelow(q, Smaller(q.geom.countsLen, r.geom.countsLen))
<1> DEFINE K == q.geom.countsLen
<1> DEFINE L == r.geom.countsLen
<1>1. K \in Nat /\ L \in Nat BY GeometriesBuilt DEF Stored
<1>2. \A b \in 0..(L - 1) : /\ PartBelow(z, b + 1) = PartBelow(z, b) + Count(z, b)
                            /\ PartBelow(r, b + 1) = PartBelow(r, b) + Count(r, b)
                            /\ Count(z, b) = Count(r, b) + Count(q, b)
  BY BelowFacts
<1>3. PartBelow(z, L) = Sum(z) /\ PartBelow(r, L) = Sum(r) /\ PartBelow(z, 0) = 0 /\ PartBelow(r, 0) = 0 /\ PartBelow(q, 0) = 0
  BY BelowFacts
<1>4. \A b \in 0..(K - 1) : PartBelow(q, b + 1) = PartBelow(q, b) + Count(q, b) BY BelowFacts
<1>5. \A b \in 0..K : PartBelow(q, b) \in Nat BY BelowFacts
<1>6. \A i \in Int : i >= K => Count(q, i) = 0 BY BelowFacts
<1>7. \A b \in 0..L : PartBelow(r, b) \in Nat BY BelowFacts
<1>8. \A b : Count(q, b) \in Nat /\ Count(r, b) \in Nat BY CountType
<1> HIDE DEF K, L
<1> DEFINE S == {b \in Nat : b <= L => PartBelow(z, b) = PartBelow(r, b) + PartBelow(q, Smaller(K, b))}
<1>9. 0 \in S BY <1>1, <1>3 DEF Smaller
<1>10. ASSUME NEW b \in S PROVE b + 1 \in S
  <2> SUFFICES ASSUME b + 1 <= L PROVE PartBelow(z, b + 1) = PartBelow(r, b + 1) + PartBelow(q, Smaller(K, b + 1)) OBVIOUS
  <2>1. b \in Nat /\ b \in 0..(L - 1) /\ b \in 0..L /\ b <= L BY <1>1
  <2>2. PartBelow(z, b) = PartBelow(r, b) + PartBelow(q, Smaller(K, b)) BY <2>1
  <2> HIDE DEF S
  <2>3. PartBelow(z, b + 1) = (PartBelow(r, b) + PartBelow(q, Smaller(K, b))) + (Count(r, b) + Count(q, b))
        /\ PartBelow(r, b + 1) = PartBelow(r, b) + Count(r, b)
    BY <1>2, <2>1, <2>2
  <2>4. PartBelow(r, b) \in Nat /\ Count(r, b) \in Nat /\ Count(q, b) \in Nat BY <1>7, <1>8, <2>1
  <2>5. CASE b < K
    <3>1. Smaller(K, b) = b /\ Smaller(K, b + 1) = b + 1 /\ b \in 0..(K - 1) /\ b \in 0..K BY <1>1, <2>1, <2>5 DEF Smaller
    <3>2. PartBelow(q, b + 1) = PartBelow(q, b) + Count(q, b) /\ PartBelow(q, b) \in Nat BY <1>4, <1>5, <3>1
    <3> QED BY <2>3, <2>4, <3>1, <3>2
  <2>6. CASE ~(b < K)
    <3>1. Smaller(K, b) = K /\ Smaller(K, b + 1) = K /\ b >= K /\ K \in 0..K /\ b \in Int BY <1>1, <2>1, <2>6 DEF Smaller
    <3>2. Count(q, b) = 0 /\ PartBelow(q, K) \in Nat BY <1>5, <1>6, <3>1
    <3> QED BY <2>3, <2>4, <3>1, <3>2
  <2> QED BY <2>5, <2>6
<1>11. S = Nat
  <2>1. S \in SUBSET Nat OBVIOUS
  <2> HIDE DEF S
  <2> QED BY <1>9, <1>10, <2>1, SetInduction
<1>12. PartBelow(z, L) = PartBelow(r, L) + PartBelow(q, Smaller(K, L)) BY <1>1, <1>11
<1> QED BY <1>3, <1>12 DEF K, L

\* Re-recording counts that all have room: what lies below the length is added and
\* the rest dropped.
LEMMA RerecordingFits ==
  ASSUME NEW r, Good(r), NEW q, Stored(q), SameIndexing(r.geom, q.geom), r.total + Sum(q) <= MaxCount,
         NEW f, Rerecording(f, r.geom, Spread(r), r.total, q.geom, Spread(q))
  PROVE  LET m == Smaller(q.geom.countsLen, r.geom.countsLen) IN
         f[q.geom.countsLen] = Entry(Mixed(r, q, q.geom.countsLen), r.total + PartBelow(q, m), Sum(q) - PartBelow(q, m))
<1> DEFINE K == q.geom.countsLen
<1> DEFINE L == r.geom.countsLen
<1> DEFINE G == r.geom
<1> DEFINE H == q.geom
<1>1. K \in Nat /\ L \in Nat /\ G \in Geometries /\ H \in Geometries /\ Stored(r) /\ MaxCount \in Nat
      /\ r.total \in 0..MaxCount
  BY GeometriesBuilt, MaxCountAssumption DEF Good, Stored
<1>2. /\ f[0] = Entry(Spread(r), r.total, 0)
      /\ \A b \in 0..(K - 1) :
           f[b + 1] = Store!Offered(f[b], CountsIndexFor(G, ValueFromFlatIndex(H, b)), Spread(q)[b])
  BY DEF Rerecording
<1>3. \A b \in 0..(K - 1) : CountsIndexFor(G, ValueFromFlatIndex(H, b)) = b BY <1>1, TargetFacts
<1>4. \A b \in 0..(K - 1) : Spread(q)[b] = Count(q, b) BY SpreadSum
<1>5. /\ PartBelow(q, 0) = 0 /\ PartBelow(q, K) = Sum(q) /\ Sum(q) \in Nat
      /\ \A b \in 0..K : PartBelow(q, b) \in Nat /\ PartBelow(q, b) <= Sum(q)
      /\ \A b \in 0..(K - 1) : PartBelow(q, b + 1) = PartBelow(q, b) + Count(q, b)
  BY BelowFacts, SpreadSum
<1>6. \A i : Count(r, i) \in Nat /\ Count(q, i) \in Nat BY <1>1, CountType
<1> HIDE DEF K, L, G, H
<1> DEFINE State(b) == Entry(Mixed(r, q, b), r.total + PartBelow(q, Smaller(b, L)), PartBelow(q, b) - PartBelow(q, Smaller(b, L)))
<1> DEFINE S == {b \in Nat : b <= K => f[b] = State(b)}
<1>7. 0 \in S
  <2>1. Smaller(0, L) = 0 BY <1>1 DEF Smaller
  <2>2. Mixed(r, q, 0) = Spread(r)
    <3>1. ASSUME NEW i \in 0..(L - 1) PROVE Count(r, i) + (IF i < 0 THEN Count(q, i) ELSE 0) = Count(r, i)
      BY <1>1, <1>6
    <3> QED BY <3>1 DEF Mixed, Spread, L
  <2>3. r.total + PartBelow(q, 0) = r.total /\ PartBelow(q, 0) - PartBelow(q, 0) = 0 BY <1>1, <1>5
  <2>4. f[0] = State(0) BY <1>2, <2>1, <2>2, <2>3
  <2> QED BY <2>4
<1>8. ASSUME NEW b \in S PROVE b + 1 \in S
  <2> SUFFICES ASSUME b + 1 <= K PROVE f[b + 1] = State(b + 1) OBVIOUS
  <2>1. b \in Nat /\ b \in 0..(K - 1) /\ b <= K /\ b \in 0..K /\ b + 1 \in 0..K BY <1>1
  <2>2. f[b] = State(b) BY <2>1
  <2> HIDE DEF S
  <2> DEFINE C == Mixed(r, q, b)
  <2> DEFINE c == Count(q, b)
  <2>3. f[b + 1] = Store!Offered(State(b), b, c) BY <1>2, <1>3, <1>4, <2>1, <2>2
  <2>4. /\ PartBelow(q, b + 1) = PartBelow(q, b) + c /\ PartBelow(q, b) \in Nat /\ PartBelow(q, b) <= Sum(q)
        /\ PartBelow(q, b + 1) <= Sum(q) /\ PartBelow(q, b + 1) \in Nat /\ c \in Nat
    BY <1>5, <1>6, <2>1
  <2>5. DOMAIN C = 0..(L - 1) BY DEF Mixed, L
  <2>6. CASE b < L
    <3>1. Smaller(b, L) = b /\ Smaller(b + 1, L) = b + 1 /\ b \in DOMAIN C BY <1>1, <2>1, <2>5, <2>6 DEF Smaller
    <3> DEFINE t == r.total + PartBelow(q, b)
    <3>2. State(b) = Entry(C, t, PartBelow(q, b) - PartBelow(q, b)) BY <3>1
    <3>3. t \in Int /\ c <= MaxCount - t /\ c \in Int BY <1>1, <1>5, <2>4
    <3> HIDE DEF t, c
    <3>4. f[b + 1] = Entry([C EXCEPT ![b] = C[b] + c], t + c, PartBelow(q, b) - PartBelow(q, b))
      <4> HIDE DEF C
      <4>1. Store!Offered(Entry(C, t, PartBelow(q, b) - PartBelow(q, b)), b, c)
              = Entry([C EXCEPT ![b] = C[b] + c], t + c, PartBelow(q, b) - PartBelow(q, b))
        BY <3>1, <3>3, OfferedAdmitted
      <4> HIDE DEF State
      <4> QED BY <2>3, <3>2, <4>1
    <3>5. t + c = r.total + PartBelow(q, b + 1) BY <1>1, <2>4 DEF t
    <3>6. PartBelow(q, b) - PartBelow(q, b) = PartBelow(q, b + 1) - PartBelow(q, b + 1) BY <2>4
    <3>7. [C EXCEPT ![b] = C[b] + c] = Mixed(r, q, b + 1)
      <4>1. ASSUME NEW i \in 0..(L - 1)
            PROVE  [C EXCEPT ![b] = C[b] + c][i] = Count(r, i) + (IF i < b + 1 THEN Count(q, i) ELSE 0)
        <5>1. C[i] = Count(r, i) + (IF i < b THEN Count(q, i) ELSE 0) BY DEF Mixed, L
        <5>2. CASE i = b
          <6>1. [C EXCEPT ![b] = C[b] + c][i] = C[i] + c BY <2>5, <5>2
          <6>2. C[i] = Count(r, i) BY <1>6, <2>1, <5>1, <5>2
          <6> QED BY <1>6, <2>1, <5>2, <6>1, <6>2 DEF c
        <5>3. CASE i # b
          <6>1. [C EXCEPT ![b] = C[b] + c][i] = C[i] BY <2>5, <5>3
          <6>2. i < b + 1 <=> i < b BY <1>1, <2>1, <5>3
          <6> QED BY <5>1, <6>1, <6>2
        <5> QED BY <5>2, <5>3
      <4> DEFINE X == [C EXCEPT ![b] = C[b] + c]
      <4>2. X = [i \in 0..(L - 1) |-> X[i]] BY <2>5
      <4> HIDE DEF X
      <4>3. \A i \in 0..(L - 1) : X[i] = Count(r, i) + (IF i < b + 1 THEN Count(q, i) ELSE 0) BY <4>1 DEF X
      <4>4. X = Mixed(r, q, b + 1) BY <4>2, <4>3 DEF Mixed, L
      <4> QED BY <4>4 DEF X
    <3> QED BY <3>1, <3>4, <3>5, <3>6, <3>7
  <2>7. CASE ~(b < L)
    <3>1. Smaller(b, L) = L /\ Smaller(b + 1, L) = L /\ b \notin DOMAIN C /\ L \in 0..K
      BY <1>1, <2>1, <2>5, <2>7 DEF Smaller
    <3> DEFINE t == r.total + PartBelow(q, L)
    <3> DEFINE d == PartBelow(q, b) - PartBelow(q, L)
    <3>2. State(b) = Entry(C, t, d) BY <3>1
    <3>3. PartBelow(q, L) \in Nat BY <1>5, <3>1
    <3>4. t \in Int /\ d \in Int /\ d + c = PartBelow(q, b + 1) - PartBelow(q, L) /\ c \in Int /\ d + c <= MaxCount
      BY <1>1, <1>5, <2>4, <3>3
    <3>5. Smaller(MaxCount, d + c) = d + c BY <1>1, <3>4 DEF Smaller
    <3> HIDE DEF t, d, c
    <3>6. f[b + 1] = Entry(C, t, d + c)
      <4> HIDE DEF C
      <4>1. Store!Offered(Entry(C, t, d), b, c) = Entry(C, t, Smaller(MaxCount, d + c))
        BY <3>1, <3>4, OfferedDropped
      <4> HIDE DEF State
      <4> QED BY <2>3, <3>2, <3>5, <4>1
    <3>7. C = Mixed(r, q, b + 1)
      <4>1. ASSUME NEW i \in 0..(L - 1) PROVE i < b <=> i < b + 1 BY <1>1, <2>1, <2>7
      <4> QED BY <4>1 DEF Mixed, L
    <3> QED BY <3>1, <3>4, <3>6, <3>7 DEF t
  <2> QED BY <2>6, <2>7
<1>9. S = Nat
  <2>1. S \in SUBSET Nat OBVIOUS
  <2> HIDE DEF S
  <2> QED BY <1>7, <1>8, <2>1, SetInduction
<1>10. f[K] = State(K) BY <1>1, <1>9
<1> QED BY <1>5, <1>10 DEF K, L

\* The fast merge gives what re-recording gives.
LEMMA MergedFastFacts ==
  ASSUME NEW r, Good(r), NEW q, Good(q), q.size > 0, ~Rerecords(r, q, FALSE),
         NEW f, Rerecording(f, r.geom, Spread(r), r.total, q.geom, Spread(q))
  PROVE  Merging(MergedFast(r, q), r.geom) /\ View(MergedFast(r, q)) = f[q.geom.countsLen]
<1> DEFINE L == r.geom.countsLen
<1> DEFINE K == q.geom.countsLen
<1> DEFINE m == Smaller(K, L)
<1> DEFINE n == Trimmed(r, q).n
<1> DEFINE drop == Trimmed(r, q).dropped
<1> DEFINE top == Pass1(r, q, n).largest
<1> DEFINE w == WidenToFit(r, top)
<1> DEFINE M == r.size + Pass1(r, q, n).added
<1> DEFINE t == Pass2(Grown(w, M), q, n, M)
<1> DEFINE z == [t EXCEPT !.size = M, !.total = Wrap64(@ + Wrap64(q.total - drop))]
<1>1. /\ Stored(r) /\ Stored(q) /\ L \in Nat /\ K \in Nat /\ MaxCount \in Nat
      /\ r.total \in 0..MaxCount /\ q.total \in 0..MaxCount
      /\ Sum(r) \in Nat /\ Sum(q) \in Nat /\ r.size \in Nat /\ q.size \in Nat
  <2>1. Stored(r) /\ Stored(q) /\ r.total \in 0..MaxCount /\ q.total \in 0..MaxCount BY DEF Good
  <2>2. L \in Nat /\ K \in Nat /\ r.size \in Nat /\ q.size \in Nat BY <2>1, GeometriesBuilt DEF Stored
  <2>3. Sum(r) \in Nat /\ Sum(q) \in Nat BY <2>1, SpreadSum
  <2> QED BY <2>1, <2>2, <2>3, MaxCountAssumption
<1>2. SameIndexing(r.geom, q.geom) /\ q.total # MaxCount /\ q.total <= MaxCount - r.total
  <2>1. Wrap64(MaxCount - r.total) = MaxCount - r.total BY RoomFacts
  <2>2. SameIndexing(r.geom, q.geom) /\ q.total # MaxCount /\ ~(q.total > Wrap64(MaxCount - r.total)) BY DEF Rerecords
  <2> QED BY <1>1, <2>1, <2>2
<1>3. q.total = Sum(q) BY <1>1, <1>2 DEF Good, Smaller
<1>4. Sum(q) >= 1
  <2>1. 0 \in 0..(q.size - 1) BY <1>1
  <2>2. q.cnt[0] <= Sum(q) BY <1>1, <2>1, PartialSums
  <2>3. q.cnt[0] \in 1..MaxCount BY <1>1, <2>1, BucketFacts
  <2> QED BY <1>1, <2>2, <2>3
<1>5. r.total = Sum(r) /\ Sum(r) + Sum(q) <= MaxCount
  <2>1. r.total # MaxCount BY <1>1, <1>2, <1>3, <1>4
  <2>2. r.total = Sum(r) BY <1>1, <2>1 DEF Good, Smaller
  <2> QED BY <1>1, <1>2, <1>3, <2>2
<1>6. Sum(q) <= MaxCount BY <1>1, <1>5
<1>7. n \in 0..q.size /\ Border(q, n, L) /\ drop = Sum(q) - PrefixSum(q.cnt)[n] BY <1>1, <1>6, TrimmedFacts
<1>8. m \in 0..K /\ Border(q, n, m)
  <2>1. m \in 0..K /\ (m = L \/ (m = K /\ K <= L)) BY <1>1 DEF Smaller
  <2>2. CASE m = L BY <1>7, <2>1, <2>2
  <2>3. CASE m = K /\ K <= L
    <3>1. ASSUME NEW l \in 0..(q.size - 1) PROVE q.idx[l] \in 0..(K - 1) /\ q.idx[l] \in Nat BY <1>1, BucketFacts
    <3>2. \A l \in 0..(n - 1) : q.idx[l] < K
      <4> SUFFICES ASSUME NEW l \in 0..(n - 1) PROVE q.idx[l] < K OBVIOUS
      <4>1. l \in 0..(q.size - 1) BY <1>1, <1>7
      <4> QED BY <1>1, <3>1, <4>1
    <3>3. \A l \in n..(q.size - 1) : q.idx[l] >= K
      <4> SUFFICES ASSUME NEW l \in n..(q.size - 1) PROVE q.idx[l] >= K OBVIOUS
      <4>1. l \in 0..(q.size - 1) BY <1>1, <1>7
      <4>2. q.idx[l] >= L BY <1>7 DEF Border
      <4> QED BY <1>1, <2>3, <3>1, <4>1, <4>2
    <3> QED BY <2>1, <2>3, <3>2, <3>3 DEF Border
  <2> QED BY <2>1, <2>2, <2>3
<1>9. PartBelow(q, m) = PrefixSum(q.cnt)[n] /\ PartBelow(q, m) \in Nat /\ PartBelow(q, m) <= Sum(q)
  <2>1. PrefixSum(Spread(q))[m] = PrefixSum(q.cnt)[n] BY <1>1, <1>7, <1>8, SpreadSums
  <2>2. PartBelow(q, m) \in Nat /\ PartBelow(q, m) <= Sum(q) BY <1>1, <1>8, BelowFacts
  <2> QED BY <2>1, <2>2 DEF PartBelow
<1>10. /\ Pass1(r, q, n).added = PrefixSum(Fresh(r, q))[n] /\ top \in 0..MaxCount
       /\ \A l \in 0..(n - 1) : Count(r, q.idx[l]) + q.cnt[l] <= top
  BY <1>1, <1>5, <1>7, Pass1Facts
<1> HIDE DEF n, drop, top, m
<1>11. /\ Stored(w) /\ Kept(r, w) /\ w.size = r.size /\ w.idx = r.idx /\ w.cnt = r.cnt /\ top <= Limit[w.width]
  BY <1>1, <1>10, WidenFacts
<1> HIDE DEF w
<1>12. w.geom = r.geom /\ \A i : Count(w, i) = Count(r, i) BY <1>11 DEF Kept, Count
<1>13. Fresh(w, q) = Fresh(r, q) BY <1>12 DEF Fresh
<1>14. M = w.size + PrefixSum(Fresh(w, q))[n] BY <1>10, <1>11, <1>13
<1>15. ASSUME NEW l \in 0..(n - 1) PROVE Count(w, q.idx[l]) + q.cnt[l] <= Limit[w.width]
  <2>1. l \in 0..(q.size - 1) BY <1>1, <1>7
  <2>2. Count(r, q.idx[l]) \in Nat /\ q.cnt[l] \in Nat BY <1>1, <2>1, CountType, BucketFacts
  <2>3. Limit[w.width] \in Nat BY <1>11, LimitFacts DEF Stored
  <2>4. Count(r, q.idx[l]) + q.cnt[l] <= top BY <1>10
  <2> QED BY <1>1, <1>10, <1>11, <1>12, <2>2, <2>3, <2>4
<1>16. PICK x : Filling(w, q, n, x) /\ x.j = -1 /\ t = x.hist
  <2>1. Border(q, n, w.geom.countsLen) BY <1>7, <1>12
  <2> QED BY <1>1, <1>7, <1>11, <1>14, <1>15, <2>1, Pass2Facts
<1>17. DOMAIN t = Fields /\ Kept(w, t) /\ t.width = w.width BY <1>16 DEF Filling
<1> HIDE DEF M, t
<1>18. /\ DOMAIN z = Fields /\ z.geom = r.geom /\ z.width = w.width /\ z.size = M
       /\ z.idx = t.idx /\ z.cnt = t.cnt /\ z.lastIndex = r.lastIndex /\ z.lastPos = r.lastPos
       /\ z.total = Wrap64(r.total + Wrap64(q.total - drop))
  <2>1. t.geom = r.geom /\ t.total = r.total /\ t.lastIndex = r.lastIndex /\ t.lastPos = r.lastPos
    BY <1>11, <1>17 DEF Kept
  <2> DEFINE y == [t EXCEPT !.size = M]
  <2>2. z = [y EXCEPT !.total = Wrap64(@ + Wrap64(q.total - drop))] OBVIOUS
  <2>3. /\ DOMAIN y = Fields /\ y.geom = r.geom /\ y.width = w.width /\ y.size = M /\ y.total = r.total
        /\ y.idx = t.idx /\ y.cnt = t.cnt /\ y.lastIndex = r.lastIndex /\ y.lastPos = r.lastPos
    BY <1>17, <2>1 DEF Fields
  <2> HIDE DEF y, z
  <2> QED BY <2>2, <2>3 DEF Fields
<1>19. MergedFast(r, q) = [hist |-> z, dropped |-> drop] BY DEF MergedFast, n, drop, top, w, M, t
<1> HIDE DEF z
<1>20. Stored(z) /\ \A v \in 0..(L - 1) : Count(z, v) = Count(r, v) + Count(q, v)
  <2>1. z.lastIndex \in Nat /\ z.lastPos \in Nat BY <1>1, <1>18 DEF Stored
  <2>2. Border(q, n, w.geom.countsLen) BY <1>7, <1>12
  <2>3. z.geom = w.geom /\ z.size = w.size + PrefixSum(Fresh(w, q))[n] /\ z.idx = x.hist.idx /\ z.cnt = x.hist.cnt
    BY <1>12, <1>14, <1>16, <1>18
  <2>4. Stored(z) /\ \A v \in 0..(w.geom.countsLen - 1) : Count(z, v) = Count(w, v) + Count(q, v)
    BY <1>1, <1>7, <1>11, <1>16, <1>18, <2>1, <2>2, <2>3, FilledFacts
  <2> QED BY <1>12, <2>4
<1>21. Sum(z) = r.total + PartBelow(q, m)
  <2>1. Sum(z) = Sum(r) + PartBelow(q, Smaller(K, L)) BY <1>1, <1>18, <1>20, MixedSum
  <2> QED BY <1>5, <2>1 DEF m
<1>22. z.total = r.total + PartBelow(q, m) /\ z.total \in 0..MaxCount /\ drop \in 0..MaxCount
  <2>1. q.total - drop = PartBelow(q, m) /\ drop \in 0..MaxCount BY <1>1, <1>3, <1>6, <1>7, <1>9
  <2>2. PartBelow(q, m) \in Int64 /\ r.total + PartBelow(q, m) \in Int64 /\ r.total + PartBelow(q, m) \in 0..MaxCount
    BY <1>1, <1>5, <1>9, Int64Facts
  <2>3. Wrap64(PartBelow(q, m)) = PartBelow(q, m) /\ Wrap64(r.total + PartBelow(q, m)) = r.total + PartBelow(q, m) BY <2>2, Wrap64Id
  <2> QED BY <1>18, <2>1, <2>2, <2>3
<1>23. Good(z)
  <2>1. Smaller(MaxCount, Sum(z)) = z.total BY <1>1, <1>21, <1>22 DEF Smaller
  <2> QED BY <1>20, <1>22, <2>1 DEF Good
<1> DEFINE a == MergedFast(r, q)
<1>24. DOMAIN a = {"hist", "dropped"} /\ a.hist = z /\ a.dropped = drop BY <1>19
<1> HIDE DEF a
<1>25. Merging(a, r.geom) BY <1>18, <1>22, <1>23, <1>24 DEF Merging
<1>26. Spread(z) = Mixed(r, q, K)
  <2>1. ASSUME NEW v \in 0..(L - 1) PROVE Count(z, v) = Count(r, v) + (IF v < K THEN Count(q, v) ELSE 0)
    <3>1. Count(z, v) = Count(r, v) + Count(q, v) BY <1>20
    <3>2. v >= K => Count(q, v) = 0 BY <1>1, BelowFacts
    <3> QED BY <1>1, <3>1, <3>2
  <2> QED BY <1>18, <2>1 DEF Spread, Mixed
<1>27. f[K] = Entry(Mixed(r, q, K), r.total + PartBelow(q, m), Sum(q) - PartBelow(q, m))
  BY <1>1, <1>2, <1>5, RerecordingFits DEF m
<1>28. View(a) = f[K] BY <1>7, <1>9, <1>22, <1>24, <1>26, <1>27 DEF View
<1> QED BY <1>25, <1>28 DEF a

\* A histogram without buckets has nothing to offer.
LEMMA NothingRerecorded ==
  ASSUME NEW r, Good(r), NEW q, Good(q), q.size = 0,
         NEW f, Rerecording(f, r.geom, Spread(r), r.total, q.geom, Spread(q))
  PROVE  f[q.geom.countsLen] = Entry(Spread(r), r.total, 0)
<1> DEFINE K == q.geom.countsLen
<1> DEFINE a == [hist |-> r, dropped |-> 0]
<1>1. K \in Nat /\ Stored(q) BY GeometriesBuilt DEF Good, Stored
<1>2. Merging(a, r.geom) /\ View(a) = Entry(Spread(r), r.total, 0) BY MergeStarts
<1>3. \A b \in 0..(K - 1) : Spread(q)[b] = 0
  <2> SUFFICES ASSUME NEW b \in 0..(K - 1) PROVE Spread(q)[b] = 0 OBVIOUS
  <2>1. Spread(q)[b] = Count(q, b) BY <1>1, SpreadSum
  <2>2. \A k \in 0..(q.size - 1) : q.idx[k] # b OBVIOUS
  <2> QED BY <1>1, <2>1, <2>2, CountFacts
<1>4. /\ f[0] = View(a)
      /\ \A b \in 0..(K - 1) : \E ci : f[b + 1] = Store!Offered(f[b], ci, Spread(q)[b])
  BY <1>2 DEF Rerecording
<1> HIDE DEF K, a
<1> DEFINE S == {b \in Nat : b <= K => f[b] = View(a)}
<1>5. 0 \in S BY <1>4
<1>6. ASSUME NEW b \in S PROVE b + 1 \in S
  <2> SUFFICES ASSUME b + 1 <= K PROVE f[b + 1] = View(a) OBVIOUS
  <2>1. b \in 0..(K - 1) /\ b <= K BY <1>1
  <2>2. f[b] = View(a) BY <2>1
  <2>3. PICK ci : f[b + 1] = Store!Offered(f[b], ci, Spread(q)[b]) BY <1>4, <2>1
  <2> HIDE DEF S
  <2>4. Store!Offered(View(a), ci, Spread(q)[b]) = View(a) BY <1>2, <1>3, <2>1, NothingTaken
  <2> QED BY <2>2, <2>3, <2>4
<1>7. S = Nat
  <2>1. S \in SUBSET Nat OBVIOUS
  <2> HIDE DEF S
  <2> QED BY <1>5, <1>6, <2>1, SetInduction
<1>8. f[K] = View(a) BY <1>1, <1>7
<1> QED BY <1>2, <1>8 DEF K

\* Merge, by whichever path, gives what re-recording gives.
LEMMA MergedFacts ==
  ASSUME NEW p, NEW from, Good(packed[p]), Good(packed[from]),
         NEW f, Rerecording(f, packed[p].geom, Spread(packed[p]), packed[p].total,
                            packed[from].geom, Spread(packed[from]))
  PROVE  /\ Merging(Merged(p, from), packed[p].geom)
         /\ View(Merged(p, from)) = f[packed[from].geom.countsLen]
<1> DEFINE r == packed[p]
<1> DEFINE q == packed[from]
<1> DEFINE self == p = from
<1>1. self \in BOOLEAN /\ (self => q = r) OBVIOUS
<1>2. Merged(p, from) = IF q.size = 0 THEN [hist |-> r, dropped |-> 0]
                        ELSE IF Rerecords(r, q, self) THEN MergedSlowly(r, q, self) ELSE MergedFast(r, q)
  BY DEF Merged
<1>3. Good(r) /\ Good(q) /\ q.size \in Nat BY DEF Good, Stored
<1>4. Rerecording(f, r.geom, Spread(r), r.total, q.geom, Spread(q)) OBVIOUS
<1>5. ~Rerecords(r, q, self) => ~Rerecords(r, q, FALSE) BY DEF Rerecords
<1> HIDE DEF r, q, self
<1>6. CASE q.size = 0
  <2>1. f[q.geom.countsLen] = Entry(Spread(r), r.total, 0) BY <1>3, <1>4, <1>6, NothingRerecorded
  <2>2. Merged(p, from) = [hist |-> r, dropped |-> 0] BY <1>2, <1>6
  <2> QED BY <1>3, <2>1, <2>2, MergeStarts DEF r, q
<1>7. CASE q.size # 0 /\ Rerecords(r, q, self)
  <2>1. Merged(p, from) = MergedSlowly(r, q, self) BY <1>2, <1>7
  <2>2. Merging(MergedSlowly(r, q, self), r.geom) /\ View(MergedSlowly(r, q, self)) = f[q.geom.countsLen]
    BY <1>1, <1>3, <1>4, MergedSlowlyFacts
  <2> QED BY <2>1, <2>2 DEF r, q
<1>8. CASE q.size # 0 /\ ~Rerecords(r, q, self)
  <2>1. Merged(p, from) = MergedFast(r, q) /\ q.size > 0 BY <1>2, <1>3, <1>8
  <2>2. Merging(MergedFast(r, q), r.geom) /\ View(MergedFast(r, q)) = f[q.geom.countsLen]
    BY <1>3, <1>4, <1>5, <1>8, <2>1, MergedFastFacts
  <2> QED BY <2>1, <2>2 DEF r, q
<1> QED BY <1>6, <1>7, <1>8

-----------------------------------------------------------------------------
(* Whole-histogram operations.                                              *)

\* A histogram without buckets counts nothing.
LEMMA EmptyFacts ==
  ASSUME NEW r, r.geom \in Geometries, DOMAIN r = Fields, r.idx = Empty, r.cnt = Empty, r.size = 0,
         r.total = 0, r.width \in 1..Top, r.lastIndex \in Nat, r.lastPos \in Nat
  PROVE  Good(r) /\ Sum(r) = 0 /\ \A i : Count(r, i) = 0
<1>1. 0..(0 - 1) = {} OBVIOUS
<1>2. Empty \in [{} -> 0..(r.geom.countsLen - 1)] /\ Empty \in [{} -> 1..Limit[r.width]] BY DEF Empty
<1>3. /\ r.idx \in [0..(r.size - 1) -> 0..(r.geom.countsLen - 1)]
      /\ r.cnt \in [0..(r.size - 1) -> 1..Limit[r.width]]
  BY <1>1, <1>2
<1>4. Ascending(r.idx, r.size) BY <1>1 DEF Ascending
<1>5. Stored(r) BY <1>3, <1>4 DEF Stored
<1>6. Sum(r) = 0 BY PrefixSumZero DEF Sum
<1>7. ASSUME NEW i PROVE Count(r, i) = 0
  <2>1. \A k \in 0..(r.size - 1) : r.idx[k] # i BY <1>1
  <2> QED BY <1>5, <2>1, CountFacts
<1> QED BY <1>5, <1>6, <1>7, MaxCountAssumption DEF Good, Smaller

\* NewPacked.
LEMMA NewFacts ==
  ASSUME NEW g \in Geometries
  PROVE  Good(NewPacked(g)) /\ NewPacked(g).geom = g /\ \A i : Count(NewPacked(g), i) = 0
<1> DEFINE r == NewPacked(g)
<1>1. /\ DOMAIN r = Fields /\ r.geom = g /\ r.size = 0 /\ r.width = 1 /\ r.total = 0
      /\ r.idx = Empty /\ r.cnt = Empty /\ r.lastIndex = 0 /\ r.lastPos = 0
  BY DEF NewPacked, Fields
<1> HIDE DEF r
<1>2. 1 \in 1..Top BY LimitFacts
<1>3. Good(r) /\ \A i : Count(r, i) = 0 BY <1>1, <1>2, EmptyFacts
<1> QED BY <1>1, <1>3 DEF r

\* Reset keeps the geometry and forgets the counts.
LEMMA ResetFacts ==
  ASSUME NEW r, Good(r)
  PROVE  LET s == [r EXCEPT !.idx = Empty, !.cnt = Empty, !.size = 0, !.total = 0] IN
         Good(s) /\ s.geom = r.geom /\ s.total = 0 /\ \A i : Count(s, i) = 0
<1> DEFINE s1 == [r EXCEPT !.idx = Empty]
<1> DEFINE s2 == [s1 EXCEPT !.cnt = Empty]
<1> DEFINE s3 == [s2 EXCEPT !.size = 0]
<1> DEFINE s == [s3 EXCEPT !.total = 0]
<1>1. DOMAIN r = Fields /\ r.geom \in Geometries /\ r.width \in 1..Top /\ r.lastIndex \in Nat /\ r.lastPos \in Nat
  BY DEF Good, Stored
<1>2. [r EXCEPT !.idx = Empty, !.cnt = Empty, !.size = 0, !.total = 0] = s OBVIOUS
<1>3. /\ DOMAIN s1 = Fields /\ s1.geom = r.geom /\ s1.width = r.width /\ s1.idx = Empty
      /\ s1.lastIndex = r.lastIndex /\ s1.lastPos = r.lastPos
  BY <1>1 DEF Fields
<1> HIDE DEF s1
<1>4. /\ DOMAIN s2 = Fields /\ s2.geom = r.geom /\ s2.width = r.width /\ s2.idx = Empty /\ s2.cnt = Empty
      /\ s2.lastIndex = r.lastIndex /\ s2.lastPos = r.lastPos
  BY <1>3 DEF Fields
<1> HIDE DEF s2
<1>5. /\ DOMAIN s3 = Fields /\ s3.geom = r.geom /\ s3.width = r.width /\ s3.idx = Empty /\ s3.cnt = Empty
      /\ s3.size = 0 /\ s3.lastIndex = r.lastIndex /\ s3.lastPos = r.lastPos
  BY <1>4 DEF Fields
<1> HIDE DEF s3
<1>6. /\ DOMAIN s = Fields /\ s.geom = r.geom /\ s.width = r.width /\ s.idx = Empty /\ s.cnt = Empty
      /\ s.size = 0 /\ s.total = 0 /\ s.lastIndex = r.lastIndex /\ s.lastPos = r.lastPos
  BY <1>5 DEF Fields
<1> HIDE DEF s
<1>7. Good(s) /\ \A i : Count(s, i) = 0 BY <1>1, <1>6, EmptyFacts
<1> QED BY <1>2, <1>6, <1>7

\* NewDense and ResetDense.
LEMMA NewDenseFacts ==
  ASSUME NEW g \in Geometries
  PROVE  /\ Plain(NewDense(g)) /\ NewDense(g).geom = g /\ NewDense(g).total = 0
         /\ NewDense(g).counts = [i \in 0..(g.countsLen - 1) |-> 0]
<1> DEFINE c == [i \in 0..(g.countsLen - 1) |-> 0]
<1> DEFINE x == NewDense(g)
<1>1. DOMAIN x = {"geom", "counts", "total"} /\ x.geom = g /\ x.counts = c /\ x.total = 0 BY DEF NewDense
<1>2. g.countsLen \in Nat /\ g.countsLen \in 0..g.countsLen BY GeometriesBuilt
<1>3. \A i \in 0..(g.countsLen - 1) : c[i] = 0 OBVIOUS
<1>4. c \in [0..(g.countsLen - 1) -> 0..MaxCount] /\ 0 \in 0..MaxCount BY MaxCountAssumption
<1> HIDE DEF c, x
<1>5. PrefixSum(c)[g.countsLen] = 0 BY <1>2, <1>3, PrefixSumOfZeros
<1>6. Plain(x) BY <1>1, <1>4, <1>5 DEF Plain
<1> QED BY <1>1, <1>6 DEF x, c

\* Compact finds a width that holds every count.
LEMMA CompactWidth ==
  ASSUME NEW r, Stored(r)
  PROVE  LET w == CHOOSE k \in 1..Top : /\ \A i \in 0..(r.size - 1) : r.cnt[i] <= Limit[k]
                                        /\ \A j \in 1..(k - 1) : \E i \in 0..(r.size - 1) : r.cnt[i] > Limit[j]
         IN  w \in 1..Top /\ \A i \in 0..(r.size - 1) : r.cnt[i] <= Limit[w]
<1> DEFINE Ok(k) == \A i \in 0..(r.size - 1) : r.cnt[i] <= Limit[k]
<1> DEFINE T == {k \in Nat : k \in 1..Top /\ Ok(k)}
<1>1. Top \in Nat /\ r.width \in 1..Top BY LimitFacts DEF Stored
<1>2. r.width \in T
  <2>1. Ok(r.width) BY BucketFacts
  <2> HIDE DEF Ok
  <2> QED BY <1>1, <2>1
<1>3. PICK m \in T : \A k \in T : m <= k
  <2>1. T \in SUBSET Nat OBVIOUS
  <2> HIDE DEF T
  <2> QED BY <1>2, <2>1, LeastElement
<1>4. ASSUME NEW j \in 1..(m - 1) PROVE \E i \in 0..(r.size - 1) : r.cnt[i] > Limit[j]
  <2>1. m \in 1..Top /\ j \in 1..Top /\ j \in Nat /\ j < m BY <1>1
  <2>2. j \notin T BY <1>1, <1>3, <2>1
  <2>3. ~Ok(j) BY <2>1, <2>2
  <2>4. PICK i \in 0..(r.size - 1) : ~(r.cnt[i] <= Limit[j]) BY <2>3
  <2>5. r.cnt[i] \in Nat /\ Limit[j] \in Nat BY <2>1, BucketFacts, LimitFacts
  <2> QED BY <2>4, <2>5
<1>5. m \in 1..Top /\ Ok(m) OBVIOUS
<1> QED BY <1>4, <1>5

\* Compact changes nothing but the width.
LEMMA CompactFacts ==
  ASSUME NEW r, Good(r), NEW w \in 1..Top, \A i \in 0..(r.size - 1) : r.cnt[i] <= Limit[w]
  PROVE  LET s == Repacked(r, w) IN
         Good(s) /\ s.geom = r.geom /\ s.total = r.total /\ \A i : Count(s, i) = Count(r, i)
<1> DEFINE s == Repacked(r, w)
<1>1. Stored(r) /\ r.total \in 0..MaxCount /\ r.total = Smaller(MaxCount, Sum(r)) BY DEF Good
<1>2. Stored(s) /\ Kept(r, s) /\ s.size = r.size /\ s.idx = r.idx /\ s.cnt = r.cnt BY <1>1, RepackedFacts
<1> HIDE DEF s
<1>3. Sum(s) = Sum(r) /\ \A i : Count(s, i) = Count(r, i) BY <1>2 DEF Sum, Count
<1>4. s.geom = r.geom /\ s.total = r.total BY <1>2 DEF Kept
<1> QED BY <1>1, <1>2, <1>3, <1>4 DEF Good, s

-----------------------------------------------------------------------------
(* Decoding.                                                                *)

\* Decoding a payload is a loop.
LEMMA FilledLoop ==
  ASSUME NEW geo, NEW payload, Len(payload) \in Nat
  PROVE  \E g : /\ g[0] = [hist |-> NewPacked(geo), dst |-> 0, total |-> 0, err |-> FALSE]
                /\ \A k \in 0..(Len(payload) - 1) : g[k + 1] = FillStep(g[k], geo, payload[(k + 1)])
                /\ Filled(geo, payload) = g[Len(payload)]
<1> DEFINE N == Len(payload)
<1> DEFINE start == [hist |-> NewPacked(geo), dst |-> 0, total |-> 0, err |-> FALSE]
<1> DEFINE Eq(p, n) == p = [k \in 0..n |-> IF k = 0 THEN start ELSE FillStep(p[k - 1], geo, payload[k])]
<1> DEFINE T == {n \in Nat : \E p : Eq(p, n)}
<1>1. 0 \in T
  <2>1. Eq([k \in 0..0 |-> start], 0) OBVIOUS
  <2> QED BY <2>1
<1>2. ASSUME NEW n \in T PROVE n + 1 \in T
  <2>1. PICK p : Eq(p, n) OBVIOUS
  <2> DEFINE h == [k \in 0..(n + 1) |-> IF k = n + 1 THEN FillStep(p[n], geo, payload[(n + 1)]) ELSE p[k]]
  <2>2. ASSUME NEW k \in 0..(n + 1)
        PROVE  h[k] = IF k = 0 THEN start ELSE FillStep(h[k - 1], geo, payload[k])
    <3> HIDE DEF start
    <3>1. CASE k = n + 1
      <4>1. k - 1 = n /\ k # 0 /\ h[k - 1] = p[n] BY <3>1
      <4>2. h[k] = FillStep(p[n], geo, payload[(n + 1)]) BY <3>1
      <4> HIDE DEF h
      <4> QED BY <3>1, <4>1, <4>2
    <3>2. CASE k # n + 1
      <4>1. k \in 0..n /\ h[k] = p[k] /\ (k # 0 => h[k - 1] = p[k - 1]) BY <3>2
      <4> HIDE DEF h
      <4>2. p[k] = IF k = 0 THEN start ELSE FillStep(p[k - 1], geo, payload[k]) BY <2>1, <4>1
      <4> QED BY <4>1, <4>2
    <3> QED BY <3>1, <3>2
  <2>3. Eq(h, n + 1)
    <3> DEFINE d == [k \in 0..(n + 1) |-> IF k = 0 THEN start ELSE FillStep(h[k - 1], geo, payload[k])]
    <3>1. \A k \in 0..(n + 1) : h[k] = d[k] BY <2>2
    <3>2. h = d BY <3>1
    <3> QED BY <3>2
  <2>4. \E q : Eq(q, n + 1)
    <3> HIDE DEF h, Eq
    <3> QED BY <2>3
  <2> HIDE DEF Eq
  <2> QED BY <2>4
<1>3. T = Nat
  <2>1. T \in SUBSET Nat OBVIOUS
  <2> HIDE DEF T
  <2> QED BY <1>1, <1>2, <2>1, SetInduction
<1>4. \E p : Eq(p, N)
  <2> HIDE DEF Eq
  <2> QED BY <1>3
<1> DEFINE after == CHOOSE p : Eq(p, N)
<1>5. Eq(after, N)
  <2> HIDE DEF Eq
  <2> QED BY <1>4
<1>6. Filled(geo, payload) = after[Len(payload)] BY DEF Filled
<1> HIDE DEF after
<1>7. after[0] = start BY <1>5
<1>8. ASSUME NEW k \in 0..(N - 1) PROVE after[k + 1] = FillStep(after[k], geo, payload[(k + 1)])
  <2>1. k + 1 \in 0..N /\ k + 1 # 0 /\ (k + 1) - 1 = k OBVIOUS
  <2> HIDE DEF start
  <2> QED BY <1>5, <2>1
<1> QED BY <1>6, <1>7, <1>8

\* Where token k of the payload stands.
Stands(t, k) == PrefixSum(Span(t))[k]

\* c is the count that the first k tokens of the payload give position i.
Tells(t, k, i, c) ==
  /\ \A j \in 0..(k - 1) : Stands(t, j) = i /\ t[j + 1] > 0 => c = t[j + 1]
  /\ (\A j \in 0..(k - 1) : ~(Stands(t, j) = i /\ t[j + 1] > 0)) => c = 0

\* Decoding after k tokens.
Decoding(a, g, t, k) ==
  /\ DOMAIN a = {"hist", "dst", "total", "err"}
  /\ Stored(a.hist) /\ a.hist.geom = g
  /\ a.dst \in 0..g.countsLen
  /\ \A i \in Int : i >= a.dst => Count(a.hist, i) = 0
  /\ a.total \in 0..MaxCount /\ a.total = Smaller(MaxCount, Sum(a.hist))
  /\ a.err = TRUE \/ a.err = FALSE
  /\ ~a.err => /\ a.dst = Stands(t, k)
               /\ \A j \in 0..(k - 1) : Stands(t, j) \in Nat /\ Stands(t, j) < a.dst
               /\ \A i \in 0..(g.countsLen - 1) : Tells(t, k, i, Count(a.hist, i))

\* Where the next token stands.
LEMMA StandsFacts ==
  ASSUME NEW t \in Seq(Int64), NEW k \in 0..(Len(t) - 1)
  PROVE  /\ Stands(t, 0) = 0
         /\ Stands(t, k + 1) = Stands(t, k) + (IF t[k + 1] < 0 THEN -t[k + 1] ELSE 1)
         /\ t[k + 1] \in Int64
<1>1. Len(t) \in Nat /\ k \in Nat /\ k + 1 \in 1..Len(t) OBVIOUS
<1>2. Span(t)[k] = (IF t[k + 1] < 0 THEN -t[k + 1] ELSE 1) BY DEF Span
<1>3. PrefixSum(Span(t))[k + 1] = PrefixSum(Span(t))[k] + Span(t)[k] BY <1>1, PrefixSumStep
<1> QED BY <1>1, <1>2, <1>3, PrefixSumZero DEF Stands

\* The length of a run of zeros, read as the code negates it.
LEMMA ZerosFacts ==
  ASSUME NEW t \in Int64, t < 0, Wrap64(-t) > 0
  PROVE  Wrap64(-t) = -t
<1>1. CASE t = -(MaxCount + 1)
  <2> DEFINE D == 2 * (MaxCount + 1)
  <2>1. D \in Nat \ {0} /\ -t + MaxCount + 1 = D * 1 + 0 /\ 0 \in 0..(D - 1) BY <1>1, MaxCountAssumption
  <2> HIDE DEF D
  <2>2. (D * 1 + 0) % D = 0 BY <2>1, ModOf
  <2>3. (-t + MaxCount + 1) % D = 0 BY <2>1, <2>2
  <2>4. Wrap64(-t) = 0 - (MaxCount + 1) BY <2>3 DEF Wrap64, D
  <2> QED BY <2>4, MaxCountAssumption
<1>2. CASE t # -(MaxCount + 1)
  <2>1. -t \in Int64 BY <1>2, MaxCountAssumption DEF Int64
  <2> QED BY <2>1, Wrap64Id
<1> QED BY <1>1, <1>2

\* A token that stores nothing moves on.
LEMMA DecodingMoves ==
  ASSUME NEW g \in Geometries, NEW t \in Seq(Int64), NEW k \in 0..(Len(t) - 1),
         NEW a, Decoding(a, g, t, k), ~a.err, t[k + 1] <= 0,
         NEW s \in Nat, s = (IF t[k + 1] < 0 THEN -t[k + 1] ELSE 1), a.dst + s <= g.countsLen,
         NEW b, DOMAIN b = {"hist", "dst", "total", "err"}, b.hist = a.hist, b.total = a.total,
         b.err = a.err, b.dst = a.dst + s
  PROVE  Decoding(b, g, t, k + 1)
<1>1. g.countsLen \in Nat /\ k \in Nat BY GeometriesBuilt
<1>2. t[k + 1] \in Int64 /\ t[k + 1] \in Int /\ Stands(t, k + 1) = Stands(t, k) + s BY StandsFacts, Int64Facts
<1>3. /\ Stored(a.hist) /\ a.hist.geom = g /\ a.dst \in 0..g.countsLen
      /\ \A i \in Int : i >= a.dst => Count(a.hist, i) = 0
      /\ a.total \in 0..MaxCount /\ a.total = Smaller(MaxCount, Sum(a.hist))
      /\ a.err = TRUE \/ a.err = FALSE
      /\ a.dst = Stands(t, k)
      /\ \A j \in 0..(k - 1) : Stands(t, j) \in Nat /\ Stands(t, j) < a.dst
      /\ \A i \in 0..(g.countsLen - 1) : Tells(t, k, i, Count(a.hist, i))
  BY DEF Decoding
<1>4. s >= 1 BY <1>2
<1>5. b.dst \in 0..g.countsLen /\ b.dst > a.dst /\ a.dst \in Nat /\ b.dst \in Nat BY <1>1, <1>3, <1>4
<1>6. ASSUME NEW i \in Int, i >= b.dst PROVE Count(b.hist, i) = 0
  <2>1. i >= a.dst BY <1>5, <1>6
  <2> QED BY <1>3, <2>1
<1>7. b.dst = Stands(t, k + 1) BY <1>2, <1>3
<1>8. \A j \in 0..k : j = k \/ j \in 0..(k - 1) BY <1>1
<1>9. (k + 1) - 1 = k BY <1>1
<1>10. \A j \in 0..k : Stands(t, j) \in Nat /\ Stands(t, j) < b.dst
  <2> SUFFICES ASSUME NEW j \in 0..k PROVE Stands(t, j) \in Nat /\ Stands(t, j) < b.dst OBVIOUS
  <2>1. CASE j = k BY <1>3, <1>5, <2>1
  <2>2. CASE j \in 0..(k - 1)
    <3>1. Stands(t, j) \in Nat /\ Stands(t, j) < a.dst BY <1>3, <2>2
    <3> QED BY <1>5, <3>1
  <2> QED BY <1>8, <2>1, <2>2
<1>11. \A i \in 0..(g.countsLen - 1) : Tells(t, k + 1, i, Count(b.hist, i))
  <2> SUFFICES ASSUME NEW i \in 0..(g.countsLen - 1) PROVE Tells(t, k + 1, i, Count(a.hist, i)) OBVIOUS
  <2>1. Tells(t, k, i, Count(a.hist, i)) BY <1>3
  <2>2. ~(t[k + 1] > 0) BY <1>2
  <2>3. k \in 0..k /\ \A j \in 0..(k - 1) : j \in 0..k BY <1>1
  <2> QED BY <1>8, <1>9, <2>1, <2>2, <2>3 DEF Tells
<1> QED BY <1>3, <1>5, <1>6, <1>7, <1>9, <1>10, <1>11 DEF Decoding

\* A token that stores a count opens the next bucket.
LEMMA DecodingStores ==
  ASSUME NEW g \in Geometries, NEW t \in Seq(Int64), NEW k \in 0..(Len(t) - 1),
         NEW a, Decoding(a, g, t, k), ~a.err, t[k + 1] > 0, a.dst < g.countsLen,
         NEW b, DOMAIN b = {"hist", "dst", "total", "err"}, b.hist = SparseAdd(a.hist, a.dst, t[k + 1]),
         b.total = AddDropped(a.total, t[k + 1]), b.err = a.err, b.dst = a.dst + 1
  PROVE  Decoding(b, g, t, k + 1)
<1> DEFINE c == t[k + 1]
<1>1. g.countsLen \in Nat /\ k \in Nat /\ MaxCount \in Nat BY GeometriesBuilt, MaxCountAssumption
<1>2. c \in Int64 /\ Stands(t, k + 1) = Stands(t, k) + (IF c < 0 THEN -c ELSE 1) BY StandsFacts
<1>3. /\ Stored(a.hist) /\ a.hist.geom = g /\ a.dst \in 0..g.countsLen
      /\ \A i \in Int : i >= a.dst => Count(a.hist, i) = 0
      /\ a.total \in 0..MaxCount /\ a.total = Smaller(MaxCount, Sum(a.hist))
      /\ a.err = TRUE \/ a.err = FALSE
      /\ a.dst = Stands(t, k)
      /\ \A j \in 0..(k - 1) : Stands(t, j) \in Nat /\ Stands(t, j) < a.dst
      /\ \A i \in 0..(g.countsLen - 1) : Tells(t, k, i, Count(a.hist, i))
  BY DEF Decoding
<1>4. c \in 1..MaxCount /\ c \in Nat /\ c \in 0..MaxCount /\ ~(c < 0) BY <1>1, <1>2 DEF Int64
<1>5. a.dst \in 0..(g.countsLen - 1) /\ a.dst \in Nat /\ b.dst \in Nat /\ b.dst \in 0..g.countsLen BY <1>1, <1>3
<1>6. Count(a.hist, a.dst) = 0 BY <1>3, <1>5
<1>7. Stored(b.hist) /\ Kept(a.hist, b.hist) /\ Adds(a.hist, b.hist, a.dst, c)
  <2>1. Count(a.hist, a.dst) + c <= MaxCount BY <1>4, <1>6
  <2> HIDE DEF c
  <2>2. b.hist = SparseAdd(a.hist, a.dst, c) BY DEF c
  <2> QED BY <1>3, <1>4, <1>5, <2>1, <2>2, SparseAddFacts
<1>8. b.hist.geom = g BY <1>3, <1>7 DEF Kept
<1>9. Sum(b.hist) = Sum(a.hist) + c /\ Sum(a.hist) \in Nat
  <2> HIDE DEF c
  <2>1. Sum(b.hist) = Sum(a.hist) + c BY <1>3, <1>4, <1>5, <1>7, <1>8, AddsSum
  <2> QED BY <1>3, <2>1, SpreadSum
<1>10. b.total \in 0..MaxCount /\ b.total = Smaller(MaxCount, Sum(b.hist))
  <2> HIDE DEF c
  <2>1. b.total = AddDropped(a.total, c) BY DEF c
  <2>2. b.total = Smaller(MaxCount, a.total + c) /\ b.total \in 0..MaxCount BY <1>3, <1>4, <2>1, AddDroppedFacts
  <2>3. a.total = Smaller(MaxCount, Sum(a.hist)) /\ a.total \in 0..MaxCount BY <1>3
  <2>4. Smaller(MaxCount, a.total + c) = Smaller(MaxCount, Sum(a.hist) + c)
    BY <1>1, <1>4, <1>9, <2>3 DEF Smaller
  <2> QED BY <1>9, <2>2, <2>4
<1> HIDE DEF c
<1>11. ASSUME NEW i \in Int PROVE Count(b.hist, i) = IF i = a.dst THEN c ELSE Count(a.hist, i)
  <2>1. Count(b.hist, i) = Count(a.hist, i) + (IF i = a.dst THEN c ELSE 0) BY <1>7 DEF Adds
  <2>2. Count(a.hist, i) \in Nat BY <1>3, CountType
  <2> QED BY <1>4, <1>6, <2>1, <2>2
<1>12. ASSUME NEW i \in Int, i >= b.dst PROVE Count(b.hist, i) = 0
  <2>1. i >= a.dst /\ i # a.dst BY <1>5, <1>12
  <2> QED BY <1>3, <1>11, <2>1
<1>13. b.dst = Stands(t, k + 1) BY <1>2, <1>3, <1>4
<1>14. \A j \in 0..k : j = k \/ j \in 0..(k - 1) BY <1>1
<1>15. (k + 1) - 1 = k BY <1>1
<1>16. \A j \in 0..k : Stands(t, j) \in Nat /\ Stands(t, j) < b.dst
  <2> SUFFICES ASSUME NEW j \in 0..k PROVE Stands(t, j) \in Nat /\ Stands(t, j) < b.dst OBVIOUS
  <2>1. CASE j = k BY <1>3, <1>5, <2>1
  <2>2. CASE j \in 0..(k - 1)
    <3>1. Stands(t, j) \in Nat /\ Stands(t, j) < a.dst BY <1>3, <2>2
    <3> QED BY <1>5, <3>1
  <2> QED BY <1>14, <2>1, <2>2
<1>17. \A i \in 0..(g.countsLen - 1) : Tells(t, k + 1, i, Count(b.hist, i))
  <2> SUFFICES ASSUME NEW i \in 0..(g.countsLen - 1) PROVE Tells(t, k + 1, i, Count(b.hist, i)) OBVIOUS
  <2>1. Tells(t, k, i, Count(a.hist, i)) BY <1>3
  <2>2. k \in 0..k /\ \A j \in 0..(k - 1) : j \in 0..k BY <1>1
  <2>3. CASE i = a.dst
    <3>1. Count(b.hist, i) = t[k + 1] BY <1>11, <2>3 DEF c
    <3>2. ASSUME NEW j \in 0..k, Stands(t, j) = i PROVE j = k
      <4>1. CASE j \in 0..(k - 1)
        <5>1. Stands(t, j) \in Nat /\ Stands(t, j) < a.dst BY <1>3, <4>1
        <5> QED BY <1>5, <2>3, <3>2, <5>1
      <4> QED BY <1>14, <4>1
    <3>3. Stands(t, k) = i /\ t[k + 1] > 0 BY <1>3, <2>3
    <3> QED BY <1>15, <2>2, <3>1, <3>2, <3>3 DEF Tells
  <2>4. CASE i # a.dst
    <3>1. Count(b.hist, i) = Count(a.hist, i) BY <1>11, <2>4
    <3>2. Stands(t, k) # i BY <1>3, <2>4
    <3> QED BY <1>14, <1>15, <2>1, <2>2, <3>1, <3>2 DEF Tells
  <2> QED BY <2>3, <2>4
<1> QED BY <1>3, <1>5, <1>7, <1>8, <1>10, <1>12, <1>13, <1>15, <1>16, <1>17 DEF Decoding

\* One token.
LEMMA FillStepFacts ==
  ASSUME NEW g \in Geometries, NEW t \in Seq(Int64), NEW k \in 0..(Len(t) - 1), NEW a, Decoding(a, g, t, k)
  PROVE  Decoding(FillStep(a, g, t[k + 1]), g, t, k + 1)
<1> DEFINE x == t[k + 1]
<1> DEFINE b == FillStep(a, g, x)
<1>1. g.countsLen \in Nat BY GeometriesBuilt
<1>2. x \in Int64 /\ x \in Int BY StandsFacts, Int64Facts
<1>3. /\ DOMAIN a = {"hist", "dst", "total", "err"} /\ (a.err = TRUE \/ a.err = FALSE) /\ a.dst \in 0..g.countsLen
  BY DEF Decoding
<1>4. ASSUME NEW y, y = a \/ y = [a EXCEPT !.err = TRUE], y.err = TRUE PROVE Decoding(y, g, t, k + 1)
  <2>1. DOMAIN y = {"hist", "dst", "total", "err"} /\ y.hist = a.hist /\ y.dst = a.dst /\ y.total = a.total
    BY <1>3, <1>4
  <2> QED BY <1>4, <2>1 DEF Decoding
<1>5. CASE a.err
  <2>1. b = a /\ a.err = TRUE BY <1>3, <1>5 DEF FillStep
  <2> HIDE DEF b
  <2> QED BY <1>4, <2>1 DEF b
<1>6. CASE ~a.err /\ b = [a EXCEPT !.err = TRUE]
  <2> HIDE DEF b
  <2>1. b.err = TRUE BY <1>3, <1>6
  <2> QED BY <1>4, <1>6, <2>1 DEF b
<1>7. CASE ~a.err /\ x < 0 /\ b # [a EXCEPT !.err = TRUE]
  <2>1. /\ ~(Wrap64(-x) <= 0) /\ ~(Wrap64(-x) > g.countsLen - a.dst)
        /\ b = [a EXCEPT !.dst = @ + Wrap64(-x)]
    BY <1>7 DEF FillStep
  <2>2. Wrap64(-x) \in Int
    <3>1. -x \in Int BY <1>2
    <3> QED BY <3>1, Wrap64Range, Int64Facts
  <2>3. Wrap64(-x) > 0 BY <2>1, <2>2
  <2> HIDE DEF x
  <2>4. Wrap64(-x) = -x BY <1>2, <1>7, <2>3, ZerosFacts
  <2>5. -x \in Nat /\ a.dst + (-x) <= g.countsLen BY <1>1, <1>2, <1>3, <1>7, <2>1, <2>4
  <2>6. DOMAIN b = {"hist", "dst", "total", "err"} /\ b.hist = a.hist /\ b.total = a.total
        /\ b.err = a.err /\ b.dst = a.dst + (-x)
    <3> HIDE DEF b
    <3> QED BY <1>3, <2>1, <2>4
  <2> HIDE DEF b
  <2> DEFINE s == -x
  <2>7. s = (IF x < 0 THEN -x ELSE 1) /\ x <= 0 /\ s \in Nat /\ a.dst + s <= g.countsLen /\ b.dst = a.dst + s
    BY <1>2, <1>7, <2>5, <2>6
  <2> HIDE DEF s
  <2>8. Decoding(b, g, t, k + 1) BY <1>7, <2>6, <2>7, DecodingMoves DEF x
  <2> QED BY <2>8 DEF b, x
<1>8. CASE ~a.err /\ x >= 0 /\ b # [a EXCEPT !.err = TRUE]
  <2>1. ~(x < 0) BY <1>2, <1>8
  <2>2. /\ ~(a.dst >= g.countsLen)
        /\ b = IF x = 0 THEN [a EXCEPT !.dst = @ + 1]
               ELSE [a EXCEPT !.hist = SparseAdd(@, a.dst, x), !.total = AddDropped(@, x), !.dst = @ + 1]
    <3> HIDE DEF x
    <3> QED BY <1>8, <2>1 DEF FillStep
  <2>3. a.dst < g.countsLen /\ a.dst + 1 <= g.countsLen BY <1>1, <1>3, <2>2
  <2>4. CASE x = 0
    <3>1. DOMAIN b = {"hist", "dst", "total", "err"} /\ b.hist = a.hist /\ b.total = a.total
          /\ b.err = a.err /\ b.dst = a.dst + 1
      <4> HIDE DEF b, x
      <4> QED BY <1>3, <2>2, <2>4
    <3> HIDE DEF b, x
    <3>2. 1 = (IF x < 0 THEN -x ELSE 1) /\ x <= 0 /\ 1 \in Nat BY <2>4
    <3>3. Decoding(b, g, t, k + 1) BY <1>8, <2>3, <3>1, <3>2, DecodingMoves DEF x
    <3> QED BY <3>3 DEF b, x
  <2>5. CASE x # 0
    <3> DEFINE y == [hist |-> SparseAdd(a.hist, a.dst, x), dst |-> a.dst + 1, total |-> AddDropped(a.total, x),
                     err |-> a.err]
    <3>1. b = y
      <4> DEFINE u == [a EXCEPT !.hist = SparseAdd(a.hist, a.dst, x)]
      <4> DEFINE v == [u EXCEPT !.total = AddDropped(a.total, x)]
      <4>1. /\ DOMAIN u = {"hist", "dst", "total", "err"} /\ u.hist = SparseAdd(a.hist, a.dst, x)
            /\ u.dst = a.dst /\ u.total = a.total /\ u.err = a.err
        BY <1>3
      <4>2. b = [a EXCEPT !.hist = SparseAdd(@, a.dst, x), !.total = AddDropped(@, x), !.dst = @ + 1] BY <2>2, <2>5
      <4> HIDE DEF b, x
      <4>3. b = [v EXCEPT !.dst = a.dst + 1] BY <1>3, <4>2
      <4> HIDE DEF u
      <4>4. /\ DOMAIN v = {"hist", "dst", "total", "err"} /\ v.hist = SparseAdd(a.hist, a.dst, x)
            /\ v.dst = a.dst /\ v.total = AddDropped(a.total, x) /\ v.err = a.err
            /\ v = [i \in DOMAIN v |-> v[i]]
        BY <4>1
      <4> HIDE DEF v
      <4> QED BY <4>3, <4>4
    <3>2. DOMAIN b = {"hist", "dst", "total", "err"} /\ b.hist = SparseAdd(a.hist, a.dst, x)
          /\ b.total = AddDropped(a.total, x) /\ b.err = a.err /\ b.dst = a.dst + 1
      <4> HIDE DEF b, x
      <4> QED BY <3>1
    <3>3. x > 0 BY <1>2, <1>8, <2>5
    <3> HIDE DEF b, x, y
    <3>4. Decoding(b, g, t, k + 1) BY <1>8, <2>3, <3>2, <3>3, DecodingStores DEF x
    <3> QED BY <3>4 DEF b, x
  <2> QED BY <2>4, <2>5
<1>9. x < 0 \/ x >= 0 BY <1>2
<1> QED BY <1>5, <1>6, <1>7, <1>8, <1>9

\* A payload that is decoded stores the counts that it denotes.
LEMMA FilledPayload ==
  ASSUME NEW g \in Geometries, NEW t \in Seq(Int64)
  PROVE  Decoding(Filled(g, t), g, t, Len(t))
<1> DEFINE N == Len(t)
<1>1. N \in Nat /\ g.countsLen \in Nat BY GeometriesBuilt
<1>2. PICK e : /\ e[0] = [hist |-> NewPacked(g), dst |-> 0, total |-> 0, err |-> FALSE]
               /\ \A k \in 0..(N - 1) : e[k + 1] = FillStep(e[k], g, t[k + 1])
               /\ Filled(g, t) = e[N]
  BY <1>1, FilledLoop
<1> DEFINE S == {k \in Nat : k <= N => Decoding(e[k], g, t, k)}
<1>3. 0 \in S
  <2> DEFINE a == e[0]
  <2>1. /\ DOMAIN a = {"hist", "dst", "total", "err"} /\ a.hist = NewPacked(g) /\ a.dst = 0 /\ a.total = 0
        /\ a.err = FALSE
    BY <1>2
  <2> HIDE DEF a
  <2>2. Good(a.hist) /\ a.hist.geom = g /\ \A i : Count(a.hist, i) = 0 BY <2>1, NewFacts
  <2>3. a.hist.total = 0 BY <2>1 DEF NewPacked
  <2>4. Stored(a.hist) /\ a.total = Smaller(MaxCount, Sum(a.hist)) /\ a.total \in 0..MaxCount
    BY <2>1, <2>2, <2>3 DEF Good
  <2>5. Stands(t, 0) = 0 BY PrefixSumZero DEF Stands
  <2>6. 0 \in 0..g.countsLen /\ 0..(0 - 1) = {} BY <1>1
  <2>7. \A i : Tells(t, 0, i, 0) BY <2>6 DEF Tells
  <2>8. Decoding(a, g, t, 0) BY <2>1, <2>2, <2>4, <2>5, <2>6, <2>7 DEF Decoding
  <2> QED BY <2>8 DEF a
<1>4. ASSUME NEW k \in S PROVE k + 1 \in S
  <2> SUFFICES ASSUME k + 1 <= N PROVE Decoding(e[k + 1], g, t, k + 1) OBVIOUS
  <2>1. k \in 0..(N - 1) /\ k <= N BY <1>1
  <2> DEFINE a == e[k]
  <2>2. Decoding(a, g, t, k) BY <2>1
  <2>3. e[k + 1] = FillStep(a, g, t[k + 1]) BY <1>2, <2>1
  <2> HIDE DEF S, a
  <2>4. Decoding(FillStep(a, g, t[k + 1]), g, t, k + 1) BY <2>1, <2>2, FillStepFacts
  <2> QED BY <2>3, <2>4
<1>5. S = Nat
  <2>1. S \in SUBSET Nat OBVIOUS
  <2> HIDE DEF S
  <2> QED BY <1>3, <1>4, <2>1, SetInduction
<1>6. Decoding(e[N], g, t, N) BY <1>1, <1>5
<1> QED BY <1>2, <1>6

\* What DecodePacked makes of a payload.
LEMMA DecodedFacts ==
  ASSUME NEW g \in Geometries, NEW t \in Seq(Int64), ~Filled(g, t).err
  PROVE  LET s == Decoded(g, t) IN
         Good(s) /\ s.geom = g /\ Denotes(t, g) /\ Spread(s) = Denoted(t, g).counts
<1> DEFINE a == Filled(g, t)
<1> DEFINE s == Decoded(g, t)
<1> DEFINE L == g.countsLen
<1> DEFINE n == Len(t)
<1>1. Decoding(a, g, t, n) BY FilledPayload
<1>2. L \in Nat /\ n \in Nat BY GeometriesBuilt
<1>3. s = [a.hist EXCEPT !.total = a.total] BY DEF Decoded
<1>4. ~a.err OBVIOUS
<1> HIDE DEF a, n
<1>5. /\ Stored(a.hist) /\ a.hist.geom = g /\ a.total \in 0..MaxCount /\ a.total = Smaller(MaxCount, Sum(a.hist))
      /\ a.dst = Stands(t, n) /\ a.dst \in 0..L
      /\ \A i \in 0..(L - 1) : Tells(t, n, i, Count(a.hist, i))
  BY <1>1, <1>4 DEF Decoding
<1>6. Alike(a.hist, s) /\ s.total = a.total
  <2>1. DOMAIN a.hist = Fields /\ a.hist.lastIndex \in Nat /\ a.hist.lastPos \in Nat BY <1>5 DEF Stored
  <2> HIDE DEF s
  <2> QED BY <1>3, <2>1 DEF Alike, Fields
<1> HIDE DEF s
<1>7. Stored(s) /\ Sum(s) = Sum(a.hist) /\ \A i : Count(s, i) = Count(a.hist, i) BY <1>5, <1>6, AlikeFacts
<1>8. Good(s) /\ s.geom = g BY <1>5, <1>6, <1>7 DEF Good, Alike
<1>9. Denotes(t, g) BY <1>2, <1>5 DEF Denotes, Stands, n
<1>10. Spread(s) = Denoted(t, g).counts
  <2> DEFINE Here(i) == {k \in 0..(n - 1) : Stands(t, k) = i /\ t[k + 1] > 0}
  <2> DEFINE C(i) == IF Here(i) = {} THEN 0 ELSE t[(CHOOSE k \in Here(i) : TRUE) + 1]
  <2>1. Denoted(t, g).counts = [i \in 0..(L - 1) |-> C(i)] BY DEF Denoted, Stands, n
  <2>2. ASSUME NEW i \in 0..(L - 1) PROVE Count(s, i) = C(i)
    <3>1. Tells(t, n, i, Count(s, i)) BY <1>5, <1>7
    <3>2. CASE Here(i) = {}
      <4>1. \A j \in 0..(n - 1) : ~(Stands(t, j) = i /\ t[j + 1] > 0) BY <3>2
      <4>2. Count(s, i) = 0 BY <3>1, <4>1 DEF Tells
      <4> QED BY <3>2, <4>2
    <3>3. CASE Here(i) # {}
      <4> DEFINE k == CHOOSE k \in Here(i) : TRUE
      <4>1. k \in Here(i)
        <5> HIDE DEF Here
        <5> QED BY <3>3
      <4>2. C(i) = t[k + 1] BY <3>3
      <4> HIDE DEF k, C
      <4>3. k \in 0..(n - 1) /\ Stands(t, k) = i /\ t[k + 1] > 0 BY <4>1
      <4> QED BY <3>1, <4>2, <4>3 DEF Tells
    <3> QED BY <3>2, <3>3
  <2> HIDE DEF C
  <2> QED BY <1>8, <2>1, <2>2 DEF Spread
<1> QED BY <1>8, <1>9, <1>10 DEF s

-----------------------------------------------------------------------------
(* The abstract store.                                                      *)

\* The store's geometry is this module's.
LEMMA StoreGeometry ==
  /\ \A g, v : Store!CountsIndexFor(g, v) = CountsIndexFor(g, v)
  /\ \A g, i : Store!ValueFromFlatIndex(g, i) = ValueFromFlatIndex(g, i)
  /\ \A a, b : Store!Smaller(a, b) = Smaller(a, b)
  /\ \A c : Store!PrefixSum(c) = PrefixSum(c)
  /\ \A S : Store!Cardinality(S) = Cardinality(S)
<1>1. \A a, b : Store!Smaller(a, b) = Smaller(a, b) BY DEF Store!Smaller, Smaller
<1>2. \A a, b : Store!Larger(a, b) = Larger(a, b) BY DEF Store!Larger, Larger
<1>3. \A x : Store!BitLen(x) = BitLen(x) BY DEF Store!BitLen, BitLen
<1>4. \A g, v : Store!BucketIndex(g, v) = BucketIndex(g, v) BY <1>2, <1>3 DEF Store!BucketIndex, BucketIndex
<1>5. \A g, v, b : Store!SubBucketIndex(g, v, b) = SubBucketIndex(g, v, b) BY DEF Store!SubBucketIndex, SubBucketIndex
<1>6. \A g, b, i : Store!CountsIndex(g, b, i) = CountsIndex(g, b, i) BY DEF Store!CountsIndex, CountsIndex
<1>7. \A g, v : Store!CountsIndexFor(g, v) = CountsIndexFor(g, v)
  BY <1>4, <1>5, <1>6 DEF Store!CountsIndexFor, CountsIndexFor
<1>8. \A g, i : Store!ValueFromFlatIndex(g, i) = ValueFromFlatIndex(g, i)
  BY DEF Store!ValueFromFlatIndex, ValueFromFlatIndex, Store!ValueFromIndex, ValueFromIndex
<1>9. \A c : Store!PrefixSum(c) = PrefixSum(c) BY DEF Store!PrefixSum, PrefixSum
<1>10. \A S : Store!Cardinality(S) = Cardinality(S) BY DEF Store!Cardinality, Cardinality
<1> QED BY <1>1, <1>7, <1>8, <1>9, <1>10

\* The state of the abstract store that a state of this module stands for.
GeomView == [s \in Name |-> Hist(s).geom]
CountsView == [s \in Name |-> IF s \in Packed
                              THEN [i \in 0..(packed[s].geom.countsLen - 1) |-> Count(packed[s], i)]
                              ELSE dense[s].counts]
TotalView == [s \in Name |-> Hist(s).total]

\* Re-recording is a loop.
LEMMA RerecordedLoop ==
  ASSUME NEW s, NEW from, GeomView[from].countsLen \in Nat
  PROVE  \E g : /\ g[0] = [counts |-> CountsView[s], total |-> TotalView[s], dropped |-> 0]
                /\ \A k \in 0..(GeomView[from].countsLen - 1) :
                     g[k + 1] = Store!Offered(g[k], Store!CountsIndexFor(GeomView[s], Store!ValueFromFlatIndex(GeomView[from], k)),
                                              CountsView[from][k])
                /\ Store!Rerecorded(s, from) = g[GeomView[from].countsLen]
<1> DEFINE N == GeomView[from].countsLen
<1> DEFINE Step(a, k) == Store!Offered(a, Store!CountsIndexFor(GeomView[s], Store!ValueFromFlatIndex(GeomView[from], k)),
                                      CountsView[from][k])
<1> DEFINE start == [counts |-> CountsView[s], total |-> TotalView[s], dropped |-> 0]
<1> DEFINE Eq(p, n) == p = [k \in 0..n |-> IF k = 0 THEN start ELSE Step(p[k - 1], k - 1)]
<1> DEFINE T == {n \in Nat : \E p : Eq(p, n)}
<1>1. 0 \in T
  <2>1. Eq([k \in 0..0 |-> start], 0) OBVIOUS
  <2> QED BY <2>1
<1>2. ASSUME NEW n \in T PROVE n + 1 \in T
  <2>1. PICK p : Eq(p, n) OBVIOUS
  <2> DEFINE h == [k \in 0..(n + 1) |-> IF k = n + 1 THEN Step(p[n], n) ELSE p[k]]
  <2>2. ASSUME NEW k \in 0..(n + 1)
        PROVE  h[k] = IF k = 0 THEN start ELSE Step(h[k - 1], k - 1)
    <3> HIDE DEF start
    <3>1. CASE k = n + 1
      <4>1. k - 1 = n /\ k # 0 /\ h[k - 1] = p[n] BY <3>1
      <4>2. h[k] = Step(p[n], n) BY <3>1
      <4> HIDE DEF h
      <4> QED BY <3>1, <4>1, <4>2
    <3>2. CASE k # n + 1
      <4>1. k \in 0..n /\ h[k] = p[k] /\ (k # 0 => h[k - 1] = p[k - 1]) BY <3>2
      <4> HIDE DEF h
      <4>2. p[k] = IF k = 0 THEN start ELSE Step(p[k - 1], k - 1) BY <2>1, <4>1
      <4> QED BY <4>1, <4>2
    <3> QED BY <3>1, <3>2
  <2>3. Eq(h, n + 1)
    <3> DEFINE d == [k \in 0..(n + 1) |-> IF k = 0 THEN start ELSE Step(h[k - 1], k - 1)]
    <3>1. \A k \in 0..(n + 1) : h[k] = d[k] BY <2>2
    <3>2. h = d BY <3>1
    <3> QED BY <3>2
  <2>4. \E q : Eq(q, n + 1)
    <3> HIDE DEF h, Eq
    <3> QED BY <2>3
  <2> HIDE DEF Eq
  <2> QED BY <2>4
<1>3. T = Nat
  <2>1. T \in SUBSET Nat OBVIOUS
  <2> HIDE DEF T
  <2> QED BY <1>1, <1>2, <2>1, SetInduction
<1>4. \E p : Eq(p, N)
  <2> HIDE DEF Eq
  <2> QED BY <1>3
<1> DEFINE after == CHOOSE p : Eq(p, N)
<1>5. Eq(after, N)
  <2> HIDE DEF Eq
  <2> QED BY <1>4
<1>6. Store!Rerecorded(s, from) = after[GeomView[from].countsLen] BY DEF Store!Rerecorded, GeomView, CountsView, TotalView
<1> HIDE DEF after
<1>7. after[0] = start BY <1>5
<1>8. ASSUME NEW k \in 0..(N - 1) PROVE after[k + 1] = Step(after[k], k)
  <2>1. k + 1 \in 0..N /\ k + 1 # 0 /\ (k + 1) - 1 = k OBVIOUS
  <2> HIDE DEF start
  <2> QED BY <1>5, <2>1
<1> QED BY <1>6, <1>7, <1>8

\* What the store's state is of either kind of histogram.
LEMMA Views ==
  /\ \A p \in Packed : /\ GeomView[p] = packed[p].geom /\ CountsView[p] = Spread(packed[p])
                       /\ TotalView[p] = packed[p].total
  /\ \A d \in Dense : /\ GeomView[d] = dense[d].geom /\ CountsView[d] = dense[d].counts
                      /\ TotalView[d] = dense[d].total
  /\ Packed \subseteq Name /\ Dense \subseteq Name /\ \A d \in Dense : d \notin Packed
<1>1. Packed \subseteq Name /\ Dense \subseteq Name BY DEF Name
<1>2. \A d \in Dense : d \notin Packed BY NamesAssumption
<1>3. ASSUME NEW p \in Packed
      PROVE  GeomView[p] = packed[p].geom /\ CountsView[p] = Spread(packed[p]) /\ TotalView[p] = packed[p].total
  BY <1>1 DEF GeomView, CountsView, TotalView, Hist, Spread
<1>4. ASSUME NEW d \in Dense
      PROVE  GeomView[d] = dense[d].geom /\ CountsView[d] = dense[d].counts /\ TotalView[d] = dense[d].total
  BY <1>1, <1>2 DEF GeomView, CountsView, TotalView, Hist
<1> QED BY <1>1, <1>2, <1>3, <1>4

\* Re-recording in the store.
LEMMA RerecordedFacts ==
  ASSUME NEW s \in Name, NEW from \in Name, GeomView[from].countsLen \in Nat
  PROVE  \E f : /\ Rerecording(f, GeomView[s], CountsView[s], TotalView[s], GeomView[from], CountsView[from])
                /\ Store!Rerecorded(s, from) = f[GeomView[from].countsLen]
<1>1. PICK f : /\ f[0] = [counts |-> CountsView[s], total |-> TotalView[s], dropped |-> 0]
               /\ \A k \in 0..(GeomView[from].countsLen - 1) :
                    f[k + 1] = Store!Offered(f[k], Store!CountsIndexFor(GeomView[s], Store!ValueFromFlatIndex(GeomView[from], k)),
                                             CountsView[from][k])
               /\ Store!Rerecorded(s, from) = f[GeomView[from].countsLen]
  BY RerecordedLoop
<1>2. Rerecording(f, GeomView[s], CountsView[s], TotalView[s], GeomView[from], CountsView[from])
  BY <1>1, StoreGeometry DEF Rerecording, Entry
<1> QED BY <1>1, <1>2

-----------------------------------------------------------------------------
(* The inductive invariant.                                                 *)

\* Every packed histogram is well formed with its saturated sum as total, and every
\* dense one has its sum as total.
Sound ==
  /\ DOMAIN packed = Packed /\ \A p \in Packed : Good(packed[p])
  /\ DOMAIN dense = Dense /\ \A d \in Dense : Plain(dense[d])
  /\ dropped \in 0..MaxCount

\* A step that replaces a packed histogram.
LEMMA BecomesSound ==
  ASSUME Sound, NEW p \in Packed, NEW r, Becomes(p, r), Good(r), dropped' \in 0..MaxCount
  PROVE  /\ Sound'
         /\ GeomView' = [GeomView EXCEPT ![p] = r.geom]
         /\ CountsView' = [CountsView EXCEPT ![p] = Spread(r)]
         /\ TotalView' = [TotalView EXCEPT ![p] = r.total]
<1>1. packed' = [packed EXCEPT ![p] = r] /\ dense' = dense BY DEF Becomes
<1>2. DOMAIN packed = Packed BY DEF Sound
<1>3. packed'[p] = r /\ \A q \in Packed : q # p => packed'[q] = packed[q] BY <1>1, <1>2
<1>4. DOMAIN packed' = Packed BY <1>1, <1>2
<1>5. Sound'
  <2>1. ASSUME NEW q \in Packed PROVE Good(packed'[q]) BY <1>3 DEF Sound
  <2> QED BY <1>1, <1>4, <2>1 DEF Sound
<1>6. \A s \in Name : Hist(s)' = IF s = p THEN r ELSE Hist(s) BY <1>1, <1>3 DEF Hist
<1>7. p \in Name BY DEF Name
<1>8. GeomView' = [GeomView EXCEPT ![p] = r.geom] /\ TotalView' = [TotalView EXCEPT ![p] = r.total]
  <2>1. \A s \in Name : Hist(s).geom' = (IF s = p THEN r.geom ELSE Hist(s).geom)
                        /\ Hist(s).total' = (IF s = p THEN r.total ELSE Hist(s).total)
    BY <1>6
  <2> QED BY <1>7, <2>1 DEF GeomView, TotalView
<1>9. CountsView' = [CountsView EXCEPT ![p] = Spread(r)]
  <2> DEFINE C(s) == IF s \in Packed THEN [i \in 0..(packed[s].geom.countsLen - 1) |-> Count(packed[s], i)]
                     ELSE dense[s].counts
  <2>1. CountsView = [s \in Name |-> C(s)] /\ CountsView' = [s \in Name |-> C(s)'] BY DEF CountsView
  <2>2. ASSUME NEW s \in Name PROVE C(s)' = IF s = p THEN Spread(r) ELSE C(s)
    <3>1. CASE s = p BY <1>3, <3>1 DEF Spread
    <3>2. CASE s # p /\ s \in Packed
      <4>1. packed'[s] = packed[s] BY <1>3, <3>2
      <4> QED BY <3>2, <4>1
    <3>3. CASE s # p /\ s \notin Packed BY <1>1, <3>3
    <3> QED BY <3>1, <3>2, <3>3
  <2> HIDE DEF C
  <2> QED BY <1>7, <2>1, <2>2
<1> QED BY <1>5, <1>8, <1>9

\* A step that replaces a dense histogram.
LEMMA DenseSound ==
  ASSUME Sound, NEW d \in Dense, NEW x, dense' = [dense EXCEPT ![d] = x], packed' = packed, Plain(x),
         dropped' \in 0..MaxCount
  PROVE  /\ Sound'
         /\ GeomView' = [GeomView EXCEPT ![d] = x.geom]
         /\ CountsView' = [CountsView EXCEPT ![d] = x.counts]
         /\ TotalView' = [TotalView EXCEPT ![d] = x.total]
<1>1. DOMAIN dense = Dense BY DEF Sound
<1>2. dense'[d] = x /\ \A e \in Dense : e # d => dense'[e] = dense[e] BY <1>1
<1>3. DOMAIN dense' = Dense BY <1>1
<1>4. Sound'
  <2>1. ASSUME NEW e \in Dense PROVE Plain(dense'[e]) BY <1>2 DEF Sound
  <2> QED BY <1>3, <2>1 DEF Sound
<1>5. d \in Name /\ d \notin Packed /\ \A s \in Name : s \notin Packed => s \in Dense BY NamesAssumption DEF Name
<1>6. \A s \in Name : Hist(s)' = IF s = d THEN x ELSE Hist(s) BY <1>2, <1>5 DEF Hist
<1>7. GeomView' = [GeomView EXCEPT ![d] = x.geom] /\ TotalView' = [TotalView EXCEPT ![d] = x.total]
  <2>1. \A s \in Name : Hist(s).geom' = (IF s = d THEN x.geom ELSE Hist(s).geom)
                        /\ Hist(s).total' = (IF s = d THEN x.total ELSE Hist(s).total)
    BY <1>6
  <2> QED BY <1>5, <2>1 DEF GeomView, TotalView
<1>8. CountsView' = [CountsView EXCEPT ![d] = x.counts]
  <2> DEFINE C(s) == IF s \in Packed THEN [i \in 0..(packed[s].geom.countsLen - 1) |-> Count(packed[s], i)]
                     ELSE dense[s].counts
  <2>1. CountsView = [s \in Name |-> C(s)] /\ CountsView' = [s \in Name |-> C(s)'] BY DEF CountsView
  <2>2. ASSUME NEW s \in Name PROVE C(s)' = IF s = d THEN x.counts ELSE C(s)
    <3>1. CASE s = d BY <1>2, <1>5, <3>1
    <3>2. CASE s # d /\ s \in Packed BY <3>2
    <3>3. CASE s # d /\ s \notin Packed BY <1>2, <1>5, <3>3
    <3> QED BY <3>1, <3>2, <3>3
  <2> HIDE DEF C
  <2> QED BY <1>5, <2>1, <2>2
<1> QED BY <1>4, <1>7, <1>8

\* A step that replaces none.
LEMMA KeepsSound ==
  ASSUME Sound, packed' = packed, dense' = dense, dropped' \in 0..MaxCount
  PROVE  Sound' /\ GeomView' = GeomView /\ CountsView' = CountsView /\ TotalView' = TotalView
BY DEF Sound, GeomView, CountsView, TotalView, Hist

-----------------------------------------------------------------------------
(* Steps of the abstract store, in terms of the views.                      *)

\* What makes a step a record call of the store.
LEMMA StoreRecord ==
  ASSUME NEW s, NEW v, NEW n, NEW missing, NEW interval,
         v >= 0, CountsIndexFor(GeomView[s], v) \in 0..(GeomView[s].countsLen - 1),
         n \in 0..(MaxCount - TotalView[s]),
         CountsView' = [CountsView EXCEPT ![s] = [i \in DOMAIN CountsView[s] |->
            CountsView[s][i] + (IF CountsIndexFor(GeomView[s], v) = i THEN n ELSE 0)
              + Cardinality({k \in 1..Smaller(missing, MaxCount - (TotalView[s] + n)) :
                               CountsIndexFor(GeomView[s], v - k * interval) = i})]],
         TotalView' = [TotalView EXCEPT ![s] =
            TotalView[s] + n + Cardinality(1..Smaller(missing, MaxCount - (TotalView[s] + n)))],
         GeomView' = GeomView, dropped' = 0
  PROVE  Store!Record(s, v, n, missing, interval)
<1>1. Store!Admits(s, v, n) BY StoreGeometry DEF Store!Admits, Store!Positions, GeomView, TotalView
<1> USE DEF Store!CountsIndexFor, CountsIndexFor, Store!BucketIndex, BucketIndex, Store!Larger, Larger,
            Store!BitLen, BitLen, Store!SubBucketIndex, SubBucketIndex, Store!CountsIndex, CountsIndex,
            Store!Cardinality, Cardinality, Store!Smaller, Smaller
<1> QED BY <1>1, Zenon DEF Store!Record, GeomView, CountsView, TotalView

\* What makes a step one that the store does not see.
LEMMA StoreKeep ==
  ASSUME GeomView' = GeomView, CountsView' = CountsView, TotalView' = TotalView, dropped' = 0
  PROVE  Store!Keep
BY DEF Store!Keep, GeomView, CountsView, TotalView

-----------------------------------------------------------------------------
(* Every action keeps the invariant and is a step of the store.             *)

\* A record call of the store seen from the histogram that it changes.
LEMMA RecordStep ==
  ASSUME NEW s \in Name, TotalView[s] \in 0..MaxCount, DOMAIN CountsView[s] = 0..(GeomView[s].countsLen - 1),
         NEW v, v >= 0, CountsIndexFor(GeomView[s], v) \in 0..(GeomView[s].countsLen - 1),
         NEW n \in Nat, n <= MaxCount - TotalView[s], NEW missing \in Nat, NEW interval,
         NEW e, e = [i \in 0..(GeomView[s].countsLen - 1) |-> e[i]],
         \A i \in 0..(GeomView[s].countsLen - 1) :
           e[i] = CountsView[s][i] + (IF i = CountsIndexFor(GeomView[s], v) THEN n ELSE 0)
                    + Missed(GeomView[s], v, interval, Smaller(missing, MaxCount - (TotalView[s] + n)), i),
         GeomView' = [GeomView EXCEPT ![s] = GeomView[s]], CountsView' = [CountsView EXCEPT ![s] = e],
         TotalView' = [TotalView EXCEPT ![s] = TotalView[s] + n + Smaller(missing, MaxCount - (TotalView[s] + n))],
         dropped' = 0
  PROVE  Store!Record(s, v, n, missing, interval)
<1> DEFINE g == GeomView[s]
<1> DEFINE c == CountsView[s]
<1> DEFINE m == Smaller(missing, MaxCount - (TotalView[s] + n))
<1>1. m \in Nat BY MaxCountAssumption DEF Smaller
<1>2. Cardinality(1..m) = m
  <2> HIDE DEF m
  <2>1. Cardinality(1..m) = IF 1 > m THEN 0 ELSE m - 1 + 1 BY <1>1, FS_Interval
  <2> QED BY <1>1, <2>1
<1>3. GeomView' = GeomView
  <2>1. GeomView = [x \in Name |-> GeomView[x]] BY DEF GeomView
  <2> QED BY <2>1
<1>4. n \in 0..(MaxCount - TotalView[s]) BY MaxCountAssumption
<1> DEFINE d == [i \in DOMAIN c |-> c[i] + (IF CountsIndexFor(g, v) = i THEN n ELSE 0)
                   + Cardinality({k \in 1..m : CountsIndexFor(g, v - k * interval) = i})]
<1>5. e = d
  <2>1. ASSUME NEW i \in 0..(g.countsLen - 1) PROVE e[i] = d[i]
    <3>1. e[i] = c[i] + (IF i = CountsIndexFor(g, v) THEN n ELSE 0) + Missed(g, v, interval, m, i) OBVIOUS
    <3>2. d[i] = c[i] + (IF CountsIndexFor(g, v) = i THEN n ELSE 0)
                   + Cardinality({k \in 1..m : CountsIndexFor(g, v - k * interval) = i})
      OBVIOUS
    <3>3. (IF i = CountsIndexFor(g, v) THEN n ELSE 0) = (IF CountsIndexFor(g, v) = i THEN n ELSE 0) OBVIOUS
    <3> HIDE DEF m, d
    <3> QED BY <3>1, <3>2, <3>3 DEF Missed
  <2>2. d = [i \in 0..(g.countsLen - 1) |-> d[i]] OBVIOUS
  <2> HIDE DEF d
  <2> QED BY <2>1, <2>2
<1>6. CountsView' = [CountsView EXCEPT ![s] = d]
  <2> HIDE DEF d
  <2> QED BY <1>5
<1>7. TotalView' = [TotalView EXCEPT ![s] = TotalView[s] + n + Cardinality(1..m)] BY <1>2
<1> QED BY <1>3, <1>4, <1>6, <1>7, StoreRecord

\* RecordValues.
LEMMA RecordValuesStep ==
  ASSUME Sound, NEW p \in Packed, NEW v \in Values, NEW n \in Amounts, RecordValues(p, v, n)
  PROVE  Sound' /\ Store!Record(p, v, n, 0, 0)
<1> DEFINE r == packed[p]
<1> DEFINE x == Recorded(r, v, n)
<1> DEFINE ci == CountsIndexFor(r.geom, v)
<1>1. Good(r) /\ ~RecordFails(r, v, n) /\ n \in Int64 /\ Becomes(p, x) /\ dropped' = 0
  BY InputAssumption DEF Sound, RecordValues
<1>2. Gains(r, x, ci, n) BY <1>1, RecordedFacts
<1>3. ci \in 0..(r.geom.countsLen - 1) /\ n \in 0..MaxCount /\ n <= MaxCount - r.total BY <1>1, RecordAdmits
<1>4. v >= 0
  <2>1. ~(v < 0) /\ v \in Int BY <1>1, InputAssumption, MaxIntFacts DEF RecordFails
  <2> QED BY <2>1
<1>5. Good(x) /\ x.geom = r.geom /\ x.total = r.total + n /\ Adds(r, x, ci, n) BY <1>2 DEF Gains
<1>6. GeomView[p] = r.geom /\ CountsView[p] = Spread(r) /\ TotalView[p] = r.total /\ p \in Name BY Views
<1>7. r.total \in 0..MaxCount /\ MaxCount \in Nat /\ r.geom.countsLen \in Nat
  BY <1>1, MaxCountAssumption, GeometriesBuilt DEF Good, Stored
<1> HIDE DEF r, x, ci
<1>8. 0 \in 0..MaxCount BY <1>7
<1>9. /\ Sound'
      /\ GeomView' = [GeomView EXCEPT ![p] = x.geom]
      /\ CountsView' = [CountsView EXCEPT ![p] = Spread(x)]
      /\ TotalView' = [TotalView EXCEPT ![p] = x.total]
  BY <1>1, <1>5, <1>8, BecomesSound
<1>10. Smaller(0, MaxCount - (r.total + n)) = 0 BY <1>3, <1>7 DEF Smaller
<1>11. /\ DOMAIN Spread(r) = 0..(r.geom.countsLen - 1) /\ DOMAIN Spread(x) = 0..(r.geom.countsLen - 1)
       /\ Spread(x) = [i \in 0..(r.geom.countsLen - 1) |-> Spread(x)[i]]
  BY <1>5 DEF Spread
<1>12. \A i \in 0..(r.geom.countsLen - 1) :
         Spread(x)[i] = Spread(r)[i] + (IF i = ci THEN n ELSE 0) + Missed(r.geom, v, 0, 0, i)
  <2> SUFFICES ASSUME NEW i \in 0..(r.geom.countsLen - 1)
               PROVE  Spread(x)[i] = Spread(r)[i] + (IF i = ci THEN n ELSE 0) + Missed(r.geom, v, 0, 0, i)
    OBVIOUS
  <2>1. Spread(x)[i] = Count(x, i) /\ Spread(r)[i] = Count(r, i) BY <1>5 DEF Spread
  <2>2. Count(x, i) = Count(r, i) + (IF i = ci THEN n ELSE 0) BY <1>5, <1>7 DEF Adds
  <2>3. Missed(r.geom, v, 0, 0, i) = 0 BY MissedFacts
  <2>4. Count(r, i) \in Nat BY <1>1, CountType DEF Good
  <2> QED BY <1>3, <2>1, <2>2, <2>3, <2>4
<1>13. x.total = r.total + n + 0 /\ n \in Nat BY <1>3, <1>5, <1>7
<1>14. Store!Record(p, v, n, 0, 0)
  <2> DEFINE e == Spread(x)
  <2>1. e = [i \in 0..(GeomView[p].countsLen - 1) |-> e[i]] BY <1>6, <1>11
  <2>2. TotalView[p] \in 0..MaxCount /\ DOMAIN CountsView[p] = 0..(GeomView[p].countsLen - 1)
    BY <1>6, <1>7, <1>11
  <2>3. CountsIndexFor(GeomView[p], v) \in 0..(GeomView[p].countsLen - 1) /\ n \in Nat /\ n <= MaxCount - TotalView[p]
    BY <1>3, <1>6, <1>13 DEF ci
  <2>4. \A i \in 0..(GeomView[p].countsLen - 1) :
          e[i] = CountsView[p][i] + (IF i = CountsIndexFor(GeomView[p], v) THEN n ELSE 0)
                   + Missed(GeomView[p], v, 0, Smaller(0, MaxCount - (TotalView[p] + n)), i)
    BY <1>6, <1>10, <1>12 DEF ci
  <2>5. GeomView' = [GeomView EXCEPT ![p] = GeomView[p]] /\ CountsView' = [CountsView EXCEPT ![p] = e]
    BY <1>5, <1>6, <1>9
  <2>6. TotalView' = [TotalView EXCEPT ![p] = TotalView[p] + n + Smaller(0, MaxCount - (TotalView[p] + n))]
    BY <1>6, <1>9, <1>10, <1>13
  <2> HIDE DEF e
  <2>7. p \in Name /\ dropped' = 0 BY <1>1, <1>6
  <2>8. 0 \in Nat OBVIOUS
  <2> QED BY <1>4, <2>1, <2>2, <2>3, <2>4, <2>5, <2>6, <2>7, <2>8, RecordStep
<1> QED BY <1>9, <1>14

\* RecordCorrectedValue.
LEMMA RecordCorrectedStep ==
  ASSUME Sound, NEW p \in Packed, NEW v \in Values, NEW interval \in Intervals, RecordCorrectedValue(p, v, interval)
  PROVE  /\ Sound'
         /\ Store!Record(p, v, 1, IF interval > 0 /\ v > interval THEN v \div interval - 1 ELSE 0, interval)
<1> DEFINE r == packed[p]
<1> DEFINE x == Corrected(r, v, interval)
<1> DEFINE ci == CountsIndexFor(r.geom, v)
<1> DEFINE due == Due(v, interval)
<1> DEFINE m == Smaller(due, MaxCount - (r.total + 1))
<1>0. 1 \in Int64 BY MaxCountAssumption DEF Int64
<1>1. Good(r) /\ ~RecordFails(r, v, 1) /\ Becomes(p, x) /\ dropped' = 0 BY DEF Sound, RecordCorrectedValue
<1>2. ci \in 0..(r.geom.countsLen - 1) /\ 1 <= MaxCount - r.total BY <1>0, <1>1, RecordAdmits
<1>3. v >= 0 /\ v \in 0..MaxInt /\ interval \in -(MaxInt + 1)..MaxInt /\ v \in Int /\ interval \in Int
  <2>1. ~(v < 0) BY <1>1 DEF RecordFails
  <2> QED BY <2>1, InputAssumption, MaxIntFacts
<1>4. due \in Nat /\ \E a : Caught(r, v, interval, a, due) /\ a.hist = x BY <1>1, <1>3, CorrectedFacts
<1>5. due = IF interval > 0 /\ v > interval THEN v \div interval - 1 ELSE 0 BY <1>3 DEF Due
<1>6. GeomView[p] = r.geom /\ CountsView[p] = Spread(r) /\ TotalView[p] = r.total /\ p \in Name BY Views
<1>7. r.total \in 0..MaxCount /\ MaxCount \in Nat /\ r.geom.countsLen \in Nat
  BY <1>1, MaxCountAssumption, GeometriesBuilt DEF Good, Stored
<1> HIDE DEF r, x, due
<1>8. /\ Good(x) /\ x.geom = r.geom /\ x.total = r.total + 1 + m
      /\ \A i \in Int : Count(x, i) = Count(r, i) + (IF i = ci THEN 1 ELSE 0) + Missed(r.geom, v, interval, m, i)
  BY <1>4 DEF Caught
<1> HIDE DEF ci, m
<1>9. 0 \in 0..MaxCount BY <1>7
<1>10. /\ Sound'
       /\ GeomView' = [GeomView EXCEPT ![p] = x.geom]
       /\ CountsView' = [CountsView EXCEPT ![p] = Spread(x)]
       /\ TotalView' = [TotalView EXCEPT ![p] = x.total]
  BY <1>1, <1>8, <1>9, BecomesSound
<1>11. /\ DOMAIN Spread(r) = 0..(r.geom.countsLen - 1) /\ DOMAIN Spread(x) = 0..(r.geom.countsLen - 1)
       /\ Spread(x) = [i \in 0..(r.geom.countsLen - 1) |-> Spread(x)[i]]
  BY <1>8 DEF Spread
<1>12. \A i \in 0..(r.geom.countsLen - 1) :
         Spread(x)[i] = Spread(r)[i] + (IF i = ci THEN 1 ELSE 0) + Missed(r.geom, v, interval, m, i)
  <2> SUFFICES ASSUME NEW i \in 0..(r.geom.countsLen - 1)
               PROVE  Spread(x)[i] = Spread(r)[i] + (IF i = ci THEN 1 ELSE 0) + Missed(r.geom, v, interval, m, i)
    OBVIOUS
  <2>1. Spread(x)[i] = Count(x, i) /\ Spread(r)[i] = Count(r, i) BY <1>8 DEF Spread
  <2>2. i \in Int BY <1>7
  <2> QED BY <1>8, <2>1, <2>2
<1>13. Store!Record(p, v, 1, due, interval)
  <2> DEFINE e == Spread(x)
  <2>1. e = [i \in 0..(GeomView[p].countsLen - 1) |-> e[i]] BY <1>6, <1>11
  <2>2. TotalView[p] \in 0..MaxCount /\ DOMAIN CountsView[p] = 0..(GeomView[p].countsLen - 1)
    BY <1>6, <1>7, <1>11
  <2>3. CountsIndexFor(GeomView[p], v) \in 0..(GeomView[p].countsLen - 1) /\ 1 <= MaxCount - TotalView[p]
    BY <1>2, <1>6 DEF ci
  <2>4. \A i \in 0..(GeomView[p].countsLen - 1) :
          e[i] = CountsView[p][i] + (IF i = CountsIndexFor(GeomView[p], v) THEN 1 ELSE 0)
                   + Missed(GeomView[p], v, interval, Smaller(due, MaxCount - (TotalView[p] + 1)), i)
    BY <1>6, <1>12 DEF ci, m
  <2>5. GeomView' = [GeomView EXCEPT ![p] = GeomView[p]] /\ CountsView' = [CountsView EXCEPT ![p] = e]
    BY <1>6, <1>8, <1>10
  <2>6. TotalView' = [TotalView EXCEPT ![p] = TotalView[p] + 1 + Smaller(due, MaxCount - (TotalView[p] + 1))]
    BY <1>6, <1>8, <1>10 DEF m
  <2> HIDE DEF e
  <2>7. p \in Name /\ dropped' = 0 BY <1>1, <1>6
  <2>8. 1 \in Nat /\ due \in Nat BY <1>4
  <2> QED BY <1>3, <2>1, <2>2, <2>3, <2>4, <2>5, <2>6, <2>7, <2>8, RecordStep
<1> QED BY <1>5, <1>10, <1>13

\* RecordValues of a dense partner.
LEMMA RecordDenseStep ==
  ASSUME Sound, NEW d \in Dense, NEW v \in Values, NEW n \in Amounts, RecordDense(d, v, n)
  PROVE  Sound' /\ Store!Record(d, v, n, 0, 0)
<1> DEFINE x == dense[d]
<1> DEFINE ci == CountsIndexFor(x.geom, v)
<1> DEFINE y == SetCountAtIndex(x, ci, n)
<1>1. Plain(x) /\ ~RecordFails(x, v, n) /\ n \in Int64 /\ dropped' = 0 /\ packed' = packed
  BY InputAssumption DEF Sound, RecordDense
<1>2. dense' = [dense EXCEPT ![d] = y] BY DEF RecordDense, Sound
<1>3. x.total \in 0..MaxCount /\ MaxCount \in Nat /\ n \in Int BY <1>1, MaxCountAssumption DEF Plain, Int64
<1>4. Wrap64(MaxCount - x.total) = MaxCount - x.total
  <2> HIDE DEF x
  <2>1. MaxCount - x.total \in 0..MaxCount BY <1>3
  <2>2. MaxCount - x.total \in Int64 BY <1>3, <2>1, Int64Facts DEF Int64
  <2> QED BY <2>2, Wrap64Id
<1>5. v >= 0 /\ ci \in 0..(x.geom.countsLen - 1) /\ n \in Nat /\ n <= MaxCount - x.total
  <2>1. ~(v < 0) /\ v \in Int BY <1>1, InputAssumption, MaxIntFacts DEF RecordFails
  <2>2. ci \in 0..(x.geom.countsLen - 1) /\ ~(n < 0) /\ ~(n > MaxCount - x.total)
    BY <1>1, <1>4 DEF RecordFails, Fits
  <2> HIDE DEF x, ci
  <2> QED BY <1>3, <2>1, <2>2
<1>6. GeomView[d] = x.geom /\ CountsView[d] = x.counts /\ TotalView[d] = x.total /\ d \in Name BY Views
<1> HIDE DEF x, ci
<1>7. /\ Plain(y) /\ y.geom = x.geom /\ y.total = x.total + n
      /\ y.counts = [x.counts EXCEPT ![ci] = x.counts[ci] + n]
  BY <1>1, <1>5, SetCountFacts
<1> HIDE DEF y
<1>8. 0 \in 0..MaxCount BY <1>3
<1>9. /\ Sound'
      /\ GeomView' = [GeomView EXCEPT ![d] = y.geom]
      /\ CountsView' = [CountsView EXCEPT ![d] = y.counts]
      /\ TotalView' = [TotalView EXCEPT ![d] = y.total]
  BY <1>1, <1>2, <1>7, <1>8, DenseSound
<1>10. Smaller(0, MaxCount - (x.total + n)) = 0 BY <1>3, <1>5 DEF Smaller
<1>11. x.counts \in [0..(x.geom.countsLen - 1) -> 0..MaxCount] BY <1>1 DEF Plain
<1>12. DOMAIN y.counts = 0..(x.geom.countsLen - 1) /\ y.counts = [i \in 0..(x.geom.countsLen - 1) |-> y.counts[i]]
  BY <1>7, <1>11
<1>13. \A i \in 0..(x.geom.countsLen - 1) :
         y.counts[i] = x.counts[i] + (IF i = ci THEN n ELSE 0) + Missed(x.geom, v, 0, 0, i)
  <2> SUFFICES ASSUME NEW i \in 0..(x.geom.countsLen - 1)
               PROVE  y.counts[i] = x.counts[i] + (IF i = ci THEN n ELSE 0) + Missed(x.geom, v, 0, 0, i)
    OBVIOUS
  <2>1. y.counts[i] = IF i = ci THEN x.counts[i] + n ELSE x.counts[i] BY <1>7, <1>11
  <2>2. Missed(x.geom, v, 0, 0, i) = 0 BY MissedFacts
  <2>3. x.counts[i] \in 0..MaxCount BY <1>11
  <2> QED BY <1>3, <2>1, <2>2, <2>3
<1>14. Store!Record(d, v, n, 0, 0)
  <2> DEFINE e == y.counts
  <2>1. e = [i \in 0..(GeomView[d].countsLen - 1) |-> e[i]] BY <1>6, <1>12
  <2>2. TotalView[d] \in 0..MaxCount /\ DOMAIN CountsView[d] = 0..(GeomView[d].countsLen - 1)
    BY <1>3, <1>6, <1>11
  <2>3. CountsIndexFor(GeomView[d], v) \in 0..(GeomView[d].countsLen - 1) /\ n \in Nat /\ n <= MaxCount - TotalView[d]
    BY <1>5, <1>6 DEF ci
  <2>4. \A i \in 0..(GeomView[d].countsLen - 1) :
          e[i] = CountsView[d][i] + (IF i = CountsIndexFor(GeomView[d], v) THEN n ELSE 0)
                   + Missed(GeomView[d], v, 0, Smaller(0, MaxCount - (TotalView[d] + n)), i)
    BY <1>6, <1>10, <1>13 DEF ci
  <2>5. GeomView' = [GeomView EXCEPT ![d] = GeomView[d]] /\ CountsView' = [CountsView EXCEPT ![d] = e]
    BY <1>6, <1>7, <1>9
  <2>6. TotalView' = [TotalView EXCEPT ![d] = TotalView[d] + n + Smaller(0, MaxCount - (TotalView[d] + n))]
    <3>1. y.total = x.total + n + 0 BY <1>3, <1>7
    <3> QED BY <1>6, <1>9, <1>10, <3>1
  <2> HIDE DEF e
  <2>7. d \in Name /\ dropped' = 0 BY <1>1, <1>6
  <2>8. 0 \in Nat OBVIOUS
  <2> QED BY <1>5, <2>1, <2>2, <2>3, <2>4, <2>5, <2>6, <2>7, <2>8, RecordStep
<1> QED BY <1>9, <1>14

\* A rejected record call.
LEMMA RejectedStep ==
  ASSUME Sound, NEW v, NEW n, RecordRejected(v, n)
  PROVE  Sound' /\ Store!Keep
<1>1. packed' = packed /\ dense' = dense /\ dropped' = 0 /\ 0 \in 0..MaxCount
  BY MaxCountAssumption DEF RecordRejected
<1>2. Sound' /\ GeomView' = GeomView /\ CountsView' = CountsView /\ TotalView' = TotalView BY <1>1, KeepsSound
<1> QED BY <1>1, <1>2, StoreKeep

\* A histogram without values.
LEMMA ZeroSum ==
  ASSUME NEW len \in Nat
  PROVE  PrefixSum([i \in 0..(len - 1) |-> 0])[len] = 0
<1> DEFINE c == [i \in 0..(len - 1) |-> 0]
<1>1. c \in [0..(len - 1) -> Nat] /\ \A i \in 0..(len - 1) : c[i] = 0 OBVIOUS
<1> HIDE DEF c
<1>2. len \in 0..len OBVIOUS
<1>3. PrefixSum(c)[len] = 0 BY <1>1, <1>2, PrefixSumOfZeros
<1> QED BY <1>3 DEF c

\* Reset.
LEMMA ResetStep ==
  ASSUME Sound, NEW p \in Packed, Reset(p)
  PROVE  Sound' /\ Store!Become(p, GeomView[p], [i \in DOMAIN CountsView[p] |-> 0])
<1> DEFINE r == packed[p]
<1> DEFINE x == [r EXCEPT !.idx = Empty, !.cnt = Empty, !.size = 0, !.total = 0]
<1>1. Good(r) /\ Becomes(p, x) /\ dropped' = 0 BY DEF Sound, Reset
<1>2. Good(x) /\ x.geom = r.geom /\ x.total = 0 /\ \A i : Count(x, i) = 0
  <2> HIDE DEF r
  <2> QED BY <1>1, ResetFacts, Zenon
<1>3. GeomView[p] = r.geom /\ CountsView[p] = Spread(r) /\ p \in Name BY Views
<1>4. r.geom.countsLen \in Nat /\ 0 \in 0..MaxCount BY <1>1, MaxCountAssumption, GeometriesBuilt DEF Good, Stored
<1> HIDE DEF r, x
<1>5. /\ Sound'
      /\ GeomView' = [GeomView EXCEPT ![p] = x.geom]
      /\ CountsView' = [CountsView EXCEPT ![p] = Spread(x)]
      /\ TotalView' = [TotalView EXCEPT ![p] = x.total]
  BY <1>1, <1>2, <1>4, BecomesSound
<1> DEFINE c == [i \in DOMAIN CountsView[p] |-> 0]
<1>6. DOMAIN CountsView[p] = 0..(r.geom.countsLen - 1) BY <1>3 DEF Spread
<1>7. Spread(x) = c BY <1>2, <1>6 DEF Spread
<1>8. PrefixSum(c)[r.geom.countsLen] = 0 BY <1>4, <1>6, ZeroSum
<1> HIDE DEF c
<1>9. Smaller(MaxCount, PrefixSum(c)[GeomView[p].countsLen]) = 0 BY <1>3, <1>8, MaxCountAssumption DEF Smaller
<1>10. /\ GeomView' = [GeomView EXCEPT ![p] = GeomView[p]] /\ CountsView' = [CountsView EXCEPT ![p] = c]
       /\ TotalView' = [TotalView EXCEPT ![p] = Smaller(MaxCount, PrefixSum(c)[GeomView[p].countsLen])]
  BY <1>2, <1>3, <1>5, <1>7, <1>9
<1>11. Store!Become(p, GeomView[p], c)
  <2> DEFINE g == GeomView[p]
  <2>1. /\ GeomView' = [GeomView EXCEPT ![p] = g] /\ CountsView' = [CountsView EXCEPT ![p] = c]
        /\ TotalView' = [TotalView EXCEPT ![p] = Smaller(MaxCount, PrefixSum(c)[g.countsLen])] /\ dropped' = 0
    BY <1>1, <1>10
  <2> HIDE DEF g
  <2>2. Store!Become(p, g, c) BY <2>1, StoreGeometry DEF Store!Become, GeomView, CountsView, TotalView
  <2> QED BY <2>2 DEF g
<1> QED BY <1>5, <1>11 DEF c

\* Reset of a dense partner.
LEMMA ResetDenseStep ==
  ASSUME Sound, NEW d \in Dense, ResetDense(d)
  PROVE  Sound' /\ Store!Become(d, GeomView[d], [i \in DOMAIN CountsView[d] |-> 0])
<1> DEFINE x == dense[d]
<1> DEFINE y == NewDense(x.geom)
<1>1. Plain(x) /\ dense' = [dense EXCEPT ![d] = y] /\ packed' = packed /\ dropped' = 0 BY DEF Sound, ResetDense
<1>2. x.geom \in Geometries /\ DOMAIN x.counts = 0..(x.geom.countsLen - 1) BY <1>1 DEF Plain
<1>3. /\ Plain(y) /\ y.geom = x.geom /\ y.total = 0
      /\ y.counts = [i \in 0..(x.geom.countsLen - 1) |-> 0]
  <2> HIDE DEF x
  <2> QED BY <1>2, NewDenseFacts
<1>4. GeomView[d] = x.geom /\ CountsView[d] = x.counts /\ d \in Name BY Views
<1>5. x.geom.countsLen \in Nat /\ 0 \in 0..MaxCount BY <1>2, MaxCountAssumption, GeometriesBuilt
<1> HIDE DEF x, y
<1>6. /\ Sound'
      /\ GeomView' = [GeomView EXCEPT ![d] = y.geom]
      /\ CountsView' = [CountsView EXCEPT ![d] = y.counts]
      /\ TotalView' = [TotalView EXCEPT ![d] = y.total]
  BY <1>1, <1>3, <1>5, DenseSound
<1> DEFINE c == [i \in DOMAIN CountsView[d] |-> 0]
<1>7. y.counts = c BY <1>2, <1>3, <1>4
<1>8. PrefixSum(c)[x.geom.countsLen] = 0 BY <1>2, <1>4, <1>5, ZeroSum
<1> HIDE DEF c
<1>9. Smaller(MaxCount, PrefixSum(c)[GeomView[d].countsLen]) = 0 BY <1>4, <1>8, MaxCountAssumption DEF Smaller
<1>10. /\ GeomView' = [GeomView EXCEPT ![d] = GeomView[d]] /\ CountsView' = [CountsView EXCEPT ![d] = c]
       /\ TotalView' = [TotalView EXCEPT ![d] = Smaller(MaxCount, PrefixSum(c)[GeomView[d].countsLen])]
  BY <1>3, <1>4, <1>6, <1>7, <1>9
<1>11. Store!Become(d, GeomView[d], c)
  <2> DEFINE g == GeomView[d]
  <2>1. /\ GeomView' = [GeomView EXCEPT ![d] = g] /\ CountsView' = [CountsView EXCEPT ![d] = c]
        /\ TotalView' = [TotalView EXCEPT ![d] = Smaller(MaxCount, PrefixSum(c)[g.countsLen])] /\ dropped' = 0
    BY <1>1, <1>10
  <2> HIDE DEF g
  <2>2. Store!Become(d, g, c) BY <2>1, StoreGeometry DEF Store!Become, GeomView, CountsView, TotalView
  <2> QED BY <2>2 DEF g
<1> QED BY <1>6, <1>11 DEF c

\* Compact changes nothing that the store sees.
LEMMA CompactStep ==
  ASSUME Sound, NEW p \in Packed, Compact(p)
  PROVE  Sound' /\ Store!Keep
<1> DEFINE r == packed[p]
<1> DEFINE w == CHOOSE k \in 1..Top : /\ \A i \in 0..(r.size - 1) : r.cnt[i] <= Limit[k]
                                      /\ \A j \in 1..(k - 1) : \E i \in 0..(r.size - 1) : r.cnt[i] > Limit[j]
<1> DEFINE x == Repacked(r, w)
<1>1. Good(r) /\ Becomes(p, x) /\ dropped' = 0 BY DEF Sound, Compact
<1>2. w \in 1..Top /\ \A i \in 0..(r.size - 1) : r.cnt[i] <= Limit[w]
  <2> HIDE DEF r
  <2>1. Stored(r) BY <1>1 DEF Good
  <2> QED BY <2>1, CompactWidth, Zenon
<1>3. GeomView[p] = r.geom /\ CountsView[p] = Spread(r) /\ TotalView[p] = r.total /\ p \in Name BY Views
<1> HIDE DEF r, w
<1>4. Good(x) /\ x.geom = r.geom /\ x.total = r.total /\ \A i : Count(x, i) = Count(r, i)
  BY <1>1, <1>2, CompactFacts
<1> HIDE DEF x
<1>5. 0 \in 0..MaxCount BY MaxCountAssumption
<1>6. /\ Sound'
      /\ GeomView' = [GeomView EXCEPT ![p] = x.geom]
      /\ CountsView' = [CountsView EXCEPT ![p] = Spread(x)]
      /\ TotalView' = [TotalView EXCEPT ![p] = x.total]
  BY <1>1, <1>4, <1>5, BecomesSound
<1>7. Spread(x) = Spread(r) BY <1>4 DEF Spread
<1>8. /\ GeomView' = [GeomView EXCEPT ![p] = GeomView[p]] /\ CountsView' = [CountsView EXCEPT ![p] = CountsView[p]]
      /\ TotalView' = [TotalView EXCEPT ![p] = TotalView[p]]
  BY <1>3, <1>4, <1>6, <1>7
<1>9. /\ GeomView = [s \in Name |-> GeomView[s]] /\ CountsView = [s \in Name |-> CountsView[s]]
      /\ TotalView = [s \in Name |-> TotalView[s]]
  BY DEF GeomView, CountsView, TotalView
<1>10. GeomView' = GeomView /\ CountsView' = CountsView /\ TotalView' = TotalView BY <1>8, <1>9
<1> QED BY <1>1, <1>6, <1>10, StoreKeep

\* Clone.
LEMMA CloneStep ==
  ASSUME Sound, NEW p \in Packed, NEW q \in Packed, Clone(p, q)
  PROVE  Sound' /\ Store!Become(q, GeomView[p], CountsView[p])
<1> DEFINE r == packed[p]
<1> DEFINE g == GeomView[p]
<1> DEFINE c == CountsView[p]
<1>1. Good(r) /\ Becomes(q, r) /\ dropped' = 0 BY DEF Sound, Clone
<1>2. g = r.geom /\ c = Spread(r) BY Views
<1> HIDE DEF r, g, c
<1>3. 0 \in 0..MaxCount BY MaxCountAssumption
<1>4. /\ Sound'
      /\ GeomView' = [GeomView EXCEPT ![q] = r.geom]
      /\ CountsView' = [CountsView EXCEPT ![q] = Spread(r)]
      /\ TotalView' = [TotalView EXCEPT ![q] = r.total]
  BY <1>1, <1>3, BecomesSound
<1>5. r.total = Smaller(MaxCount, PrefixSum(c)[g.countsLen]) BY <1>1, <1>2, SpreadSum DEF Good
<1>6. /\ GeomView' = [GeomView EXCEPT ![q] = g] /\ CountsView' = [CountsView EXCEPT ![q] = c]
      /\ TotalView' = [TotalView EXCEPT ![q] = Smaller(MaxCount, PrefixSum(c)[g.countsLen])] /\ dropped' = 0
  BY <1>1, <1>2, <1>4, <1>5
<1>7. Store!Become(q, g, c) BY <1>6, StoreGeometry DEF Store!Become, GeomView, CountsView, TotalView
<1> QED BY <1>4, <1>7 DEF g, c

\* DecodePacked: a stream that is refused changes nothing, and one that is accepted
\* denotes the counts it loads.
LEMMA DecodeStep ==
  ASSUME Sound, NEW p \in Packed, NEW g \in Geometries, NEW t \in Payloads, DecodePacked(p, g, t)
  PROVE  /\ Sound'
         /\ \/ Store!Keep
            \/ Denotes(t, g) /\ Store!Become(p, Denoted(t, g).geom, Denoted(t, g).counts)
<1>1. dropped' = 0 /\ 0 \in 0..MaxCount BY MaxCountAssumption DEF DecodePacked
<1>2. CASE Filled(g, t).err
  <2>1. packed' = packed /\ dense' = dense BY <1>2 DEF DecodePacked
  <2>2. Sound' /\ GeomView' = GeomView /\ CountsView' = CountsView /\ TotalView' = TotalView
    BY <1>1, <2>1, KeepsSound
  <2> QED BY <1>1, <2>2, StoreKeep
<1>3. CASE ~Filled(g, t).err
  <2> DEFINE x == Decoded(g, t)
  <2> DEFINE c == Denoted(t, g).counts
  <2>1. Becomes(p, x) BY <1>3 DEF DecodePacked
  <2>2. t \in Seq(Int64) BY InputAssumption
  <2>3. Good(x) /\ x.geom = g /\ Denotes(t, g) /\ Spread(x) = c BY <1>3, <2>2, DecodedFacts
  <2>4. Denoted(t, g).geom = g BY DEF Denoted
  <2> HIDE DEF x, c
  <2>5. /\ Sound'
        /\ GeomView' = [GeomView EXCEPT ![p] = x.geom]
        /\ CountsView' = [CountsView EXCEPT ![p] = Spread(x)]
        /\ TotalView' = [TotalView EXCEPT ![p] = x.total]
    BY <1>1, <2>1, <2>3, BecomesSound
  <2>6. Stored(x) /\ x.total = Smaller(MaxCount, Sum(x)) BY <2>3 DEF Good
  <2>7. PrefixSum(Spread(x))[x.geom.countsLen] = Sum(x) BY <2>6, SpreadSum
  <2>8. x.total = Smaller(MaxCount, PrefixSum(c)[g.countsLen]) BY <2>3, <2>6, <2>7
  <2>9. /\ GeomView' = [GeomView EXCEPT ![p] = g] /\ CountsView' = [CountsView EXCEPT ![p] = c]
        /\ TotalView' = [TotalView EXCEPT ![p] = Smaller(MaxCount, PrefixSum(c)[g.countsLen])] /\ dropped' = 0
    BY <1>1, <2>3, <2>5, <2>8
  <2>10. Store!Become(p, g, c) BY <2>9, StoreGeometry DEF Store!Become, GeomView, CountsView, TotalView
  <2> QED BY <2>3, <2>4, <2>5, <2>10 DEF c
<1> QED BY <1>2, <1>3

\* What Merge, MergeFrom and MergeInto compute is what the store computes.
LEMMA MergesAgree ==
  ASSUME Sound
  PROVE  /\ \A p, q \in Packed : /\ Merging(Merged(p, q), packed[p].geom)
                                 /\ View(Merged(p, q)) = Store!Rerecorded(p, q)
         /\ \A p \in Packed, d \in Dense :
              /\ Merging(MergedFrom(packed[p], dense[d]), packed[p].geom)
              /\ View(MergedFrom(packed[p], dense[d])) = Store!Rerecorded(p, d)
              /\ MergingDense(MergedInto(packed[p], dense[d]), dense[d].geom)
              /\ ViewDense(MergedInto(packed[p], dense[d])) = Store!Rerecorded(d, p)
<1>1. \A p \in Packed : /\ Good(packed[p]) /\ packed[p].geom.countsLen \in Nat /\ p \in Name
                        /\ GeomView[p] = packed[p].geom /\ CountsView[p] = Spread(packed[p])
                        /\ TotalView[p] = packed[p].total
  BY Views, GeometriesBuilt DEF Sound, Good, Stored
<1>2. \A d \in Dense : /\ Plain(dense[d]) /\ dense[d].geom.countsLen \in Nat /\ d \in Name
                       /\ GeomView[d] = dense[d].geom /\ CountsView[d] = dense[d].counts
                       /\ TotalView[d] = dense[d].total
  BY Views, GeometriesBuilt DEF Sound, Plain
<1>3. ASSUME NEW p \in Packed, NEW q \in Packed
      PROVE  Merging(Merged(p, q), packed[p].geom) /\ View(Merged(p, q)) = Store!Rerecorded(p, q)
  <2>1. p \in Name /\ q \in Name /\ GeomView[q].countsLen \in Nat BY <1>1
  <2>2. PICK f : /\ Rerecording(f, GeomView[p], CountsView[p], TotalView[p], GeomView[q], CountsView[q])
                 /\ Store!Rerecorded(p, q) = f[GeomView[q].countsLen]
    BY <2>1, RerecordedFacts
  <2>3. /\ Rerecording(f, packed[p].geom, Spread(packed[p]), packed[p].total, packed[q].geom, Spread(packed[q]))
        /\ Store!Rerecorded(p, q) = f[packed[q].geom.countsLen]
    BY <1>1, <2>2
  <2>4. Good(packed[p]) /\ Good(packed[q]) BY <1>1
  <2>5. Merging(Merged(p, q), packed[p].geom) /\ View(Merged(p, q)) = f[packed[q].geom.countsLen]
    BY <2>3, <2>4, MergedFacts
  <2> QED BY <2>3, <2>5
<1>4. ASSUME NEW p \in Packed, NEW d \in Dense
      PROVE  /\ Merging(MergedFrom(packed[p], dense[d]), packed[p].geom)
             /\ View(MergedFrom(packed[p], dense[d])) = Store!Rerecorded(p, d)
             /\ MergingDense(MergedInto(packed[p], dense[d]), dense[d].geom)
             /\ ViewDense(MergedInto(packed[p], dense[d])) = Store!Rerecorded(d, p)
  <2>1. p \in Name /\ d \in Name /\ GeomView[p].countsLen \in Nat /\ GeomView[d].countsLen \in Nat BY <1>1, <1>2
  <2>2. PICK f : /\ Rerecording(f, GeomView[p], CountsView[p], TotalView[p], GeomView[d], CountsView[d])
                 /\ Store!Rerecorded(p, d) = f[GeomView[d].countsLen]
    BY <2>1, RerecordedFacts
  <2>3. PICK h : /\ Rerecording(h, GeomView[d], CountsView[d], TotalView[d], GeomView[p], CountsView[p])
                 /\ Store!Rerecorded(d, p) = h[GeomView[p].countsLen]
    BY <2>1, RerecordedFacts
  <2> DEFINE r == packed[p]
  <2> DEFINE x == dense[d]
  <2>4. /\ GeomView[p] = r.geom /\ CountsView[p] = Spread(r) /\ TotalView[p] = r.total
        /\ GeomView[d] = x.geom /\ CountsView[d] = x.counts /\ TotalView[d] = x.total
        /\ Good(r) /\ Plain(x)
    BY <1>1, <1>2
  <2> HIDE DEF r, x
  <2>5. /\ Rerecording(f, r.geom, Spread(r), r.total, x.geom, x.counts)
        /\ Store!Rerecorded(p, d) = f[x.geom.countsLen]
    BY <2>2, <2>4
  <2>6. /\ Rerecording(h, x.geom, x.counts, x.total, r.geom, Spread(r))
        /\ Store!Rerecorded(d, p) = h[r.geom.countsLen]
    BY <2>3, <2>4
  <2>7. Merging(MergedFrom(r, x), r.geom) /\ View(MergedFrom(r, x)) = f[x.geom.countsLen]
    BY <2>4, <2>5, MergedFromFacts
  <2>8. MergingDense(MergedInto(r, x), x.geom) /\ ViewDense(MergedInto(r, x)) = h[r.geom.countsLen]
    BY <2>4, <2>6, MergedIntoFacts
  <2>9. /\ Merging(MergedFrom(r, x), r.geom) /\ View(MergedFrom(r, x)) = Store!Rerecorded(p, d)
        /\ MergingDense(MergedInto(r, x), x.geom) /\ ViewDense(MergedInto(r, x)) = Store!Rerecorded(d, p)
    BY <2>5, <2>6, <2>7, <2>8
  <2> QED BY <2>9 DEF r, x
<1> QED BY <1>3, <1>4

\* The fields of what a merge computes.
LEMMA EntryFields ==
  ASSUME NEW e, NEW c, NEW t, NEW d, Entry(c, t, d) = e
  PROVE  e.counts = c /\ e.total = t /\ e.dropped = d
BY DEF Entry

\* A merge into a packed histogram.
LEMMA MergeIntoPacked ==
  ASSUME Sound, NEW p \in Packed, NEW from, NEW a, Merging(a, packed[p].geom), View(a) = Store!Rerecorded(p, from),
         Becomes(p, a.hist), dropped' = a.dropped
  PROVE  Sound' /\ Store!Merge(p, from)
<1> DEFINE e == Store!Rerecorded(p, from)
<1> DEFINE x == a.hist
<1>1. Good(x) /\ x.geom = packed[p].geom /\ dropped' \in 0..MaxCount BY DEF Merging
<1>2. e.counts = Spread(x) /\ e.total = x.total /\ e.dropped = a.dropped
  <2>1. Entry(Spread(x), x.total, a.dropped) = e BY DEF View
  <2> HIDE DEF e, x
  <2> QED BY <2>1, EntryFields
<1>3. Becomes(p, x) OBVIOUS
<1>4. GeomView[p] = packed[p].geom BY Views
<1> HIDE DEF e, x
<1>5. /\ Sound'
      /\ GeomView' = [GeomView EXCEPT ![p] = x.geom]
      /\ CountsView' = [CountsView EXCEPT ![p] = Spread(x)]
      /\ TotalView' = [TotalView EXCEPT ![p] = x.total]
  BY <1>1, <1>3, BecomesSound
<1>6. GeomView' = GeomView
  <2>1. GeomView = [s \in Name |-> GeomView[s]] BY DEF GeomView
  <2> QED BY <1>1, <1>4, <1>5, <2>1
<1>7. /\ CountsView' = [CountsView EXCEPT ![p] = e.counts] /\ TotalView' = [TotalView EXCEPT ![p] = e.total]
      /\ dropped' = e.dropped /\ GeomView' = GeomView
  BY <1>2, <1>5, <1>6
<1>8. Store!Merge(p, from) BY <1>7 DEF e, Store!Merge, GeomView, CountsView, TotalView
<1> QED BY <1>5, <1>8

\* Merge.
LEMMA MergeStep ==
  ASSUME Sound, NEW p \in Packed, NEW q \in Packed, Merge(p, q)
  PROVE  Sound' /\ Store!Merge(p, q)
<1> DEFINE a == Merged(p, q)
<1>1. Merging(a, packed[p].geom) /\ View(a) = Store!Rerecorded(p, q) BY MergesAgree
<1>2. Becomes(p, a.hist) /\ dropped' = a.dropped BY DEF Merge
<1> HIDE DEF a
<1> QED BY <1>1, <1>2, MergeIntoPacked

\* MergeFrom.
LEMMA MergeFromStep ==
  ASSUME Sound, NEW p \in Packed, NEW d \in Dense, MergeFrom(p, d)
  PROVE  Sound' /\ Store!Merge(p, d)
<1> DEFINE a == MergedFrom(packed[p], dense[d])
<1>1. Merging(a, packed[p].geom) /\ View(a) = Store!Rerecorded(p, d) BY MergesAgree
<1>2. Becomes(p, a.hist) /\ dropped' = a.dropped BY DEF MergeFrom
<1> HIDE DEF a
<1> QED BY <1>1, <1>2, MergeIntoPacked

\* MergeInto.
LEMMA MergeIntoStep ==
  ASSUME Sound, NEW p \in Packed, NEW d \in Dense, MergeInto(p, d)
  PROVE  Sound' /\ Store!Merge(d, p)
<1> DEFINE a == MergedInto(packed[p], dense[d])
<1> DEFINE e == Store!Rerecorded(d, p)
<1> DEFINE x == a.hist
<1>1. MergingDense(a, dense[d].geom) /\ ViewDense(a) = e BY MergesAgree
<1>2. dense' = [dense EXCEPT ![d] = x] /\ packed' = packed /\ dropped' = a.dropped BY DEF MergeInto
<1>3. Plain(x) /\ x.geom = dense[d].geom /\ dropped' \in 0..MaxCount BY <1>1, <1>2 DEF MergingDense
<1>4. e.counts = x.counts /\ e.total = x.total /\ e.dropped = a.dropped
  <2>1. Entry(x.counts, x.total, a.dropped) = e BY <1>1 DEF ViewDense
  <2> HIDE DEF e, x, a
  <2> QED BY <2>1, EntryFields
<1>5. GeomView[d] = dense[d].geom BY Views
<1> HIDE DEF e, x, a
<1>6. /\ Sound'
      /\ GeomView' = [GeomView EXCEPT ![d] = x.geom]
      /\ CountsView' = [CountsView EXCEPT ![d] = x.counts]
      /\ TotalView' = [TotalView EXCEPT ![d] = x.total]
  BY <1>2, <1>3, DenseSound
<1>7. GeomView' = GeomView
  <2>1. GeomView = [s \in Name |-> GeomView[s]] BY DEF GeomView
  <2> QED BY <1>3, <1>5, <1>6, <2>1
<1>8. /\ CountsView' = [CountsView EXCEPT ![d] = e.counts] /\ TotalView' = [TotalView EXCEPT ![d] = e.total]
      /\ dropped' = e.dropped /\ GeomView' = GeomView
  BY <1>2, <1>4, <1>6, <1>7
<1>9. Store!Merge(d, p) BY <1>8 DEF e, Store!Merge, GeomView, CountsView, TotalView
<1> QED BY <1>6, <1>9

-----------------------------------------------------------------------------
(* The specification.                                                       *)

\* Histograms start sound, and as the store starts.
LEMMA SoundInit ==
  ASSUME Init
  PROVE  Sound /\ Store!StoreInit
<1>1. PICK f \in [Packed -> Geometries] : packed = [p \in Packed |-> NewPacked(f[p])] BY DEF Init
<1>2. PICK h \in [Dense -> Geometries] : dense = [d \in Dense |-> NewDense(h[d])] BY DEF Init
<1>3. dropped = 0 BY DEF Init
<1>4. ASSUME NEW p \in Packed
      PROVE  /\ Good(packed[p]) /\ packed[p].geom = f[p] /\ packed[p].total = 0
             /\ f[p] \in Geometries /\ \A i : Count(packed[p], i) = 0
  <2> DEFINE g == f[p]
  <2>1. packed[p] = NewPacked(g) /\ g \in Geometries BY <1>1
  <2> HIDE DEF g
  <2>2. Good(NewPacked(g)) /\ NewPacked(g).geom = g /\ \A i : Count(NewPacked(g), i) = 0 BY <2>1, NewFacts
  <2>3. NewPacked(g).total = 0 BY DEF NewPacked
  <2>4. Good(packed[p]) /\ packed[p].geom = g /\ packed[p].total = 0 /\ \A i : Count(packed[p], i) = 0
    BY <2>1, <2>2, <2>3
  <2> QED BY <2>1, <2>4 DEF g
<1>5. ASSUME NEW d \in Dense
      PROVE  /\ Plain(dense[d]) /\ dense[d].geom = h[d] /\ dense[d].total = 0
             /\ h[d] \in Geometries /\ dense[d].counts = [i \in 0..(dense[d].geom.countsLen - 1) |-> 0]
  <2> DEFINE g == h[d]
  <2>1. dense[d] = NewDense(g) /\ g \in Geometries BY <1>2
  <2> HIDE DEF g
  <2>2. /\ Plain(NewDense(g)) /\ NewDense(g).geom = g /\ NewDense(g).total = 0
        /\ NewDense(g).counts = [i \in 0..(g.countsLen - 1) |-> 0]
    BY <2>1, NewDenseFacts
  <2>3. /\ Plain(dense[d]) /\ dense[d].geom = g /\ dense[d].total = 0
        /\ dense[d].counts = [i \in 0..(dense[d].geom.countsLen - 1) |-> 0]
    BY <2>1, <2>2
  <2> QED BY <2>1, <2>3 DEF g
<1>6. Sound
  <2>1. DOMAIN packed = Packed /\ DOMAIN dense = Dense BY <1>1, <1>2
  <2>2. dropped \in 0..MaxCount BY <1>3, MaxCountAssumption
  <2> QED BY <1>4, <1>5, <2>1, <2>2 DEF Sound
<1>7. \A s \in Name : GeomView[s] \in Geometries /\ TotalView[s] = 0
  BY <1>4, <1>5, Views DEF Name
<1>8. ASSUME NEW s \in Name PROVE CountsView[s] = [i \in 0..(GeomView[s].countsLen - 1) |-> 0]
  <2>1. CASE s \in Packed
    <3>1. CountsView[s] = Spread(packed[s]) /\ GeomView[s] = packed[s].geom BY <2>1, Views
    <3>2. \A i : Count(packed[s], i) = 0 BY <1>4, <2>1
    <3> QED BY <3>1, <3>2 DEF Spread
  <2>2. CASE s \in Dense
    <3>1. CountsView[s] = dense[s].counts /\ GeomView[s] = dense[s].geom BY <2>2, Views
    <3>2. dense[s].counts = [i \in 0..(dense[s].geom.countsLen - 1) |-> 0] BY <1>5, <2>2
    <3> QED BY <3>1, <3>2
  <2> QED BY <2>1, <2>2 DEF Name
<1>9. /\ GeomView = [s \in Name |-> GeomView[s]] /\ CountsView = [s \in Name |-> CountsView[s]]
      /\ TotalView = [s \in Name |-> TotalView[s]]
  BY DEF GeomView, CountsView, TotalView
<1>10. /\ GeomView \in [Name -> Geometries]
       /\ CountsView = [s \in Name |-> [i \in 0..(GeomView[s].countsLen - 1) |-> 0]]
       /\ TotalView = [s \in Name |-> 0]
  <2>1. GeomView \in [Name -> Geometries] /\ TotalView = [s \in Name |-> 0] BY <1>7, <1>9
  <2> DEFINE Z(s) == [i \in 0..(GeomView[s].countsLen - 1) |-> 0]
  <2>2. \A s \in Name : CountsView[s] = Z(s) BY <1>8
  <2>3. CountsView = [s \in Name |-> Z(s)]
    <3> HIDE DEF Z
    <3> QED BY <1>9, <2>2
  <2> QED BY <2>1, <2>3
<1>11. Store!StoreInit BY <1>3, <1>10 DEF Store!StoreInit, Store!Positions, GeomView, CountsView, TotalView
<1> QED BY <1>6, <1>11

\* Every step of the specification keeps the invariant and is a step of the store or
\* leaves it as it is.
LEMMA SoundNext ==
  ASSUME Sound, [Next]_vars
  PROVE  Sound' /\ [Store!StoreNext]_Store!storeVars
<1>1. Packed \subseteq Name /\ Dense \subseteq Name BY DEF Name
<1>2. ASSUME NEW v \in Values, NEW n \in Amounts, RecordRejected(v, n)
      PROVE  Sound' /\ Store!StoreNext
  BY <1>2, RejectedStep DEF Store!StoreNext
<1>3. ASSUME NEW p \in Packed, NEW v \in Values, NEW n \in Amounts, RecordValues(p, v, n)
      PROVE  Sound' /\ Store!StoreNext
  <2>1. Sound' /\ Store!Record(p, v, n, 0, 0) BY <1>3, RecordValuesStep
  <2> QED BY <1>1, <2>1 DEF Store!StoreNext
<1>4. ASSUME NEW p \in Packed, NEW v \in Values, NEW i \in Intervals, RecordCorrectedValue(p, v, i)
      PROVE  Sound' /\ Store!StoreNext
  <2>1. Sound' /\ Store!Record(p, v, 1, IF i > 0 /\ v > i THEN v \div i - 1 ELSE 0, i)
    BY <1>4, RecordCorrectedStep
  <2> QED BY <1>1, <2>1, Zenon DEF Store!StoreNext
<1>5. ASSUME NEW p \in Packed, Reset(p) PROVE Sound' /\ Store!StoreNext
  <2>1. Sound' /\ Store!Become(p, GeomView[p], [i \in DOMAIN CountsView[p] |-> 0]) BY <1>5, ResetStep
  <2>2. \E s \in Name : \E from \in Name : Store!Become(s, GeomView[from], [i \in DOMAIN CountsView[from] |-> 0])
    BY <1>1, <2>1, Zenon DEF Store!Become
  <2> QED BY <2>1, <2>2, Zenon DEF Store!StoreNext, GeomView, CountsView
<1>6. ASSUME NEW p \in Packed, Compact(p) PROVE Sound' /\ Store!StoreNext
  BY <1>6, CompactStep DEF Store!StoreNext
<1>7. ASSUME NEW p \in Packed, NEW q \in Packed, Merge(p, q) PROVE Sound' /\ Store!StoreNext
  <2>1. Sound' /\ Store!Merge(p, q) BY <1>7, MergeStep
  <2> QED BY <1>1, <2>1, Zenon DEF Store!StoreNext
<1>8. ASSUME NEW p \in Packed, NEW q \in Packed, Clone(p, q) PROVE Sound' /\ Store!StoreNext
  <2>1. Sound' /\ Store!Become(q, GeomView[p], CountsView[p]) BY <1>8, CloneStep
  <2>2. \E s \in Name : \E from \in Name : Store!Become(s, GeomView[from], CountsView[from])
    BY <1>1, <2>1, Zenon DEF Store!Become
  <2> QED BY <2>1, <2>2, Zenon DEF Store!StoreNext, GeomView, CountsView
<1>9. ASSUME NEW p \in Packed, NEW d \in Dense, MergeFrom(p, d) PROVE Sound' /\ Store!StoreNext
  <2>1. Sound' /\ Store!Merge(p, d) BY <1>9, MergeFromStep
  <2> QED BY <1>1, <2>1, Zenon DEF Store!StoreNext
<1>10. ASSUME NEW p \in Packed, NEW d \in Dense, MergeInto(p, d) PROVE Sound' /\ Store!StoreNext
  <2>1. Sound' /\ Store!Merge(d, p) BY <1>10, MergeIntoStep
  <2> QED BY <1>1, <2>1, Zenon DEF Store!StoreNext
<1>11. ASSUME NEW p \in Packed, NEW g \in Geometries, NEW t \in Payloads, DecodePacked(p, g, t)
       PROVE  Sound' /\ Store!StoreNext
  <2>1. /\ Sound'
        /\ \/ Store!Keep
           \/ Denotes(t, g) /\ Store!Become(p, Denoted(t, g).geom, Denoted(t, g).counts)
    BY <1>11, DecodeStep
  <2>2. CASE Store!Keep BY <2>1, <2>2 DEF Store!StoreNext
  <2>3. CASE Denotes(t, g) /\ Store!Become(p, Denoted(t, g).geom, Denoted(t, g).counts)
    <3> DEFINE x == Denoted(t, g)
    <3>1. x \in {Denoted(z[1], z[2]) : z \in {y \in Payloads \X Geometries : Denotes(y[1], y[2])}}
      <4> DEFINE z == <<t, g>>
      <4>1. z \in Payloads \X Geometries /\ z[1] = t /\ z[2] = g OBVIOUS
      <4> HIDE DEF z
      <4> QED BY <2>3, <4>1, Zenon
    <3>2. Store!Become(p, x.geom, x.counts) BY <2>3
    <3> HIDE DEF x
    <3> QED BY <1>1, <2>1, <3>1, <3>2, Zenon DEF Store!StoreNext
  <2> QED BY <2>1, <2>2, <2>3
<1>12. ASSUME NEW d \in Dense, ResetDense(d) PROVE Sound' /\ Store!StoreNext
  <2>1. Sound' /\ Store!Become(d, GeomView[d], [i \in DOMAIN CountsView[d] |-> 0]) BY <1>12, ResetDenseStep
  <2>2. \E s \in Name : \E from \in Name : Store!Become(s, GeomView[from], [i \in DOMAIN CountsView[from] |-> 0])
    BY <1>1, <2>1, Zenon DEF Store!Become
  <2> QED BY <2>1, <2>2, Zenon DEF Store!StoreNext, GeomView, CountsView
<1>13. ASSUME NEW d \in Dense, NEW v \in Values, NEW n \in Amounts, RecordDense(d, v, n)
       PROVE  Sound' /\ Store!StoreNext
  <2>1. Sound' /\ Store!Record(d, v, n, 0, 0) BY <1>13, RecordDenseStep
  <2> QED BY <1>1, <2>1 DEF Store!StoreNext
<1>14. ASSUME UNCHANGED vars PROVE Sound' /\ UNCHANGED Store!storeVars
  <2>1. packed' = packed /\ dense' = dense /\ dropped' = dropped BY <1>14 DEF vars
  <2>2. Sound' /\ GeomView' = GeomView /\ CountsView' = CountsView /\ TotalView' = TotalView
    <3>1. dropped' \in 0..MaxCount BY <2>1 DEF Sound
    <3> QED BY <2>1, <3>1, KeepsSound
  <2> QED BY <2>1, <2>2 DEF Store!storeVars, GeomView, CountsView, TotalView
<1>15. ASSUME Next PROVE Sound' /\ Store!StoreNext
  <2> HIDE DEF Sound, Store!StoreNext
  <2> QED BY <1>2, <1>3, <1>4, <1>5, <1>6, <1>7, <1>8, <1>9, <1>10, <1>11, <1>12, <1>13, <1>15, NamesAssumption, Zenon DEF Next
<1> QED BY <1>14, <1>15

\* The invariant holds throughout.
LEMMA AlwaysSound == Spec => []Sound
<1>1. Init => Sound BY SoundInit
<1>2. Sound /\ [Next]_vars => Sound' BY SoundNext
<1> QED BY <1>1, <1>2, PTL DEF Spec

\* Whatever calls were made on whichever histograms, the indices of every packed
\* histogram are strictly ascending positions of its geometry, and every stored count
\* is positive and fits in the slots of the current width (SlotsWellFormed).
THEOREM PackedWellFormed == Spec => []SlotsWellFormed
<1>1. Sound => SlotsWellFormed
  <2> SUFFICES ASSUME Sound PROVE SlotsWellFormed OBVIOUS
  <2>1. ASSUME NEW p \in Packed
        PROVE  /\ HistOK(packed[p])
               /\ \A i \in 1..(packed[p].size - 1) : packed[p].idx[i - 1] < packed[p].idx[i]
               /\ \A i \in 0..(packed[p].size - 1) : packed[p].cnt[i] > 0
    <3> DEFINE r == packed[p]
    <3>1. Stored(r) /\ r.total \in 0..MaxCount BY DEF Sound, Good
    <3> HIDE DEF r
    <3>2. r.size \in 0..r.geom.countsLen BY <3>1, SizeBound
    <3>3. Limit[r.width] \in Nat BY <3>1, LimitFacts DEF Stored
    <3>4. r.cnt \in [0..(r.size - 1) -> 0..Limit[r.width]] /\ \A i \in 0..(r.size - 1) : r.cnt[i] > 0
      <4>1. r.cnt \in [0..(r.size - 1) -> 1..Limit[r.width]] BY <3>1 DEF Stored
      <4>2. \A i \in 0..(r.size - 1) : r.cnt[i] \in 1..Limit[r.width] BY <4>1
      <4>3. \A c \in 1..Limit[r.width] : c \in 0..Limit[r.width] /\ c > 0 BY <3>3
      <4> QED BY <4>1, <4>2, <4>3
    <3>5. HistOK(r) BY <3>1, <3>2, <3>4 DEF HistOK, Stored
    <3>6. ASSUME NEW i \in 1..(r.size - 1) PROVE r.idx[i - 1] < r.idx[i]
      <4>1. r.size \in Nat /\ Ascending(r.idx, r.size) BY <3>1 DEF Stored
      <4>2. i - 1 \in 0..(r.size - 1) /\ i \in 0..(r.size - 1) /\ i - 1 < i BY <4>1
      <4> QED BY <4>1, <4>2 DEF Ascending
    <3>7. HistOK(r) /\ (\A i \in 1..(r.size - 1) : r.idx[i - 1] < r.idx[i]) /\ \A i \in 0..(r.size - 1) : r.cnt[i] > 0
      BY <3>4, <3>5, <3>6
    <3> QED BY <3>7 DEF r
  <2>2. ASSUME NEW d \in Dense
        PROVE  /\ dense[d].geom \in Geometries
               /\ dense[d].counts \in [0..(dense[d].geom.countsLen - 1) -> 0..MaxCount]
               /\ dense[d].total \in 0..MaxCount
    BY DEF Sound, Plain
  <2>3. DOMAIN packed = Packed /\ DOMAIN dense = Dense /\ dropped \in 0..MaxCount BY DEF Sound
  <2> QED BY <2>1, <2>2, <2>3 DEF SlotsWellFormed, TypeOK
<1> QED BY <1>1, AlwaysSound, PTL

\* The total of every packed histogram is the sum of its stored counts, held at
\* MaxCount when a decoded stream sums past it (TotalSaturates).
THEOREM PackedTotals == Spec => []TotalSaturates
<1>1. Sound => TotalSaturates BY DEF Sound, Good, Sum, TotalSaturates
<1> QED BY <1>1, AlwaysSound, PTL

\* In every reachable state RecordValues, with whatever cached position, raises one
\* count by what is recorded, and the three merges, by whichever path, compute what
\* re-recording the source position by position computes (CallsExact).
THEOREM PackedCallsExact == Spec => []CallsExact
<1>1. Sound => RecordExact
  <2> SUFFICES ASSUME Sound, NEW p \in Packed, NEW v \in Values, NEW n \in Amounts,
                      ~RecordFails(packed[p], v, n)
               PROVE  LET r == packed[p]
                          after == Recorded(r, v, n)
                      IN  /\ after.total = r.total + n
                          /\ \A i \in 0..(r.geom.countsLen - 1) :
                               Count(after, i) = Count(r, i) + (IF i = CountsIndexFor(r.geom, v) THEN n ELSE 0)
    BY DEF RecordExact
  <2> DEFINE r == packed[p]
  <2>1. Good(r) /\ n \in Int64 /\ r.geom.countsLen \in Nat
    BY InputAssumption, GeometriesBuilt DEF Sound, Good, Stored
  <2>2. ~RecordFails(r, v, n) OBVIOUS
  <2> HIDE DEF r
  <2> DEFINE after == Recorded(r, v, n)
  <2> DEFINE ci == CountsIndexFor(r.geom, v)
  <2>3. Gains(r, after, ci, n) BY <2>1, <2>2, RecordedFacts
  <2> HIDE DEF after, ci
  <2>4. after.total = r.total + n /\ \A i \in Int : Count(after, i) = Count(r, i) + (IF i = ci THEN n ELSE 0)
    BY <2>3 DEF Gains, Adds
  <2>5. \A i \in 0..(r.geom.countsLen - 1) : i \in Int OBVIOUS
  <2>6. /\ after.total = r.total + n
        /\ \A i \in 0..(r.geom.countsLen - 1) : Count(after, i) = Count(r, i) + (IF i = ci THEN n ELSE 0)
    BY <2>4, <2>5
  <2> QED BY <2>6 DEF r, after, ci
<1>2. Sound => MergesExact
  <2> SUFFICES ASSUME Sound PROVE MergesExact OBVIOUS
  <2> DEFINE C(x) == IF "counts" \in DOMAIN x THEN x.counts ELSE [i \in 0..(x.geom.countsLen - 1) |-> Count(x, i)]
  <2> DEFINE Agrees(m, e) == [counts |-> C(m.hist), total |-> m.hist.total, dropped |-> m.dropped] = e
  <2>1. ASSUME NEW m, NEW g, NEW e, Merging(m, g), View(m) = e PROVE Agrees(m, e)
    <3>1. "counts" \notin DOMAIN m.hist BY <2>1 DEF Merging, Good, Stored, Fields
    <3>2. C(m.hist) = Spread(m.hist) BY <3>1 DEF Spread
    <3> HIDE DEF C
    <3> QED BY <2>1, <3>2 DEF View, Entry
  <2>2. ASSUME NEW m, NEW g, NEW e, MergingDense(m, g), ViewDense(m) = e PROVE Agrees(m, e)
    <3>1. "counts" \in DOMAIN m.hist BY <2>2 DEF MergingDense, Plain
    <3>2. C(m.hist) = m.hist.counts BY <3>1
    <3> HIDE DEF C
    <3> QED BY <2>2, <3>2 DEF ViewDense, Entry
  <2> HIDE DEF Agrees
  <2>3. \A p, q \in Packed : Agrees(Merged(p, q), Store!Rerecorded(p, q)) BY <2>1, MergesAgree
  <2>4. \A p \in Packed, d \in Dense : /\ Agrees(MergedFrom(packed[p], dense[d]), Store!Rerecorded(p, d))
                                       /\ Agrees(MergedInto(packed[p], dense[d]), Store!Rerecorded(d, p))
    BY <2>1, <2>2, MergesAgree
  <2> QED BY <2>3, <2>4, Zenon DEF MergesExact, Agrees
<1>3. Sound => CallsExact BY <1>1, <1>2 DEF CallsExact
<1> QED BY <1>3, AlwaysSound, PTL

\* The packed type with its dense partners implements the abstract store of counts
\* under the refinement mapping that spreads the stored buckets over the positions of
\* the geometry (ImplementsStore): every call is a call of the store.
THEOREM PackedImplementsStore == Spec => ImplementsStore
<1>1. Init => Store!StoreInit BY SoundInit
<1>2. Sound /\ [Next]_vars => [Store!StoreNext]_Store!storeVars BY SoundNext
<1> QED BY <1>1, <1>2, AlwaysSound, PTL DEF Spec, ImplementsStore, Store!StoreSpec

-----------------------------------------------------------------------------
(* Walks over the buckets.                                                  *)

\* The count of the first k buckets.
Acc(r, k) == PrefixSum(r.cnt)[k]

\* Running counts grow, and at a narrow width they are within the limit: "a block
\* cannot overflow int64" (packed.go:345).
LEMMA AccFacts ==
  ASSUME NEW r, Stored(r)
  PROVE  /\ r.size \in Nat /\ Acc(r, 0) = 0
         /\ \A k \in 0..r.size : Acc(r, k) \in Nat
         /\ \A k \in 0..(r.size - 1) : Acc(r, k + 1) = Acc(r, k) + r.cnt[k] /\ r.cnt[k] \in 1..MaxCount
         /\ \A n \in 0..r.size : \A k \in 0..n : Acc(r, k) <= Acc(r, n)
         /\ r.width < Top => \A k \in 0..r.size : Acc(r, k) <= MaxCount
<1>1. r.size \in Nat BY DEF Stored
<1>2. \A k \in 0..(r.size - 1) : r.cnt[k] \in Nat /\ r.cnt[k] \in 1..MaxCount BY BucketFacts
<1>3. \A k \in 0..(r.size - 1) : Acc(r, k + 1) = Acc(r, k) + r.cnt[k] BY <1>1, PrefixSumStep DEF Acc
<1>4. /\ \A n \in 0..r.size : \A k \in 0..n : Acc(r, k) <= Acc(r, n)
      /\ \A k \in 0..r.size : Acc(r, k) \in Nat
  <2>1. \A n \in 0..r.size : n \in 0..n BY <1>1
  <2> QED BY <1>1, <1>2, <2>1, PrefixSumMonotone DEF Acc
<1>5. Acc(r, 0) = 0 BY PrefixSumZero DEF Acc
<1>6. ASSUME r.width < Top PROVE \A k \in 0..r.size : Acc(r, k) <= MaxCount
  <2> DEFINE L == Limit[r.width]
  <2> DEFINE N == r.geom.countsLen
  <2>1. r.width \in 1..(Top - 1) /\ L \in Nat BY <1>6, LimitFacts DEF Stored
  <2>2. \A k \in 0..(r.size - 1) : r.cnt[k] <= L
    <3>1. r.cnt \in [0..(r.size - 1) -> 1..L] BY DEF Stored
    <3> HIDE DEF L
    <3>2. \A k \in 0..(r.size - 1) : r.cnt[k] \in 1..L BY <3>1
    <3> QED BY <2>1, <3>2
  <2>3. N * L <= MaxCount /\ N \in Nat /\ r.size <= N
    <3>1. r.geom \in Geometries BY DEF Stored
    <3>2. r.size \in 0..N BY SizeBound
    <3> QED BY <2>1, <3>1, <3>2, GeometriesBuilt, NarrowAssumption
  <2> HIDE DEF L, N
  <2> DEFINE T == {k \in Nat : k <= r.size => Acc(r, k) <= k * L}
  <2>4. 0 \in T BY <1>5, <2>1
  <2>5. ASSUME NEW k \in T PROVE k + 1 \in T
    <3> SUFFICES ASSUME k + 1 <= r.size PROVE Acc(r, k + 1) <= (k + 1) * L OBVIOUS
    <3>1. k \in Nat /\ k \in 0..(r.size - 1) /\ k \in 0..r.size /\ Acc(r, k) <= k * L BY <1>1
    <3> HIDE DEF T
    <3>2. Acc(r, k + 1) = Acc(r, k) + r.cnt[k] /\ r.cnt[k] <= L /\ r.cnt[k] \in Nat /\ Acc(r, k) \in Nat
      BY <1>2, <1>3, <1>4, <2>2, <3>1
    <3>3. (k + 1) * L = k * L + L /\ k * L \in Nat BY <2>1, <3>1
    <3> QED BY <2>1, <3>1, <3>2, <3>3
  <2>6. T = Nat
    <3>1. T \in SUBSET Nat OBVIOUS
    <3> HIDE DEF T
    <3> QED BY <2>4, <2>5, <3>1, SetInduction
  <2>7. ASSUME NEW k \in 0..r.size PROVE Acc(r, k) <= MaxCount
    <3>1. k \in T /\ k \in Nat /\ k <= N BY <1>1, <2>3, <2>6
    <3>2. Acc(r, k) <= k * L /\ Acc(r, k) \in Nat BY <1>4, <3>1
    <3>3. k * L <= N * L
      <4>1. N - k \in Nat BY <2>3, <3>1
      <4>2. (N - k) * L \in Nat BY <2>1, <4>1
      <4>3. N * L = k * L + (N - k) * L BY <2>1, <2>3, <3>1
      <4>4. k * L \in Nat BY <2>1, <3>1
      <4> QED BY <4>2, <4>3, <4>4
    <3>4. k * L \in Nat /\ N * L \in Nat BY <2>1, <2>3, <3>1
    <3> QED BY <2>3, <3>2, <3>3, <3>4, MaxCountAssumption
  <2> QED BY <2>7
<1> QED BY <1>1, <1>2, <1>3, <1>4, <1>5, <1>6

\* The sum of a part of an array.
LEMMA PartSum ==
  ASSUME NEW c, NEW i \in Nat, NEW b \in Nat, NEW d, \A j \in 0..(b - 1) : d[j] = c[i + j],
         \A n \in 0..(i + b) : PrefixSum(c)[n] \in Int, \A n \in 0..((i + b) - 1) : c[n] \in Int
  PROVE  PrefixSum(d)[b] = PrefixSum(c)[i + b] - PrefixSum(c)[i]
<1> DEFINE T == {n \in Nat : n <= b => PrefixSum(d)[n] = PrefixSum(c)[i + n] - PrefixSum(c)[i]}
<1>1. 0 \in T
  <2>1. i \in 0..(i + b) /\ i + 0 = i OBVIOUS
  <2>2. PrefixSum(c)[i] \in Int BY <2>1
  <2> QED BY <2>1, <2>2, PrefixSumZero
<1>2. ASSUME NEW n \in T PROVE n + 1 \in T
  <2> SUFFICES ASSUME n + 1 <= b PROVE PrefixSum(d)[n + 1] = PrefixSum(c)[i + (n + 1)] - PrefixSum(c)[i] OBVIOUS
  <2>1. n \in Nat /\ n \in 0..(b - 1) /\ PrefixSum(d)[n] = PrefixSum(c)[i + n] - PrefixSum(c)[i] OBVIOUS
  <2> HIDE DEF T
  <2>2. PrefixSum(d)[n + 1] = PrefixSum(d)[n] + d[n] /\ d[n] = c[i + n] BY <2>1, PrefixSumStep
  <2>3. i + n \in Nat /\ i + (n + 1) = (i + n) + 1 BY <2>1
  <2>4. PrefixSum(c)[(i + n) + 1] = PrefixSum(c)[i + n] + c[i + n] BY <2>3, PrefixSumStep
  <2>5. i + n \in 0..(i + b) /\ i + n \in 0..((i + b) - 1) /\ i \in 0..(i + b) BY <2>1
  <2>6. PrefixSum(c)[i + n] \in Int /\ c[i + n] \in Int /\ PrefixSum(c)[i] \in Int BY <2>5
  <2> QED BY <2>1, <2>2, <2>3, <2>4, <2>6
<1>3. T = Nat
  <2>1. T \in SUBSET Nat OBVIOUS
  <2> HIDE DEF T
  <2> QED BY <1>1, <1>2, <2>1, SetInduction
<1> QED BY <1>3

\* The sum of a block of a narrow width.
LEMMA BlockSumFacts ==
  ASSUME NEW r, Stored(r), r.width < Top, NEW i \in Nat, i + ScanBlock <= r.size
  PROVE  BlockSum(r, i, Acc(r, i)) = Acc(r, i + ScanBlock)
<1> DEFINE b == ScanBlock
<1> DEFINE d == [j \in 0..(b - 1) |-> r.cnt[i + j]]
<1>1. b \in Nat BY InputAssumption
<1>2. r.size \in Nat /\ \A k \in 0..r.size : Acc(r, k) \in Nat /\ Acc(r, k) <= MaxCount BY AccFacts
<1>3. \A n \in 0..(i + b) : PrefixSum(r.cnt)[n] \in Int
  <2>1. \A n \in 0..(i + b) : n \in 0..r.size BY <1>1, <1>2
  <2>2. \A n \in 0..r.size : PrefixSum(r.cnt)[n] \in Nat BY <1>2 DEF Acc
  <2> QED BY <2>1, <2>2
<1>4. \A n \in 0..((i + b) - 1) : r.cnt[n] \in Int
  <2>1. \A n \in 0..((i + b) - 1) : n \in 0..(r.size - 1) BY <1>1, <1>2
  <2>2. \A n \in 0..(r.size - 1) : r.cnt[n] \in Nat BY BucketFacts
  <2> QED BY <2>1, <2>2
<1>5. \A j \in 0..(b - 1) : d[j] = r.cnt[i + j] OBVIOUS
<1>6. BlockSum(r, i, Acc(r, i)) = Wrap64(Acc(r, i) + PrefixSum(d)[b]) BY DEF BlockSum
<1> HIDE DEF b, d
<1>7. PrefixSum(d)[b] = Acc(r, i + b) - Acc(r, i) BY <1>1, <1>3, <1>4, <1>5, PartSum DEF Acc
<1>8. i \in 0..r.size /\ i + b \in 0..r.size BY <1>1, <1>2 DEF b
<1>9. Acc(r, i) \in Nat /\ Acc(r, i + b) \in Nat /\ Acc(r, i + b) <= MaxCount BY <1>2, <1>8
<1>10. Acc(r, i) + PrefixSum(d)[b] = Acc(r, i + b) /\ Acc(r, i + b) \in 0..MaxCount BY <1>7, <1>9, MaxCountAssumption
<1>11. Acc(r, i + b) \in Int64 BY <1>10, Int64Facts
<1> QED BY <1>6, <1>10, <1>11, Wrap64Id DEF b

\* The state of a walk: the buckets before s.i are counted.
Walking(r, s) ==
  /\ s.i \in 0..r.size /\ s.stop \in 0..r.size
  /\ s.running = Smaller(MaxCount, Acc(r, s.i))
  /\ s.stop > 0 => r.width < Top

\* How far a walk is: a block that is entered counts as a step.
Measure(s) == IF s.stop > s.i THEN 2 * s.i + 1 ELSE 2 * s.i

\* Counting one more bucket.
LEMMA RunningFacts ==
  ASSUME NEW r, Stored(r), NEW s, Walking(r, s), s.i # r.size
  PROVE  /\ s.i \in 0..(r.size - 1) /\ s.i + 1 \in 0..r.size
         /\ Running(r, s) = Smaller(MaxCount, Acc(r, s.i + 1))
<1> DEFINE i == s.i
<1>1. r.size \in Nat /\ i \in 0..r.size /\ i # r.size BY AccFacts DEF Walking
<1>2. i \in 0..(r.size - 1) /\ i + 1 \in 0..r.size /\ i \in Nat BY <1>1
<1>3. /\ Acc(r, i + 1) = Acc(r, i) + r.cnt[i] /\ r.cnt[i] \in 1..MaxCount
      /\ Acc(r, i) \in Nat /\ Acc(r, i + 1) \in Nat
  BY <1>2, AccFacts
<1>4. s.running = Smaller(MaxCount, Acc(r, i)) /\ s.stop \in 0..r.size BY DEF Walking
<1>5. MaxCount \in Nat BY MaxCountAssumption
<1>6. CASE i < s.stop
  <2>1. s.stop > 0 BY <1>1, <1>2, <1>4, <1>6
  <2>2. r.width < Top BY <2>1 DEF Walking
  <2>3. Acc(r, i + 1) <= MaxCount BY <1>2, <2>2, AccFacts
  <2>4. Acc(r, i) <= MaxCount /\ Acc(r, i + 1) \in 0..MaxCount BY <1>3, <1>5, <2>3
  <2>5. s.running = Acc(r, i) /\ Smaller(MaxCount, Acc(r, i + 1)) = Acc(r, i + 1)
    BY <1>3, <1>4, <1>5, <2>3, <2>4 DEF Smaller
  <2>6. Acc(r, i + 1) \in Int64 BY <2>4, Int64Facts
  <2>7. Running(r, s) = Wrap64(s.running + r.cnt[i]) BY <1>6 DEF Running
  <2>8. Running(r, s) = Acc(r, i + 1) BY <1>3, <2>5, <2>6, <2>7, Wrap64Id
  <2> QED BY <1>2, <2>5, <2>8
<1>7. CASE ~(i < s.stop)
  <2>1. Running(r, s) = AddDropped(s.running, r.cnt[i]) BY <1>7 DEF Running
  <2>2. s.running \in 0..MaxCount /\ r.cnt[i] \in 0..MaxCount BY <1>3, <1>4, <1>5 DEF Smaller
  <2>3. Running(r, s) = Smaller(MaxCount, s.running + r.cnt[i]) BY <2>1, <2>2, AddDroppedFacts
  <2>4. Smaller(MaxCount, s.running + r.cnt[i]) = Smaller(MaxCount, Acc(r, i) + r.cnt[i])
    BY <1>3, <1>4, <1>5 DEF Smaller
  <2> QED BY <1>2, <1>3, <2>3, <2>4
<1> QED BY <1>6, <1>7

\* At a block a walk enters it or, when the block does not reach the target, passes it.
LEMMA BlockStepFacts ==
  ASSUME NEW r, Stored(r), NEW s, {"i", "stop", "running"} \subseteq DOMAIN s, Walking(r, s), AtBlock(r, s),
         NEW target \in Int
  PROVE  LET x == BlockStep(r, s, target) IN
         /\ DOMAIN x = DOMAIN s /\ \A f \in DOMAIN s : f \notin {"i", "stop", "running"} => x[f] = s[f]
         /\ Walking(r, x) /\ Measure(x) > Measure(s) /\ Measure(s) \in Nat /\ Measure(x) \in Nat
         /\ x.i = s.i \/ Acc(r, x.i) < target
<1> DEFINE i == s.i
<1> DEFINE b == ScanBlock
<1>1. /\ i \in Nat /\ i \in 0..r.size /\ s.stop \in 0..r.size /\ r.size \in Nat /\ b \in Nat \ {0}
      /\ i >= s.stop /\ r.width < Top /\ i + b <= r.size
  BY AccFacts, InputAssumption DEF Walking, AtBlock
<1>2. i + b \in 0..r.size BY <1>1
<1>3. Acc(r, i) \in Nat /\ Acc(r, i) <= MaxCount /\ Acc(r, i + b) \in Nat /\ Acc(r, i + b) <= MaxCount
  BY <1>1, <1>2, AccFacts
<1>4. s.running = Smaller(MaxCount, Acc(r, i)) BY DEF Walking
<1>5. s.running = Acc(r, i) /\ Smaller(MaxCount, Acc(r, i + b)) = Acc(r, i + b)
  BY <1>3, <1>4, MaxCountAssumption DEF Smaller
<1>6. BlockSum(r, i, s.running) = Acc(r, i + b) BY <1>1, <1>5, BlockSumFacts
<1>7. Measure(s) = 2 * i
  <2>1. ~(s.stop > s.i) BY <1>1
  <2> QED BY <2>1 DEF Measure
<1>8. CASE BlockCrosses(r, s, target)
  <2> DEFINE x == [s EXCEPT !.stop = i + b]
  <2>1. BlockStep(r, s, target) = x BY <1>8 DEF BlockStep
  <2>2. DOMAIN x = DOMAIN s /\ \A f \in DOMAIN s : f \notin {"i", "stop", "running"} => x[f] = s[f] OBVIOUS
  <2>3. x.i = i /\ x.stop = i + b /\ x.running = s.running OBVIOUS
  <2> HIDE DEF x
  <2>4. Walking(r, x)
    <3>1. x.i \in 0..r.size /\ x.stop \in 0..r.size BY <1>1, <1>2, <2>3
    <3>2. x.running = Smaller(MaxCount, Acc(r, x.i)) BY <1>4, <2>3
    <3> QED BY <1>1, <3>1, <3>2 DEF Walking
  <2>5. Measure(x) = 2 * i + 1
    <3>1. x.stop > x.i BY <1>1, <2>3
    <3> QED BY <2>3, <3>1 DEF Measure
  <2>6. Measure(x) > Measure(s) /\ Measure(s) \in Nat /\ Measure(x) \in Nat BY <1>1, <1>7, <2>5
  <2> QED BY <2>1, <2>2, <2>3, <2>4, <2>6
<1>9. CASE ~BlockCrosses(r, s, target)
  <2> DEFINE x == [s EXCEPT !.i = i + b, !.running = BlockSum(r, i, s.running)]
  <2>1. BlockStep(r, s, target) = x BY <1>9 DEF BlockStep
  <2>2. DOMAIN x = DOMAIN s /\ \A f \in DOMAIN s : f \notin {"i", "stop", "running"} => x[f] = s[f] OBVIOUS
  <2>3. x.i = i + b /\ x.stop = s.stop /\ x.running = Acc(r, i + b) BY <1>6
  <2> HIDE DEF x
  <2>4. Walking(r, x)
    <3>1. x.i \in 0..r.size /\ x.stop \in 0..r.size BY <1>1, <1>2, <2>3
    <3>2. x.running = Smaller(MaxCount, Acc(r, x.i)) BY <1>5, <2>3
    <3> QED BY <1>1, <3>1, <3>2 DEF Walking
  <2>5. Measure(x) = 2 * (i + b)
    <3>1. ~(x.stop > x.i) BY <1>1, <2>3
    <3> QED BY <2>3, <3>1 DEF Measure
  <2>6. Measure(x) > Measure(s) /\ Measure(s) \in Nat /\ Measure(x) \in Nat BY <1>1, <1>7, <2>5
  <2>7. Acc(r, x.i) < target BY <1>3, <1>6, <1>9, <2>3 DEF BlockCrosses
  <2> QED BY <2>1, <2>2, <2>4, <2>6, <2>7
<1> QED BY <1>8, <1>9

\* Bucket m is the first at which the count reaches t.
Crosses(r, t, m) == m \in 0..(r.size - 1) /\ Acc(r, m) < t /\ t <= Acc(r, m + 1)

\* There is only one such bucket.
LEMMA CrossesOnce ==
  ASSUME NEW r, Stored(r), NEW t \in Int, NEW m, NEW n, Crosses(r, t, m), Crosses(r, t, n)
  PROVE  m = n
<1>1. r.size \in Nat /\ m \in 0..(r.size - 1) /\ n \in 0..(r.size - 1) BY AccFacts DEF Crosses
<1>2. m + 1 \in 0..r.size /\ n + 1 \in 0..r.size /\ m \in 0..r.size /\ n \in 0..r.size BY <1>1
<1>3. Acc(r, m) \in Nat /\ Acc(r, n) \in Nat /\ Acc(r, m + 1) \in Nat /\ Acc(r, n + 1) \in Nat
  BY <1>2, AccFacts
<1>4. ~(m < n)
  <2> SUFFICES ASSUME m < n PROVE FALSE OBVIOUS
  <2>1. m + 1 \in 0..n BY <1>1
  <2>2. Acc(r, m + 1) <= Acc(r, n) BY <1>2, <2>1, AccFacts
  <2> QED BY <1>3, <2>2 DEF Crosses
<1>5. ~(n < m)
  <2> SUFFICES ASSUME n < m PROVE FALSE OBVIOUS
  <2>1. n + 1 \in 0..m BY <1>1
  <2>2. Acc(r, n + 1) <= Acc(r, m) BY <1>2, <2>1, AccFacts
  <2> QED BY <1>3, <2>2 DEF Crosses
<1> QED BY <1>1, <1>4, <1>5

\* valueFromIdxAtCount is a loop.
LEMMA ScanLoop ==
  ASSUME NEW r, NEW target, (2 * r.size) \in Nat
  PROVE  \E g : /\ g[0] = [i |-> 0, stop |-> 0, running |-> 0, at |-> -1]
                /\ \A k \in 0..((2 * r.size) - 1) : g[k + 1] = ScanStep(r, target, g[k])
                /\ ValueFromIdxAtCount(r, target) =
                     IF g[2 * r.size].at >= 0 THEN ValueFromFlatIndex(r.geom, r.idx[g[2 * r.size].at]) ELSE 0
<1> DEFINE N == (2 * r.size)
<1> DEFINE start == [i |-> 0, stop |-> 0, running |-> 0, at |-> -1]
<1> DEFINE Eq(p, n) == p = [k \in 0..n |-> IF k = 0 THEN start ELSE ScanStep(r, target, p[k - 1])]
<1> DEFINE T == {n \in Nat : \E p : Eq(p, n)}
<1>1. 0 \in T
  <2>1. Eq([k \in 0..0 |-> start], 0) OBVIOUS
  <2> QED BY <2>1
<1>2. ASSUME NEW n \in T PROVE n + 1 \in T
  <2>1. PICK p : Eq(p, n) OBVIOUS
  <2> DEFINE h == [k \in 0..(n + 1) |-> IF k = n + 1 THEN ScanStep(r, target, p[n]) ELSE p[k]]
  <2>2. ASSUME NEW k \in 0..(n + 1)
        PROVE  h[k] = IF k = 0 THEN start ELSE ScanStep(r, target, h[k - 1])
    <3> HIDE DEF start
    <3>1. CASE k = n + 1
      <4>1. k - 1 = n /\ k # 0 /\ h[k - 1] = p[n] BY <3>1
      <4>2. h[k] = ScanStep(r, target, p[n]) BY <3>1
      <4> HIDE DEF h
      <4> QED BY <3>1, <4>1, <4>2
    <3>2. CASE k # n + 1
      <4>1. k \in 0..n /\ h[k] = p[k] /\ (k # 0 => h[k - 1] = p[k - 1]) BY <3>2
      <4> HIDE DEF h
      <4>2. p[k] = IF k = 0 THEN start ELSE ScanStep(r, target, p[k - 1]) BY <2>1, <4>1
      <4> QED BY <4>1, <4>2
    <3> QED BY <3>1, <3>2
  <2>3. Eq(h, n + 1)
    <3> DEFINE d == [k \in 0..(n + 1) |-> IF k = 0 THEN start ELSE ScanStep(r, target, h[k - 1])]
    <3>1. \A k \in 0..(n + 1) : h[k] = d[k] BY <2>2
    <3>2. h = d BY <3>1
    <3> QED BY <3>2
  <2>4. \E q : Eq(q, n + 1)
    <3> HIDE DEF h, Eq
    <3> QED BY <2>3
  <2> HIDE DEF Eq
  <2> QED BY <2>4
<1>3. T = Nat
  <2>1. T \in SUBSET Nat OBVIOUS
  <2> HIDE DEF T
  <2> QED BY <1>1, <1>2, <2>1, SetInduction
<1>4. \E p : Eq(p, N)
  <2> HIDE DEF Eq
  <2> QED BY <1>3
<1> DEFINE after == CHOOSE p : Eq(p, N)
<1>5. Eq(after, N)
  <2> HIDE DEF Eq
  <2> QED BY <1>4
<1>6. ValueFromIdxAtCount(r, target) =
                     IF after[2 * r.size].at >= 0 THEN ValueFromFlatIndex(r.geom, r.idx[after[2 * r.size].at]) ELSE 0 BY DEF ValueFromIdxAtCount
<1> HIDE DEF after
<1>7. after[0] = start BY <1>5
<1>8. ASSUME NEW k \in 0..(N - 1) PROVE after[k + 1] = ScanStep(r, target, after[k])
  <2>1. k + 1 \in 0..N /\ k + 1 # 0 /\ (k + 1) - 1 = k OBVIOUS
  <2> HIDE DEF start
  <2> QED BY <1>5, <2>1
<1> QED BY <1>6, <1>7, <1>8

\* The state of the walk for one target after k iterations.
Scanning(r, t, s, k) ==
  /\ DOMAIN s = {"i", "stop", "running", "at"}
  /\ Walking(r, s) /\ Acc(r, s.i) < t
  /\ s.at = -1 \/ (s.at \in Nat /\ Crosses(r, t, s.at))
  /\ s.at = -1 => s.i = r.size \/ Measure(s) >= k

\* One iteration.
LEMMA ScanStepFacts ==
  ASSUME NEW r, Stored(r), NEW t \in 1..MaxCount, NEW k \in Nat, NEW s, Scanning(r, t, s, k)
  PROVE  Scanning(r, t, ScanStep(r, t, s), k + 1)
<1> DEFINE x == ScanStep(r, t, s)
<1>1. /\ DOMAIN s = {"i", "stop", "running", "at"} /\ Walking(r, s) /\ Acc(r, s.i) < t
      /\ s.at = -1 \/ (s.at \in Nat /\ Crosses(r, t, s.at))
      /\ s.at = -1 => s.i = r.size \/ Measure(s) >= k
  BY DEF Scanning
<1>2. MaxCount \in Nat /\ t \in Int /\ t >= 1 /\ t <= MaxCount BY MaxCountAssumption
<1>3. CASE s.at >= 0 \/ s.i = r.size
  <2>1. x = s BY <1>3 DEF ScanStep
  <2>2. s.at = -1 => s.i = r.size BY <1>3
  <2> QED BY <1>1, <2>1, <2>2 DEF Scanning
<1>4. CASE ~(s.at >= 0 \/ s.i = r.size)
  <2>1. s.at = -1 /\ s.i # r.size BY <1>1, <1>4
  <2>2. Measure(s) >= k BY <1>1, <2>1
  <2>3. CASE AtBlock(r, s)
    <3> DEFINE y == BlockStep(r, s, t)
    <3>1. x = y BY <1>4, <2>3 DEF ScanStep
    <3>2. {"i", "stop", "running"} \subseteq DOMAIN s BY <1>1
    <3>3. /\ DOMAIN y = DOMAIN s /\ \A f \in DOMAIN s : f \notin {"i", "stop", "running"} => y[f] = s[f]
          /\ Walking(r, y) /\ Measure(y) > Measure(s) /\ Measure(s) \in Nat /\ Measure(y) \in Nat
          /\ y.i = s.i \/ Acc(r, y.i) < t
      BY <1>1, <1>2, <2>3, <3>2, BlockStepFacts
    <3> HIDE DEF x, y
    <3>4. y.at = -1
      <4>1. "at" \in DOMAIN s /\ "at" \notin {"i", "stop", "running"} BY <1>1
      <4> QED BY <2>1, <3>3, <4>1
    <3>5. Acc(r, y.i) < t BY <1>1, <3>3
    <3>6. Measure(y) >= k + 1 BY <2>2, <3>3
    <3>7. Scanning(r, t, y, k + 1) BY <1>1, <3>3, <3>4, <3>5, <3>6 DEF Scanning
    <3> QED BY <3>1, <3>7 DEF x
  <2>4. CASE ~AtBlock(r, s)
    <3> DEFINE i == s.i
    <3>1. i \in 0..(r.size - 1) /\ i + 1 \in 0..r.size /\ Running(r, s) = Smaller(MaxCount, Acc(r, i + 1))
      BY <1>1, <2>1, RunningFacts
    <3>2. Acc(r, i) \in Nat /\ Acc(r, i + 1) \in Nat /\ r.size \in Nat BY <3>1, AccFacts
    <3>3. Running(r, s) >= t <=> Acc(r, i + 1) >= t BY <1>2, <3>1, <3>2 DEF Smaller
    <3>4. CASE Running(r, s) >= t
      <4> DEFINE y == [s EXCEPT !.at = i]
      <4>1. x = y BY <1>4, <2>4, <3>4 DEF ScanStep
      <4>2. DOMAIN y = DOMAIN s /\ y.at = i /\ y.i = i /\ y.stop = s.stop /\ y.running = s.running BY <1>1
      <4> HIDE DEF x, y
      <4>3. Walking(r, y) BY <1>1, <4>2 DEF Walking
      <4>4. y.at \in Nat /\ Crosses(r, t, y.at) /\ y.at # -1
        <5>1. i \in Nat /\ i # -1 BY <3>1, <3>2
        <5> QED BY <1>1, <3>1, <3>2, <3>3, <3>4, <4>2, <5>1 DEF Crosses
      <4>5. Scanning(r, t, y, k + 1) BY <1>1, <4>2, <4>3, <4>4 DEF Scanning
      <4> QED BY <4>1, <4>5 DEF x
    <3>5. CASE ~(Running(r, s) >= t)
      <4> DEFINE y == [s EXCEPT !.i = i + 1, !.running = Running(r, s)]
      <4>1. x = y BY <1>4, <2>4, <3>5 DEF ScanStep
      <4>2. DOMAIN y = DOMAIN s /\ y.at = s.at /\ y.i = i + 1 /\ y.stop = s.stop /\ y.running = Running(r, s) BY <1>1
      <4> HIDE DEF x, y
      <4>3. Walking(r, y) BY <1>1, <3>1, <4>2 DEF Walking
      <4>4. Acc(r, y.i) < t BY <1>2, <3>2, <3>3, <3>5, <4>2
      <4>5. Measure(y) >= k + 1
        <5>1. s.stop \in Int /\ i \in Int BY <1>1, <3>1, <3>2 DEF Walking
        <5>2. Measure(y) >= 2 * i + 2 /\ Measure(s) <= 2 * i + 1 BY <4>2, <5>1 DEF Measure
        <5>3. Measure(y) \in Int /\ Measure(s) \in Int BY <4>2, <5>1 DEF Measure
        <5> QED BY <2>2, <5>1, <5>2, <5>3
      <4>6. Scanning(r, t, y, k + 1) BY <1>1, <2>1, <4>2, <4>3, <4>4, <4>5 DEF Scanning
      <4> QED BY <4>1, <4>6 DEF x
    <3> QED BY <3>4, <3>5
  <2> QED BY <2>3, <2>4
<1> QED BY <1>3, <1>4

\* A walk that has come to its end has passed every bucket.
LEMMA MeasureEnds ==
  ASSUME NEW r, Stored(r), NEW s, Walking(r, s), s.i = r.size \/ Measure(s) >= 2 * r.size
  PROVE  s.i = r.size
<1>1. r.size \in Nat /\ s.i \in 0..r.size /\ s.stop \in 0..r.size BY AccFacts DEF Walking
<1> QED BY <1>1 DEF Measure

\* valueFromIdxAtCount finds the bucket at which the count reaches the target.
LEMMA ScanFacts ==
  ASSUME NEW r, Good(r), NEW t \in 1..r.total
  PROVE  \E m : Crosses(r, t, m) /\ ValueFromIdxAtCount(r, t) = ValueFromFlatIndex(r.geom, r.idx[m])
<1> DEFINE N == 2 * r.size
<1>1. Stored(r) /\ r.total \in 0..MaxCount /\ r.total = Smaller(MaxCount, Acc(r, r.size)) /\ MaxCount \in Nat
  BY MaxCountAssumption DEF Good, Sum, Acc
<1>2. r.size \in Nat /\ N \in Nat /\ Acc(r, 0) = 0 BY <1>1, AccFacts
<1>3. t \in 1..MaxCount /\ t \in Int /\ t >= 1 BY <1>1
<1>4. PICK g : /\ g[0] = [i |-> 0, stop |-> 0, running |-> 0, at |-> -1]
               /\ \A k \in 0..(N - 1) : g[k + 1] = ScanStep(r, t, g[k])
               /\ ValueFromIdxAtCount(r, t) = IF g[N].at >= 0 THEN ValueFromFlatIndex(r.geom, r.idx[g[N].at]) ELSE 0
  BY <1>2, ScanLoop
<1> DEFINE T == {k \in Nat : k <= N => Scanning(r, t, g[k], k)}
<1>5. 0 \in T
  <2> DEFINE s == g[0]
  <2>1. DOMAIN s = {"i", "stop", "running", "at"} /\ s.i = 0 /\ s.stop = 0 /\ s.running = 0 /\ s.at = -1 BY <1>4
  <2> HIDE DEF s
  <2>2. Walking(r, s) BY <1>1, <1>2, <2>1 DEF Walking, Smaller
  <2>3. Measure(s) >= 0 BY <2>1 DEF Measure
  <2>4. Acc(r, s.i) < t BY <1>2, <1>3, <2>1
  <2>5. Scanning(r, t, s, 0) BY <2>1, <2>2, <2>3, <2>4 DEF Scanning
  <2> QED BY <2>5 DEF s
<1>6. ASSUME NEW k \in T PROVE k + 1 \in T
  <2> SUFFICES ASSUME k + 1 <= N PROVE Scanning(r, t, g[k + 1], k + 1) OBVIOUS
  <2>1. k \in Nat /\ k \in 0..(N - 1) /\ Scanning(r, t, g[k], k) BY <1>2
  <2> HIDE DEF T
  <2> DEFINE s == g[k]
  <2>2. Scanning(r, t, s, k) /\ g[k + 1] = ScanStep(r, t, s) BY <1>4, <2>1
  <2> HIDE DEF s
  <2> QED BY <1>1, <1>3, <2>1, <2>2, ScanStepFacts
<1>7. T = Nat
  <2>1. T \in SUBSET Nat OBVIOUS
  <2> HIDE DEF T
  <2> QED BY <1>5, <1>6, <2>1, SetInduction
<1> DEFINE s == g[N]
<1>8. Scanning(r, t, s, N)
  <2>1. N \in T /\ N <= N BY <1>2, <1>7
  <2> QED BY <2>1
<1> HIDE DEF T, s
<1>9. s.at # -1
  <2> SUFFICES ASSUME s.at = -1 PROVE FALSE OBVIOUS
  <2>1. s.i = r.size BY <1>1, <1>8, MeasureEnds DEF Scanning
  <2>2. Acc(r, r.size) < t BY <1>8, <2>1 DEF Scanning
  <2>3. r.size \in 0..r.size BY <1>2
  <2>4. Acc(r, r.size) \in Nat BY <1>1, <2>3, AccFacts
  <2>5. t <= r.total BY <1>1
  <2> QED BY <1>1, <1>3, <2>2, <2>4, <2>5 DEF Smaller
<1>10. s.at \in Nat /\ Crosses(r, t, s.at) BY <1>8, <1>9 DEF Scanning
<1>11. s.at >= 0 BY <1>10
<1>12. ValueFromIdxAtCount(r, t) = ValueFromFlatIndex(r.geom, r.idx[s.at]) BY <1>4, <1>11 DEF s
<1> QED BY <1>10, <1>12

\* The walk of ValueAtPercentilesSlice is a loop.
LEMMA SliceLoop ==
  ASSUME NEW r, NEW q, (2 * r.size) \in Nat
  PROVE  \E g : /\ g[0] = [i |-> 0, stop |-> 0, running |-> 0, j |-> 1, out |-> [x \in 1..Len(q) |-> 0]]
                /\ \A k \in 0..((2 * r.size) - 1) : g[k + 1] = SliceStep(r, q, Ordered(q), g[k])
                /\ ValuesAtRanks(r, q) = g[2 * r.size].out
<1> DEFINE N == (2 * r.size)
<1> DEFINE start == [i |-> 0, stop |-> 0, running |-> 0, j |-> 1, out |-> [x \in 1..Len(q) |-> 0]]
<1> DEFINE Eq(p, n) == p = [k \in 0..n |-> IF k = 0 THEN start ELSE SliceStep(r, q, Ordered(q), p[k - 1])]
<1> DEFINE T == {n \in Nat : \E p : Eq(p, n)}
<1>1. 0 \in T
  <2>1. Eq([k \in 0..0 |-> start], 0) OBVIOUS
  <2> QED BY <2>1
<1>2. ASSUME NEW n \in T PROVE n + 1 \in T
  <2>1. PICK p : Eq(p, n) OBVIOUS
  <2> DEFINE h == [k \in 0..(n + 1) |-> IF k = n + 1 THEN SliceStep(r, q, Ordered(q), p[n]) ELSE p[k]]
  <2>2. ASSUME NEW k \in 0..(n + 1)
        PROVE  h[k] = IF k = 0 THEN start ELSE SliceStep(r, q, Ordered(q), h[k - 1])
    <3> HIDE DEF start
    <3>1. CASE k = n + 1
      <4>1. k - 1 = n /\ k # 0 /\ h[k - 1] = p[n] BY <3>1
      <4>2. h[k] = SliceStep(r, q, Ordered(q), p[n]) BY <3>1
      <4> HIDE DEF h
      <4> QED BY <3>1, <4>1, <4>2
    <3>2. CASE k # n + 1
      <4>1. k \in 0..n /\ h[k] = p[k] /\ (k # 0 => h[k - 1] = p[k - 1]) BY <3>2
      <4> HIDE DEF h
      <4>2. p[k] = IF k = 0 THEN start ELSE SliceStep(r, q, Ordered(q), p[k - 1]) BY <2>1, <4>1
      <4> QED BY <4>1, <4>2
    <3> QED BY <3>1, <3>2
  <2>3. Eq(h, n + 1)
    <3> DEFINE d == [k \in 0..(n + 1) |-> IF k = 0 THEN start ELSE SliceStep(r, q, Ordered(q), h[k - 1])]
    <3>1. \A k \in 0..(n + 1) : h[k] = d[k] BY <2>2
    <3>2. h = d BY <3>1
    <3> QED BY <3>2
  <2>4. \E f : Eq(f, n + 1)
    <3> HIDE DEF h, Eq
    <3> QED BY <2>3
  <2> HIDE DEF Eq
  <2> QED BY <2>4
<1>3. T = Nat
  <2>1. T \in SUBSET Nat OBVIOUS
  <2> HIDE DEF T
  <2> QED BY <1>1, <1>2, <2>1, SetInduction
<1>4. \E p : Eq(p, N)
  <2> HIDE DEF Eq
  <2> QED BY <1>3
<1> DEFINE after == CHOOSE p : Eq(p, N)
<1>5. Eq(after, N)
  <2> HIDE DEF Eq
  <2> QED BY <1>4
<1>6. ValuesAtRanks(r, q) = after[2 * r.size].out BY DEF ValuesAtRanks
<1> HIDE DEF after
<1>7. after[0] = start BY <1>5
<1>8. ASSUME NEW k \in 0..(N - 1) PROVE after[k + 1] = SliceStep(r, q, Ordered(q), after[k])
  <2>1. k + 1 \in 0..N /\ k + 1 # 0 /\ (k + 1) - 1 = k OBVIOUS
  <2> HIDE DEF start
  <2> QED BY <1>5, <2>1
<1> QED BY <1>6, <1>7, <1>8

\* Two requests q in the ascending order o.
Sorted(q, o) ==
  /\ Len(q) = 2 /\ o \in [1..2 -> 1..2] /\ o[1] # o[2]
  /\ \A l \in 1..2 : q[o[l]].target \in Nat /\ q[o[l]].target <= MaxCount
  /\ q[o[1]].target <= q[o[2]].target

\* sort.Slice of two requests.
LEMMA OrderedFacts ==
  ASSUME NEW q, Len(q) = 2, \A l \in 1..2 : q[l].target \in Nat /\ q[l].target <= MaxCount
  PROVE  Sorted(q, Ordered(q))
<1> DEFINE P(o) == /\ \A a, b \in 1..2 : a # b => o[a] # o[b]
                   /\ \A a \in 2..2 : q[o[a - 1]].target <= q[o[a]].target
<1>1. Ordered(q) = CHOOSE o \in [1..2 -> 1..2] : P(o) BY DEF Ordered
<1>2. \E o \in [1..2 -> 1..2] : P(o)
  <2>1. CASE q[1].target <= q[2].target
    <3> DEFINE f == [a \in 1..2 |-> a]
    <3>1. f \in [1..2 -> 1..2] /\ f[1] = 1 /\ f[2] = 2 OBVIOUS
    <3>2. P(f)
      <4>1. \A a, b \in 1..2 : a # b => f[a] # f[b] OBVIOUS
      <4>2. \A a \in 2..2 : a = 2 /\ a - 1 = 1 OBVIOUS
      <4> HIDE DEF f
      <4> QED BY <2>1, <3>1, <4>1, <4>2
    <3> HIDE DEF f, P
    <3> QED BY <3>1, <3>2
  <2>2. CASE ~(q[1].target <= q[2].target)
    <3> DEFINE f == [a \in 1..2 |-> 3 - a]
    <3>1. f \in [1..2 -> 1..2] /\ f[1] = 2 /\ f[2] = 1 OBVIOUS
    <3>2. q[2].target <= q[1].target
      <4>1. q[1].target \in Nat /\ q[2].target \in Nat OBVIOUS
      <4> QED BY <2>2, <4>1
    <3>3. P(f)
      <4>1. \A a, b \in 1..2 : a # b => f[a] # f[b] OBVIOUS
      <4>2. \A a \in 2..2 : a = 2 /\ a - 1 = 1 OBVIOUS
      <4> HIDE DEF f
      <4> QED BY <3>1, <3>2, <4>1, <4>2
    <3> HIDE DEF f, P
    <3> QED BY <3>1, <3>3
  <2> QED BY <2>1, <2>2
<1> DEFINE o == Ordered(q)
<1>3. o \in [1..2 -> 1..2] /\ P(o)
  <2> HIDE DEF P
  <2> QED BY <1>1, <1>2, Zenon
<1> HIDE DEF o
<1>4. o[1] # o[2] /\ q[o[1]].target <= q[o[2]].target
  <2>1. 1 \in 1..2 /\ 2 \in 1..2 /\ 1 # 2 /\ 2 \in 2..2 /\ 2 - 1 = 1 OBVIOUS
  <2> QED BY <1>3, <2>1
<1>5. \A l \in 1..2 : o[l] \in 1..2 BY <1>3
<1>6. \A l \in 1..2 : q[o[l]].target \in Nat /\ q[o[l]].target <= MaxCount BY <1>5
<1>7. Sorted(q, o) BY <1>3, <1>4, <1>6 DEF Sorted
<1> QED BY <1>7 DEF o

\* emit: the requests that the running count has reached are a prefix of the pending.
LEMMA DrainedFacts ==
  ASSUME NEW q, NEW o, Sorted(q, o), NEW j \in 1..2, NEW running \in Int
  PROVE  LET k == Drained(q, o, j, running) IN
         /\ k \in j..3
         /\ \A l \in j..(k - 1) : q[o[l]].target <= running
         /\ \A l \in k..2 : q[o[l]].target > running
<1> DEFINE t(l) == q[o[l]].target
<1>1. t(1) \in Nat /\ t(2) \in Nat /\ t(1) <= t(2) BY DEF Sorted
<1> DEFINE P(k) == (\A l \in j..(k - 1) : t(l) <= running) /\ (k = 3 \/ t(k) > running)
<1> DEFINE d == Drained(q, o, j, running)
<1>2. d = CHOOSE k \in j..3 : P(k) BY DEF Drained, Sorted
<1> HIDE DEF t
<1>3. \E k \in j..3 : P(k)
  <2>1. j \in {1, 2} OBVIOUS
  <2>2. CASE t(j) > running
    <3>1. j \in j..3 /\ j..(j - 1) = {} OBVIOUS
    <3>2. P(j) BY <2>2, <3>1
    <3> HIDE DEF P
    <3> QED BY <3>1, <3>2
  <2>3. CASE ~(t(j) > running) /\ j = 2
    <3>1. t(2) <= running BY <1>1, <2>3
    <3>2. 3 \in j..3 /\ \A l \in j..(3 - 1) : l = 2 BY <2>3
    <3>3. P(3) BY <3>1, <3>2
    <3> HIDE DEF P
    <3> QED BY <3>2, <3>3
  <2>4. CASE ~(t(j) > running) /\ j = 1 /\ t(2) > running
    <3>1. t(1) <= running BY <1>1, <2>4
    <3>2. 2 \in j..3 /\ \A l \in j..(2 - 1) : l = 1 BY <2>4
    <3>3. P(2) BY <2>4, <3>1, <3>2
    <3> HIDE DEF P
    <3> QED BY <3>2, <3>3
  <2>5. CASE ~(t(j) > running) /\ j = 1 /\ ~(t(2) > running)
    <3>1. t(1) <= running /\ t(2) <= running BY <1>1, <2>5
    <3>2. 3 \in j..3 /\ \A l \in j..(3 - 1) : l = 1 \/ l = 2 BY <2>5
    <3>3. P(3) BY <3>1, <3>2
    <3> HIDE DEF P
    <3> QED BY <3>2, <3>3
  <2> QED BY <2>1, <2>2, <2>3, <2>4, <2>5
<1>4. d \in j..3 /\ P(d)
  <2> HIDE DEF P, d
  <2> QED BY <1>2, <1>3, Zenon
<1> HIDE DEF d
<1>5. \A l \in d..2 : t(l) > running
  <2> SUFFICES ASSUME NEW l \in d..2 PROVE t(l) > running OBVIOUS
  <2>1. d \in {1, 2} /\ l \in {1, 2} /\ d <= l /\ d # 3 BY <1>4
  <2>2. t(d) > running BY <1>4, <2>1
  <2>3. t(d) <= t(l) /\ t(d) \in Nat /\ t(l) \in Nat BY <1>1, <2>1
  <2> QED BY <2>2, <2>3
<1> QED BY <1>4, <1>5 DEF d, t

\* The answer to a request is that of the bucket at which the count reaches its target.
Answered(r, q, x, v) ==
  \E m : Crosses(r, q[x].target, m) /\ v = Answer(r, ValueFromFlatIndex(r.geom, r.idx[m]), q[x].zeroth)

\* The state of the walk for two requests after n iterations.
Slicing(r, q, o, s, n) ==
  /\ DOMAIN s = {"i", "stop", "running", "j", "out"}
  /\ Walking(r, s) /\ s.j \in 1..3 /\ DOMAIN s.out = 1..2 /\ s.out = [z \in 1..2 |-> s.out[z]]
  /\ \A l \in s.j..2 : Acc(r, s.i) < q[o[l]].target
  /\ \A l \in 1..(s.j - 1) : Answered(r, q, o[l], s.out[o[l]])
  /\ s.j <= 2 => s.i = r.size \/ Measure(s) >= n

\* One iteration.
LEMMA SliceStepFacts ==
  ASSUME NEW r, Stored(r), NEW q, NEW o, Sorted(q, o), NEW n \in Nat, NEW s, Slicing(r, q, o, s, n)
  PROVE  Slicing(r, q, o, SliceStep(r, q, o, s), n + 1)
<1> DEFINE x == SliceStep(r, q, o, s)
<1>1. /\ DOMAIN s = {"i", "stop", "running", "j", "out"}
      /\ Walking(r, s) /\ s.j \in 1..3 /\ DOMAIN s.out = 1..2 /\ s.out = [z \in 1..2 |-> s.out[z]]
      /\ \A l \in s.j..2 : Acc(r, s.i) < q[o[l]].target
      /\ \A l \in 1..(s.j - 1) : Answered(r, q, o[l], s.out[o[l]])
      /\ s.j <= 2 => s.i = r.size \/ Measure(s) >= n
  BY DEF Slicing
<1>2. /\ Len(q) = 2 /\ o \in [1..2 -> 1..2] /\ o[1] # o[2]
      /\ \A l \in 1..2 : q[o[l]].target \in Nat /\ q[o[l]].target <= MaxCount
      /\ q[o[1]].target <= q[o[2]].target /\ MaxCount \in Nat
  BY MaxCountAssumption DEF Sorted
<1>3. CASE s.j > Len(q) \/ s.i = r.size
  <2>1. x = s BY <1>3 DEF SliceStep
  <2>2. s.j <= 2 => s.i = r.size BY <1>1, <1>2, <1>3
  <2> QED BY <1>1, <2>1, <2>2 DEF Slicing
<1>4. CASE ~(s.j > Len(q) \/ s.i = r.size)
  <2>1. s.j \in 1..2 /\ s.j <= 2 /\ s.i # r.size BY <1>1, <1>2, <1>4
  <2>2. Measure(s) >= n BY <1>1, <2>1
  <2>3. CASE AtBlock(r, s)
    <3> DEFINE t == q[o[s.j]].target
    <3> DEFINE y == BlockStep(r, s, t)
    <3>1. x = y BY <1>4, <2>3 DEF SliceStep
    <3>2. {"i", "stop", "running"} \subseteq DOMAIN s /\ t \in Int BY <1>1, <1>2, <2>1
    <3>3. \A l \in s.j..2 : t <= q[o[l]].target /\ q[o[l]].target \in Nat
      <4> SUFFICES ASSUME NEW l \in s.j..2 PROVE t <= q[o[l]].target /\ q[o[l]].target \in Nat OBVIOUS
      <4>1. l \in {1, 2} /\ s.j \in {1, 2} /\ s.j <= l BY <2>1
      <4> QED BY <1>2, <4>1
    <3> HIDE DEF t
    <3>4. /\ DOMAIN y = DOMAIN s /\ \A f \in DOMAIN s : f \notin {"i", "stop", "running"} => y[f] = s[f]
          /\ Walking(r, y) /\ Measure(y) > Measure(s) /\ Measure(s) \in Nat /\ Measure(y) \in Nat
          /\ y.i = s.i \/ Acc(r, y.i) < t
      BY <1>1, <2>3, <3>2, BlockStepFacts
    <3> HIDE DEF x, y
    <3>5. y.j = s.j /\ y.out = s.out
      <4>1. "j" \in DOMAIN s /\ "out" \in DOMAIN s /\ {"j", "out"} \intersect {"i", "stop", "running"} = {} BY <1>1
      <4> QED BY <3>4, <4>1
    <3>6. \A l \in y.j..2 : Acc(r, y.i) < q[o[l]].target
      <4>1. CASE y.i = s.i BY <1>1, <3>5, <4>1
      <4>2. CASE Acc(r, y.i) < t
        <5>1. Acc(r, y.i) \in Nat BY <3>4, AccFacts DEF Walking
        <5> QED BY <3>2, <3>3, <3>5, <4>2, <5>1
      <4> QED BY <3>4, <4>1, <4>2
    <3>7. Measure(y) >= n + 1 BY <2>2, <3>4
    <3>8. Slicing(r, q, o, y, n + 1) BY <1>1, <3>4, <3>5, <3>6, <3>7 DEF Slicing
    <3> QED BY <3>1, <3>8 DEF x
  <2>4. CASE ~AtBlock(r, s)
    <3> DEFINE i == s.i
    <3> DEFINE c == Running(r, s)
    <3> DEFINE k == Drained(q, o, s.j, c)
    <3> DEFINE v == ValueFromFlatIndex(r.geom, r.idx[i])
    <3> DEFINE out == [z \in DOMAIN s.out |-> IF \E l \in s.j..(k - 1) : o[l] = z
                                              THEN Answer(r, v, q[z].zeroth) ELSE s.out[z]]
    <3> DEFINE y == [s EXCEPT !.i = i + 1, !.running = c, !.j = k, !.out = out]
    <3>1. x = y BY <1>4, <2>4 DEF SliceStep
    <3>2. i \in 0..(r.size - 1) /\ i + 1 \in 0..r.size /\ c = Smaller(MaxCount, Acc(r, i + 1))
      BY <1>1, <2>1, RunningFacts
    <3>3. Acc(r, i) \in Nat /\ Acc(r, i + 1) \in Nat /\ r.size \in Nat BY <3>2, AccFacts
    <3> HIDE DEF c
    <3>4. c \in Int /\ c <= Acc(r, i + 1) /\ (c < MaxCount => c = Acc(r, i + 1)) BY <1>2, <3>2, <3>3 DEF Smaller
    <3>5. /\ k \in s.j..3
          /\ \A l \in s.j..(k - 1) : q[o[l]].target <= c
          /\ \A l \in k..2 : q[o[l]].target > c
      BY <2>1, <3>4, DrainedFacts
    <3> HIDE DEF k, v
    <3>6. DOMAIN out = 1..2 /\ out = [z \in 1..2 |-> out[z]] BY <1>1
    <3>7. \A z \in 1..2 : out[z] = IF \E l \in s.j..(k - 1) : o[l] = z THEN Answer(r, v, q[z].zeroth) ELSE s.out[z]
      BY <1>1
    <3> HIDE DEF out
    <3>8. DOMAIN y = DOMAIN s /\ y.i = i + 1 /\ y.stop = s.stop /\ y.running = c /\ y.j = k /\ y.out = out BY <1>1
    <3> HIDE DEF x, y
    <3>9. Walking(r, y) BY <1>1, <3>2, <3>8 DEF Walking
    <3>10. k \in 1..3 /\ s.j \in 1..2 /\ s.j <= k BY <2>1, <3>5
    <3>11. ASSUME NEW l \in k..2 PROVE Acc(r, i + 1) < q[o[l]].target
      <4>1. l \in 1..2 BY <3>10
      <4>2. q[o[l]].target > c /\ q[o[l]].target \in Nat /\ q[o[l]].target <= MaxCount BY <1>2, <3>5, <4>1
      <4> QED BY <1>2, <3>3, <3>4, <4>2
    <3>12. ASSUME NEW l \in 1..(k - 1) PROVE Answered(r, q, o[l], out[o[l]])
      <4>1. l \in 1..2 /\ l \in Nat /\ o[l] \in 1..2 BY <1>2, <3>10
      <4>2. CASE l < s.j
        <5>1. l \in 1..(s.j - 1) BY <2>1, <4>1, <4>2
        <5>2. ~\E m \in s.j..(k - 1) : o[m] = o[l]
          <6> SUFFICES ASSUME NEW m \in s.j..(k - 1), o[m] = o[l] PROVE FALSE OBVIOUS
          <6>1. m \in 1..2 /\ m # l BY <3>10, <4>1, <4>2
          <6> QED BY <1>2, <4>1, <6>1
        <5>3. out[o[l]] = s.out[o[l]] BY <3>7, <4>1, <5>2
        <5> QED BY <1>1, <5>1, <5>3
      <4>3. CASE ~(l < s.j)
        <5>1. l \in s.j..(k - 1) /\ l \in s.j..2 BY <3>10, <4>1, <4>3
        <5>2. out[o[l]] = Answer(r, v, q[o[l]].zeroth) BY <3>7, <4>1, <5>1
        <5>3. q[o[l]].target <= c /\ Acc(r, i) < q[o[l]].target /\ q[o[l]].target \in Nat BY <1>1, <1>2, <3>5, <4>1, <5>1
        <5>4. q[o[l]].target <= Acc(r, i + 1) BY <3>3, <3>4, <5>3
        <5>5. Crosses(r, q[o[l]].target, i) BY <3>2, <5>3, <5>4 DEF Crosses
        <5> QED BY <5>2, <5>5 DEF Answered, v
      <4> QED BY <4>2, <4>3
    <3>13. Measure(y) >= n + 1
      <4>1. s.stop \in Int /\ i \in Int BY <1>1, <3>2, <3>3 DEF Walking
      <4>2. Measure(y) >= 2 * i + 2 /\ Measure(s) <= 2 * i + 1 BY <3>8, <4>1 DEF Measure
      <4>3. Measure(y) \in Int /\ Measure(s) \in Int BY <3>8, <4>1 DEF Measure
      <4> QED BY <2>2, <4>1, <4>2, <4>3
    <3>14. /\ \A l \in y.j..2 : Acc(r, y.i) < q[o[l]].target
           /\ \A l \in 1..(y.j - 1) : Answered(r, q, o[l], y.out[o[l]])
      BY <3>8, <3>11, <3>12
    <3>15. DOMAIN y = {"i", "stop", "running", "j", "out"} /\ y.j \in 1..3 /\ DOMAIN y.out = 1..2 /\ y.out = [z \in 1..2 |-> y.out[z]]
      BY <1>1, <3>6, <3>8, <3>10
    <3>16. Slicing(r, q, o, y, n + 1) BY <3>9, <3>13, <3>14, <3>15 DEF Slicing
    <3> QED BY <3>1, <3>16 DEF x
  <2> QED BY <2>3, <2>4
<1> QED BY <1>3, <1>4

\* ValueAtPercentilesSlice for two requests finds what two calls find.
LEMMA SliceFacts ==
  ASSUME NEW r, Good(r), NEW q, Len(q) = 2, \A l \in 1..2 : q[l].target \in 1..r.total
  PROVE  /\ DOMAIN ValuesAtRanks(r, q) = 1..2
         /\ ValuesAtRanks(r, q) = [z \in 1..2 |-> ValueAtRank(r, q[z].target, q[z].zeroth)]
<1> DEFINE N == 2 * r.size
<1> DEFINE o == Ordered(q)
<1>1. Stored(r) /\ r.total \in 0..MaxCount /\ r.total = Smaller(MaxCount, Acc(r, r.size)) /\ MaxCount \in Nat
  BY MaxCountAssumption DEF Good, Sum, Acc
<1>2. r.size \in Nat /\ N \in Nat /\ Acc(r, 0) = 0 BY <1>1, AccFacts
<1>3. Sorted(q, o)
  <2>1. \A l \in 1..2 : q[l].target \in Nat /\ q[l].target <= MaxCount BY <1>1
  <2> QED BY <2>1, OrderedFacts
<1>4. PICK g : /\ g[0] = [i |-> 0, stop |-> 0, running |-> 0, j |-> 1, out |-> [x \in 1..Len(q) |-> 0]]
               /\ \A k \in 0..(N - 1) : g[k + 1] = SliceStep(r, q, o, g[k])
               /\ ValuesAtRanks(r, q) = g[N].out
  BY <1>2, SliceLoop
<1> HIDE DEF o
<1>5. /\ o \in [1..2 -> 1..2] /\ o[1] # o[2] /\ o[1] \in 1..2 /\ o[2] \in 1..2
      /\ \A l \in 1..2 : q[o[l]].target \in 1..r.total
  BY <1>3 DEF Sorted
<1> DEFINE T == {k \in Nat : k <= N => Slicing(r, q, o, g[k], k)}
<1>6. 0 \in T
  <2> DEFINE s == g[0]
  <2>1. /\ DOMAIN s = {"i", "stop", "running", "j", "out"}
        /\ s.i = 0 /\ s.stop = 0 /\ s.running = 0 /\ s.j = 1 /\ s.out = [x \in 1..2 |-> 0]
    BY <1>4
  <2> HIDE DEF s
  <2>2. Walking(r, s) BY <1>1, <1>2, <2>1 DEF Walking, Smaller
  <2>3. Measure(s) >= 0 BY <2>1 DEF Measure
  <2>4. \A l \in s.j..2 : Acc(r, s.i) < q[o[l]].target BY <1>1, <1>2, <1>5, <2>1
  <2>5. DOMAIN s.out = 1..2 /\ s.out = [z \in 1..2 |-> s.out[z]] /\ 1..(s.j - 1) = {} /\ s.j \in 1..3 BY <2>1
  <2>6. Slicing(r, q, o, s, 0) BY <2>1, <2>2, <2>3, <2>4, <2>5 DEF Slicing
  <2> QED BY <2>6 DEF s
<1>7. ASSUME NEW k \in T PROVE k + 1 \in T
  <2> SUFFICES ASSUME k + 1 <= N PROVE Slicing(r, q, o, g[k + 1], k + 1) OBVIOUS
  <2>1. k \in Nat /\ k \in 0..(N - 1) /\ Slicing(r, q, o, g[k], k) BY <1>2
  <2> HIDE DEF T
  <2> DEFINE s == g[k]
  <2>2. Slicing(r, q, o, s, k) /\ g[k + 1] = SliceStep(r, q, o, s) BY <1>4, <2>1
  <2> HIDE DEF s
  <2> QED BY <1>1, <1>3, <2>1, <2>2, SliceStepFacts
<1>8. T = Nat
  <2>1. T \in SUBSET Nat OBVIOUS
  <2> HIDE DEF T
  <2> QED BY <1>6, <1>7, <2>1, SetInduction
<1> DEFINE s == g[N]
<1>9. Slicing(r, q, o, s, N)
  <2>1. N \in T /\ N <= N BY <1>2, <1>8
  <2> QED BY <2>1
<1> HIDE DEF T, s
<1>10. s.j = 3
  <2> SUFFICES ASSUME s.j # 3 PROVE FALSE OBVIOUS
  <2>1. s.j \in 1..2 /\ s.j <= 2 /\ 2 \in s.j..2 BY <1>9 DEF Slicing
  <2>2. s.i = r.size
    <3>1. Walking(r, s) /\ (s.i = r.size \/ Measure(s) >= 2 * r.size) BY <1>9, <2>1 DEF Slicing
    <3> QED BY <1>1, <3>1, MeasureEnds
  <2>3. Acc(r, r.size) < q[o[2]].target BY <1>9, <2>1, <2>2 DEF Slicing
  <2>4. r.size \in 0..r.size BY <1>2
  <2>5. Acc(r, r.size) \in Nat BY <1>1, <2>4, AccFacts
  <2>6. q[o[2]].target \in 1..r.total BY <1>5
  <2> QED BY <1>1, <2>3, <2>5, <2>6 DEF Smaller
<1>11. ASSUME NEW z \in 1..2 PROVE s.out[z] = ValueAtRank(r, q[z].target, q[z].zeroth)
  <2>1. \E l \in 1..2 : o[l] = z BY <1>5
  <2>2. PICK l \in 1..2 : o[l] = z BY <2>1
  <2>3. l \in 1..(s.j - 1) BY <1>10
  <2>4. Answered(r, q, z, s.out[z]) BY <1>9, <2>2, <2>3 DEF Slicing
  <2> DEFINE t == q[z].target
  <2>5. t \in 1..r.total /\ t \in Int BY <1>1
  <2>6. PICK m : Crosses(r, t, m) /\ s.out[z] = Answer(r, ValueFromFlatIndex(r.geom, r.idx[m]), q[z].zeroth)
    BY <2>4 DEF Answered
  <2> HIDE DEF t
  <2>7. PICK n : Crosses(r, t, n) /\ ValueFromIdxAtCount(r, t) = ValueFromFlatIndex(r.geom, r.idx[n])
    BY <2>5, ScanFacts
  <2>8. m = n BY <1>1, <2>5, <2>6, <2>7, CrossesOnce
  <2> QED BY <2>6, <2>7, <2>8 DEF ValueAtRank, t
<1>12. s.out = [z \in 1..2 |-> s.out[z]] /\ DOMAIN s.out = 1..2 BY <1>9 DEF Slicing
<1>13. s.out = [z \in 1..2 |-> ValueAtRank(r, q[z].target, q[z].zeroth)] BY <1>11, <1>12
<1> QED BY <1>4, <1>12, <1>13 DEF s

\* The single walk is exact for every two requests.
LEMMA SliceIsExact == ASSUME NEW r, Good(r) PROVE SliceExact(r)
<1> DEFINE requests == {[target |-> 1, zeroth |-> TRUE]}
                         \union {[target |-> t, zeroth |-> FALSE] : t \in 1..r.total}
<1> SUFFICES r.total > 0 => \A a, b \in requests :
               ValuesAtRanks(r, <<a, b>>) =
                 <<ValueAtRank(r, a.target, a.zeroth), ValueAtRank(r, b.target, b.zeroth)>>
  BY Zenon DEF SliceExact
<1> HIDE DEF requests
<1> SUFFICES ASSUME r.total > 0, NEW a \in requests, NEW b \in requests
             PROVE  ValuesAtRanks(r, <<a, b>>) =
                      <<ValueAtRank(r, a.target, a.zeroth), ValueAtRank(r, b.target, b.zeroth)>>
  BY Zenon
<1>1. r.total \in Nat BY MaxCountAssumption DEF Good
<1>2. a.target \in 1..r.total /\ b.target \in 1..r.total BY <1>1 DEF requests
<1> DEFINE q == <<a, b>>
<1>3. Len(q) = 2 /\ q[1] = a /\ q[2] = b OBVIOUS
<1> DEFINE x == <<ValueAtRank(r, a.target, a.zeroth), ValueAtRank(r, b.target, b.zeroth)>>
<1>4. x = [z \in 1..2 |-> IF z = 1 THEN ValueAtRank(r, a.target, a.zeroth) ELSE ValueAtRank(r, b.target, b.zeroth)]
  OBVIOUS
<1> HIDE DEF q, x
<1>5. \A l \in 1..2 : q[l].target \in 1..r.total BY <1>2, <1>3
<1>6. ValuesAtRanks(r, q) = [z \in 1..2 |-> ValueAtRank(r, q[z].target, q[z].zeroth)] BY <1>3, <1>5, SliceFacts
<1>7. ASSUME NEW z \in 1..2
      PROVE  ValueAtRank(r, q[z].target, q[z].zeroth) =
               IF z = 1 THEN ValueAtRank(r, a.target, a.zeroth) ELSE ValueAtRank(r, b.target, b.zeroth)
  BY <1>3
<1>8. ValuesAtRanks(r, q) = x BY <1>4, <1>6, <1>7
<1> QED BY <1>8 DEF q, x

\* CountAtValue.
LEMMA CountAtFacts ==
  ASSUME NEW r, Stored(r), NEW i \in 0..(r.geom.countsLen - 1) PROVE CountAt(r, i) = Count(r, i)
<1> DEFINE p == LowerBound(r, i)
<1>1. r.size \in Nat /\ r.geom.countsLen \in Nat /\ i \in Int BY GeometriesBuilt DEF Stored
<1>2. /\ p \in 0..r.size
      /\ \A k \in 0..(p - 1) : r.idx[k] < i
      /\ \A k \in p..(r.size - 1) : r.idx[k] >= i
  BY <1>1, LowerBoundFacts
<1> HIDE DEF p
<1>3. CASE Holds(r, p, i)
  <2>1. p \in 0..(r.size - 1) /\ r.idx[p] = i BY <1>1, <1>2, <1>3 DEF Holds
  <2>2. Count(r, i) = r.cnt[p] BY <2>1, CountFacts
  <2> QED BY <1>3, <2>2 DEF CountAt, Fits, p
<1>4. CASE ~Holds(r, p, i)
  <2>1. ASSUME NEW k \in 0..(r.size - 1) PROVE r.idx[k] # i
    <3>1. r.idx[k] \in Nat BY BucketFacts
    <3>2. CASE k < p
      <4>1. k \in 0..(p - 1) BY <1>1, <1>2, <3>2
      <4> QED BY <1>2, <3>1, <4>1
    <3>3. CASE k = p BY <1>1, <1>2, <1>4, <3>3 DEF Holds
    <3>4. CASE k > p
      <4>1. p \in 0..(r.size - 1) /\ p \in p..(r.size - 1) BY <1>1, <1>2, <3>4
      <4>2. r.idx[p] \in Nat /\ r.idx[p] >= i BY <1>2, <4>1, BucketFacts
      <4>3. r.idx[p] < r.idx[k] BY <1>1, <3>4, <4>1 DEF Stored, Ascending
      <4> QED BY <1>1, <3>1, <4>2, <4>3
    <3> QED BY <1>1, <1>2, <3>2, <3>3, <3>4
  <2>2. Count(r, i) = 0 BY <2>1, CountFacts
  <2> QED BY <1>4, <2>2 DEF CountAt, p
<1> QED BY <1>3, <1>4

\* The populated positions are those of the buckets.
LEMMA PopulatedFacts ==
  ASSUME NEW r, Stored(r)
  PROVE  /\ \A i : Count(r, i) > 0 => \E k \in 0..(r.size - 1) : r.idx[k] = i
         /\ \A k \in 0..(r.size - 1) : Count(r, r.idx[k]) > 0
<1>1. ASSUME NEW i, Count(r, i) > 0 PROVE \E k \in 0..(r.size - 1) : r.idx[k] = i
  <2> SUFFICES ASSUME \A k \in 0..(r.size - 1) : r.idx[k] # i PROVE FALSE OBVIOUS
  <2>1. Count(r, i) = 0 BY CountFacts
  <2> QED BY <1>1, <2>1
<1>2. ASSUME NEW k \in 0..(r.size - 1) PROVE Count(r, r.idx[k]) > 0
  <2>1. r.cnt[k] \in 1..MaxCount /\ MaxCount \in Nat BY BucketFacts, MaxCountAssumption
  <2>2. Count(r, r.idx[k]) = r.cnt[k] BY CountFacts
  <2> QED BY <2>1, <2>2
<1> QED BY <1>1, <1>2

\* The values of two positions are ordered as the positions are.
LEMMA FlatMonotone ==
  ASSUME NEW g, Built(g), NEW i \in 0..(g.countsLen - 1), NEW j \in 0..(g.countsLen - 1), i <= j
  PROVE  ValueFromFlatIndex(g, i) <= ValueFromFlatIndex(g, j)
<1> DEFINE x == ValueFromFlatIndex(g, i)
<1> DEFINE y == ValueFromFlatIndex(g, j)
<1>1. /\ x \in 0..MaxInt /\ y \in 0..MaxInt
      /\ CountsIndexFor(g, x) = i /\ CountsIndexFor(g, y) = j
  BY FlatInverse
<1>2. x \in Nat /\ y \in Nat BY <1>1, MaxIntFacts
<1>3. Sized(g) /\ i \in Int /\ j \in Int BY DEF Built
<1> SUFFICES ASSUME ~(x <= y) PROVE FALSE OBVIOUS
<1> HIDE DEF x, y
<1>4. y <= x BY <1>2
<1>5. j <= i BY <1>1, <1>3, <1>4, IndexMonotone
<1>6. i = j BY <1>3, <1>5
<1>7. x = y BY <1>6 DEF x, y
<1> QED BY <1>2, <1>7

\* Min and Max are the ends of the first and of the last bucket.
LEMMA MinMaxFacts ==
  ASSUME NEW r, Stored(r), NEW k \in 0..(r.size - 1)
  PROVE  /\ PackedMin(r) <= ValueFromFlatIndex(r.geom, r.idx[k])
         /\ ValueFromFlatIndex(r.geom, r.idx[k]) <= PackedMax(r)
         /\ CountsIndexFor(r.geom, PackedMin(r)) = r.idx[0]
         /\ CountsIndexFor(r.geom, PackedMax(r)) = r.idx[r.size - 1]
<1> DEFINE g == r.geom
<1> DEFINE L == g.countsLen
<1> DEFINE first == r.idx[0]
<1> DEFINE last == r.idx[r.size - 1]
<1> DEFINE i == r.idx[k]
<1> DEFINE x == ValueFromFlatIndex(g, first)
<1> DEFINE y == ValueFromFlatIndex(g, last)
<1> DEFINE v == ValueFromFlatIndex(g, i)
<1>1. r.size \in Nat /\ Built(g) /\ L \in Nat BY GeometriesBuilt DEF Stored
<1>2. 0 \in 0..(r.size - 1) /\ r.size - 1 \in 0..(r.size - 1) /\ r.size # 0 BY <1>1
<1>3. first \in 0..(L - 1) /\ last \in 0..(L - 1) /\ i \in 0..(L - 1) BY <1>2, BucketFacts
<1>4. first <= i /\ i <= last
  <2>1. k = 0 \/ first < i BY <1>1, <1>2 DEF Stored, Ascending
  <2>2. k = r.size - 1 \/ i < last
    <3>1. k = r.size - 1 \/ k < r.size - 1 BY <1>1
    <3>2. \A a, b \in 0..(r.size - 1) : a < b => r.idx[a] < r.idx[b] BY DEF Stored, Ascending
    <3> QED BY <1>2, <3>1, <3>2
  <2>3. first \in Int /\ i \in Int /\ last \in Int BY <1>3
  <2> QED BY <2>1, <2>2, <2>3
<1>5. PackedMin(r) = LowestEquivalent(g, x) /\ PackedMax(r) = PackedHighestEquivalent(g, y)
  BY <1>2 DEF PackedMin, PackedMax
<1> HIDE DEF g, first, last, i, x, y, v
<1>6. x <= v /\ v <= y BY <1>1, <1>3, <1>4, FlatMonotone DEF L, x, y, v
<1>7. /\ x \in 0..MaxInt /\ CountsIndexFor(g, x) = first
      /\ y \in 0..MaxInt /\ CountsIndexFor(g, y) = last
      /\ v \in 0..MaxInt
  BY <1>1, <1>3, FlatInverse DEF L, x, y, v
<1>8. InvertsAt(g, x) /\ InvertsAt(g, y) BY <1>1, <1>7, IndexInverse DEF Built
<1>9. LowestEquivalent(g, x) = x BY <1>7, <1>8 DEF InvertsAt, x
<1> DEFINE z == PackedHighestEquivalent(g, y)
<1>10. z \in 0..MaxInt /\ y <= z /\ CountsIndexFor(g, z) = last BY <1>7, <1>8 DEF InvertsAt
<1> HIDE DEF z
<1>11. v <= z BY <1>6, <1>7, <1>10, MaxIntFacts
<1> QED BY <1>5, <1>6, <1>7, <1>9, <1>10, <1>11 DEF g, first, last, i, v, z

\* The value found for a rank is that of the position at which the counts reach it.
LEMMA RankFacts ==
  ASSUME NEW r, Good(r), NEW t \in 1..r.total
  PROVE  LET i == CountsIndexFor(r.geom, ValueFromIdxAtCount(r, t))
         IN  PrefixSum(Spread(r))[i] < t /\ t <= PrefixSum(Spread(r))[i + 1]
<1>1. Stored(r) BY DEF Good
<1>2. PICK m : Crosses(r, t, m) /\ ValueFromIdxAtCount(r, t) = ValueFromFlatIndex(r.geom, r.idx[m]) BY ScanFacts
<1> DEFINE L == r.geom.countsLen
<1> DEFINE i == r.idx[m]
<1>3. Built(r.geom) /\ L \in Nat /\ r.size \in Nat BY <1>1, GeometriesBuilt DEF Stored
<1>4. m \in 0..(r.size - 1) /\ m \in 0..r.size /\ m + 1 \in 0..r.size BY <1>2, <1>3 DEF Crosses
<1>5. i \in 0..(L - 1) /\ i \in Nat BY <1>1, <1>4, BucketFacts
<1>6. i \in 0..L /\ i + 1 \in 0..L BY <1>3, <1>5
<1>7. CountsIndexFor(r.geom, ValueFromIdxAtCount(r, t)) = i BY <1>2, <1>3, <1>5, FlatInverse
<1>8. \A j \in 0..(r.size - 1) : r.idx[j] \in Nat /\ (j < m => r.idx[j] < i) /\ (m < j => i < r.idx[j])
  <2> SUFFICES ASSUME NEW j \in 0..(r.size - 1)
               PROVE  r.idx[j] \in Nat /\ (j < m => r.idx[j] < i) /\ (m < j => i < r.idx[j])
    OBVIOUS
  <2>1. r.idx[j] \in Nat BY <1>1, BucketFacts
  <2> QED BY <1>1, <1>3, <1>4, <2>1 DEF Stored, Ascending
<1> HIDE DEF L
<1>9. Border(r, m, i)
  <2>1. ASSUME NEW j \in 0..(m - 1) PROVE r.idx[j] < i
    <3>1. j \in 0..(r.size - 1) /\ j < m BY <1>3, <1>4
    <3> QED BY <1>8, <3>1
  <2>2. ASSUME NEW j \in m..(r.size - 1) PROVE r.idx[j] >= i
    <3>1. j \in 0..(r.size - 1) /\ (j = m \/ m < j) BY <1>3, <1>4
    <3> QED BY <1>5, <1>8, <3>1
  <2> QED BY <2>1, <2>2 DEF Border
<1>10. Border(r, m + 1, i + 1)
  <2>1. ASSUME NEW j \in 0..((m + 1) - 1) PROVE r.idx[j] < i + 1
    <3>1. j \in 0..(r.size - 1) /\ (j = m \/ j < m) BY <1>3, <1>4
    <3> QED BY <1>5, <1>8, <3>1
  <2>2. ASSUME NEW j \in (m + 1)..(r.size - 1) PROVE r.idx[j] >= i + 1
    <3>1. j \in 0..(r.size - 1) /\ m < j BY <1>3, <1>4
    <3> QED BY <1>5, <1>8, <3>1
  <2> QED BY <2>1, <2>2 DEF Border
<1> HIDE DEF i
<1>11. PrefixSum(Spread(r))[i] = Acc(r, m) /\ PrefixSum(Spread(r))[i + 1] = Acc(r, m + 1)
  BY <1>1, <1>4, <1>6, <1>9, <1>10, SpreadSums DEF Acc, L
<1>12. Acc(r, m) < t /\ t <= Acc(r, m + 1) BY <1>2 DEF Crosses
<1> QED BY <1>7, <1>11, <1>12

\* QueriesExact for one histogram.
LEMMA QueriesFacts ==
  ASSUME NEW r, Good(r)
  PROVE  LET populated == {i \in 0..(r.geom.countsLen - 1) : Count(r, i) > 0}
             Below(i) == PrefixSum([k \in 0..(r.geom.countsLen - 1) |-> Count(r, k)])[i]
         IN  /\ \A i \in 0..(r.geom.countsLen - 1) : CountAt(r, i) = Count(r, i)
             /\ \A i \in populated : /\ PackedMin(r) <= ValueFromFlatIndex(r.geom, i)
                                    /\ ValueFromFlatIndex(r.geom, i) <= PackedMax(r)
             /\ populated # {} =>
                  {CountsIndexFor(r.geom, PackedMin(r)), CountsIndexFor(r.geom, PackedMax(r))} \subseteq populated
             /\ \A target \in 1..r.total :
                  LET i == CountsIndexFor(r.geom, ValueFromIdxAtCount(r, target))
                  IN  Below(i) < target /\ target <= Below(i + 1)
             /\ SliceExact(r)
<1> DEFINE populated == {i \in 0..(r.geom.countsLen - 1) : Count(r, i) > 0}
<1>1. Stored(r) BY DEF Good
<1>2. \A i \in 0..(r.geom.countsLen - 1) : CountAt(r, i) = Count(r, i) BY <1>1, CountAtFacts
<1>3. \A i \in populated : \E k \in 0..(r.size - 1) : r.idx[k] = i BY <1>1, PopulatedFacts
<1>4. \A k \in 0..(r.size - 1) : r.idx[k] \in populated
  <2>1. \A k \in 0..(r.size - 1) : r.idx[k] \in 0..(r.geom.countsLen - 1) BY <1>1, BucketFacts
  <2>2. \A k \in 0..(r.size - 1) : Count(r, r.idx[k]) > 0 BY <1>1, PopulatedFacts
  <2> QED BY <2>1, <2>2
<1>5. SliceExact(r) BY SliceIsExact
<1>6. \A t \in 1..r.total :
        LET i == CountsIndexFor(r.geom, ValueFromIdxAtCount(r, t))
        IN  PrefixSum(Spread(r))[i] < t /\ t <= PrefixSum(Spread(r))[i + 1]
  BY RankFacts
<1>7. r.size \in Nat BY <1>1 DEF Stored
<1> HIDE DEF populated
<1>8. \A i \in populated : /\ PackedMin(r) <= ValueFromFlatIndex(r.geom, i)
                          /\ ValueFromFlatIndex(r.geom, i) <= PackedMax(r)
  BY <1>1, <1>3, MinMaxFacts
<1>9. populated # {} =>
        {CountsIndexFor(r.geom, PackedMin(r)), CountsIndexFor(r.geom, PackedMax(r))} \subseteq populated
  <2> SUFFICES ASSUME populated # {}
               PROVE  /\ CountsIndexFor(r.geom, PackedMin(r)) \in populated
                      /\ CountsIndexFor(r.geom, PackedMax(r)) \in populated
    OBVIOUS
  <2>1. PICK k \in 0..(r.size - 1) : TRUE BY <1>3
  <2>2. 0 \in 0..(r.size - 1) /\ r.size - 1 \in 0..(r.size - 1) BY <1>7, <2>1
  <2>3. r.idx[0] \in populated /\ r.idx[r.size - 1] \in populated BY <1>4, <2>2
  <2> QED BY <1>1, <2>1, <2>3, MinMaxFacts
<1> QED BY <1>2, <1>5, <1>6, <1>8, <1>9 DEF populated, Spread

\* THEOREM: in every reachable state the queries of every packed histogram answer
\* what its buckets say.
THEOREM PackedQueriesExact == Spec => []QueriesExact
<1>1. Sound => QueriesExact
  <2> SUFFICES ASSUME Sound PROVE QueriesExact OBVIOUS
  <2>1. \A p \in Packed : Good(packed[p]) BY DEF Sound
  <2> QED BY <2>1, QueriesFacts DEF QueriesExact
<1> QED BY <1>1, AlwaysSound, PTL
=============================================================================
