---------------------- MODULE WindowedHistogramProofs -----------------------
(***************************************************************************)
(* The rolling window, for every number of histograms, of buckets and of   *)
(* rotations and for every limit: each histogram holds exactly what was    *)
(* recorded since it was last made current, and Merge returns the window.  *)
(***************************************************************************)
EXTENDS WindowedHistogram, ArithmeticProofs

\* An array of counts whose total is within the limit.
Within(c) == c \in [Positions -> Nat] /\ Total(c) <= MaxCount

\* The number of buckets is a length, and the positions are those below it.
LEMMA PositionFacts ==
  /\ Buckets \in Nat /\ Buckets \in 0..Buckets
  /\ Positions = 0..(Buckets - 1) /\ Positions \subseteq Nat
  /\ n \in Nat \ {0} /\ n \in 0..n
  /\ MaxCount \in Nat \ {0} /\ MaxRotations \in Nat
BY WindowAssumption, MaxCountAssumption DEF Positions

\* A total is a natural number that no count exceeds.
LEMMA TotalFacts ==
  ASSUME NEW c \in [Positions -> Nat]
  PROVE  /\ Total(c) \in Nat
         /\ \A b \in Positions : c[b] <= Total(c)
         /\ \A b \in Positions, a \in Nat : Total([c EXCEPT ![b] = @ + a]) = Total(c) + a
<1>1. ASSUME NEW b \in Positions, NEW a \in Nat
      PROVE  /\ Total(c) \in Nat
             /\ c[b] <= Total(c)
             /\ Total([c EXCEPT ![b] = @ + a]) = Total(c) + a
  <2>1. c \in [0..(Buckets - 1) -> Nat] /\ b \in 0..(Buckets - 1) BY PositionFacts
  <2> QED BY <2>1, PositionFacts, SumAfterAdd DEF Total
<1>2. 0 \in Positions /\ 0 \in Nat BY WindowAssumption DEF Positions
<1> QED BY <1>1, <1>2

\* The empty histogram is within every limit.
LEMMA ZeroFacts ==
  Zero \in [Positions -> 0..MaxCount] /\ Zero \in [Positions -> Nat] /\ Total(Zero) = 0 /\ Within(Zero)
<1>1. Zero \in [Positions -> 0..MaxCount] /\ Zero \in [Positions -> Nat]
  BY MaxCountAssumption DEF Zero
<1>2. \A i \in 0..(Buckets - 1) : Zero[i] = 0 BY DEF Zero, Positions
<1>3. Total(Zero) = 0 BY <1>2, PositionFacts, PrefixSumOfZeros DEF Total
<1> QED BY <1>1, <1>3, PositionFacts DEF Within

\* Counts within the limit are counts of the type.
LEMMA WithinCounts == ASSUME NEW c, Within(c) PROVE c \in Counts
<1>1. \A b \in Positions : c[b] \in Nat /\ c[b] <= MaxCount
  BY TotalFacts, PositionFacts DEF Within
<1> QED BY <1>1, PositionFacts DEF Within, Counts

-----------------------------------------------------------------------------
\* One step of Histogram.Merge: the count at position k of c is added to s as a
\* whole or not at all.
Poured(s, c, k) ==
  IF c[k] <= MaxCount - Total(s) THEN [s EXCEPT ![k] = @ + c[k]] ELSE s

\* A step keeps the total within the limit.
LEMMA PouredWithin ==
  ASSUME NEW s, Within(s), NEW c \in [Positions -> Nat], NEW k \in Positions
  PROVE  /\ Within(Poured(s, c, k))
         /\ \A b \in Positions : b # k => Poured(s, c, k)[b] = s[b]
         /\ Poured(s, c, k)[k] \in {s[k], s[k] + c[k]}
         /\ Total([s EXCEPT ![k] = @ + c[k]]) <= MaxCount => Poured(s, c, k)[k] = s[k] + c[k]
<1>1. s \in [Positions -> Nat] /\ Total(s) \in Nat /\ Total(s) <= MaxCount BY TotalFacts DEF Within
<1>2. c[k] \in Nat OBVIOUS
<1>3. Total([s EXCEPT ![k] = @ + c[k]]) = Total(s) + c[k] BY <1>1, <1>2, TotalFacts
<1>4. [s EXCEPT ![k] = @ + c[k]] \in [Positions -> Nat] BY <1>1, <1>2
<1>5. CASE c[k] <= MaxCount - Total(s)
  <2>1. Total(s) + c[k] <= MaxCount BY <1>5, <1>1, <1>2, PositionFacts
  <2>2. Poured(s, c, k) = [s EXCEPT ![k] = @ + c[k]] BY <1>5 DEF Poured
  <2>3. Within(Poured(s, c, k)) BY <2>1, <2>2, <1>3, <1>4 DEF Within
  <2> QED BY <2>2, <2>3, <1>1
<1>6. CASE ~(c[k] <= MaxCount - Total(s))
  <2>1. ~(Total(s) + c[k] <= MaxCount) BY <1>6, <1>1, <1>2, PositionFacts
  <2>2. Poured(s, c, k) = s BY <1>6 DEF Poured
  <2> QED BY <2>1, <2>2, <1>1, <1>3
<1> QED BY <1>5, <1>6

\* Histogram.Merge is a loop of such steps over the positions.
LEMMA MergedIntoLoop ==
  ASSUME NEW x, Within(x), NEW c \in [Positions -> Nat]
  PROVE  \E g : /\ g[0] = x
                /\ \A k \in Positions : g[k + 1] = Poured(g[k], c, k)
                /\ MergedInto(x, c) = g[Buckets]
<1> DEFINE S == {s \in [Positions -> Nat] : Total(s) <= MaxCount}
<1> DEFINE Eq(f) == f = [b \in 0..Buckets |->
             IF b = 0 THEN x
             ELSE IF c[b - 1] <= MaxCount - Total(f[b - 1])
             THEN [f[b - 1] EXCEPT ![b - 1] = @ + c[b - 1]] ELSE f[b - 1]]
<1> DEFINE F == [k \in Positions |-> [s \in S |-> Poured(s, c, k)]]
<1>1. \A s : s \in S <=> Within(s) BY DEF Within
<1>2. \A k \in 0..(Buckets - 1) : \A s \in S : F[k][s] = Poured(s, c, k) /\ F[k][s] \in S
  <2> SUFFICES ASSUME NEW k \in Positions, NEW s \in S PROVE Poured(s, c, k) \in S
    BY PositionFacts
  <2> HIDE DEF S
  <2> QED BY <1>1, PouredWithin
<1>3. \E g \in [0..Buckets -> S] :
         g[0] = x /\ \A k \in 0..(Buckets - 1) : g[k + 1] = F[k][g[k]]
  <2>1. x \in S BY <1>1
  <2>2. Loop(F, S, Buckets) BY <1>2 DEF Loop
  <2>3. Buckets \in Nat BY PositionFacts
  <2> HIDE DEF S, F
  <2> QED BY <2>1, <2>2, <2>3, LoopHistory
<1>4. PICK g \in [0..Buckets -> S] :
         g[0] = x /\ \A k \in 0..(Buckets - 1) : g[k + 1] = F[k][g[k]]
  BY <1>3
<1>5. \A k \in 0..(Buckets - 1) : g[k + 1] = Poured(g[k], c, k)
  <2> SUFFICES ASSUME NEW k \in 0..(Buckets - 1) PROVE g[k + 1] = Poured(g[k], c, k) OBVIOUS
  <2>1. g[k] \in S
    <3>1. k \in 0..Buckets BY PositionFacts
    <3> HIDE DEF S
    <3> QED BY <3>1
  <2> HIDE DEF S, F
  <2> QED BY <1>2, <1>4, <2>1
<1>6. Eq(g)
  <2> SUFFICES ASSUME NEW b \in 0..Buckets
      PROVE g[b] = IF b = 0 THEN x
             ELSE IF c[b - 1] <= MaxCount - Total(g[b - 1])
             THEN [g[b - 1] EXCEPT ![b - 1] = @ + c[b - 1]] ELSE g[b - 1]
    <3> HIDE DEF S
    <3> QED OBVIOUS
  <2>1. CASE b = 0 BY <2>1, <1>4
  <2>2. CASE b # 0
    <3>1. b - 1 \in 0..(Buckets - 1) /\ (b - 1) + 1 = b BY <2>2, PositionFacts
    <3>2. g[b] = Poured(g[b - 1], c, b - 1) BY <3>1, <1>5
    <3> HIDE DEF S, F
    <3> QED BY <2>2, <3>2 DEF Poured
  <2> QED BY <2>1, <2>2
<1> DEFINE f == CHOOSE y : Eq(y)
<1>7. MergedInto(x, c) = f[Buckets] BY DEF MergedInto
<1>8. Eq(f)
  <2> HIDE DEF Eq, S, F
  <2> QED BY <1>6
<1>9. f[0] = x
  <2>1. 0 \in 0..Buckets BY PositionFacts
  <2> HIDE DEF f, S, F
  <2> QED BY <1>8, <2>1
<1>10. ASSUME NEW k \in Positions PROVE f[k + 1] = Poured(f[k], c, k)
  <2>1. k + 1 \in 0..Buckets /\ k + 1 # 0 /\ (k + 1) - 1 = k BY PositionFacts
  <2> HIDE DEF f, S, F
  <2>2. f[k + 1] = IF c[k] <= MaxCount - Total(f[k])
                   THEN [f[k] EXCEPT ![k] = @ + c[k]] ELSE f[k]
    BY <1>8, <2>1
  <2> QED BY <2>2 DEF Poured
<1> HIDE DEF f, S, F
<1> QED BY <1>7, <1>9, <1>10

\* What a Merge of one histogram into another leaves: no count grows by anything
\* but the whole of the other's, the total stays within the limit, and if the
\* sum of both fits an array a that is within it, nothing is dropped.
LEMMA MergedIntoFacts ==
  ASSUME NEW x, Within(x), NEW c \in [Positions -> Nat]
  PROVE  /\ Within(MergedInto(x, c))
         /\ \A b \in Positions : MergedInto(x, c)[b] \in {x[b], x[b] + c[b]}
         /\ \A a : (Within(a) /\ \A b \in Positions : x[b] + c[b] <= a[b])
                   => \A b \in Positions : MergedInto(x, c)[b] = x[b] + c[b]
<1>1. PICK g : /\ g[0] = x
               /\ \A k \in Positions : g[k + 1] = Poured(g[k], c, k)
               /\ MergedInto(x, c) = g[Buckets]
  BY MergedIntoLoop
<1> DEFINE Ok(k) == /\ Within(g[k])
                    /\ \A b \in Positions : g[k][b] \in {x[b], x[b] + c[b]}
                    /\ \A b \in Positions : b >= k => g[k][b] = x[b]
<1>0. x \in [Positions -> Nat] BY DEF Within
<1>2. \A k \in 0..Buckets : Ok(k)
  <2> DEFINE S == {k \in Nat : k <= Buckets => Ok(k)}
  <2>1. 0 \in S BY <1>1
  <2>2. ASSUME NEW k \in S PROVE k + 1 \in S
    <3> SUFFICES ASSUME k + 1 <= Buckets PROVE Ok(k + 1) OBVIOUS
    <3>1. k \in Nat /\ k \in Positions /\ Ok(k) BY PositionFacts
    <3> HIDE DEF S
    <3>2. g[k + 1] = Poured(g[k], c, k) BY <3>1, <1>1
    <3>3. /\ Within(g[k + 1])
          /\ \A b \in Positions : b # k => g[k + 1][b] = g[k][b]
          /\ g[k + 1][k] \in {g[k][k], g[k][k] + c[k]}
      <4>1. Within(g[k]) /\ k \in Positions BY <3>1
      <4> HIDE DEF Ok
      <4>2. /\ Within(Poured(g[k], c, k))
            /\ \A b \in Positions : b # k => Poured(g[k], c, k)[b] = g[k][b]
            /\ Poured(g[k], c, k)[k] \in {g[k][k], g[k][k] + c[k]}
        BY <4>1, PouredWithin
      <4> QED BY <3>2, <4>2
    <3>4. g[k][k] = x[k] BY <3>1
    <3>5. \A b \in Positions : b >= k + 1 => b # k /\ b >= k BY <3>1, PositionFacts
    <3> QED BY <3>1, <3>3, <3>4, <3>5
  <2>3. S = Nat
    <3>1. S \in SUBSET Nat OBVIOUS
    <3> HIDE DEF S
    <3> QED BY <2>1, <2>2, <3>1, SetInduction
  <2> HIDE DEF Ok
  <2> QED BY <2>3, PositionFacts
<1>3. ASSUME NEW a, Within(a), \A b \in Positions : x[b] + c[b] <= a[b]
      PROVE  \A b \in Positions : MergedInto(x, c)[b] = x[b] + c[b]
  <2> DEFINE S == {k \in Nat : k <= Buckets => \A b \in Positions : b < k => g[k][b] = x[b] + c[b]}
  <2>1. 0 \in S BY PositionFacts
  <2>2. ASSUME NEW k \in S PROVE k + 1 \in S
    <3> SUFFICES ASSUME k + 1 <= Buckets, NEW b \in Positions, b < k + 1
                 PROVE  g[k + 1][b] = x[b] + c[b]
      OBVIOUS
    <3>1. k \in Nat /\ k \in Positions /\ k \in 0..Buckets BY PositionFacts
    <3>2. Ok(k) BY <3>1, <1>2
    <3>3. \A j \in Positions : j < k => g[k][j] = x[j] + c[j] BY PositionFacts
    <3>4. g[k + 1] = Poured(g[k], c, k) BY <3>1, <1>1
    <3> DEFINE d == [g[k] EXCEPT ![k] = @ + c[k]]
    <3>5. Total(d) <= MaxCount
      <4>1. g[k] \in [Positions -> Nat] BY <3>2 DEF Within
      <4>2. d \in [Positions -> Nat] BY <4>1, <3>1
      <4>3. a \in [Positions -> Nat] /\ Total(a) <= MaxCount BY <1>3 DEF Within
      <4>4. \A j \in Positions : d[j] \in Nat /\ a[j] \in Nat /\ d[j] <= a[j]
        <5> SUFFICES ASSUME NEW j \in Positions PROVE d[j] <= a[j] BY <4>2, <4>3
        <5>1. d[j] = IF j = k THEN g[k][j] + c[j] ELSE g[k][j] BY <4>1
        <5>2. g[k][j] \in {x[j], x[j] + c[j]} /\ g[k][k] = x[k] BY <3>1, <3>2, PositionFacts
        <5>3. x[j] \in Nat /\ c[j] \in Nat /\ a[j] \in Nat /\ x[j] + c[j] <= a[j] BY <1>0, <1>3, <4>3
        <5> QED BY <5>1, <5>2, <5>3
      <4> HIDE DEF d
      <4>5. Total(d) <= Total(a)
        BY <4>4, PositionFacts, PrefixSumPointwise DEF Total
      <4>6. Total(d) \in Nat /\ Total(a) \in Nat BY <4>2, <4>3, TotalFacts
      <4> QED BY <4>3, <4>5, <4>6, PositionFacts
    <3>6. /\ g[k + 1][k] = g[k][k] + c[k] /\ g[k][k] = x[k]
          /\ \A j \in Positions : j # k => g[k + 1][j] = g[k][j]
      BY <3>1, <3>2, <3>4, <3>5, PouredWithin
    <3>7. CASE b = k BY <3>6, <3>7
    <3>8. CASE b # k
      <4>1. b < k BY <3>1, <3>8, PositionFacts
      <4> QED BY <4>1, <3>3, <3>6, <3>8
    <3> QED BY <3>7, <3>8
  <2>3. S = Nat
    <3>1. S \in SUBSET Nat OBVIOUS
    <3> HIDE DEF S
    <3> QED BY <2>1, <2>2, <3>1, SetInduction
  <2>4. \A b \in Positions : b < Buckets BY PositionFacts
  <2>5. Buckets \in S BY <2>3, PositionFacts
  <2> QED BY <1>1, <2>4, <2>5
<1>4. Ok(Buckets)
  <2> HIDE DEF Ok
  <2> QED BY <1>2, PositionFacts
<1> QED BY <1>1, <1>3, <1>4

-----------------------------------------------------------------------------
\* The counts at position b of the histograms hs, summed.
SlotArray(hs, b) == [i \in 0..(n - 1) |-> hs[i][b]]
SlotSum(hs, b) == PrefixSum(SlotArray(hs, b))[n]

\* WindowedHistogram.Merge is a loop over the histograms.
LEMMA MergedLoop ==
  ASSUME h \in [0..(n - 1) -> [Positions -> Nat]]
  PROVE  \E g : /\ g[0] = Zero
                /\ \A i \in 0..(n - 1) : g[i + 1] = MergedInto(g[i], h[i])
                /\ Merged = g[n]
<1> DEFINE S == {s \in [Positions -> Nat] : Total(s) <= MaxCount}
<1> DEFINE Eq(f) == f = [i \in 0..n |-> IF i = 0 THEN Zero ELSE MergedInto(f[i - 1], h[i - 1])]
<1> DEFINE F == [i \in 0..(n - 1) |-> [s \in S |-> MergedInto(s, h[i])]]
<1>1. \A s : s \in S <=> Within(s) BY DEF Within
<1>2. \A i \in 0..(n - 1) : \A s \in S : F[i][s] = MergedInto(s, h[i]) /\ F[i][s] \in S
  <2> SUFFICES ASSUME NEW i \in 0..(n - 1), NEW s \in S PROVE MergedInto(s, h[i]) \in S
    OBVIOUS
  <2>1. h[i] \in [Positions -> Nat] OBVIOUS
  <2> HIDE DEF S
  <2> QED BY <1>1, <2>1, MergedIntoFacts
<1>3. \E g \in [0..n -> S] : g[0] = Zero /\ \A k \in 0..(n - 1) : g[k + 1] = F[k][g[k]]
  <2>1. Zero \in S BY <1>1, ZeroFacts
  <2>2. Loop(F, S, n) BY <1>2 DEF Loop
  <2>3. n \in Nat BY PositionFacts
  <2> HIDE DEF S, F
  <2> QED BY <2>1, <2>2, <2>3, LoopHistory
<1>4. PICK g \in [0..n -> S] : g[0] = Zero /\ \A k \in 0..(n - 1) : g[k + 1] = F[k][g[k]]
  BY <1>3
<1>5. \A k \in 0..(n - 1) : g[k + 1] = MergedInto(g[k], h[k])
  <2> SUFFICES ASSUME NEW k \in 0..(n - 1) PROVE g[k + 1] = MergedInto(g[k], h[k]) OBVIOUS
  <2>1. g[k] \in S
    <3>1. k \in 0..n BY PositionFacts
    <3> HIDE DEF S
    <3> QED BY <3>1
  <2> HIDE DEF S, F
  <2> QED BY <1>2, <1>4, <2>1
<1>6. Eq(g)
  <2> SUFFICES ASSUME NEW i \in 0..n
               PROVE  g[i] = IF i = 0 THEN Zero ELSE MergedInto(g[i - 1], h[i - 1])
    <3> HIDE DEF S
    <3> QED OBVIOUS
  <2>1. CASE i = 0 BY <2>1, <1>4
  <2>2. CASE i # 0
    <3>1. i - 1 \in 0..(n - 1) /\ (i - 1) + 1 = i BY <2>2, PositionFacts
    <3>2. g[i] = MergedInto(g[i - 1], h[i - 1]) BY <3>1, <1>5
    <3> QED BY <2>2, <3>2
  <2> QED BY <2>1, <2>2
<1> DEFINE f == CHOOSE y : Eq(y)
<1>7. Merged = f[n] BY DEF Merged, MergeBase
<1>8. Eq(f)
  <2> HIDE DEF Eq, S, F
  <2> QED BY <1>6
<1>9. f[0] = Zero
  <2>1. 0 \in 0..n BY PositionFacts
  <2> HIDE DEF f, S, F
  <2> QED BY <1>8, <2>1
<1>10. ASSUME NEW i \in 0..(n - 1) PROVE f[i + 1] = MergedInto(f[i], h[i])
  <2>1. i + 1 \in 0..n /\ i + 1 # 0 /\ (i + 1) - 1 = i BY PositionFacts
  <2> HIDE DEF f, S, F
  <2> QED BY <1>8, <2>1
<1> HIDE DEF f, S, F
<1> QED BY <1>7, <1>9, <1>10

\* What Merge returns: within the limit, at no position more than the histograms
\* of the window hold together, and exactly that much if all of it is within.
LEMMA MergedFacts ==
  ASSUME h \in [0..(n - 1) -> [Positions -> Nat]]
  PROVE  /\ Within(Merged)
         /\ \A b \in Positions : SlotSum(h, b) \in Nat /\ Merged[b] <= SlotSum(h, b)
         /\ Within([b \in Positions |-> SlotSum(h, b)])
            => Merged = [b \in Positions |-> SlotSum(h, b)]
<1>1. PICK g : /\ g[0] = Zero
               /\ \A i \in 0..(n - 1) : g[i + 1] = MergedInto(g[i], h[i])
               /\ Merged = g[n]
  BY MergedLoop
<1> DEFINE Col(b, i) == PrefixSum(SlotArray(h, b))[i]
<1> DEFINE a == [b \in Positions |-> SlotSum(h, b)]
<1>2. ASSUME NEW b \in Positions
      PROVE  /\ \A i \in 0..n : Col(b, i) \in Nat /\ Col(b, i) <= Col(b, n)
             /\ \A i \in 0..(n - 1) : h[i][b] \in Nat /\ Col(b, i + 1) = Col(b, i) + h[i][b]
             /\ Col(b, 0) = 0
  <2>1. \A i \in 0..(n - 1) : SlotArray(h, b)[i] = h[i][b] /\ h[i][b] \in Nat BY DEF SlotArray
  <2>2. \A i \in 0..n : Col(b, i) \in Nat /\ Col(b, i) <= Col(b, n)
    <3>1. \A i \in 0..(n - 1) : SlotArray(h, b)[i] \in Nat BY <2>1
    <3> QED BY <3>1, PositionFacts, PrefixSumMonotone
  <2>3. \A i \in 0..(n - 1) : Col(b, i + 1) = Col(b, i) + SlotArray(h, b)[i]
    BY PositionFacts, PrefixSumStep
  <2> QED BY <2>1, <2>2, <2>3, PrefixSumZero
<1> HIDE DEF Col
<1> DEFINE Ok(i) == /\ Within(g[i])
                    /\ \A b \in Positions : g[i][b] <= Col(b, i)
                    /\ Within(a) => \A b \in Positions : g[i][b] = Col(b, i)
<1>3. \A i \in 0..n : Ok(i)
  <2> DEFINE S == {i \in Nat : i <= n => Ok(i)}
  <2>1. 0 \in S BY <1>1, <1>2, ZeroFacts DEF Zero
  <2>2. ASSUME NEW i \in S PROVE i + 1 \in S
    <3> SUFFICES ASSUME i + 1 <= n PROVE Ok(i + 1) OBVIOUS
    <3>1. i \in Nat /\ i \in 0..(n - 1) /\ i \in 0..n /\ i + 1 \in 0..n /\ Ok(i) BY PositionFacts
    <3> HIDE DEF S, a
    <3>2. h[i] \in [Positions -> Nat] /\ Within(g[i]) /\ g[i] \in [Positions -> Nat]
      BY <3>1 DEF Within
    <3>3. g[i + 1] = MergedInto(g[i], h[i]) BY <1>1, <3>1
    <3>4. /\ Within(g[i + 1])
          /\ \A b \in Positions : g[i + 1][b] \in {g[i][b], g[i][b] + h[i][b]}
      BY <3>2, <3>3, MergedIntoFacts
    <3>5. \A b \in Positions : g[i + 1][b] <= Col(b, i + 1)
      <4> SUFFICES ASSUME NEW b \in Positions PROVE g[i + 1][b] <= Col(b, i + 1) OBVIOUS
      <4>1. g[i][b] \in Nat /\ h[i][b] \in Nat /\ Col(b, i) \in Nat /\ g[i][b] <= Col(b, i)
        BY <3>1, <3>2, <1>2
      <4>2. Col(b, i + 1) = Col(b, i) + h[i][b] BY <3>1, <1>2
      <4>3. g[i + 1][b] \in {g[i][b], g[i][b] + h[i][b]} BY <3>4
      <4> QED BY <4>1, <4>2, <4>3
    <3>6. ASSUME Within(a) PROVE \A b \in Positions : g[i + 1][b] = Col(b, i + 1)
      <4>1. \A b \in Positions : g[i][b] = Col(b, i) BY <3>1, <3>6
      <4>2. \A b \in Positions : g[i][b] + h[i][b] = Col(b, i + 1) BY <3>1, <4>1, <1>2
      <4>3. \A b \in Positions : a[b] = Col(b, n) BY DEF a, Col, SlotSum
      <4>4. \A b \in Positions : g[i][b] + h[i][b] <= a[b] BY <3>1, <4>2, <4>3, <1>2
      <4>5. \A b \in Positions : MergedInto(g[i], h[i])[b] = g[i][b] + h[i][b]
        BY <3>2, <3>6, <4>4, MergedIntoFacts
      <4> QED BY <3>3, <4>2, <4>5
    <3> QED BY <3>4, <3>5, <3>6
  <2>3. S = Nat
    <3>1. S \in SUBSET Nat OBVIOUS
    <3> HIDE DEF S
    <3> QED BY <2>1, <2>2, <3>1, SetInduction
  <2> HIDE DEF Ok
  <2> QED BY <2>3, PositionFacts
<1>4. Ok(n)
  <2> HIDE DEF Ok
  <2> QED BY <1>3, PositionFacts
<1>5. \A b \in Positions : SlotSum(h, b) = Col(b, n) BY DEF SlotSum, Col
<1>6. \A b \in Positions : SlotSum(h, b) \in Nat BY <1>2, <1>5, PositionFacts
<1>7. ASSUME Within(a) PROVE Merged = a
  <2>1. \A b \in Positions : Merged[b] = a[b] BY <1>1, <1>4, <1>5, <1>7
  <2>2. Merged \in [Positions -> Nat] BY <1>1, <1>4 DEF Within
  <2> QED BY <2>1, <2>2
<1> QED BY <1>1, <1>4, <1>5, <1>6, <1>7

-----------------------------------------------------------------------------
\* The latest of the epochs 0..x that used position i.
EpochAt(x, i) == CHOOSE e \in 0..x : e % n = i /\ \A f \in (e + 1)..x : f % n # i

\* Two epochs less than n apart use different histograms.
LEMMA SameSlot ==
  ASSUME NEW e \in Int, NEW f \in Int, e % n = f % n, e <= f, f < e + n
  PROVE  e = f
<1>1. n \in Nat \ {0} BY PositionFacts
<1>2. /\ e % n \in 0..(n - 1) /\ e \div n \in Int /\ e = n * (e \div n) + (e % n)
      /\ f % n \in 0..(n - 1) /\ f \div n \in Int /\ f = n * (f \div n) + (f % n)
  BY <1>1, DivMod
<1> DEFINE d == (f \div n) - (e \div n)
<1>3. d \in Int /\ n * d + 0 = n * 0 + (f - e) BY <1>1, <1>2
<1>4. 0 \in 0..(n - 1) /\ f - e \in 0..(n - 1) /\ 0 \in Int BY <1>1
<1>5. 0 = f - e
  <2> HIDE DEF d
  <2> QED BY <1>1, <1>3, <1>4, DivModUnique
<1> QED BY <1>5

\* The cursor is back at a position after n rotations.
LEMMA ModPeriod == ASSUME NEW e \in Int PROVE (e + n) % n = e % n
<1>1. n \in Nat \ {0} BY PositionFacts
<1>2. e % n \in 0..(n - 1) /\ e \div n \in Int /\ e = n * (e \div n) + (e % n) BY <1>1, DivMod
<1> DEFINE q == (e \div n) + 1
<1>3. q \in Int /\ e + n = n * q + (e % n) BY <1>1, <1>2
<1> HIDE DEF q
<1> QED BY <1>1, <1>2, <1>3, ModOf

\* The position of an epoch is one of the window, and the first epochs use the
\* positions in order.
LEMMA SlotOf ==
  ASSUME NEW e \in Nat
  PROVE  e % n \in 0..(n - 1) /\ e % n <= e /\ (e < n => e % n = e)
<1>1. n \in Nat \ {0} BY PositionFacts
<1>2. e % n \in 0..(n - 1) /\ e \div n \in Int /\ e = n * (e \div n) + (e % n) BY <1>1, DivMod
<1>3. ASSUME e < n PROVE e % n = e
  <2>1. e \in 0..(n - 1) /\ 0 \in Int /\ n * 0 + e = e BY <1>1, <1>3
  <2> QED BY <1>1, <2>1, ModOf
<1>4. CASE e < n BY <1>2, <1>3, <1>4
<1>5. CASE e >= n BY <1>1, <1>2, <1>5
<1> QED BY <1>1, <1>2, <1>3, <1>4, <1>5

\* A position that has been current belongs to exactly one of the last n epochs.
LEMMA EpochFacts ==
  ASSUME NEW x \in Nat, NEW i \in 0..(n - 1), i <= x
  PROVE  /\ EpochAt(x, i) \in 0..x
         /\ EpochAt(x, i) % n = i
         /\ EpochAt(x, i) > x - n
         /\ \A e \in 0..x : e % n = i /\ e > x - n => e = EpochAt(x, i)
<1>1. n \in Nat \ {0} /\ i \in Nat BY PositionFacts
<1> DEFINE r == (x - i) % n
<1> DEFINE q == (x - i) \div n
<1> DEFINE o == x - r
<1> DEFINE P(e) == e % n = i /\ \A f \in (e + 1)..x : f % n # i
<1>2. x - i \in Nat /\ r \in 0..(n - 1) /\ q \in Int /\ x - i = n * q + r
  <2>1. x - i \in Nat /\ x - i \in Int BY <1>1
  <2> DEFINE y == x - i
  <2> HIDE DEF y
  <2>2. y % n \in 0..(n - 1) /\ y \div n \in Int /\ y = n * (y \div n) + (y % n)
    BY <1>1, <2>1, DivMod DEF y
  <2> QED BY <2>1, <2>2 DEF y
<1>3. r <= x - i
  <2> HIDE DEF r
  <2>1. (x - i) % n <= x - i BY <1>2, SlotOf
  <2> QED BY <2>1 DEF r
<1>4. o \in 0..x /\ o > x - n BY <1>1, <1>2, <1>3
<1>5. o = n * q + i BY <1>1, <1>2
<1>6. o % n = i
  <2> HIDE DEF o, q
  <2> QED BY <1>1, <1>2, <1>5, ModOf
<1> HIDE DEF o, q, r
<1>7. ASSUME NEW f \in Int, f > x - n, f <= x, f % n = i PROVE f = o
  <2>1. o \in Int /\ o <= f => f < o + n BY <1>4, <1>7, <1>1
  <2>2. f <= o => o < f + n BY <1>4, <1>7, <1>1
  <2>3. CASE o <= f BY <2>1, <2>3, <1>6, <1>7, <1>4, SameSlot
  <2>4. CASE f <= o BY <2>2, <2>4, <1>6, <1>7, <1>4, SameSlot
  <2> QED BY <2>3, <2>4, <1>4
<1>8. P(o)
  <2> SUFFICES ASSUME NEW f \in (o + 1)..x PROVE f % n # i BY <1>6
  <2>1. f \in Int /\ f > x - n /\ f <= x /\ f # o BY <1>4, <1>1
  <2> QED BY <2>1, <1>7
<1> DEFINE E == EpochAt(x, i)
<1>9. E \in 0..x /\ P(E)
  <2>1. E = CHOOSE e \in 0..x : P(e) BY DEF EpochAt
  <2> HIDE DEF P, E
  <2> QED BY <1>4, <1>8, <2>1
<1> HIDE DEF E
<1>10. E = o
  <2>1. CASE E < o
    <3>1. o \in (E + 1)..x BY <2>1, <1>4, <1>9
    <3> QED BY <3>1, <1>6, <1>9
  <2>2. CASE E > o
    <3>1. E \in (o + 1)..x BY <2>2, <1>4, <1>9
    <3> QED BY <3>1, <1>8, <1>9
  <2> QED BY <2>1, <2>2, <1>4, <1>9
<1>11. \A e \in 0..x : e % n = i /\ e > x - n => e = E
  <2> HIDE DEF P
  <2> QED BY <1>7, <1>10
<1> QED BY <1>4, <1>6, <1>10, <1>11 DEF E

\* What a rotation does to the epochs: the position reused gets the new one, no
\* other position's changes, and a position is reused after n rotations.
LEMMA EpochRotate ==
  ASSUME NEW x \in Nat
  PROVE  LET p == (x + 1) % n IN
         /\ p \in 0..(n - 1) /\ p <= x + 1 /\ EpochAt(x + 1, p) = x + 1
         /\ \A i \in 0..(n - 1) : i # p /\ i <= x + 1
              => i <= x /\ EpochAt(x + 1, i) = EpochAt(x, i)
         /\ x + 1 < n => p = x + 1
         /\ x + 1 >= n => p <= x /\ EpochAt(x, p) = x + 1 - n
<1> DEFINE p == (x + 1) % n
<1>1. n \in Nat \ {0} /\ x + 1 \in Nat BY PositionFacts
<1>2. p \in 0..(n - 1) /\ p <= x + 1 /\ (x + 1 < n => p = x + 1) BY <1>1, SlotOf
<1>3. EpochAt(x + 1, p) = x + 1
  <2>1. x + 1 \in 0..(x + 1) /\ x + 1 > (x + 1) - n /\ (x + 1) % n = p BY <1>1
  <2> HIDE DEF p
  <2> QED BY <1>1, <1>2, <2>1, EpochFacts
<1>4. ASSUME NEW i \in 0..(n - 1), i # p, i <= x + 1
      PROVE  i <= x /\ EpochAt(x + 1, i) = EpochAt(x, i)
  <2>1. i <= x
    <3>1. i = x + 1 => x + 1 < n BY <1>1
    <3> HIDE DEF p
    <3> QED BY <3>1, <1>1, <1>2, <1>4
  <2> DEFINE E == EpochAt(x + 1, i)
  <2>2. E \in 0..(x + 1) /\ E % n = i /\ E > (x + 1) - n BY <1>1, <1>4, EpochFacts
  <2> HIDE DEF E
  <2>3. E # x + 1 BY <2>2, <1>4
  <2>4. E \in 0..x /\ E > x - n BY <2>2, <2>3, <1>1
  <2>5. E = EpochAt(x, i) BY <2>1, <2>2, <2>4, EpochFacts
  <2> QED BY <2>1, <2>5 DEF E
<1>5. ASSUME x + 1 >= n PROVE p <= x /\ EpochAt(x, p) = x + 1 - n
  <2> DEFINE k == x + 1 - n
  <2>1. k \in 0..x /\ k > x - n /\ k + n = x + 1 /\ k \in Int BY <1>1, <1>5
  <2>2. k % n = p
    <3> HIDE DEF k
    <3> QED BY <2>1, ModPeriod
  <2>3. p <= x
    <3>1. p <= n - 1 BY <1>2
    <3> HIDE DEF p, k
    <3> QED BY <3>1, <1>1, <1>2, <1>5
  <2> HIDE DEF p, k
  <2>4. k = EpochAt(x, p) BY <2>1, <2>2, <2>3, <1>2, EpochFacts
  <2> QED BY <2>3, <2>4 DEF k
<1> QED BY <1>2, <1>3, <1>4, <1>5

\* What the epochs of the window recorded at position b, summed.
WindowArray(x, r, b) == [e \in 0..x |-> IF e > x - n THEN r[e][b] ELSE 0]
WindowSum(x, r, b) == PrefixSum(WindowArray(x, r, b))[x + 1]

\* The inductive invariant: the histograms hold their epochs and no total exceeds
\* the limit, so at every position they hold together what the window recorded.
SlotsInv ==
  /\ SlotsHoldTheirEpoch
  /\ held <= idx
  /\ \A i \in 0..(n - 1) : Total(h[i]) <= MaxCount

SumsAgree == \A b \in Positions : SlotSum(h, b) = WindowSum(idx, recorded, b)

WindowInv == SlotsInv /\ SumsAgree /\ MergeIsWindow

\* NewWindowed leaves n empty histograms, the first of them current.
LEMMA InitWindow == Init => WindowInv
<1> SUFFICES ASSUME Init PROVE WindowInv OBVIOUS
<1> USE DEF Init
<1>1. n \in Nat \ {0} /\ MaxRotations \in Nat BY PositionFacts
<1>2. Zero \in Counts BY ZeroFacts DEF Counts
<1>3. TypeOK
  <2>1. \A b \in Positions : asked[b] \in Nat BY DEF Zero
  <2> QED BY <1>1, <1>2, <2>1 DEF TypeOK, Zero
<1>4. 0 % n = 0 BY <1>1, SlotOf
<1>5. EpochAt(0, 0) = 0
  <2>1. 0 \in 0..(n - 1) /\ 0 <= 0 BY <1>1
  <2>2. EpochAt(0, 0) \in 0..0 BY <2>1, EpochFacts
  <2> QED BY <2>2
<1>6. \A i \in 0..(n - 1) : h[i] = IF i <= idx THEN recorded[Epoch(i)] ELSE Zero
  <2> SUFFICES ASSUME NEW i \in 0..(n - 1), i <= 0 PROVE recorded[Epoch(i)] = Zero OBVIOUS
  <2>1. i = 0 /\ Epoch(i) = EpochAt(0, 0) BY <1>1 DEF Epoch, EpochAt
  <2> QED BY <2>1, <1>5
<1>7. SlotsInv BY <1>1, <1>3, <1>4, <1>6, ZeroFacts, PositionFacts DEF SlotsInv, SlotsHoldTheirEpoch
<1>8. SumsAgree
  <2> SUFFICES ASSUME NEW b \in Positions PROVE SlotSum(h, b) = WindowSum(idx, recorded, b)
    BY DEF SumsAgree
  <2>1. \A i \in 0..(n - 1) : SlotArray(h, b)[i] = 0 BY DEF SlotArray, Zero
  <2>2. SlotSum(h, b) = 0 BY <2>1, PositionFacts, PrefixSumOfZeros DEF SlotSum
  <2>3. \A e \in 0..((idx + 1) - 1) : WindowArray(idx, recorded, b)[e] = 0
    BY DEF WindowArray, Zero
  <2>4. idx + 1 \in Nat /\ idx + 1 \in 0..(idx + 1) OBVIOUS
  <2>5. WindowSum(idx, recorded, b) = 0 BY <2>3, <2>4, PrefixSumOfZeros DEF WindowSum
  <2> QED BY <2>2, <2>5
<1>9. MergeIsWindow BY ZeroFacts, PositionFacts DEF MergeIsWindow
<1> QED BY <1>7, <1>8, <1>9 DEF WindowInv

\* The typing facts the steps below use.
LEMMA WindowTypes ==
  ASSUME SlotsInv
  PROVE  /\ idx \in Nat /\ idx <= MaxRotations
         /\ h \in [0..(n - 1) -> Counts]
         /\ h \in [0..(n - 1) -> [Positions -> Nat]]
         /\ \A i \in 0..(n - 1) : Within(h[i])
         /\ recorded \in [0..idx -> Counts]
         /\ recorded \in [0..idx -> [Positions -> Nat]]
         /\ Current = idx % n /\ Current \in 0..(n - 1) /\ Current <= idx
         /\ EpochAt(idx, Current) = idx
         /\ held \in 0..(n - 1) /\ held <= idx
         /\ \A i \in 0..(n - 1) : h[i] = IF i <= idx THEN recorded[EpochAt(idx, i)] ELSE Zero
<1> USE DEF SlotsInv, SlotsHoldTheirEpoch, TypeOK
<1>1. n \in Nat \ {0} /\ MaxRotations \in Nat /\ MaxCount \in Nat BY PositionFacts
<1>2. idx \in Nat /\ idx <= MaxRotations BY <1>1
<1>3. Counts \subseteq [Positions -> Nat] BY <1>1 DEF Counts
<1>4. /\ h \in [0..(n - 1) -> [Positions -> Nat]]
      /\ recorded \in [0..idx -> [Positions -> Nat]]
  BY <1>3
<1>5. \A i \in 0..(n - 1) : Within(h[i]) BY <1>4 DEF Within
<1>6. Current = idx % n /\ Current \in 0..(n - 1) /\ Current <= idx BY <1>2, SlotOf
<1>7. EpochAt(idx, Current) = idx
  <2>1. idx \in 0..idx /\ idx > idx - n /\ idx % n = Current BY <1>1, <1>2, <1>6
  <2> QED BY <1>2, <1>6, <2>1, EpochFacts
<1>8. \A i : Epoch(i) = EpochAt(idx, i) BY DEF Epoch, EpochAt
<1> QED BY <1>2, <1>4, <1>5, <1>6, <1>7, <1>8

\* A value recorded into the histogram of an epoch of the window, through Current
\* or through a pointer taken earlier, is a value of that epoch.
LEMMA RecordSlots ==
  ASSUME SlotsInv, NEW i \in 0..(n - 1), i <= idx, NEW b \in Positions,
         Record(i, EpochAt(idx, i), b)
  PROVE  SlotsInv'
<1> DEFINE e == EpochAt(idx, i)
<1>1. /\ idx \in Nat /\ n \in Nat \ {0}
      /\ h \in [0..(n - 1) -> [Positions -> Nat]]
      /\ Within(h[i]) /\ h[i] = recorded[e]
      /\ recorded \in [0..idx -> [Positions -> Nat]]
  BY WindowTypes, PositionFacts
<1>2. e \in 0..idx /\ e % n = i BY <1>1, EpochFacts
<1> HIDE DEF e
<1>3. /\ h' = [h EXCEPT ![i][b] = @ + 1]
      /\ recorded' = [recorded EXCEPT ![e][b] = @ + 1]
      /\ Total(h[i]) < MaxCount
      /\ UNCHANGED <<idx, m, Current, held, asked>>
  BY DEF Record, Admits, e
<1> DEFINE c == [h[i] EXCEPT ![b] = @ + 1]
<1>4. Within(c)
  <2>1. h[i] \in [Positions -> Nat] BY <1>1
  <2>2. c \in [Positions -> Nat] BY <2>1
  <2>3. Total(c) = Total(h[i]) + 1 /\ Total(h[i]) \in Nat BY <2>1, TotalFacts
  <2> HIDE DEF c
  <2> QED BY <2>2, <2>3, <1>3, PositionFacts DEF Within
<1>5. c \in Counts
  <2> HIDE DEF c
  <2> QED BY <1>4, WithinCounts
<1>6. h' = [h EXCEPT ![i] = c] /\ recorded' = [recorded EXCEPT ![e] = c] BY <1>1, <1>2, <1>3
<1> HIDE DEF c
<1>7. h' \in [0..(n - 1) -> Counts] /\ recorded' \in [0..idx' -> Counts]
  BY <1>3, <1>5, <1>6, WindowTypes
<1>8. ASSUME NEW j \in 0..(n - 1)
      PROVE  /\ h'[j] = IF j <= idx' THEN recorded'[Epoch(j)'] ELSE Zero
             /\ Total(h'[j]) <= MaxCount
  <2>1. Epoch(j)' = EpochAt(idx, j) BY <1>3 DEF Epoch, EpochAt
  <2>2. CASE j = i
    <3>1. h'[j] = c /\ recorded'[e] = c BY <2>2, <1>1, <1>2, <1>6
    <3> QED BY <2>1, <2>2, <3>1, <1>3, <1>4 DEF Within, e
  <2>3. CASE j # i
    <3>1. h'[j] = h[j] /\ Within(h[j]) BY <2>3, <1>1, <1>6, WindowTypes
    <3>2. ASSUME j <= idx PROVE recorded'[EpochAt(idx, j)] = recorded[EpochAt(idx, j)]
      <4>1. EpochAt(idx, j) \in 0..idx /\ EpochAt(idx, j) % n = j BY <1>1, <3>2, EpochFacts
      <4>2. EpochAt(idx, j) # e BY <4>1, <1>2, <2>3
      <4> QED BY <4>1, <4>2, <1>1, <1>6
    <3> QED BY <2>1, <3>1, <3>2, <1>3, WindowTypes DEF Within
  <2> QED BY <2>2, <2>3
<1>9. TypeOK' BY <1>3, <1>7 DEF SlotsInv, SlotsHoldTheirEpoch, TypeOK
<1>10. SlotsHoldTheirEpoch'
  <2>1. Current' = idx' % n BY <1>3, WindowTypes
  <2> QED BY <2>1, <1>8, <1>9 DEF SlotsHoldTheirEpoch
<1>11. held' <= idx' BY <1>3, WindowTypes
<1> QED BY <1>8, <1>10, <1>11 DEF SlotsInv

\* The entry of the window's array at e, and its length.
LEMMA WindowArrayFacts ==
  ASSUME NEW x \in Nat, NEW r \in [0..x -> [Positions -> Nat]], NEW b \in Positions
  PROVE  /\ x + 1 \in Nat /\ 0..((x + 1) - 1) = 0..x
         /\ \A e \in 0..x : /\ WindowArray(x, r, b)[e] = IF e > x - n THEN r[e][b] ELSE 0
                            /\ WindowArray(x, r, b)[e] \in Nat
BY DEF WindowArray

\* The same value is added to one histogram and to one epoch of the window.
LEMMA RecordSums ==
  ASSUME SlotsInv, SumsAgree, NEW i \in 0..(n - 1), i <= idx, NEW b \in Positions,
         Record(i, EpochAt(idx, i), b)
  PROVE  SumsAgree'
<1> DEFINE e == EpochAt(idx, i)
<1>1. /\ idx \in Nat /\ n \in Nat \ {0}
      /\ h \in [0..(n - 1) -> [Positions -> Nat]]
      /\ recorded \in [0..idx -> [Positions -> Nat]]
  BY WindowTypes, PositionFacts
<1>2. e \in 0..idx /\ e > idx - n BY <1>1, EpochFacts
<1> HIDE DEF e
<1>3. /\ h' = [h EXCEPT ![i][b] = @ + 1]
      /\ recorded' = [recorded EXCEPT ![e][b] = @ + 1]
      /\ idx' = idx
  BY DEF Record, e
<1>4. recorded[e] \in [Positions -> Nat] BY <1>1, <1>2
<1> SUFFICES ASSUME NEW d \in Positions PROVE SlotSum(h', d) = WindowSum(idx, recorded', d)
  BY <1>3 DEF SumsAgree
<1> DEFINE a == IF d = b THEN 1 ELSE 0
<1>5. a \in Int OBVIOUS
<1>6. Raised(SlotArray(h, d), SlotArray(h', d), n, i, a)
  BY <1>1, <1>3 DEF Raised, SlotArray
<1>7. Raised(WindowArray(idx, recorded, d), WindowArray(idx, recorded', d), idx + 1, e, a)
  <2> DEFINE c == [recorded[e] EXCEPT ![b] = @ + 1]
  <2>0. c[d] = recorded[e][d] + a BY <1>4
  <2>1. \A f \in 0..idx : recorded'[f][d] = IF f = e THEN recorded[f][d] + a ELSE recorded[f][d]
    <3>1. recorded' = [recorded EXCEPT ![e] = c] BY <1>1, <1>2, <1>3
    <3> HIDE DEF c, a
    <3> QED BY <3>1, <2>0, <1>1, <1>2
  <2>2. \A f \in 0..idx : WindowArray(idx, recorded, d)[f] \in Int
    <3>1. \A f \in 0..idx : recorded[f][d] \in Int BY <1>1
    <3> QED BY <3>1 DEF WindowArray
  <2>3. \A f \in 0..idx : WindowArray(idx, recorded', d)[f]
          = IF f = e THEN WindowArray(idx, recorded, d)[f] + a ELSE WindowArray(idx, recorded, d)[f]
    BY <1>1, <1>2, <2>1 DEF WindowArray
  <2>4. 0..((idx + 1) - 1) = 0..idx BY <1>1
  <2> HIDE DEF a
  <2> QED BY <2>2, <2>3, <2>4 DEF Raised
<1> HIDE DEF a
<1>8. SlotSum(h', d) = SlotSum(h, d) + a
  <2>1. n \in Nat /\ n \in 0..n /\ i < n BY <1>1
  <2> QED BY <1>5, <1>6, <2>1, PrefixSumUpdate DEF SlotSum
<1>9. WindowSum(idx, recorded', d) = WindowSum(idx, recorded, d) + a
  <2>1. idx + 1 \in Nat /\ idx + 1 \in 0..(idx + 1) /\ e < idx + 1 /\ e \in 0..((idx + 1) - 1)
    BY <1>1, <1>2
  <2> QED BY <1>5, <1>7, <2>1, PrefixSumUpdate DEF WindowSum
<1> QED BY <1>8, <1>9 DEF SumsAgree

\* A rotation resets the histogram it makes current and no other.
LEMMA RotateSlots == ASSUME SlotsInv, Rotate PROVE SlotsInv'
<1> DEFINE p == (idx + 1) % n
<1>1. /\ idx \in Nat /\ n \in Nat \ {0} /\ MaxRotations \in Nat /\ idx + 1 \in Nat
      /\ h \in [0..(n - 1) -> Counts] /\ recorded \in [0..idx -> Counts]
      /\ held \in 0..(n - 1) /\ held <= idx
  BY WindowTypes, PositionFacts
<1>2. /\ idx < MaxRotations /\ idx' = idx + 1 /\ Current' = p
      /\ h' = [h EXCEPT ![p] = Zero]
      /\ recorded' = [e \in 0..(idx + 1) |-> IF e \in 0..idx THEN recorded[e] ELSE Zero]
      /\ UNCHANGED <<m, held, asked>>
  BY <1>1 DEF Rotate, Reused
<1>3. /\ p \in 0..(n - 1) /\ p <= idx + 1 /\ EpochAt(idx + 1, p) = idx + 1
      /\ \A i \in 0..(n - 1) : i # p /\ i <= idx + 1
           => i <= idx /\ EpochAt(idx + 1, i) = EpochAt(idx, i)
  BY <1>1, EpochRotate
<1> HIDE DEF p
<1>4. Zero \in Counts BY ZeroFacts DEF Counts
<1>5. TypeOK'
  <2>1. idx' \in 0..MaxRotations BY <1>1, <1>2
  <2>2. h' \in [0..(n - 1) -> Counts] /\ recorded' \in [0..idx' -> Counts] BY <1>1, <1>2, <1>4
  <2> QED BY <2>1, <2>2, <1>1, <1>2, <1>3 DEF SlotsInv, SlotsHoldTheirEpoch, TypeOK
<1>6. ASSUME NEW i \in 0..(n - 1)
      PROVE  /\ h'[i] = IF i <= idx' THEN recorded'[Epoch(i)'] ELSE Zero
             /\ Total(h'[i]) <= MaxCount
  <2>1. Epoch(i)' = EpochAt(idx + 1, i) BY <1>2 DEF Epoch, EpochAt
  <2>2. CASE i = p
    <3>1. h'[i] = Zero BY <2>2, <1>1, <1>2
    <3>2. recorded'[idx + 1] = Zero BY <1>1, <1>2
    <3> QED BY <2>1, <2>2, <3>1, <3>2, <1>2, <1>3, ZeroFacts, PositionFacts
  <2>3. CASE i # p
    <3>1. h'[i] = h[i] /\ Within(h[i]) BY <2>3, <1>1, <1>2, WindowTypes
    <3>2. CASE i <= idx + 1
      <4>1. i <= idx /\ EpochAt(idx + 1, i) = EpochAt(idx, i) BY <2>3, <3>2, <1>3
      <4>2. EpochAt(idx, i) \in 0..idx BY <1>1, <4>1, EpochFacts
      <4>3. recorded'[EpochAt(idx, i)] = recorded[EpochAt(idx, i)]
        <5>1. EpochAt(idx, i) \in 0..(idx + 1) BY <4>2, <1>1
        <5> QED BY <4>2, <5>1, <1>2
      <4>4. h[i] = recorded[EpochAt(idx, i)] BY <4>1, WindowTypes
      <4> QED BY <2>1, <3>1, <3>2, <4>1, <4>3, <4>4, <1>2 DEF Within
    <3>3. CASE ~(i <= idx + 1)
      <4>1. ~(i <= idx) BY <3>3, <1>1
      <4> QED BY <3>1, <3>3, <4>1, <1>2, WindowTypes DEF Within
    <3> QED BY <3>2, <3>3
  <2> QED BY <2>2, <2>3
<1>7. Current' = idx' % n BY <1>2 DEF p
<1>8. held' <= idx' BY <1>1, <1>2
<1> QED BY <1>5, <1>6, <1>7, <1>8 DEF SlotsInv, SlotsHoldTheirEpoch

\* The counts a rotation clears are those of the epoch that leaves the window.
LEMMA RotateSums == ASSUME SlotsInv, SumsAgree, Rotate PROVE SumsAgree'
<1> DEFINE p == (idx + 1) % n
<1>1. /\ idx \in Nat /\ n \in Nat \ {0} /\ idx + 1 \in Nat
      /\ h \in [0..(n - 1) -> [Positions -> Nat]]
      /\ recorded \in [0..idx -> [Positions -> Nat]]
  <2>1. idx \in Nat /\ n \in Nat \ {0} BY WindowTypes, PositionFacts
  <2>2. /\ h \in [0..(n - 1) -> [Positions -> Nat]]
        /\ recorded \in [0..idx -> [Positions -> Nat]]
    BY WindowTypes
  <2> QED BY <2>1, <2>2
<1>2. /\ idx' = idx + 1
      /\ h' = [h EXCEPT ![p] = Zero]
      /\ recorded' = [e \in 0..(idx + 1) |-> IF e \in 0..idx THEN recorded[e] ELSE Zero]
  BY <1>1 DEF Rotate, Reused
<1>3. /\ p \in 0..(n - 1)
      /\ idx + 1 < n => p = idx + 1
      /\ idx + 1 >= n => p <= idx /\ EpochAt(idx, p) = idx + 1 - n
  BY <1>1, EpochRotate
<1> HIDE DEF p
<1>4. recorded' \in [0..(idx + 1) -> [Positions -> Nat]] BY <1>1, <1>2, ZeroFacts
<1> SUFFICES ASSUME NEW b \in Positions PROVE SlotSum(h', b) = WindowSum(idx + 1, recorded', b)
  BY <1>2 DEF SumsAgree
<1> DEFINE old == WindowArray(idx, recorded, b)
<1> DEFINE new == WindowArray(idx + 1, recorded', b)
<1>5. /\ \A e \in 0..idx : old[e] \in Nat /\ old[e] = IF e > idx - n THEN recorded[e][b] ELSE 0
      /\ \A e \in 0..idx : new[e] = IF e > (idx + 1) - n THEN recorded[e][b] ELSE 0
      /\ new[idx + 1] = 0
  <2>1. \A e \in 0..idx : old[e] \in Nat /\ old[e] = IF e > idx - n THEN recorded[e][b] ELSE 0
    BY <1>1, WindowArrayFacts
  <2>2. \A e \in 0..idx : new[e] = IF e > (idx + 1) - n THEN recorded[e][b] ELSE 0
    BY <1>1, <1>2 DEF WindowArray
  <2>3. new[idx + 1] = 0 BY <1>1, <1>2 DEF WindowArray, Zero
  <2> QED BY <2>1, <2>2, <2>3
<1> HIDE DEF old, new
<1>6. idx + 1 \in 0..(idx + 1) /\ 0..((idx + 1) - 1) = 0..idx /\ n \in 0..n /\ n \in Nat BY <1>1
<1>7. PrefixSum(new)[(idx + 1) + 1] = PrefixSum(new)[idx + 1] + 0
  BY <1>1, <1>5, PrefixSumStep
<1>8. PrefixSum(old)[idx + 1] \in Int
  <2>1. \A e \in 0..idx : old[e] \in Int BY <1>5
  <2>2. \A e \in 0..((idx + 1) - 1) : old[e] \in Int BY <1>6, <2>1
  <2> QED BY <1>1, <1>6, <2>2, PrefixSumType
<1>9. CASE idx + 1 < n
  <2>1. \A e \in 0..((idx + 1) - 1) : new[e] = old[e]
    <3>1. \A e \in 0..idx : e > idx - n /\ e > (idx + 1) - n BY <1>1, <1>9
    <3>2. \A e \in 0..idx : new[e] = old[e] BY <3>1, <1>5
    <3> QED BY <3>2, <1>6
  <2>2. PrefixSum(new)[idx + 1] = PrefixSum(old)[idx + 1]
    <3> DEFINE L == idx + 1
    <3>1. L \in Nat /\ L \in 0..L /\ \A e \in 0..(L - 1) : new[e] = old[e] BY <1>1, <1>6, <2>1
    <3> HIDE DEF L
    <3>2. \A k \in 0..L : PrefixSum(new)[k] = PrefixSum(old)[k] BY <3>1, PrefixSumAgree
    <3> QED BY <3>1, <3>2 DEF L
  <2>3. h[p] = Zero
    <3>1. ~(p <= idx) BY <1>1, <1>3, <1>9
    <3> QED BY <3>1, <1>3, WindowTypes
  <2>4. h' = h BY <2>3, <1>1, <1>2, <1>3
  <2> QED BY <1>7, <1>8, <2>2, <2>4 DEF SumsAgree, WindowSum, old, new
<1>10. CASE idx + 1 >= n
  <2> DEFINE k == idx + 1 - n
  <2> DEFINE a == -recorded[k][b]
  <2>1. k \in 0..idx /\ k > idx - n /\ ~(k > (idx + 1) - n) BY <1>1, <1>10
  <2>2. a \in Int /\ old[k] = recorded[k][b] /\ recorded[k][b] \in Nat BY <1>1, <1>5, <2>1
  <2>3. h[p] = recorded[k] BY <1>3, <1>10, WindowTypes
  <2>4. Raised(old, new, idx + 1, k, a)
    <3>1. ASSUME NEW e \in 0..idx PROVE new[e] = IF e = k THEN old[e] + a ELSE old[e]
      <4>1. CASE e = k BY <4>1, <1>5, <2>1, <2>2
      <4>2. CASE e # k
        <5>1. (e > idx - n) <=> (e > (idx + 1) - n) BY <4>2, <1>1
        <5> QED BY <4>2, <5>1, <1>5
      <4> QED BY <4>1, <4>2
    <3>2. \A e \in 0..idx : old[e] \in Int BY <1>5
    <3> HIDE DEF k, a
    <3> QED BY <3>1, <3>2, <1>6 DEF Raised
  <2>5. Raised(SlotArray(h, b), SlotArray(h', b), n, p, a)
    <3>1. \A i \in 0..(n - 1) : SlotArray(h, b)[i] = h[i][b] /\ h[i][b] \in Int
      BY <1>1 DEF SlotArray
    <3>2. ASSUME NEW i \in 0..(n - 1)
          PROVE  SlotArray(h', b)[i] = IF i = p THEN h[i][b] + a ELSE h[i][b]
      <4>1. SlotArray(h', b)[i] = h'[i][b] BY DEF SlotArray
      <4>2. CASE i = p
        <5>1. h'[i][b] = 0 BY <4>2, <1>1, <1>2 DEF Zero
        <5>2. h[i][b] + a = 0 BY <4>2, <2>2, <2>3
        <5> QED BY <4>1, <4>2, <5>1, <5>2
      <4>3. CASE i # p BY <4>1, <4>3, <1>1, <1>2
      <4> QED BY <4>2, <4>3
    <3> HIDE DEF a
    <3> QED BY <3>1, <3>2 DEF Raised
  <2> HIDE DEF a
  <2>6. SlotSum(h', b) = SlotSum(h, b) + a
    <3>1. p < n BY <1>1, <1>3
    <3> QED BY <3>1, <1>3, <1>6, <2>2, <2>5, PrefixSumUpdate DEF SlotSum
  <2>7. PrefixSum(new)[idx + 1] = PrefixSum(old)[idx + 1] + a
    <3>1. k < idx + 1 /\ k \in 0..((idx + 1) - 1) BY <1>1, <2>1
    <3> HIDE DEF k
    <3> QED BY <3>1, <1>1, <1>6, <2>2, <2>4, PrefixSumUpdate
  <2>8. WindowSum(idx + 1, recorded', b) = WindowSum(idx, recorded, b) + a
    BY <1>7, <1>8, <2>2, <2>7 DEF WindowSum, old, new
  <2> QED BY <2>6, <2>8 DEF SumsAgree
<1> QED BY <1>1, <1>9, <1>10

\* Merge changes nothing but its result, which is the window's content.
LEMMA MergeWindow == ASSUME SlotsInv, SumsAgree, Merge PROVE SlotsInv' /\ SumsAgree' /\ MergeIsWindow'
<1>1. /\ m' = Merged /\ asked' = [b \in Positions |-> WindowCount(b)]
      /\ UNCHANGED <<idx, h, Current, held, recorded>>
  BY DEF Merge
<1>2. h \in [0..(n - 1) -> [Positions -> Nat]] /\ idx \in Nat BY WindowTypes
<1>3. ASSUME NEW b \in Positions PROVE WindowCount(b) = SlotSum(h, b)
  <2>1. [e \in 0..idx |-> IF e \in Window THEN recorded[e][b] ELSE 0] = WindowArray(idx, recorded, b)
    BY DEF Window, WindowArray
  <2>2. WindowCount(b) = WindowSum(idx, recorded, b) BY <2>1 DEF WindowCount, WindowSum
  <2> QED BY <2>2 DEF SumsAgree
<1>4. asked' = [b \in Positions |-> SlotSum(h, b)] BY <1>1, <1>3
<1>5. /\ Within(Merged)
      /\ \A b \in Positions : SlotSum(h, b) \in Nat /\ Merged[b] <= SlotSum(h, b)
      /\ Within([b \in Positions |-> SlotSum(h, b)]) => Merged = [b \in Positions |-> SlotSum(h, b)]
  BY <1>2, MergedFacts
<1>6. TypeOK'
  <2>1. m' \in Counts BY <1>1, <1>5, WithinCounts
  <2>2. DOMAIN asked' = Positions /\ \A b \in Positions : asked'[b] \in Nat BY <1>4, <1>5
  <2> QED BY <1>1, <2>1, <2>2 DEF SlotsInv, SlotsHoldTheirEpoch, TypeOK
<1>7. SlotsInv'
  <2>1. \A i : Epoch(i)' = Epoch(i) BY <1>1 DEF Epoch
  <2> QED BY <1>1, <1>6, <2>1 DEF SlotsInv, SlotsHoldTheirEpoch
<1>8. SumsAgree' BY <1>1 DEF SumsAgree
<1>9. MergeIsWindow'
  <2>1. asked' \in [Positions -> Nat] BY <1>4, <1>5
  <2>2. Within(asked') <=> Total(asked') <= MaxCount BY <2>1 DEF Within
  <2>3. Total(m') <= MaxCount BY <1>1, <1>5 DEF Within
  <2>4. \A b \in Positions : m'[b] <= asked'[b] BY <1>1, <1>4, <1>5
  <2>5. Within(asked') => m' = asked' BY <1>1, <1>4, <1>5
  <2>6. Total(asked)' = Total(asked') /\ Total(m)' = Total(m') BY DEF Total
  <2> QED BY <2>2, <2>3, <2>4, <2>5 DEF MergeIsWindow
<1> QED BY <1>7, <1>8, <1>9

\* Every step of the program keeps the invariant.
LEMMA NextWindow == WindowInv /\ [Next]_vars => WindowInv'
<1> SUFFICES ASSUME WindowInv, [Next]_vars PROVE WindowInv' OBVIOUS
<1>1. SlotsInv /\ SumsAgree /\ MergeIsWindow BY DEF WindowInv
<1>2. ASSUME UNCHANGED <<m, asked>> PROVE MergeIsWindow'
  BY <1>1, <1>2 DEF MergeIsWindow, Total
<1>3. ASSUME NEW i \in 0..(n - 1), i <= idx, NEW b \in Positions, Record(i, EpochAt(idx, i), b)
      PROVE  WindowInv'
  <2>1. UNCHANGED <<m, asked>> BY <1>3 DEF Record
  <2> QED BY <2>1, <1>1, <1>2, <1>3, RecordSlots, RecordSums DEF WindowInv
<1>4. ASSUME NEW b \in Positions, RecordCurrent(b) PROVE WindowInv'
  <2>1. Current \in 0..(n - 1) /\ Current <= idx /\ EpochAt(idx, Current) = idx BY <1>1, WindowTypes
  <2>2. Record(Current, EpochAt(idx, Current), b) BY <1>4, <2>1 DEF RecordCurrent
  <2> QED BY <2>1, <2>2, <1>3
<1>5. ASSUME NEW b \in Positions, RecordHeld(b) PROVE WindowInv'
  <2>1. held \in 0..(n - 1) /\ held <= idx BY <1>1, WindowTypes
  <2>2. Record(held, EpochAt(idx, held), b) BY <1>5 DEF RecordHeld, Epoch, EpochAt
  <2> QED BY <2>1, <2>2, <1>3
<1>6. CASE Hold
  <2>1. held' = Current /\ UNCHANGED <<idx, h, m, Current, recorded, asked>> BY <1>6 DEF Hold
  <2>2. Current \in 0..(n - 1) /\ Current <= idx BY <1>1, WindowTypes
  <2>3. \A i : Epoch(i)' = Epoch(i) BY <2>1 DEF Epoch
  <2>4. TypeOK' BY <1>1, <2>1, <2>2 DEF SlotsInv, SlotsHoldTheirEpoch, TypeOK
  <2>5. SlotsInv' BY <1>1, <2>1, <2>2, <2>3, <2>4 DEF SlotsInv, SlotsHoldTheirEpoch
  <2>6. SumsAgree' BY <1>1, <2>1 DEF SumsAgree
  <2> QED BY <2>1, <2>5, <2>6, <1>2 DEF WindowInv
<1>7. CASE Rotate
  <2>1. UNCHANGED <<m, asked>> BY <1>7 DEF Rotate
  <2> QED BY <2>1, <1>1, <1>2, <1>7, RotateSlots, RotateSums DEF WindowInv
<1>8. CASE Merge BY <1>1, <1>8, MergeWindow DEF WindowInv
<1>9. CASE UNCHANGED vars
  <2>1. UNCHANGED <<idx, h, m, Current, held, recorded, asked>> BY <1>9 DEF vars
  <2>2. \A i : Epoch(i)' = Epoch(i) BY <2>1 DEF Epoch
  <2>3. SlotsInv' BY <1>1, <2>1, <2>2 DEF SlotsInv, SlotsHoldTheirEpoch, TypeOK
  <2>4. SumsAgree' BY <1>1, <2>1 DEF SumsAgree
  <2> QED BY <2>1, <2>3, <2>4, <1>2 DEF WindowInv
<1> QED BY <1>4, <1>5, <1>6, <1>7, <1>8, <1>9 DEF Next

\* In every reachable state each histogram of the window holds the values of the
\* latest epoch it was current in and no older ones: Rotate clears exactly the
\* oldest, also while a program still records through a pointer to an earlier
\* Current.
THEOREM WindowSlotsCorrect == Spec => []SlotsHoldTheirEpoch
<1>1. WindowInv => SlotsHoldTheirEpoch BY DEF WindowInv, SlotsInv
<1> QED BY <1>1, InitWindow, NextWindow, PTL DEF Spec

\* What WindowedHistogram.Merge returned is the sum of the window at that call,
\* bucket by bucket, whenever that sum fits the total, and otherwise a part of it
\* within the limit, for every size of the window and every limit.
THEOREM WindowMergeCorrect == Spec => []MergeIsWindow
<1>1. WindowInv => MergeIsWindow BY DEF WindowInv
<1> QED BY <1>1, InitWindow, NextWindow, PTL DEF Spec
=============================================================================
