-------------------------- MODULE HistogramProofs ---------------------------
(***************************************************************************)
(* Type correctness of Histogram, and that the total of a histogram is the *)
(* sum of its counts at every step of every call, for every set of         *)
(* histograms, geometries and inputs and every count limit.  TotalIsSum is *)
(* inductive relative to TypeOK; the record calls preserve it because      *)
(* RecordValues refuses what the total leaves no room for, the whole-      *)
(* histogram operations because they copy, zero or add up, and Import      *)
(* because Snapshot.Validate admits the counts one after the other.        *)
(***************************************************************************)
EXTENDS Histogram, ArithmeticProofs

-----------------------------------------------------------------------------
(* Geometries and inputs.                                                   *)

\* Every geometry of a histogram is one that the constructors build from int64
\* arguments, so what ArithmeticProofs shows of those holds of it.
LEMMA GeometriesBuilt == \A g \in Geometries : Built(g)
<1>1. \A a \in Args : IsArgs(a) BY ArgsAssumption DEF IsArgs
<1> QED BY <1>1, NewBuilt, WireBuilt DEF Geometries

\* A geometry has positions, it is the one wireGeometry rebuilds from its own
\* arguments, and countsIndexFor inverts valueFromFlatIndex on its positions.
LEMMA GeometryFacts ==
  \A g \in Geometries :
    /\ g.countsLen \in Nat \ {0}
    /\ WireAccepts(g) /\ WireGeometry(g) = g
    /\ \A i \in 0..(g.countsLen - 1) : CountsIndexFor(g, ValueFromFlatIndex(g, i)) = i
<1> SUFFICES ASSUME NEW g \in Geometries
             PROVE  /\ g.countsLen \in Nat \ {0}
                    /\ WireAccepts(g) /\ WireGeometry(g) = g
                    /\ \A i \in 0..(g.countsLen - 1) : CountsIndexFor(g, ValueFromFlatIndex(g, i)) = i
  OBVIOUS
<1>1. Built(g) BY GeometriesBuilt
<1>2. WireAccepts(g) /\ WireGeometry(g) = g BY <1>1, WireRebuilds
<1>3. \A i \in 0..(g.countsLen - 1) : CountsIndexFor(g, ValueFromFlatIndex(g, i)) = i
  BY <1>1, FlatInverse
<1>4. g.countsLen \in Nat \ {0}
  <2>1. 2^g.m \in Nat \ {0} BY <1>1, PowerFacts DEF Built, Sized
  <2>2. g.bucketCount \in Nat \ {0} /\ g.countsLen = (g.bucketCount + 1) * 2^g.m BY <1>1 DEF Built
  <2> QED BY <2>1, <2>2
<1> QED BY <1>2, <1>3, <1>4

\* The values and intervals offered to the record calls are integers.
LEMMA InputsInt == Values \subseteq Int /\ Intervals \subseteq Int
BY InputAssumption, MaxIntFacts

-----------------------------------------------------------------------------
(* A successful record.                                                     *)

\* setCountAtIndex keeps the fields well typed.
LEMMA StoreFields ==
  ASSUME FieldsOK, NEW h \in Hist, NEW v, NEW n \in Int64,
         ~RecordFails(h, v, n), Store(h, v, n)
  PROVE  FieldsOK'
<1> DEFINE idx == CountsIndexFor(geom[h], v)
<1>1. idx \in DOMAIN counts[h] BY DEF RecordFails
<1>2. n \in Int BY Int64Facts
<1>3. UNCHANGED <<geom, label, ratio>> BY DEF Store
<1>4. totalCount' \in [Hist -> Int64]
  <2>1. totalCount[h] \in Int BY Int64Facts DEF FieldsOK
  <2>2. totalCount[h] + n \in Int BY <1>2, <2>1
  <2>3. Wrap64(totalCount[h] + n) \in Int64 BY <2>2, Wrap64Range
  <2> QED BY <2>3 DEF Store, SetCountAtIndex, FieldsOK
<1>5. ASSUME NEW k \in Hist PROVE counts'[k] \in [0..(geom[k].countsLen - 1) -> Int64]
  <2>1. counts[h][idx] \in Int64 BY <1>1 DEF FieldsOK
  <2>2. Wrap64(counts[h][idx] + n) \in Int64
    <3>1. counts[h][idx] \in Int BY <2>1, Int64Facts
    <3>2. counts[h][idx] + n \in Int BY <1>2, <3>1
    <3> QED BY <3>2, Wrap64Range
  <2>3. counts' = [counts EXCEPT ![h][idx] = Wrap64(counts[h][idx] + n)]
    BY DEF Store, SetCountAtIndex
  <2> HIDE DEF idx
  <2> QED BY <2>2, <2>3, <1>1 DEF FieldsOK
<1>6. DOMAIN counts' = Hist BY DEF Store, SetCountAtIndex, FieldsOK
<1> QED BY <1>3, <1>4, <1>5, <1>6 DEF FieldsOK

\* Into a consistent histogram it adds n to one count, to the total and to the
\* sum of the counts, and none of them wraps.
LEMMA StoreExact ==
  ASSUME FieldsOK, NEW h \in Hist, NEW v, NEW n \in Int64,
         ~RecordFails(h, v, n), Store(h, v, n), Consistent(h)
  PROVE  LET idx == CountsIndexFor(geom[h], v)
         IN  /\ n >= 0
             /\ idx \in DOMAIN counts[h]
             /\ totalCount' = [totalCount EXCEPT ![h] = totalCount[h] + n]
             /\ counts' = [counts EXCEPT ![h] = [counts[h] EXCEPT ![idx] = counts[h][idx] + n]]
             /\ Consistent(h)'
<1> DEFINE idx == CountsIndexFor(geom[h], v)
           L == geom[h].countsLen
<1>1. idx \in DOMAIN counts[h] /\ n >= 0 /\ ~(n > Wrap64(MaxCount - totalCount[h]))
  <2>1. n \in Int BY Int64Facts
  <2> QED BY <2>1 DEF RecordFails
<1>2. geom' = geom BY DEF Store
<1>3. counts' = [counts EXCEPT ![h][idx] = Wrap64(counts[h][idx] + n)]
  BY DEF Store, SetCountAtIndex
<1>4. totalCount' = [totalCount EXCEPT ![h] = Wrap64(totalCount[h] + n)]
  BY DEF Store, SetCountAtIndex
<1>5. L \in Nat BY GeometryFacts DEF FieldsOK
<1>6. counts[h] \in [0..(L - 1) -> Int64] /\ idx \in 0..(L - 1) BY <1>1 DEF FieldsOK
<1>7. \A i \in DOMAIN counts[h] : counts[h][i] >= 0 BY DEF Consistent
<1>8. totalCount[h] \in Int64 /\ totalCount[h] >= 0 /\ totalCount[h] = PrefixSum(counts[h])[L]
  BY DEF Consistent, Sum, FieldsOK
<1> HIDE DEF idx, L
<1>9. counts[h] \in [0..(L - 1) -> Nat]
  <2>1. DOMAIN counts[h] = 0..(L - 1) BY <1>6
  <2>2. \A i \in 0..(L - 1) : counts[h][i] \in Nat BY <1>6, <1>7, <2>1, Int64Facts
  <2> QED BY <1>6, <2>2
<1>10. n \in Nat BY <1>1, Int64Facts
<1>11. /\ counts[h][idx] <= totalCount[h]
       /\ PrefixSum([counts[h] EXCEPT ![idx] = counts[h][idx] + n])[L] = totalCount[h] + n
  BY <1>5, <1>6, <1>8, <1>9, <1>10, SumAfterAdd
<1>12. totalCount[h] + n \in Int64
  <2>1. MaxCount - totalCount[h] \in Int64 BY <1>8, MaxCountAssumption DEF Int64
  <2>2. Wrap64(MaxCount - totalCount[h]) = MaxCount - totalCount[h] BY <2>1, Wrap64Id
  <2>3. n <= MaxCount - totalCount[h] BY <2>2, <1>1, <1>8, <1>10, MaxCountAssumption DEF Int64
  <2> QED BY <2>3, <1>8, <1>10, MaxCountAssumption DEF Int64
<1>13. counts[h][idx] \in Nat BY <1>6, <1>9
<1>14. counts[h][idx] + n \in Int64
  BY <1>8, <1>10, <1>11, <1>12, <1>13, MaxCountAssumption DEF Int64
<1>15. totalCount' = [totalCount EXCEPT ![h] = totalCount[h] + n]
  <2>1. Wrap64(totalCount[h] + n) = totalCount[h] + n BY <1>12, Wrap64Id
  <2> QED BY <2>1, <1>4
<1>16. counts' = [counts EXCEPT ![h] = [counts[h] EXCEPT ![idx] = counts[h][idx] + n]]
  <2>1. Wrap64(counts[h][idx] + n) = counts[h][idx] + n BY <1>14, Wrap64Id
  <2> QED BY <2>1, <1>3
<1>17. Consistent(h)'
  <2>1. totalCount'[h] = totalCount[h] + n BY <1>15 DEF FieldsOK
  <2>2. counts'[h] = [counts[h] EXCEPT ![idx] = counts[h][idx] + n] BY <1>16 DEF FieldsOK
  <2>3. counts[h][idx] + n \in Nat BY <1>10, <1>13
  <2>4. counts'[h] \in [0..(L - 1) -> Nat] BY <1>9, <2>2, <2>3
  <2>5. DOMAIN counts'[h] = 0..(L - 1) /\ \A i \in 0..(L - 1) : counts'[h][i] \in Nat BY <2>4
  <2>6. \A i \in DOMAIN counts'[h] : counts'[h][i] >= 0 BY <2>5
  <2>7. PrefixSum(counts'[h])[L] = totalCount'[h] BY <1>11, <2>1, <2>2
  <2>8. totalCount'[h] >= 0 BY <2>1, <1>8, <1>10, MaxCountAssumption DEF Int64
  <2> QED BY <1>2, <2>6, <2>7, <2>8 DEF Consistent, Sum, L
<1> QED BY <1>1, <1>15, <1>16, <1>17 DEF idx

\* A successful record keeps every consistent histogram consistent: the check
\* against what the total leaves of the limit keeps the sum from wrapping.
LEMMA StoreConsistent ==
  ASSUME FieldsOK, NEW h \in Hist, NEW v, NEW n \in Int64,
         ~RecordFails(h, v, n), Store(h, v, n), NEW k \in Hist, Consistent(k)
  PROVE  Consistent(k)'
<1>1. CASE k # h
  <2>1. geom' = geom /\ counts'[k] = counts[k] /\ totalCount'[k] = totalCount[k]
    BY <1>1 DEF FieldsOK, Store, SetCountAtIndex
  <2> QED BY <2>1 DEF Consistent, Sum
<1>2. CASE k = h BY <1>2, StoreExact
<1> QED BY <1>1, <1>2

-----------------------------------------------------------------------------
(* Import.                                                                  *)

\* The histogram Import builds is well typed.
LEMMA ImportedFields ==
  ASSUME NEW s, IsSnapshot(s), WireAccepts(s) \/ NewAccepts(s)
  PROVE  LET x == Imported(s)
         IN  /\ x.geom = ImportGeometry(s) /\ x.geom \in Geometries
             /\ x.counts \in [0..(x.geom.countsLen - 1) -> Int64]
             /\ x.counts \in [0..(x.geom.countsLen - 1) -> Nat]
             /\ \A i \in 0..(x.geom.countsLen - 1) :
                  (i \in DOMAIN s.counts => s.counts[i] >= 0) =>
                     x.counts[i] = IF i \in DOMAIN s.counts THEN s.counts[i] ELSE 0
             /\ x.total = Wrap64(PrefixSum(x.counts)[x.geom.countsLen])
             /\ x.total \in Int64 /\ x.label = NoLabel /\ x.ratio \in Nat
<1> DEFINE g == ImportGeometry(s)
           L == g.countsLen
           b == [i \in 0..(L - 1) |-> IF i \in DOMAIN s.counts THEN s.counts[i] ELSE 0]
           c == NonNegativePart(b)
<1>1. g \in Geometries BY DEF IsSnapshot
<1>2. L \in Nat BY <1>1, GeometryFacts
<1>3. 0 \in Int64 BY Int64Facts, MaxCountAssumption
<1>4. b \in [0..(L - 1) -> Int64]
  <2> HIDE DEF L
  <2> QED BY <1>3 DEF IsSnapshot
<1>5. c = [i \in 0..(L - 1) |-> IF b[i] > 0 THEN b[i] ELSE 0]
  <2>1. DOMAIN b = 0..(L - 1) OBVIOUS
  <2> HIDE DEF b, L
  <2> QED BY <2>1 DEF NonNegativePart
<1>6. c \in [0..(L - 1) -> Int64] /\ c \in [0..(L - 1) -> Nat]
  <2>1. ASSUME NEW i \in 0..(L - 1) PROVE c[i] \in Int64 /\ c[i] \in Nat
    <3>1. b[i] \in Int64 BY <1>4
    <3>2. c[i] = IF b[i] > 0 THEN b[i] ELSE 0 BY <1>5
    <3> HIDE DEF b, c
    <3>3. b[i] \in Int BY <3>1, Int64Facts
    <3>4. CASE b[i] > 0
      <4>1. b[i] >= 0 BY <3>3, <3>4
      <4> QED BY <3>1, <3>2, <3>4, <4>1, Int64Facts
    <3>5. CASE ~(b[i] > 0) BY <3>2, <3>5, <1>3
    <3> QED BY <3>4, <3>5
  <2> HIDE DEF b, L
  <2> QED BY <2>1, <1>5
<1>7. \A i \in 0..(L - 1) : b[i] >= 0 => c[i] = b[i]
  <2> SUFFICES ASSUME NEW i \in 0..(L - 1), b[i] >= 0 PROVE c[i] = b[i] OBVIOUS
  <2>1. b[i] \in Int BY <1>4, Int64Facts
  <2>2. c[i] = IF b[i] > 0 THEN b[i] ELSE 0 BY <1>5
  <2> HIDE DEF b, c
  <2> QED BY <2>1, <2>2
<1>8. PrefixSum(c)[L] \in Int
  <2>1. \A i \in 0..(L - 1) : c[i] \in Int BY <1>6
  <2>2. L \in 0..L BY <1>2
  <2> HIDE DEF c, L
  <2> QED BY <2>1, <2>2, <1>2, PrefixSumType
<1>9. Wrap64(PrefixSum(c)[L]) \in Int64 BY <1>8, Wrap64Range
<1>10. Imported(s) = [geom |-> g, counts |-> c, total |-> Wrap64(PrefixSum(c)[L]),
                      label |-> NoLabel, ratio |-> s.ratio]
  BY DEF Imported
<1>11. \A i \in 0..(L - 1) : (i \in DOMAIN s.counts => s.counts[i] >= 0) =>
          c[i] = IF i \in DOMAIN s.counts THEN s.counts[i] ELSE 0
  <2> SUFFICES ASSUME NEW i \in 0..(L - 1), i \in DOMAIN s.counts => s.counts[i] >= 0
               PROVE  c[i] = IF i \in DOMAIN s.counts THEN s.counts[i] ELSE 0
    OBVIOUS
  <2>1. b[i] = IF i \in DOMAIN s.counts THEN s.counts[i] ELSE 0 OBVIOUS
  <2>2. b[i] >= 0 BY <2>1
  <2> HIDE DEF b, c
  <2> QED BY <2>1, <2>2, <1>7
<1> DEFINE x == Imported(s)
<1>12. /\ x.geom = g /\ x.counts = c /\ x.total = Wrap64(PrefixSum(c)[L])
       /\ x.label = NoLabel /\ x.ratio = s.ratio
  <2> HIDE DEF c, g
  <2> QED BY <1>10
<1>13. s.ratio \in Nat BY DEF IsSnapshot
<1> HIDE DEF c, g, x
<1>14. /\ x.geom = ImportGeometry(s) /\ x.geom \in Geometries
       /\ x.total \in Int64 /\ x.label = NoLabel /\ x.ratio \in Nat
  BY <1>1, <1>9, <1>12, <1>13 DEF g
<1>15. /\ x.counts \in [0..(x.geom.countsLen - 1) -> Int64]
       /\ x.counts \in [0..(x.geom.countsLen - 1) -> Nat]
       /\ x.total = Wrap64(PrefixSum(x.counts)[x.geom.countsLen])
  BY <1>6, <1>12
<1>16. \A i \in 0..(x.geom.countsLen - 1) :
         (i \in DOMAIN s.counts => s.counts[i] >= 0) =>
            x.counts[i] = IF i \in DOMAIN s.counts THEN s.counts[i] ELSE 0
  BY <1>11, <1>12
<1> QED BY <1>14, <1>15, <1>16 DEF x

\* After Validate, the imported total is the exact sum of the imported counts.
LEMMA ImportedConsistent ==
  ASSUME NEW s, IsSnapshot(s), WireAccepts(s) \/ NewAccepts(s), Validate(s)
  PROVE  LET x == Imported(s)
         IN  x.total = PrefixSum(x.counts)[x.geom.countsLen] /\ x.total >= 0
<1> DEFINE x == Imported(s)
           L == x.geom.countsLen
<1>1. /\ x.geom \in Geometries
      /\ x.counts \in [0..(L - 1) -> Nat]
      /\ x.total = Wrap64(PrefixSum(x.counts)[L])
      /\ \A i \in 0..(L - 1) : (i \in DOMAIN s.counts => s.counts[i] >= 0) =>
                     x.counts[i] = IF i \in DOMAIN s.counts THEN s.counts[i] ELSE 0
  BY ImportedFields
<1>2. L \in Nat BY <1>1, GeometryFacts
<1> HIDE DEF x, L
<1>3. Admitted(s.counts, x.counts, L)
  <2>1. \A i \in DOMAIN s.counts : 0..i \subseteq DOMAIN s.counts BY DEF IsSnapshot
  <2>2. \A i \in DOMAIN s.counts : s.counts[i] >= 0 BY DEF Validate
  <2>3. \A i \in 0..(L - 1) : x.counts[i] = IF i \in DOMAIN s.counts THEN s.counts[i] ELSE 0
    BY <1>1, <2>2
  <2>4. \A i \in 0..(L - 1) : x.counts[i] \in Nat BY <1>1
  <2>5. \A i \in DOMAIN s.counts : s.counts[i] > 0 =>
           s.counts[i] <= Wrap64(MaxCount - PrefixSum(s.counts)[i])
    BY DEF Validate
  <2> QED BY <2>1, <2>3, <2>4, <2>5 DEF Admitted
<1>4. PrefixSum(x.counts)[L] \in 0..MaxCount
  <2>1. L \in 0..L BY <1>2
  <2> QED BY <1>2, <1>3, <2>1, AdmittedSum
<1>5. Wrap64(PrefixSum(x.counts)[L]) = PrefixSum(x.counts)[L]
  <2>1. PrefixSum(x.counts)[L] \in Int64 BY <1>4, Int64Facts
  <2> QED BY <2>1, Wrap64Id
<1>6. x.total = PrefixSum(x.counts)[L] /\ x.total >= 0 BY <1>1, <1>4, <1>5
<1> QED BY <1>6 DEF x, L

-----------------------------------------------------------------------------
(* Type correctness.                                                        *)

\* The idle values of the call variables are well typed.
LEMMA IdleCallOK == NoMerge \in [h : Hist, from : Hist, pos : Nat, countToIdx : Int64, dropped : Int64]
                 /\ NoFix \in [h : Hist, missing : Int, interval : Int]
                 /\ NoRet \in [err : BOOLEAN, dropped : Int64]
<1>1. (CHOOSE h \in Hist : TRUE) \in Hist BY HistAssumption
<1>2. 0 \in Int64 BY Int64Facts, MaxCountAssumption
<1> QED BY <1>1, <1>2 DEF NoMerge, NoFix, NoRet

\* A call without a loop leaves the call variables well typed.
LEMMA OneStepCallOK == CallOK /\ OneStep => CallOK'
BY IdleCallOK DEF CallOK, OneStep

\* So does the return of a looping call.
LEMMA ReturnCallOK ==
  ASSUME NEW e \in BOOLEAN, NEW d \in Int64, Return(e, d)
  PROVE  CallOK'
BY IdleCallOK DEF CallOK, Return

\* A zeroed counts array is well typed and sums to zero.
LEMMA ZeroCountsType ==
  ASSUME NEW g \in Geometries
  PROVE  /\ ZeroCounts(g) \in [0..(g.countsLen - 1) -> Int64]
         /\ PrefixSum(ZeroCounts(g))[g.countsLen] = 0
<1>1. 0 \in Int64 BY Int64Facts, MaxCountAssumption
<1>2. g.countsLen \in Nat BY GeometryFacts
<1>3. \A i \in 0..(g.countsLen - 1) : ZeroCounts(g)[i] = 0 BY DEF ZeroCounts
<1>4. g.countsLen \in 0..g.countsLen BY <1>2
<1>5. PrefixSum(ZeroCounts(g))[g.countsLen] = 0 BY <1>2, <1>3, <1>4, PrefixSumOfZeros
<1> QED BY <1>1, <1>5 DEF ZeroCounts

\* Replacing a histogram by a well-typed one.
LEMMA AssignFields ==
  ASSUME FieldsOK, NEW h \in Hist, NEW x, Assign(h, x), x.geom \in Geometries,
         x.counts \in [0..(x.geom.countsLen - 1) -> Int64], x.total \in Int64,
         x.label \in Labels, x.ratio \in Nat
  PROVE  FieldsOK'
<1>1. geom' \in [Hist -> Geometries] BY DEF FieldsOK, Assign
<1>2. totalCount' \in [Hist -> Int64] BY DEF FieldsOK, Assign
<1>3. label' \in [Hist -> Labels] /\ ratio' \in [Hist -> Nat] BY DEF FieldsOK, Assign
<1>4. DOMAIN counts' = Hist BY DEF FieldsOK, Assign
<1>5. ASSUME NEW k \in Hist PROVE counts'[k] \in [0..(geom'[k].countsLen - 1) -> Int64]
  BY DEF FieldsOK, Assign
<1> QED BY <1>1, <1>2, <1>3, <1>4, <1>5 DEF FieldsOK

\* An exported snapshot is one that Import can read, with the same geometry.
LEMMA ExportedSnapshot ==
  ASSUME TypeOK, NEW h \in Hist
  PROVE  /\ IsSnapshot(Exported(h)) /\ WireAccepts(Exported(h))
         /\ ImportGeometry(Exported(h)) = geom[h] /\ Exported(h).counts = counts[h]
<1> DEFINE g == geom[h]
           s == Exported(h)
<1>1. g \in Geometries /\ g.countsLen \in Nat /\ WireAccepts(g) /\ WireGeometry(g) = g
  BY GeometryFacts DEF TypeOK, FieldsOK
<1>2. /\ s.low = g.low /\ s.high = g.high /\ s.sig = g.sig
      /\ s.counts = counts[h] /\ s.ratio = ratio[h]
  BY DEF Exported
<1> HIDE DEF g, s
<1>3. WireAccepts(s) BY <1>1, <1>2 DEF WireAccepts
<1>4. WireGeometry(s) = g BY <1>1, <1>2 DEF WireGeometry
<1>5. ImportGeometry(s) = g BY <1>3, <1>4 DEF ImportGeometry
<1>6. counts[h] \in [0..(g.countsLen - 1) -> Int64] /\ ratio[h] \in Nat
  BY DEF TypeOK, FieldsOK, g
<1>7. IsSnapshot(s)
  <2>1. DOMAIN s.counts = 0..(g.countsLen - 1) BY <1>2, <1>6
  <2>2. \A i \in 0..(g.countsLen - 1) : i \in Nat /\ 0..i \subseteq 0..(g.countsLen - 1) BY <1>1
  <2>3. \A i \in DOMAIN s.counts : s.counts[i] \in Int64 BY <1>2, <1>6, <2>1
  <2> QED BY <1>1, <1>2, <1>5, <1>6, <2>1, <2>2, <2>3 DEF IsSnapshot
<1> QED BY <1>2, <1>3, <1>5, <1>7 DEF g, s

\* New histograms are well typed.
LEMMA InitType == Init => TypeOK
<1> SUFFICES ASSUME Init PROVE TypeOK OBVIOUS
<1>1. 0 \in Int64 BY Int64Facts, MaxCountAssumption
<1>2. FieldsOK
  <2>1. \A h \in Hist : counts[h] = ZeroCounts(geom[h]) /\ geom[h] \in Geometries BY DEF Init
  <2>2. \A h \in Hist : counts[h] \in [0..(geom[h].countsLen - 1) -> Int64] BY <2>1, ZeroCountsType
  <2> QED BY <1>1, <2>2, InputAssumption DEF Init, FieldsOK
<1>3. CallOK BY IdleCallOK DEF Init, CallOK
<1> QED BY <1>2, <1>3 DEF Init, TypeOK

\* Every step of every call keeps the state well typed.
LEMMA NextType == TypeOK /\ [Next]_vars => TypeOK'
<1> SUFFICES ASSUME TypeOK, [Next]_vars PROVE TypeOK' OBVIOUS
<1> USE DEF TypeOK
<1>1. ASSUME NEW h \in Hist, NEW v \in Values, NEW n \in Amounts, RecordValues(h, v, n)
      PROVE  TypeOK'
  <2>1. v \in Int /\ n \in Int64 BY InputAssumption, InputsInt
  <2>2. FieldsOK'
    <3>1. CASE RecordFails(h, v, n) BY <1>1, <3>1 DEF RecordValues, FieldsOK, fields
    <3>2. CASE ~RecordFails(h, v, n) BY <1>1, <2>1, <3>2, StoreFields DEF RecordValues
    <3> QED BY <3>1, <3>2
  <2> QED BY <1>1, <2>2, OneStepCallOK DEF RecordValues
<1>2. ASSUME NEW h \in Hist, NEW v \in Values, NEW i \in Intervals, RecordCorrectedValue(h, v, i)
      PROVE  TypeOK'
  <2>1. v \in Int /\ i \in Int BY InputsInt
  <2>2. 1 \in Int64 /\ 0 \in Int64 BY MaxCountAssumption DEF Int64
  <2>3. FieldsOK' /\ CallOK'
    <3>1. CASE RecordFails(h, v, 1)
      <4>1. FieldsOK' BY <1>2, <3>1 DEF RecordCorrectedValue, FieldsOK, fields
      <4>2. Return(TRUE, 0) BY <1>2, <3>1 DEF RecordCorrectedValue
      <4> QED BY <4>1, <4>2, <2>2, ReturnCallOK
    <3>2. CASE ~RecordFails(h, v, 1)
      <4>1. FieldsOK' BY <1>2, <2>1, <2>2, <3>2, StoreFields DEF RecordCorrectedValue
      <4>2. CASE i <= 0 \/ v <= i
        <5>1. Return(FALSE, 0) BY <1>2, <3>2, <4>2 DEF RecordCorrectedValue, NothingMissing
        <5> QED BY <4>1, <5>1, <2>2, ReturnCallOK
      <4>3. CASE ~(i <= 0 \/ v <= i)
        <5>1. /\ pc' = "fix" /\ ret' = NoRet /\ merge' = merge
              /\ fix' = [h |-> h, missing |-> v - i, interval |-> i]
          BY <1>2, <3>2, <4>3 DEF RecordCorrectedValue, NothingMissing
        <5> QED BY <4>1, <5>1, <2>1, IdleCallOK DEF CallOK
      <4> QED BY <4>2, <4>3
    <3> QED BY <3>1, <3>2
  <2> QED BY <1>2, <2>3 DEF RecordCorrectedValue
<1>3. ASSUME RecordMissingValue PROVE TypeOK'
  <2>1. fix.h \in Hist /\ fix.missing \in Int /\ fix.interval \in Int BY DEF CallOK
  <2>2. 1 \in Int64 /\ 0 \in Int64 BY MaxCountAssumption DEF Int64
  <2>3. FieldsOK' /\ CallOK'
    <3>1. CASE UNCHANGED fields /\ \E e \in BOOLEAN : Return(e, 0)
      BY <3>1, <2>2, ReturnCallOK DEF FieldsOK, fields
    <3>2. CASE /\ ~RecordFails(fix.h, fix.missing, 1)
               /\ Store(fix.h, fix.missing, 1)
               /\ fix' = [fix EXCEPT !.missing = @ - fix.interval]
               /\ UNCHANGED <<pc, merge, ret>>
      <4>1. FieldsOK' BY <3>2, <2>1, <2>2, StoreFields
      <4> QED BY <4>1, <3>2, <2>1 DEF CallOK
    <3> QED BY <1>3, <3>1, <3>2 DEF RecordMissingValue
  <2> QED BY <1>3, <2>3 DEF RecordMissingValue
<1>4. ASSUME NEW h \in Hist, NEW k \in Hist, MergeCall(h, k) PROVE TypeOK'
  <2>1. 0 \in Int64 BY MaxCountAssumption DEF Int64
  <2>2. CallOK' BY <1>4, <2>1, IdleCallOK DEF MergeCall, CallOK
  <2>3. FieldsOK' BY <1>4 DEF MergeCall, FieldsOK, fields
  <2> QED BY <1>4, <2>2, <2>3 DEF MergeCall
<1>5. ASSUME MergeStep PROVE TypeOK'
  <2>1. merge.h \in Hist /\ merge.from \in Hist /\ merge.pos \in Nat
        /\ merge.countToIdx \in Int64 /\ merge.dropped \in Int64
    BY DEF CallOK
  <2>2. FieldsOK' /\ CallOK'
    <3>1. CASE IterationEnds
      <4>1. FieldsOK' BY <1>5, <3>1 DEF MergeStep, FieldsOK, fields
      <4>2. Return(FALSE, merge.dropped) BY <1>5, <3>1 DEF MergeStep
      <4> QED BY <4>1, <4>2, <2>1, ReturnCallOK
    <3>2. CASE ~IterationEnds
      <4> DEFINE c == MergeCount
                 v == MergeValue
                 drops == MergeDrops
      <4>1. /\ IF c = 0 \/ drops THEN UNCHANGED fields ELSE Store(merge.h, v, c)
            /\ merge' = [merge EXCEPT !.pos = @ + 1,
                                      !.countToIdx = Wrap64(@ + c),
                                      !.dropped = IF drops THEN AddDropped(@, c) ELSE @]
            /\ UNCHANGED <<pc, fix, ret>>
        BY <1>5, <3>2 DEF MergeStep, Advanced
      <4>2. c \in Int64
        <5>1. geom[merge.from].countsLen \in Nat BY <2>1, GeometryFacts DEF FieldsOK
        <5>2. merge.pos \in 0..(geom[merge.from].countsLen - 1)
          BY <3>2, <2>1, <5>1 DEF IterationEnds
        <5> QED BY <2>1, <5>2 DEF FieldsOK, MergeCount
      <4>4. Wrap64(merge.countToIdx + c) \in Int64
        <5>1. merge.countToIdx \in Int /\ c \in Int BY <2>1, <4>2, Int64Facts
        <5>2. merge.countToIdx + c \in Int BY <5>1
        <5> QED BY <5>2, Wrap64Range
      <4>5. AddDropped(merge.dropped, c) \in Int64 BY <2>1, <4>2, AddDroppedRange
      <4> HIDE DEF c, v, drops
      <4>6. FieldsOK'
        <5>1. CASE c = 0 \/ drops BY <4>1, <5>1 DEF FieldsOK, fields
        <5>2. CASE ~(c = 0 \/ drops)
          <6>1. ~RecordFails(merge.h, v, c) BY <5>2 DEF drops, MergeDrops, v, c
          <6> QED BY <4>1, <4>2, <5>2, <6>1, <2>1, StoreFields
        <5> QED BY <5>1, <5>2
      <4>7. CallOK'
        <5>1. (IF drops THEN AddDropped(merge.dropped, c) ELSE merge.dropped) \in Int64
          BY <4>5, <2>1
        <5>2. merge.pos + 1 \in Nat BY <2>1
        <5>3. merge' = [merge EXCEPT !.pos = merge.pos + 1,
                          !.countToIdx = Wrap64(merge.countToIdx + c),
                          !.dropped = IF drops THEN AddDropped(merge.dropped, c) ELSE merge.dropped]
          BY <4>1, <2>1 DEF CallOK
        <5>4. merge' \in [h : Hist, from : Hist, pos : Nat, countToIdx : Int64, dropped : Int64]
          BY <5>1, <5>2, <5>3, <4>4 DEF CallOK
        <5> QED BY <4>1, <5>4 DEF CallOK
      <4> QED BY <4>6, <4>7
    <3> QED BY <3>1, <3>2
  <2> QED BY <1>5, <2>2 DEF MergeStep
<1>6. ASSUME NEW h \in Hist, NEW g \in Geometries, New(h, g) PROVE TypeOK'
  <2> DEFINE x == [geom |-> g, counts |-> ZeroCounts(g), total |-> 0, label |-> NoLabel, ratio |-> 0]
  <2>1. 0 \in Int64 BY MaxCountAssumption DEF Int64
  <2>2. /\ x.geom = g /\ x.counts = ZeroCounts(g) /\ x.total = 0
        /\ x.label = NoLabel /\ x.ratio = 0
    OBVIOUS
  <2>3. Assign(h, x) BY <1>6 DEF New
  <2> HIDE DEF x
  <2>4. x.counts \in [0..(x.geom.countsLen - 1) -> Int64] BY <2>2, ZeroCountsType
  <2>5. FieldsOK' BY <2>1, <2>2, <2>3, <2>4, InputAssumption, AssignFields
  <2> QED BY <1>6, <2>5, OneStepCallOK DEF New
<1>7. ASSUME NEW h \in Hist, NEW l \in Labels, SetLabel(h, l) PROVE TypeOK'
  <2>1. FieldsOK' BY <1>7 DEF SetLabel, FieldsOK
  <2> QED BY <1>7, <2>1, OneStepCallOK DEF SetLabel
<1>8. ASSUME NEW h \in Hist, NEW k \in Hist, Clone(h, k) PROVE TypeOK'
  <2> DEFINE x == [geom |-> geom[h], counts |-> counts[h], total |-> totalCount[h],
                   label |-> label[h], ratio |-> ratio[h]]
  <2>1. /\ x.geom = geom[h] /\ x.counts = counts[h] /\ x.total = totalCount[h]
        /\ x.label = label[h] /\ x.ratio = ratio[h]
    OBVIOUS
  <2>2. Assign(k, x) BY <1>8 DEF Clone
  <2> HIDE DEF x
  <2>3. /\ x.geom \in Geometries /\ x.counts \in [0..(x.geom.countsLen - 1) -> Int64]
        /\ x.total \in Int64 /\ x.label \in Labels /\ x.ratio \in Nat
    BY <2>1 DEF FieldsOK
  <2>4. FieldsOK' BY <2>2, <2>3, AssignFields
  <2> QED BY <1>8, <2>4, OneStepCallOK DEF Clone
<1>9. ASSUME NEW h \in Hist, Reset(h) PROVE TypeOK'
  <2>1. geom[h] \in Geometries BY DEF FieldsOK
  <2>2. ZeroCounts(geom[h]) \in [0..(geom[h].countsLen - 1) -> Int64] BY <2>1, ZeroCountsType
  <2>3. 0 \in Int64 BY MaxCountAssumption DEF Int64
  <2>4. FieldsOK' BY <1>9, <2>2, <2>3, InputAssumption DEF Reset, FieldsOK
  <2> QED BY <1>9, <2>4, OneStepCallOK DEF Reset
<1>10. ASSUME NEW h \in Hist, NEW s, IsSnapshot(s), Import(h, s) PROVE TypeOK'
  <2> DEFINE x == Imported(s)
  <2>1. WireAccepts(s) \/ NewAccepts(s) BY <1>10 DEF Import
  <2>2. /\ x.geom \in Geometries /\ x.counts \in [0..(x.geom.countsLen - 1) -> Int64]
        /\ x.total \in Int64 /\ x.label = NoLabel /\ x.ratio \in Nat
    BY <1>10, <2>1, ImportedFields
  <2>3. Assign(h, x) BY <1>10 DEF Import
  <2> HIDE DEF x
  <2>4. FieldsOK' BY <2>2, <2>3, InputAssumption, AssignFields
  <2>5. Validate(s) \in BOOLEAN BY DEF Validate
  <2>6. sound' \in [Hist -> BOOLEAN] BY <1>10, <2>5 DEF Import
  <2> QED BY <1>10, <2>4, <2>6, OneStepCallOK DEF Import
<1>11. \A h \in Hist : (\E s \in Snapshots : Import(h, s)) \/ (\E k \in Hist : Import(h, Exported(k))) => TypeOK'
  BY <1>10, SnapshotAssumption, ExportedSnapshot
<1>12. CASE UNCHANGED vars
  <2>1. FieldsOK' BY <1>12 DEF vars, fields, FieldsOK
  <2>2. CallOK' BY <1>12 DEF vars, CallOK
  <2> QED BY <1>12, <2>1, <2>2 DEF vars
<1> QED BY <1>1, <1>2, <1>3, <1>4, <1>5, <1>6, <1>7, <1>8, <1>9, <1>10, <1>11, <1>12 DEF Next

\* Every histogram always has a geometry the constructors build, a counts array
\* of that geometry's length and int64 fields; a call in progress has positions
\* and running counts of the types the code declares.
THEOREM TypeCorrect == Spec => []TypeOK
BY InitType, NextType, PTL DEF Spec

-----------------------------------------------------------------------------
(* Consistency of totals and counts.                                        *)

\* New histograms are consistent.
LEMMA InitTotal == Init => TotalIsSum
<1> SUFFICES ASSUME Init, NEW h \in Hist PROVE Consistent(h) BY DEF TotalIsSum
<1>1. geom[h] \in Geometries /\ counts[h] = ZeroCounts(geom[h]) /\ totalCount[h] = 0 BY DEF Init
<1>2. PrefixSum(ZeroCounts(geom[h]))[geom[h].countsLen] = 0 BY <1>1, ZeroCountsType
<1>3. \A i \in DOMAIN ZeroCounts(geom[h]) : ZeroCounts(geom[h])[i] = 0 BY DEF ZeroCounts
<1> QED BY <1>1, <1>2, <1>3 DEF Consistent, Sum

\* A histogram that a step leaves alone stays consistent.
LEMMA KeptConsistent ==
  ASSUME NEW h, Consistent(h), geom'[h] = geom[h], counts'[h] = counts[h], totalCount'[h] = totalCount[h]
  PROVE  Consistent(h)'
BY DEF Consistent, Sum

\* h is replaced by a consistent histogram x, the others are kept.
LEMMA AssignConsistent ==
  ASSUME FieldsOK, NEW h \in Hist, NEW x, Assign(h, x), NEW k \in Hist,
         IF k = h THEN /\ x.total = PrefixSum(x.counts)[x.geom.countsLen]
                       /\ x.total >= 0
                       /\ \A i \in DOMAIN x.counts : x.counts[i] >= 0
                  ELSE Consistent(k)
  PROVE  Consistent(k)'
<1>1. CASE k = h
  <2>1. geom'[k] = x.geom /\ counts'[k] = x.counts /\ totalCount'[k] = x.total
    BY <1>1 DEF Assign, FieldsOK
  <2> QED BY <1>1, <2>1 DEF Consistent, Sum
<1>2. CASE k # h
  <2>1. geom'[k] = geom[k] /\ counts'[k] = counts[k] /\ totalCount'[k] = totalCount[k]
    BY <1>2 DEF Assign, FieldsOK
  <2> QED BY <1>2, <2>1, KeptConsistent
<1> QED BY <1>1, <1>2

\* Every step of every call keeps the total equal to the sum of the counts.
LEMMA NextTotal == TypeOK /\ TotalIsSum /\ [Next]_vars => TotalIsSum'
<1> SUFFICES ASSUME TypeOK, TotalIsSum, [Next]_vars, NEW k \in Hist, sound'[k]
             PROVE  Consistent(k)'
  BY DEF TotalIsSum
<1>0. FieldsOK /\ CallOK BY DEF TypeOK
<1>a. ASSUME UNCHANGED fields, sound' = sound PROVE Consistent(k)'
  <2>1. Consistent(k) BY <1>a DEF TotalIsSum
  <2> QED BY <1>a, <2>1, KeptConsistent DEF fields
<1>b. ASSUME NEW h \in Hist, NEW v, NEW n \in Int64, ~RecordFails(h, v, n), Store(h, v, n), sound' = sound
      PROVE  Consistent(k)'
  <2>1. Consistent(k) BY <1>b DEF TotalIsSum
  <2> QED BY <1>b, <1>0, <2>1, StoreConsistent
<1>1. ASSUME NEW h \in Hist, NEW v \in Values, NEW n \in Amounts, RecordValues(h, v, n)
      PROVE  Consistent(k)'
  <2>1. n \in Int64 /\ sound' = sound BY <1>1, InputAssumption DEF RecordValues
  <2>2. CASE RecordFails(h, v, n) BY <1>1, <1>a, <2>1, <2>2 DEF RecordValues
  <2>3. CASE ~RecordFails(h, v, n) BY <1>1, <1>b, <2>1, <2>3 DEF RecordValues
  <2> QED BY <2>2, <2>3
<1>2. ASSUME NEW h \in Hist, NEW v \in Values, NEW i \in Intervals, RecordCorrectedValue(h, v, i)
      PROVE  Consistent(k)'
  <2>1. 1 \in Int64 /\ sound' = sound BY <1>2, MaxCountAssumption DEF RecordCorrectedValue, Int64
  <2>2. CASE RecordFails(h, v, 1) BY <1>2, <1>a, <2>1, <2>2 DEF RecordCorrectedValue
  <2>3. CASE ~RecordFails(h, v, 1) BY <1>2, <1>b, <2>1, <2>3 DEF RecordCorrectedValue
  <2> QED BY <2>2, <2>3
<1>3. ASSUME RecordMissingValue PROVE Consistent(k)'
  <2>1. 1 \in Int64 BY MaxCountAssumption DEF Int64
  <2>2. sound' = sound /\ fix.h \in Hist BY <1>3, <1>0 DEF RecordMissingValue, CallOK
  <2>3. CASE UNCHANGED fields BY <2>2, <2>3, <1>a
  <2>4. CASE ~RecordFails(fix.h, fix.missing, 1) /\ Store(fix.h, fix.missing, 1)
    BY <2>1, <2>2, <2>4, <1>b
  <2> QED BY <1>3, <2>3, <2>4 DEF RecordMissingValue
<1>4. ASSUME NEW h \in Hist, NEW j \in Hist, MergeCall(h, j) PROVE Consistent(k)'
  BY <1>4, <1>a DEF MergeCall
<1>5. ASSUME MergeStep PROVE Consistent(k)'
  <2> DEFINE c == MergeCount
             v == MergeValue
  <2>1. sound' = sound /\ merge.h \in Hist /\ merge.from \in Hist /\ merge.pos \in Nat
    BY <1>5, <1>0 DEF MergeStep, CallOK
  <2>2. CASE UNCHANGED fields BY <2>1, <2>2, <1>a
  <2>3. CASE ~IterationEnds /\ ~RecordFails(merge.h, v, c) /\ Store(merge.h, v, c)
    <3>1. geom[merge.from].countsLen \in Nat BY <1>0, <2>1, GeometryFacts DEF FieldsOK
    <3>2. merge.pos \in 0..(geom[merge.from].countsLen - 1) BY <2>3, <2>1, <3>1 DEF IterationEnds
    <3>3. c \in Int64 BY <1>0, <2>1, <3>2 DEF FieldsOK, MergeCount
    <3> HIDE DEF c, v
    <3> QED BY <2>1, <2>3, <3>3, <1>b
  <2> QED BY <1>5, <2>2, <2>3 DEF MergeStep, MergeDrops
<1>6. ASSUME NEW h \in Hist, NEW g \in Geometries, New(h, g) PROVE Consistent(k)'
  <2> DEFINE x == [geom |-> g, counts |-> ZeroCounts(g), total |-> 0, label |-> NoLabel, ratio |-> 0]
  <2>1. x.geom = g /\ x.counts = ZeroCounts(g) /\ x.total = 0 OBVIOUS
  <2>2. Assign(h, x) BY <1>6 DEF New
  <2> HIDE DEF x
  <2>3. PrefixSum(ZeroCounts(g))[g.countsLen] = 0 BY ZeroCountsType
  <2>4. \A i \in DOMAIN ZeroCounts(g) : ZeroCounts(g)[i] = 0 BY DEF ZeroCounts
  <2>5. k # h => Consistent(k) BY <1>6 DEF New, TotalIsSum, TypeOK
  <2>6. /\ x.total = PrefixSum(x.counts)[x.geom.countsLen] /\ x.total >= 0
        /\ \A i \in DOMAIN x.counts : x.counts[i] >= 0
    BY <2>1, <2>3, <2>4
  <2> QED BY <1>0, <2>2, <2>5, <2>6, AssignConsistent
<1>7. ASSUME NEW h \in Hist, NEW l \in Labels, SetLabel(h, l) PROVE Consistent(k)'
  <2>1. Consistent(k) BY <1>7 DEF SetLabel, TotalIsSum
  <2> QED BY <1>7, <2>1, KeptConsistent DEF SetLabel
<1>8. ASSUME NEW h \in Hist, NEW j \in Hist, Clone(h, j) PROVE Consistent(k)'
  <2> DEFINE x == [geom |-> geom[h], counts |-> counts[h], total |-> totalCount[h],
                   label |-> label[h], ratio |-> ratio[h]]
  <2>1. x.geom = geom[h] /\ x.counts = counts[h] /\ x.total = totalCount[h] OBVIOUS
  <2>2. Assign(j, x) BY <1>8 DEF Clone
  <2> HIDE DEF x
  <2>3. k = j => sound[h] BY <1>8 DEF Clone, TypeOK
  <2>4. k = j => Consistent(h) BY <2>3 DEF TotalIsSum
  <2>5. k # j => Consistent(k) BY <1>8 DEF Clone, TotalIsSum, TypeOK
  <2>6. k = j => /\ x.total = PrefixSum(x.counts)[x.geom.countsLen] /\ x.total >= 0
                 /\ \A i \in DOMAIN x.counts : x.counts[i] >= 0
    BY <2>1, <2>4 DEF Consistent, Sum
  <2> QED BY <1>0, <2>2, <2>5, <2>6, AssignConsistent
<1>9. ASSUME NEW h \in Hist, Reset(h) PROVE Consistent(k)'
  <2>1. CASE k = h
    <3>1. geom[h] \in Geometries BY <1>0 DEF FieldsOK
    <3>2. geom'[h] = geom[h] /\ counts'[h] = ZeroCounts(geom[h]) /\ totalCount'[h] = 0
      BY <1>0, <1>9 DEF Reset, FieldsOK
    <3>3. PrefixSum(ZeroCounts(geom[h]))[geom[h].countsLen] = 0 BY <3>1, ZeroCountsType
    <3>4. \A i \in DOMAIN ZeroCounts(geom[h]) : ZeroCounts(geom[h])[i] = 0 BY DEF ZeroCounts
    <3> QED BY <2>1, <3>2, <3>3, <3>4 DEF Consistent, Sum
  <2>2. CASE k # h
    <3>1. geom'[k] = geom[k] /\ counts'[k] = counts[k] /\ totalCount'[k] = totalCount[k]
      BY <1>0, <1>9, <2>2 DEF Reset, FieldsOK
    <3>2. Consistent(k) BY <1>9, <2>2 DEF Reset, TotalIsSum, TypeOK
    <3> QED BY <3>1, <3>2, KeptConsistent
  <2> QED BY <2>1, <2>2
<1>10. ASSUME NEW h \in Hist, NEW s, IsSnapshot(s), Import(h, s) PROVE Consistent(k)'
  <2> DEFINE x == Imported(s)
  <2>1. WireAccepts(s) \/ NewAccepts(s) BY <1>10 DEF Import
  <2>2. IsSnapshot(s) BY <1>10
  <2>3. Assign(h, x) BY <1>10 DEF Import
  <2>4. x.counts \in [0..(x.geom.countsLen - 1) -> Nat] BY <2>1, <2>2, ImportedFields
  <2>5. k = h => Validate(s) BY <1>10 DEF Import, TypeOK
  <2>6. k = h => x.total = PrefixSum(x.counts)[x.geom.countsLen] /\ x.total >= 0
    BY <2>1, <2>2, <2>5, ImportedConsistent
  <2> HIDE DEF x
  <2>7. \A i \in DOMAIN x.counts : x.counts[i] >= 0
    <3>1. DOMAIN x.counts = 0..(x.geom.countsLen - 1) BY <2>4
    <3>2. \A i \in DOMAIN x.counts : x.counts[i] \in Nat BY <2>4, <3>1
    <3> QED BY <3>2
  <2>8. k # h => Consistent(k) BY <1>10 DEF Import, TotalIsSum, TypeOK
  <2> QED BY <1>0, <2>3, <2>6, <2>7, <2>8, AssignConsistent
<1>11. \A h \in Hist : (\E s \in Snapshots : Import(h, s)) \/ (\E j \in Hist : Import(h, Exported(j))) =>
         Consistent(k)'
  BY <1>10, SnapshotAssumption, ExportedSnapshot
<1>12. CASE UNCHANGED vars BY <1>12, <1>a DEF vars, fields
<1> QED BY <1>1, <1>2, <1>3, <1>4, <1>5, <1>6, <1>7, <1>8, <1>9, <1>10, <1>11, <1>12 DEF Next

\* For every set of histograms, geometries, inputs and count limit: a histogram
\* that was not imported from an invalid snapshot has a total that is the exact,
\* nonnegative sum of its nonnegative counts, at every step of every call.
THEOREM TotalAlwaysSum == Spec => []TotalIsSum
<1>1. Init => TypeOK /\ TotalIsSum BY InitType, InitTotal
<1>2. TypeOK /\ TotalIsSum /\ [Next]_vars => (TypeOK /\ TotalIsSum)' BY NextType, NextTotal
<1> QED BY <1>1, <1>2, PTL DEF Spec

-----------------------------------------------------------------------------
(* Snapshots.                                                               *)

\* The counts of a consistent histogram, and its total.
LEMMA ConsistentCounts ==
  ASSUME FieldsOK, NEW h \in Hist, Consistent(h)
  PROVE  /\ geom[h] \in Geometries /\ geom[h].countsLen \in Nat \ {0}
         /\ counts[h] \in [0..(geom[h].countsLen - 1) -> Nat]
         /\ totalCount[h] = PrefixSum(counts[h])[geom[h].countsLen]
         /\ totalCount[h] \in 0..MaxCount
<1> DEFINE L == geom[h].countsLen
<1>1. geom[h] \in Geometries /\ counts[h] \in [0..(L - 1) -> Int64] /\ totalCount[h] \in Int64
  BY DEF FieldsOK
<1>2. L \in Nat \ {0} BY <1>1, GeometryFacts
<1>3. /\ \A i \in DOMAIN counts[h] : counts[h][i] >= 0
      /\ totalCount[h] = PrefixSum(counts[h])[L] /\ totalCount[h] >= 0
  BY DEF Consistent, Sum
<1> HIDE DEF L
<1>4. counts[h] \in [0..(L - 1) -> Nat]
  <2>1. DOMAIN counts[h] = 0..(L - 1) BY <1>1
  <2>2. \A i \in 0..(L - 1) : counts[h][i] \in Nat BY <1>1, <1>3, <2>1, Int64Facts
  <2> QED BY <1>1, <2>2
<1>5. totalCount[h] \in 0..MaxCount BY <1>1, <1>3, Int64Facts
<1> QED BY <1>1, <1>2, <1>3, <1>4, <1>5 DEF L

\* Counts arrays with the same entries are the same.
LEMMA SameCounts ==
  ASSUME NEW S, NEW T, NEW c \in [S -> T], NEW d \in [S -> T], \A i \in S : c[i] = d[i]
  PROVE  c = d
OBVIOUS

\* Counts whose sum is within the limit pass Validate one after the other, and
\* Import copies them.
LEMMA ImportedSame ==
  ASSUME NEW s, NEW g \in Geometries, IsSnapshot(s), WireAccepts(s), ImportGeometry(s) = g,
         s.counts \in [0..(g.countsLen - 1) -> Nat], PrefixSum(s.counts)[g.countsLen] \in 0..MaxCount
  PROVE  /\ Validate(s)
         /\ Imported(s).geom = g /\ Imported(s).counts = s.counts
         /\ Imported(s).total = PrefixSum(s.counts)[g.countsLen]
<1> DEFINE L == g.countsLen
           c == s.counts
<1>1. L \in Nat \ {0} BY GeometryFacts
<1>2. WireGeometry(s) = g BY DEF ImportGeometry
<1>3. DOMAIN c = 0..(L - 1) /\ \A i \in 0..(L - 1) : c[i] \in Nat OBVIOUS
<1>4. ASSUME NEW i \in DOMAIN c
      PROVE  c[i] >= 0 /\ i < L /\ c[i] <= Wrap64(MaxCount - PrefixSum(c)[i])
  <2> HIDE DEF L, c
  <2>1. i \in 0..(L - 1) /\ c[i] \in Nat /\ L \in 0..L /\ i + 1 \in 0..L /\ i \in 0..(i + 1) /\ i \in Nat
    BY <1>1, <1>3
  <2>2. PrefixSum(c)[i + 1] = PrefixSum(c)[i] + c[i] BY <2>1, PrefixSumStep
  <2>3. PrefixSum(c)[i] \in Nat /\ PrefixSum(c)[i + 1] \in Nat /\ PrefixSum(c)[i + 1] <= PrefixSum(c)[L]
    BY <1>1, <1>3, <2>1, PrefixSumMonotone
  <2>4. PrefixSum(c)[L] \in 0..MaxCount BY DEF L, c
  <2>5. MaxCount - PrefixSum(c)[i] \in Int64 /\ c[i] <= MaxCount - PrefixSum(c)[i]
    <3>1. \A p, q, r, v \in Nat : p = q + v /\ p <= r /\ r <= MaxCount =>
            MaxCount - q \in Int64 /\ v <= MaxCount - q
      BY MaxCountAssumption DEF Int64
    <3>2. PrefixSum(c)[L] \in Nat /\ PrefixSum(c)[L] <= MaxCount BY <2>4, MaxCountAssumption
    <3> QED BY <2>1, <2>2, <2>3, <3>1, <3>2
  <2>6. Wrap64(MaxCount - PrefixSum(c)[i]) = MaxCount - PrefixSum(c)[i] BY <2>5, Wrap64Id
  <2> QED BY <1>1, <2>1, <2>5, <2>6
<1>5. Validate(s) BY <1>2, <1>4 DEF Validate
<1> DEFINE x == Imported(s)
<1>6. /\ x.geom = g /\ x.counts \in [0..(L - 1) -> Nat]
      /\ \A i \in 0..(L - 1) : (i \in DOMAIN c => c[i] >= 0) =>
            x.counts[i] = IF i \in DOMAIN c THEN c[i] ELSE 0
  BY ImportedFields
<1>7. x.total = PrefixSum(x.counts)[x.geom.countsLen] BY <1>5, ImportedConsistent
<1> HIDE DEF x
<1> DEFINE S == 0..(L - 1)
           y == x.counts
<1>8. y = c
  <2>1. \A i \in S : y[i] = c[i] BY <1>3, <1>4, <1>6
  <2>2. c \in [S -> Nat] /\ y \in [S -> Nat] BY <1>6
  <2> HIDE DEF c, S, y
  <2> QED BY <2>1, <2>2, SameCounts
<1> QED BY <1>5, <1>6, <1>7, <1>8 DEF x

\* For every instance: the snapshot of a consistent histogram passes
\* Snapshot.Validate, and Import rebuilds its geometry, its counts and its total.
THEOREM ExportsImport == Spec => []ExportImports
<1>1. TypeOK /\ TotalIsSum => ExportImports
  <2> SUFFICES ASSUME TypeOK, TotalIsSum, NEW h \in Hist, sound[h]
               PROVE  LET x == Imported(Exported(h))
                      IN  /\ Validate(Exported(h)) /\ x.geom = geom[h]
                          /\ x.counts = counts[h] /\ x.total = totalCount[h]
    BY DEF ExportImports
  <2>1. Consistent(h) BY DEF TotalIsSum
  <2>2. /\ geom[h] \in Geometries
        /\ counts[h] \in [0..(geom[h].countsLen - 1) -> Nat]
        /\ totalCount[h] = PrefixSum(counts[h])[geom[h].countsLen] /\ totalCount[h] \in 0..MaxCount
    BY <2>1, ConsistentCounts DEF TypeOK
  <2> QED BY <2>2, ExportedSnapshot, ImportedSame
<1>2. Init => TypeOK /\ TotalIsSum BY InitType, InitTotal
<1>3. TypeOK /\ TotalIsSum /\ [Next]_vars => (TypeOK /\ TotalIsSum)' BY NextType, NextTotal
<1> QED BY <1>1, <1>2, <1>3, PTL DEF Spec

-----------------------------------------------------------------------------
(* Extremes.                                                                *)

\* For every instance: Max and Min bound every recorded bucket and are in
\* populated buckets themselves.  It follows from the agreement of total and
\* counts: the iterator's limit hides no populated position.
THEOREM ExtremesAreExact == Spec => []ExtremesExact
<1>1. TypeOK /\ TotalIsSum => ExtremesExact
  <2> SUFFICES ASSUME TypeOK, TotalIsSum, NEW h \in Hist, sound[h], totalCount[h] > 0
               PROVE  LET x == Fields(h)
                      IN  /\ \A i \in Populated(x) :
                               /\ MinOf(x) <= ValueFromFlatIndex(x.geom, i)
                               /\ HighestEquivalent(x.geom, ValueFromFlatIndex(x.geom, i)) <= MaxOf(x)
                          /\ {CountsIndexFor(x.geom, MinOf(x)), CountsIndexFor(x.geom, MaxOf(x))}
                               \subseteq Populated(x)
    BY DEF ExtremesExact
  <2> DEFINE x == Fields(h)
             L == geom[h].countsLen
  <2>1. Consistent(h) BY DEF TotalIsSum
  <2>2. /\ geom[h] \in Geometries /\ L \in Nat
        /\ counts[h] \in [0..(L - 1) -> Nat] /\ totalCount[h] = PrefixSum(counts[h])[L]
    BY <2>1, ConsistentCounts DEF TypeOK
  <2>3. Built(geom[h]) BY <2>2, GeometriesBuilt
  <2>4. x.geom = geom[h] /\ x.counts = counts[h] /\ x.total = totalCount[h] BY DEF Fields
  <2> HIDE DEF x
  <2>5. /\ Built(x.geom) /\ x.geom.countsLen = L
        /\ x.counts \in [0..(L - 1) -> Nat] /\ x.total = PrefixSum(x.counts)[L] /\ x.total > 0
    BY <2>2, <2>3, <2>4
  <2>6. /\ \A i \in Populated(x) :
             /\ MinOf(x) <= ValueFromFlatIndex(x.geom, i)
             /\ HighestEquivalent(x.geom, ValueFromFlatIndex(x.geom, i)) <= MaxOf(x)
        /\ CountsIndexFor(x.geom, MinOf(x)) \in Populated(x)
        /\ CountsIndexFor(x.geom, MaxOf(x)) \in Populated(x)
    BY <2>2, <2>5, ExtremesOf
  <2> QED BY <2>6 DEF x
<1>2. Spec => [](TypeOK /\ TotalIsSum) BY TypeCorrect, TotalAlwaysSum, PTL
<1> QED BY <1>1, <1>2, PTL

-----------------------------------------------------------------------------
(***************************************************************************)
(* The calls that loop.  Merge accounts for every value of its argument    *)
(* (MergeAccounting) and puts each into the bucket of its value            *)
(* (MergePointwise), for every geometry, count limit and argument, the     *)
(* receiver itself included.  RecordCorrectedValue records one value per   *)
(* missed interval (CorrectedCount).                                       *)
(*                                                                         *)
(* The properties speak of a call that has returned.  The inductive        *)
(* invariants describe one in progress.  MergeInv: what the iterator has   *)
(* passed is the prefix sum of the counts the argument had on entry, the   *)
(* part of them in front of the iterator is still what it was (a merge     *)
(* into itself changes only the position it has just read), and what was   *)
(* passed has either been added to the receiver or been dropped.           *)
(* GainsInv: position by position, the receiver has gained what the passed *)
(* counts contribute.  FixInv: the next missing value is the recorded one  *)
(* less an interval for every value recorded so far.                       *)
(***************************************************************************)

\* What the iterator has still to visit, and what it has done so far.
MergeProgress ==
  LET L == geom[entry.from].countsLen
  IN  /\ merge.pos \in 0..L
      /\ merge.countToIdx = PrefixSum(entry.fromCounts)[merge.pos]
      /\ \A i \in merge.pos..(L - 1) : counts[entry.from][i] = entry.fromCounts[i]
      /\ merge.dropped >= 0
      /\ totalCount[entry.h] >= entry.total
      /\ (totalCount[entry.h] - entry.total) + merge.dropped = merge.countToIdx
      /\ IF entry.from = entry.h THEN entry.total = entry.offered
                                 ELSE totalCount[entry.from] = entry.offered

\* What was remembered when the merge was called.
MergeEntry ==
  LET L == geom[entry.from].countsLen
  IN  /\ entry.fromCounts \in [0..(L - 1) -> Nat]
      /\ entry.total \in 0..MaxCount
      /\ entry.offered \in 0..MaxCount
      /\ entry.offered = PrefixSum(entry.fromCounts)[L]

MergeInv ==
  /\ pc = "merge" => entry.call = "merge"
  /\ entry.call = "merge" =>
       /\ entry.h \in Hist /\ entry.from \in Hist /\ pc # "fix"
       /\ pc = "merge" => merge.h = entry.h /\ merge.from = entry.from
       /\ sound[entry.h] /\ sound[entry.from] =>
            /\ MergeEntry
            /\ pc = "merge" => MergeProgress
            /\ MergeAccounting

\* Between calls there is nothing to say.
LEMMA NoEntryInv == entry' = NoEntry /\ pc' # "merge" => MergeInv'
BY DEF NoEntry, MergeInv

\* A merge starts with nothing passed, added or dropped.
LEMMA MergeCallInv ==
  ASSUME TypeOK, TotalIsSum, NEW h \in Hist, NEW k \in Hist, MergeCall(h, k)
  PROVE  MergeInv'
<1>1. /\ entry'.call = "merge" /\ entry'.h = h /\ entry'.from = k
      /\ entry'.total = totalCount[h] /\ entry'.offered = totalCount[k]
      /\ entry'.fromCounts = counts[k]
  BY DEF MergeCall
<1>2. /\ merge'.h = h /\ merge'.from = k /\ merge'.pos = 0
      /\ merge'.countToIdx = 0 /\ merge'.dropped = 0 /\ pc' = "merge"
  BY DEF MergeCall
<1>3. geom' = geom /\ counts' = counts /\ totalCount' = totalCount /\ sound' = sound
  BY DEF MergeCall, fields
<1>4. MergeAccounting' BY <1>2 DEF MergeAccounting, Merged
<1>5. ASSUME sound[h], sound[k] PROVE MergeEntry' /\ MergeProgress'
  <2> DEFINE L == geom[k].countsLen
  <2>1. Consistent(h) /\ Consistent(k) BY <1>5 DEF TotalIsSum
  <2>2. L \in Nat /\ counts[k] \in [0..(L - 1) -> Int64]
        /\ totalCount[h] \in Int64 /\ totalCount[k] \in Int64
    BY GeometryFacts DEF TypeOK, FieldsOK
  <2>3. /\ \A i \in DOMAIN counts[k] : counts[k][i] >= 0
        /\ totalCount[k] = PrefixSum(counts[k])[L]
        /\ totalCount[h] >= 0 /\ totalCount[k] >= 0
    BY <2>1 DEF Consistent, Sum
  <2> HIDE DEF L
  <2>4. counts[k] \in [0..(L - 1) -> Nat]
    <3>1. DOMAIN counts[k] = 0..(L - 1) BY <2>2
    <3>2. \A i \in 0..(L - 1) : counts[k][i] \in Nat BY <2>2, <2>3, <3>1, Int64Facts
    <3> QED BY <2>2, <3>2
  <2>5. totalCount[h] \in 0..MaxCount /\ totalCount[k] \in 0..MaxCount
    BY <2>2, <2>3, Int64Facts
  <2>6. MergeEntry' BY <1>1, <1>3, <2>3, <2>4, <2>5 DEF MergeEntry, L
  <2>7. PrefixSum(counts[k])[0] = 0 BY PrefixSumZero
  <2>8. totalCount[h] - totalCount[h] + 0 = 0 BY <2>5, MaxCountAssumption
  <2>9. totalCount[h] >= totalCount[h] BY <2>5, MaxCountAssumption
  <2>10. 0 \in 0..L BY <2>2
  <2>11. MergeProgress'
    BY <1>1, <1>2, <1>3, <2>7, <2>8, <2>9, <2>10 DEF MergeProgress, L
  <2> QED BY <2>6, <2>11
<1> QED BY <1>1, <1>2, <1>3, <1>4, <1>5 DEF MergeInv

\* A merge returns when the iterator ends: then it has passed everything.
LEMMA MergeReturnInv ==
  ASSUME TypeOK, TotalIsSum, MergeInv, pc = "merge", IterationEnds,
         UNCHANGED <<fields, entry, sound>>, Return(FALSE, merge.dropped)
  PROVE  MergeInv'
<1>1. /\ entry.call = "merge" /\ entry.h \in Hist /\ entry.from \in Hist
      /\ merge.h = entry.h /\ merge.from = entry.from
  BY DEF MergeInv
<1>2. pc' = "idle" /\ ret'.dropped = merge.dropped /\ entry' = entry /\ sound' = sound
  BY DEF Return
<1>3. geom' = geom /\ totalCount' = totalCount BY DEF fields
<1>4. ASSUME sound[entry.h], sound[entry.from] PROVE MergeEntry' /\ MergeAccounting'
  <2> DEFINE L == geom[entry.from].countsLen
             f == entry.fromCounts
  <2>1. MergeEntry /\ MergeProgress BY <1>1, <1>4 DEF MergeInv
  <2>2. L \in Nat BY <1>1, GeometryFacts DEF TypeOK, FieldsOK
  <2>3. /\ f \in [0..(L - 1) -> Nat] /\ entry.total \in 0..MaxCount
        /\ entry.offered \in 0..MaxCount /\ entry.offered = PrefixSum(f)[L]
    BY <2>1 DEF MergeEntry
  <2>4. /\ merge.pos \in 0..L /\ merge.countToIdx = PrefixSum(f)[merge.pos]
        /\ merge.dropped >= 0 /\ totalCount[entry.h] >= entry.total
        /\ (totalCount[entry.h] - entry.total) + merge.dropped = merge.countToIdx
        /\ IF entry.from = entry.h THEN entry.total = entry.offered
                                   ELSE totalCount[entry.from] = entry.offered
    BY <2>1 DEF MergeProgress
  <2>5. totalCount[entry.h] \in Int /\ merge.dropped \in Int
    BY <1>1, Int64Facts DEF TypeOK, FieldsOK, CallOK
  <2>6. merge.countToIdx >= totalCount[entry.from] \/ merge.pos >= L
    BY <1>1 DEF IterationEnds
  <2> HIDE DEF L, f
  <2>7. /\ merge.countToIdx \in Nat /\ merge.countToIdx <= entry.offered
    <3>1. \A i \in 0..(L - 1) : f[i] \in Nat BY <2>3
    <3>2. L \in 0..L BY <2>2
    <3> QED BY <2>2, <2>3, <2>4, <3>1, <3>2, PrefixSumMonotone
  <2>8. merge.countToIdx = entry.offered
    <3>1. CASE merge.pos >= L
      <4>1. merge.pos = L BY <3>1, <2>2, <2>4
      <4> QED BY <4>1, <2>3, <2>4
    <3>2. CASE merge.countToIdx >= totalCount[entry.from] /\ entry.from # entry.h
      BY <3>2, <2>3, <2>4, <2>7, MaxCountAssumption
    <3>3. CASE merge.countToIdx >= totalCount[entry.from] /\ entry.from = entry.h
      BY <3>3, <2>3, <2>4, <2>5, <2>7, MaxCountAssumption
    <3> QED BY <2>6, <3>1, <3>2, <3>3
  <2>9. (totalCount[entry.h] - entry.total) + merge.dropped = entry.offered BY <2>4, <2>8
  <2>10. MergeAccounting' BY <1>2, <1>3, <2>9 DEF MergeAccounting, Merged
  <2>11. MergeEntry' BY <1>2, <1>3, <2>1 DEF MergeEntry
  <2> QED BY <2>10, <2>11
<1> QED BY <1>1, <1>2, <1>4 DEF MergeInv

\* One iteration moves one count from "ahead" to "added" or "dropped".
LEMMA MergeAdvanceInv ==
  ASSUME TypeOK, TotalIsSum, MergeInv, MergeStep, ~IterationEnds
  PROVE  MergeInv'
<1>1. /\ pc = "merge" /\ pc' = pc /\ entry' = entry /\ sound' = sound /\ merge' = Advanced
      /\ IF MergeCount = 0 \/ MergeDrops THEN UNCHANGED fields
         ELSE Store(merge.h, MergeValue, MergeCount)
  BY DEF MergeStep
<1>2. /\ entry.call = "merge" /\ entry.h \in Hist /\ entry.from \in Hist
      /\ merge.h = entry.h /\ merge.from = entry.from
  BY <1>1 DEF MergeInv
<1> DEFINE c == MergeCount
           d == IF MergeDrops THEN AddDropped(merge.dropped, c) ELSE merge.dropped
<1>3. /\ merge'.h = merge.h /\ merge'.from = merge.from /\ merge'.pos = merge.pos + 1
      /\ merge'.countToIdx = Wrap64(merge.countToIdx + c) /\ merge'.dropped = d
  BY <1>1 DEF Advanced, TypeOK, CallOK
<1>4. MergeAccounting' BY <1>1 DEF MergeAccounting, Merged
<1>5. geom' = geom BY <1>1 DEF fields, Store
<1>6. ASSUME sound[entry.h], sound[entry.from] PROVE MergeEntry' /\ MergeProgress'
  <2> DEFINE L == geom[entry.from].countsLen
             f == entry.fromCounts
             p == merge.pos
  <2>1. MergeEntry /\ MergeProgress /\ Consistent(entry.h) /\ Consistent(entry.from)
    BY <1>1, <1>2, <1>6 DEF MergeInv, TotalIsSum
  <2>2. L \in Nat BY <1>2, GeometryFacts DEF TypeOK, FieldsOK
  <2>3. /\ f \in [0..(L - 1) -> Nat] /\ entry.total \in 0..MaxCount
        /\ entry.offered \in 0..MaxCount /\ entry.offered = PrefixSum(f)[L]
    BY <2>1 DEF MergeEntry
  <2>4. /\ p \in 0..L /\ merge.countToIdx = PrefixSum(f)[p]
        /\ \A i \in p..(L - 1) : counts[entry.from][i] = f[i]
        /\ merge.dropped >= 0 /\ totalCount[entry.h] >= entry.total
        /\ (totalCount[entry.h] - entry.total) + merge.dropped = merge.countToIdx
        /\ IF entry.from = entry.h THEN entry.total = entry.offered
                                   ELSE totalCount[entry.from] = entry.offered
    BY <2>1 DEF MergeProgress
  <2>5. totalCount[entry.h] \in Int /\ merge.dropped \in Int /\ p \in Nat
    BY <1>2, Int64Facts DEF TypeOK, FieldsOK, CallOK
  <2>6. p \in 0..(L - 1) BY <1>2, <2>2, <2>5 DEF IterationEnds
  <2>7. c = f[p] /\ c \in Nat
    <3>1. p \in p..(L - 1) BY <2>2, <2>6
    <3>2. c = counts[entry.from][p] BY <1>2 DEF MergeCount
    <3>3. f[p] \in Nat BY <2>3, <2>6
    <3> HIDE DEF c, f, p
    <3> QED BY <3>1, <3>2, <3>3, <2>4
  <2> HIDE DEF L, f, p, c, d
  <2>8. /\ merge.countToIdx \in Nat
        /\ PrefixSum(f)[p + 1] = merge.countToIdx + c
        /\ merge.countToIdx + c <= entry.offered
    <3>1. \A i \in 0..(L - 1) : f[i] \in Nat BY <2>3
    <3>2. L \in 0..L /\ p + 1 \in 0..L /\ p \in 0..L BY <2>2, <2>6
    <3>3. PrefixSum(f)[p + 1] = PrefixSum(f)[p] + f[p] BY <2>5, PrefixSumStep
    <3>4. PrefixSum(f)[p] \in Nat /\ PrefixSum(f)[p + 1] <= PrefixSum(f)[L]
      BY <2>2, <3>1, <3>2, PrefixSumMonotone
    <3> QED BY <2>3, <2>4, <2>7, <3>3, <3>4
  <2>9. merge.countToIdx + c \in 0..MaxCount BY <2>3, <2>7, <2>8, MaxCountAssumption
  <2>10. c \in Int64 /\ merge.countToIdx + c \in Int64
    BY <2>7, <2>8, <2>9, MaxCountAssumption DEF Int64
  <2>11. merge'.countToIdx = merge.countToIdx + c BY <1>3, <2>10, Wrap64Id
  <2>12. ASSUME MergeDrops PROVE d = merge.dropped + c
    <3>1. merge.dropped + c \in 0..MaxCount
      BY <2>3, <2>4, <2>5, <2>7, <2>9, MaxCountAssumption
    <3>2. merge.dropped + c \in Int64 /\ MaxCount - merge.dropped \in Int64
      BY <2>4, <2>5, <2>7, <3>1, MaxCountAssumption DEF Int64
    <3>3. Wrap64(merge.dropped + c) = merge.dropped + c
          /\ Wrap64(MaxCount - merge.dropped) = MaxCount - merge.dropped
      BY <3>2, Wrap64Id
    <3>4. ~(c > MaxCount - merge.dropped) BY <2>5, <2>7, <3>1, MaxCountAssumption
    <3>5. AddDropped(merge.dropped, c) = merge.dropped + c BY <3>3, <3>4 DEF AddDropped
    <3> QED BY <2>12, <3>5 DEF d
  <2>13. /\ d >= 0 /\ totalCount'[entry.h] >= entry.total
         /\ (totalCount'[entry.h] - entry.total) + d = merge.countToIdx + c
         /\ IF entry.from = entry.h THEN entry.total = entry.offered
                                    ELSE totalCount'[entry.from] = entry.offered
         /\ \A i \in (p + 1)..(L - 1) : counts'[entry.from][i] = f[i]
    <3>1. CASE c = 0 \/ MergeDrops
      <4>1. totalCount' = totalCount /\ counts' = counts BY <1>1, <3>1 DEF fields, c
      <4>2. d = merge.dropped + c
        <5>1. CASE MergeDrops BY <5>1, <2>12
        <5>2. CASE ~MergeDrops BY <3>1, <5>2, <2>5 DEF d
        <5> QED BY <5>1, <5>2
      <4>3. \A i \in (p + 1)..(L - 1) : i \in p..(L - 1) BY <2>5
      <4> QED BY <4>1, <4>2, <4>3, <2>3, <2>4, <2>5, <2>7, MaxCountAssumption
    <3>2. CASE ~(c = 0 \/ MergeDrops)
      <4> DEFINE v == MergeValue
                 idx == CountsIndexFor(geom[entry.h], v)
      <4>1. Store(entry.h, v, c) /\ ~RecordFails(entry.h, v, c)
        BY <1>1, <1>2, <3>2 DEF MergeDrops, c
      <4>2. FieldsOK BY DEF TypeOK
      <4>3. /\ totalCount' = [totalCount EXCEPT ![entry.h] = totalCount[entry.h] + c]
            /\ counts' = [counts EXCEPT ![entry.h] =
                            [counts[entry.h] EXCEPT ![idx] = counts[entry.h][idx] + c]]
            /\ idx \in DOMAIN counts[entry.h]
        BY <1>2, <2>1, <2>10, <4>1, <4>2, StoreExact
      <4>4. totalCount'[entry.h] = totalCount[entry.h] + c
        BY <1>2, <4>2, <4>3 DEF FieldsOK
      <4>5. d = merge.dropped BY <3>2 DEF d
      <4>6. entry.from = entry.h => idx = p
        <5>1. geom[entry.h] \in Geometries BY <1>2, <4>2 DEF FieldsOK
        <5>2. entry.from = entry.h => p \in 0..(geom[entry.h].countsLen - 1) BY <2>6 DEF L
        <5> QED BY <1>2, <5>1, <5>2, GeometryFacts DEF MergeValue, p
      <4> HIDE DEF v, idx
      <4>7. entry.from # entry.h => totalCount'[entry.from] = totalCount[entry.from]
        BY <1>2, <4>2, <4>3 DEF FieldsOK
      <4>8. \A i \in (p + 1)..(L - 1) : counts'[entry.from][i] = f[i]
        <5> SUFFICES ASSUME NEW i \in (p + 1)..(L - 1) PROVE counts'[entry.from][i] = f[i]
          OBVIOUS
        <5>1. i \in p..(L - 1) /\ i # p /\ i \in 0..(L - 1) BY <2>2, <2>5
        <5>2. counts[entry.from][i] = f[i] BY <5>1, <2>4
        <5>3. CASE entry.from # entry.h
          BY <5>2, <5>3, <1>2, <4>2, <4>3 DEF FieldsOK
        <5>4. CASE entry.from = entry.h
          <6>1. counts'[entry.h] = [counts[entry.h] EXCEPT ![idx] = counts[entry.h][idx] + c]
            BY <1>2, <4>2, <4>3 DEF FieldsOK
          <6>2. i # idx BY <4>6, <5>1, <5>4
          <6>3. i \in DOMAIN counts[entry.h] BY <1>2, <4>2, <5>1, <5>4 DEF FieldsOK, L
          <6>4. counts'[entry.h][i] = counts[entry.h][i] BY <6>1, <6>2, <6>3
          <6> QED BY <6>4, <5>2, <5>4
        <5> QED BY <5>3, <5>4
      <4> QED BY <4>4, <4>5, <4>7, <4>8, <2>3, <2>4, <2>5, <2>7, MaxCountAssumption
    <3> QED BY <3>1, <3>2
  <2>14. p + 1 \in 0..L BY <2>2, <2>6
  <2>15. MergeProgress'
    BY <1>1, <1>3, <1>5, <2>8, <2>11, <2>13, <2>14 DEF MergeProgress, L, f, p
  <2>16. MergeEntry' BY <1>1, <1>5, <2>1 DEF MergeEntry
  <2> QED BY <2>15, <2>16
<1> QED BY <1>1, <1>2, <1>3, <1>4, <1>6 DEF MergeInv

\* Every step of every call preserves the invariant of a merge in progress.
LEMMA NextMergeInv == TypeOK /\ TotalIsSum /\ MergeInv /\ [Next]_vars => MergeInv'
<1> SUFFICES ASSUME TypeOK, TotalIsSum, MergeInv, [Next]_vars PROVE MergeInv' OBVIOUS
<1>1. ASSUME OneStep PROVE MergeInv' BY <1>1, NoEntryInv DEF OneStep
<1>2. ASSUME NEW h \in Hist, NEW v \in Values, NEW i \in Intervals, RecordCorrectedValue(h, v, i)
      PROVE  MergeInv'
  <2>1. entry'.call = "fix" BY <1>2 DEF RecordCorrectedValue
  <2>2. pc' # "merge" BY <1>2 DEF RecordCorrectedValue, Return
  <2> QED BY <2>1, <2>2 DEF MergeInv
<1>3. ASSUME RecordMissingValue PROVE MergeInv'
  <2>1. entry' = entry /\ pc = "fix" /\ entry.call # "merge"
    BY <1>3 DEF RecordMissingValue, MergeInv
  <2>2. pc' # "merge" BY <1>3, <2>1 DEF RecordMissingValue, Return
  <2> QED BY <2>1, <2>2 DEF MergeInv
<1>4. ASSUME NEW h \in Hist, NEW k \in Hist, MergeCall(h, k) PROVE MergeInv'
  BY <1>4, MergeCallInv
<1>5. ASSUME MergeStep PROVE MergeInv'
  <2>1. CASE IterationEnds
    <3>1. pc = "merge" /\ UNCHANGED <<fields, entry, sound>> /\ Return(FALSE, merge.dropped)
      BY <1>5, <2>1 DEF MergeStep
    <3> QED BY <2>1, <3>1, MergeReturnInv
  <2>2. CASE ~IterationEnds BY <1>5, <2>2, MergeAdvanceInv
  <2> QED BY <2>1, <2>2
<1>6. CASE UNCHANGED vars
  BY <1>6 DEF vars, fields, MergeInv, MergeEntry, MergeProgress, MergeAccounting, Merged
<1> QED BY <1>1, <1>2, <1>3, <1>4, <1>5, <1>6
  DEF Next, RecordValues, New, SetLabel, Clone, Reset, Import

\* For every instance: when a merge of consistent histograms returns, what the
\* receiver gained plus the dropped count Merge returns is the argument's total.
THEOREM MergeAccounts == Spec => []MergeAccounting
<1>1. Init => MergeInv BY DEF Init, NoEntry, MergeInv
<1>2. Init => TypeOK /\ TotalIsSum /\ MergeInv BY <1>1, InitType, InitTotal
<1>3. TypeOK /\ TotalIsSum /\ MergeInv /\ [Next]_vars => (TypeOK /\ TotalIsSum /\ MergeInv)'
  BY NextType, NextTotal, NextMergeInv
<1>4. MergeInv => MergeAccounting BY DEF MergeInv, MergeAccounting, Merged
<1> QED BY <1>2, <1>3, <1>4, PTL DEF Spec

-----------------------------------------------------------------------------
(* Merge, position by position.                                             *)

\* What the argument of the merge holds for position i of the receiver.
Offered(i) ==
  [j \in DOMAIN entry.fromCounts |->
     IF CountsIndexFor(geom[entry.h], ValueFromFlatIndex(geom[entry.from], j)) = i
     THEN entry.fromCounts[j] ELSE 0]

\* What each position of the receiver has gained when the iterator is at pos.
Gains ==
  \A i \in DOMAIN counts[entry.h] :
    LET gain == counts[entry.h][i] - entry.counts[i]
        due == PrefixSum(Offered(i))[merge.pos]
    IN  IF merge.dropped = 0 THEN gain = due ELSE gain \in 0..due

GainsInv ==
  entry.call = "merge" /\ sound[entry.h] /\ sound[entry.from] =>
    /\ entry.counts \in [0..(geom[entry.h].countsLen - 1) -> Nat]
    /\ pc = "merge" => Gains
    /\ MergePointwise

\* The offers to a position are parts of the argument's counts.
LEMMA OfferedFacts ==
  ASSUME NEW L \in Nat, geom[entry.from].countsLen = L, entry.fromCounts \in [0..(L - 1) -> Nat], NEW i
  PROVE  /\ \A j \in 0..(L - 1) :
              /\ Offered(i)[j] \in Nat /\ Offered(i)[j] <= entry.fromCounts[j]
              /\ Offered(i)[j] =
                   IF CountsIndexFor(geom[entry.h], ValueFromFlatIndex(geom[entry.from], j)) = i
                   THEN entry.fromCounts[j] ELSE 0
         /\ Contribution(i) = PrefixSum(Offered(i))[L]
<1>1. \A j \in 0..(L - 1) : entry.fromCounts[j] \in Nat OBVIOUS
<1>2. DOMAIN entry.fromCounts = 0..(L - 1) OBVIOUS
<1>3. \A j \in 0..(L - 1) : Offered(i)[j] =
                   IF CountsIndexFor(geom[entry.h], ValueFromFlatIndex(geom[entry.from], j)) = i
                   THEN entry.fromCounts[j] ELSE 0
  BY <1>2 DEF Offered
<1>4. \A j \in 0..(L - 1) : Offered(i)[j] \in Nat /\ Offered(i)[j] <= entry.fromCounts[j]
  BY <1>1, <1>3
<1>5. Contribution(i) = PrefixSum(Offered(i))[L] BY DEF Contribution, Offered
<1> QED BY <1>3, <1>4, <1>5

\* When a merge starts nothing was gained.
LEMMA MergeCallGains ==
  ASSUME TypeOK, TotalIsSum, NEW h \in Hist, NEW k \in Hist, MergeCall(h, k)
  PROVE  GainsInv'
<1>1. entry'.h = h /\ entry'.from = k /\ entry'.counts = counts[h] BY DEF MergeCall
<1>2. merge'.pos = 0 /\ merge'.dropped = 0 /\ pc' = "merge" BY DEF MergeCall
<1>3. geom' = geom /\ counts' = counts /\ sound' = sound BY DEF MergeCall, fields
<1>4. ASSUME sound[h]
      PROVE  counts[h] \in [0..(geom[h].countsLen - 1) -> Nat] /\ Gains'
  <2>1. Consistent(h) BY <1>4 DEF TotalIsSum
  <2>2. counts[h] \in [0..(geom[h].countsLen - 1) -> Nat] BY <2>1, ConsistentCounts DEF TypeOK
  <2>3. ASSUME NEW i \in DOMAIN counts[h] PROVE counts[h][i] - counts[h][i] = 0
    <3>1. counts[h][i] \in Nat BY <2>2
    <3> QED BY <3>1
  <2>4. \A i : PrefixSum(Offered(i)')[0] = 0 BY PrefixSumZero
  <2>5. Gains' BY <1>1, <1>2, <1>3, <2>3, <2>4 DEF Gains
  <2> QED BY <2>2, <2>5
<1>5. MergePointwise' BY <1>2 DEF MergePointwise, Merged
<1> QED BY <1>1, <1>2, <1>3, <1>4, <1>5 DEF GainsInv

\* A merge in progress, with the facts its steps use.
LEMMA MergeRunning ==
  ASSUME TypeOK, TotalIsSum, MergeInv, GainsInv, pc = "merge", sound[entry.h], sound[entry.from]
  PROVE  LET L == geom[entry.from].countsLen
             f == entry.fromCounts
         IN  /\ L \in Nat /\ f \in [0..(L - 1) -> Nat]
             /\ merge.pos \in 0..L
             /\ merge.countToIdx = PrefixSum(f)[merge.pos]
             /\ \A i \in merge.pos..(L - 1) : counts[entry.from][i] = f[i]
             /\ merge.dropped \in Nat
             /\ (totalCount[entry.h] - entry.total) + merge.dropped = merge.countToIdx
             /\ totalCount[entry.h] \in Int /\ entry.total \in Int
             /\ counts[entry.h] \in [0..(geom[entry.h].countsLen - 1) -> Nat]
             /\ entry.counts \in [0..(geom[entry.h].countsLen - 1) -> Nat]
             /\ entry.offered = PrefixSum(f)[L]
<1>1. entry.call = "merge" /\ entry.h \in Hist /\ entry.from \in Hist /\ MergeEntry /\ MergeProgress
  BY DEF MergeInv
<1>2. geom[entry.from].countsLen \in Nat BY <1>1, GeometryFacts DEF TypeOK, FieldsOK
<1>3. merge.dropped \in Nat BY <1>1, Int64Facts DEF MergeProgress, TypeOK, CallOK
<1>4. Consistent(entry.h) BY <1>1 DEF TotalIsSum
<1>5. counts[entry.h] \in [0..(geom[entry.h].countsLen - 1) -> Nat] /\ totalCount[entry.h] \in 0..MaxCount
  BY <1>1, <1>4, ConsistentCounts DEF TypeOK
<1>6. entry.counts \in [0..(geom[entry.h].countsLen - 1) -> Nat] BY <1>1 DEF GainsInv
<1>7. totalCount[entry.h] \in Int /\ entry.total \in Int BY <1>1, <1>5, MaxCountAssumption DEF MergeEntry
<1> QED BY <1>1, <1>2, <1>3, <1>5, <1>6, <1>7 DEF MergeEntry, MergeProgress

\* When a merge returns, nothing that is left in front of the iterator would
\* contribute: the positions have gained all that they were offered.
LEMMA MergeReturnGains ==
  ASSUME TypeOK, TotalIsSum, MergeInv, GainsInv, MergeInv', pc = "merge",
         UNCHANGED <<fields, entry, sound>>, Return(FALSE, merge.dropped)
  PROVE  GainsInv'
<1>1. entry.call = "merge" /\ entry.h \in Hist /\ entry.from \in Hist BY DEF MergeInv
<1>2. pc' = "idle" /\ ret'.dropped = merge.dropped /\ entry' = entry /\ sound' = sound
  BY DEF Return
<1>3. geom' = geom /\ counts' = counts /\ totalCount' = totalCount BY DEF fields
<1>4. ASSUME sound[entry.h], sound[entry.from] PROVE MergePointwise'
  <2> DEFINE L == geom[entry.from].countsLen
             f == entry.fromCounts
  <2>1. /\ L \in Nat /\ f \in [0..(L - 1) -> Nat] /\ merge.pos \in 0..L
        /\ merge.countToIdx = PrefixSum(f)[merge.pos]
        /\ (totalCount[entry.h] - entry.total) + merge.dropped = merge.countToIdx
        /\ entry.offered = PrefixSum(f)[L]
    BY <1>4, MergeRunning
  <2>2. MergeAccounting' BY <1>1, <1>2, <1>4 DEF MergeInv
  <2>3. (totalCount[entry.h] - entry.total) + merge.dropped = entry.offered
    BY <1>1, <1>2, <1>3, <1>4, <2>2 DEF MergeAccounting, Merged
  <2>4. PrefixSum(f)[merge.pos] = PrefixSum(f)[L] BY <2>1, <2>3
  <2>5. Gains BY <1>1, <1>4 DEF GainsInv
  <2>6. ASSUME NEW i PROVE PrefixSum(Offered(i))[merge.pos] = Contribution(i)
    <3>1. \A j \in 0..(L - 1) : f[j] \in Nat BY <2>1
    <3>2. /\ \A j \in 0..(L - 1) : Offered(i)[j] \in Nat /\ Offered(i)[j] <= f[j]
          /\ Contribution(i) = PrefixSum(Offered(i))[L]
      BY <2>1, OfferedFacts
    <3>3. \A j \in 0..(L - 1) : f[j] \in Nat /\ Offered(i)[j] \in Nat /\ Offered(i)[j] <= f[j]
      BY <3>1, <3>2
    <3> DEFINE d == Offered(i)
               n == merge.pos
    <3> HIDE DEF L, f, d, n
    <3>4. PrefixSum(d)[n] = PrefixSum(d)[L]
      <4>1. n \in 0..L /\ L \in Nat /\ PrefixSum(f)[n] = PrefixSum(f)[L] BY <2>1, <2>4 DEF n
      <4>2. \A j \in 0..(L - 1) : f[j] \in Nat /\ d[j] \in Nat /\ d[j] <= f[j] BY <3>3 DEF d
      <4> QED BY <4>1, <4>2, PrefixSumFlat
    <3> QED BY <3>2, <3>4 DEF d, n
  <2>7. \A i : Contribution(i)' = Contribution(i) BY <1>2, <1>3 DEF Contribution
  <2> QED BY <1>2, <1>3, <2>5, <2>6, <2>7 DEF MergePointwise, Gains
<1>5. sound[entry.h] /\ sound[entry.from] => entry.counts \in [0..(geom[entry.h].countsLen - 1) -> Nat]
  BY <1>1 DEF GainsInv
<1> QED BY <1>1, <1>2, <1>3, <1>4, <1>5 DEF GainsInv

\* One iteration gives the position of the value it reads the count it reads, or
\* drops a positive count.
LEMMA MergeAdvanceGains ==
  ASSUME TypeOK, TotalIsSum, MergeInv, GainsInv, TypeOK', MergeInv', MergeStep, ~IterationEnds
  PROVE  GainsInv'
<1>1. /\ pc = "merge" /\ pc' = pc /\ entry' = entry /\ sound' = sound /\ merge' = Advanced
      /\ IF MergeCount = 0 \/ MergeDrops THEN UNCHANGED fields
         ELSE Store(merge.h, MergeValue, MergeCount)
  BY DEF MergeStep
<1>2. /\ entry.call = "merge" /\ entry.h \in Hist /\ entry.from \in Hist
      /\ merge.h = entry.h /\ merge.from = entry.from
  BY <1>1 DEF MergeInv
<1>3. geom' = geom BY <1>1 DEF fields, Store
<1>4. MergePointwise' BY <1>1 DEF MergePointwise, Merged
<1>5. ASSUME sound[entry.h], sound[entry.from] PROVE Gains'
  <2> DEFINE L == geom[entry.from].countsLen
             f == entry.fromCounts
             p == merge.pos
             c == MergeCount
             idx == CountsIndexFor(geom[entry.h], MergeValue)
             D == 0..(geom[entry.h].countsLen - 1)
  <2>1. /\ L \in Nat /\ f \in [0..(L - 1) -> Nat] /\ p \in 0..L
        /\ merge.countToIdx = PrefixSum(f)[p]
        /\ \A i \in p..(L - 1) : counts[entry.from][i] = f[i]
        /\ merge.dropped \in Nat
        /\ (totalCount[entry.h] - entry.total) + merge.dropped = merge.countToIdx
        /\ totalCount[entry.h] \in Int /\ entry.total \in Int
        /\ counts[entry.h] \in [D -> Nat] /\ entry.counts \in [D -> Nat]
    BY <1>1, <1>5, MergeRunning
  <2>2. MergeProgress' BY <1>1, <1>2, <1>5 DEF MergeInv
  <2>3. merge'.pos = p + 1 BY <1>1 DEF Advanced, TypeOK, CallOK
  <2>4. (totalCount'[entry.h] - entry.total) + merge'.dropped = PrefixSum(f)[p + 1]
    BY <1>1, <2>2, <2>3 DEF MergeProgress
  <2>5. p \in 0..(L - 1) /\ p \in Nat
    <3>1. L \in Nat /\ p \in 0..L BY <2>1
    <3>2. ~(p >= L) BY <1>2 DEF IterationEnds
    <3> HIDE DEF p, L
    <3> QED BY <3>1, <3>2
  <2>6. c = f[p] /\ c \in Nat
    <3>1. p \in p..(L - 1) BY <2>1, <2>5
    <3>2. c = counts[entry.from][p] BY <1>2 DEF MergeCount
    <3>3. f[p] \in Nat BY <2>1, <2>5
    <3> HIDE DEF c, f, p
    <3> QED BY <3>1, <3>2, <3>3, <2>1
  <2>7. PrefixSum(f)[p + 1] = PrefixSum(f)[p] + c BY <2>5, <2>6, PrefixSumStep
  <2>8. ASSUME NEW i
        PROVE  /\ PrefixSum(Offered(i))[p] \in Nat
               /\ PrefixSum(Offered(i))[p + 1] =
                    PrefixSum(Offered(i))[p] + (IF idx = i THEN c ELSE 0)
    <3>1. \A j \in 0..(L - 1) : Offered(i)[j] \in Nat BY <2>1, OfferedFacts
    <3>2. Offered(i)[p] = IF idx = i THEN c ELSE 0
      <4>1. \A j \in 0..(L - 1) : Offered(i)[j] =
              IF CountsIndexFor(geom[entry.h], ValueFromFlatIndex(geom[entry.from], j)) = i
              THEN f[j] ELSE 0
        <5>1. L \in Nat /\ geom[entry.from].countsLen = L /\ entry.fromCounts \in [0..(L - 1) -> Nat]
          BY <2>1
        <5> HIDE DEF L
        <5> QED BY <5>1, OfferedFacts
      <4>2. Offered(i)[p] = IF CountsIndexFor(geom[entry.h], ValueFromFlatIndex(geom[entry.from], p)) = i
                            THEN f[p] ELSE 0
        <5> HIDE DEF p, f, L
        <5> QED BY <2>5, <4>1
      <4> QED BY <1>2, <2>6, <4>2 DEF MergeValue
    <3> HIDE DEF L, f, p, c, idx
    <3>3. PrefixSum(Offered(i))[p + 1] = PrefixSum(Offered(i))[p] + Offered(i)[p]
      BY <2>5, PrefixSumStep
    <3>4. PrefixSum(Offered(i))[p] \in Nat
      <4>1. p \in 0..L /\ p \in 0..p BY <2>5, <2>1
      <4> QED BY <2>1, <3>1, <4>1, PrefixSumMonotone
    <3> QED BY <3>2, <3>3, <3>4
  <2>9. Gains BY <1>1, <1>2, <1>5 DEF GainsInv
  <2>10. \A i : Offered(i)' = Offered(i) BY <1>1, <1>3 DEF Offered
  <2> HIDE DEF L, f, p, c, idx
  <2> SUFFICES ASSUME NEW i \in DOMAIN counts'[entry.h]
               PROVE  IF merge'.dropped = 0
                      THEN counts'[entry.h][i] - entry.counts[i] = PrefixSum(Offered(i))[p + 1]
                      ELSE counts'[entry.h][i] - entry.counts[i] \in 0..PrefixSum(Offered(i))[p + 1]
    BY <1>1, <2>3, <2>10 DEF Gains
  <2>11. CASE c = 0 \/ MergeDrops
    <3>1. totalCount' = totalCount /\ counts' = counts BY <1>1, <2>11 DEF fields, c
    <3>2. i \in D /\ i \in DOMAIN counts[entry.h] BY <2>1, <3>1
    <3>3. counts[entry.h][i] \in Nat /\ entry.counts[i] \in Nat BY <2>1, <3>2
    <3>4. IF merge.dropped = 0
          THEN counts[entry.h][i] - entry.counts[i] = PrefixSum(Offered(i))[p]
          ELSE counts[entry.h][i] - entry.counts[i] \in 0..PrefixSum(Offered(i))[p]
      BY <2>9, <3>2 DEF Gains, p
    <3>5. merge'.dropped = merge.dropped + c
      <4>1. merge'.dropped \in Int BY Int64Facts DEF TypeOK, CallOK
      <4>0. totalCount[entry.h] \in Int /\ entry.total \in Int /\ merge.dropped \in Nat BY <2>1
      <4>2. (totalCount[entry.h] - entry.total) + merge.dropped + c = PrefixSum(f)[p + 1]
        BY <2>1, <2>6, <2>7
      <4>3. (totalCount[entry.h] - entry.total) + merge'.dropped = PrefixSum(f)[p + 1] BY <2>4, <3>1
      <4> QED BY <2>6, <4>0, <4>1, <4>2, <4>3
    <3>6. PrefixSum(Offered(i))[p] \in Nat /\ PrefixSum(Offered(i))[p + 1] \in Nat
          /\ PrefixSum(Offered(i))[p] <= PrefixSum(Offered(i))[p + 1]
          /\ (c = 0 => PrefixSum(Offered(i))[p] = PrefixSum(Offered(i))[p + 1])
      BY <2>6, <2>8
    <3> QED BY <2>1, <2>6, <3>1, <3>3, <3>4, <3>5, <3>6
  <2>12. CASE ~(c = 0 \/ MergeDrops)
    <3> DEFINE v == MergeValue
    <3>1. Store(entry.h, v, c) /\ ~RecordFails(entry.h, v, c)
      BY <1>1, <1>2, <2>12 DEF MergeDrops, c
    <3>2. c \in Int64 /\ FieldsOK /\ Consistent(entry.h)
      <4>1. c = counts[entry.from][p] BY <1>2 DEF MergeCount, c, p
      <4>2. counts[entry.from] \in [0..(L - 1) -> Int64] BY <1>2 DEF TypeOK, FieldsOK, L
      <4> QED BY <1>2, <1>5, <2>5, <4>1, <4>2 DEF TypeOK, TotalIsSum
    <3>3. /\ totalCount' = [totalCount EXCEPT ![entry.h] = totalCount[entry.h] + c]
          /\ counts' = [counts EXCEPT ![entry.h] =
                          [counts[entry.h] EXCEPT ![idx] = counts[entry.h][idx] + c]]
          /\ idx \in DOMAIN counts[entry.h]
      BY <1>2, <3>1, <3>2, StoreExact DEF idx
    <3> HIDE DEF v
    <3>4. totalCount'[entry.h] = totalCount[entry.h] + c
      BY <1>2, <3>2, <3>3 DEF FieldsOK
    <3>5. counts'[entry.h] = [counts[entry.h] EXCEPT ![idx] = counts[entry.h][idx] + c]
      BY <1>2, <3>2, <3>3 DEF FieldsOK
    <3>6. merge'.dropped = merge.dropped
      BY <1>1, <2>12 DEF Advanced, TypeOK, CallOK
    <3>7. i \in D /\ i \in DOMAIN counts[entry.h] BY <2>1, <3>5
    <3>8. counts[entry.h][i] \in Nat /\ entry.counts[i] \in Nat BY <2>1, <3>7
    <3>9. counts'[entry.h][i] = counts[entry.h][i] + (IF idx = i THEN c ELSE 0)
      BY <2>6, <3>5, <3>7, <3>8
    <3>10. IF merge.dropped = 0
           THEN counts[entry.h][i] - entry.counts[i] = PrefixSum(Offered(i))[p]
           ELSE counts[entry.h][i] - entry.counts[i] \in 0..PrefixSum(Offered(i))[p]
      BY <2>9, <3>7 DEF Gains, p
    <3> QED BY <2>6, <2>8, <3>6, <3>8, <3>9, <3>10
  <2> QED BY <2>11, <2>12
<1>6. sound[entry.h] /\ sound[entry.from] => entry.counts \in [0..(geom[entry.h].countsLen - 1) -> Nat]
  BY <1>2 DEF GainsInv
<1> QED BY <1>1, <1>2, <1>3, <1>4, <1>5, <1>6 DEF GainsInv

\* Every step of every call preserves the gains.
LEMMA NextGainsInv ==
  TypeOK /\ TotalIsSum /\ MergeInv /\ GainsInv /\ TypeOK' /\ MergeInv' /\ [Next]_vars => GainsInv'
<1> SUFFICES ASSUME TypeOK, TotalIsSum, MergeInv, GainsInv, TypeOK', MergeInv', [Next]_vars
             PROVE  GainsInv'
  OBVIOUS
<1>1. ASSUME OneStep PROVE GainsInv' BY <1>1 DEF OneStep, NoEntry, GainsInv
<1>2. ASSUME NEW h \in Hist, NEW v \in Values, NEW i \in Intervals, RecordCorrectedValue(h, v, i)
      PROVE  GainsInv'
  <2>1. entry'.call = "fix" BY <1>2 DEF RecordCorrectedValue
  <2> QED BY <2>1 DEF GainsInv
<1>3. ASSUME RecordMissingValue PROVE GainsInv'
  <2>1. entry' = entry /\ entry.call # "merge" BY <1>3 DEF RecordMissingValue, MergeInv
  <2> QED BY <2>1 DEF GainsInv
<1>4. ASSUME NEW h \in Hist, NEW k \in Hist, MergeCall(h, k) PROVE GainsInv'
  BY <1>4, MergeCallGains
<1>5. ASSUME MergeStep PROVE GainsInv'
  <2>1. CASE IterationEnds
    <3>1. pc = "merge" /\ UNCHANGED <<fields, entry, sound>> /\ Return(FALSE, merge.dropped)
      BY <1>5, <2>1 DEF MergeStep
    <3> QED BY <3>1, MergeReturnGains
  <2>2. CASE ~IterationEnds BY <1>5, <2>2, MergeAdvanceGains
  <2> QED BY <2>1, <2>2
<1>6. CASE UNCHANGED vars
  <2>1. /\ geom' = geom /\ counts' = counts /\ merge' = merge /\ entry' = entry /\ sound' = sound
        /\ pc' = pc /\ ret' = ret
    BY <1>6 DEF vars, fields
  <2> QED BY <2>1 DEF GainsInv, Gains, Offered, MergePointwise, Merged, Contribution
<1> QED BY <1>1, <1>2, <1>3, <1>4, <1>5, <1>6
  DEF Next, RecordValues, New, SetLabel, Clone, Reset, Import

\* For every instance: when a merge of consistent histograms returns, every
\* bucket of the receiver has gained the argument's counts of the values in it,
\* all of them when nothing was dropped and never more than that.
THEOREM MergeIsPointwise == Spec => []MergePointwise
<1>1. Init => TypeOK /\ TotalIsSum /\ MergeInv /\ GainsInv
  <2>1. Init => MergeInv /\ GainsInv BY DEF Init, NoEntry, MergeInv, GainsInv
  <2> QED BY <2>1, InitType, InitTotal
<1>2. TypeOK /\ TotalIsSum /\ MergeInv /\ GainsInv /\ [Next]_vars
        => (TypeOK /\ TotalIsSum /\ MergeInv /\ GainsInv)'
  BY NextType, NextTotal, NextMergeInv, NextGainsInv
<1>3. GainsInv => MergePointwise BY DEF GainsInv, MergePointwise, Merged
<1> QED BY <1>1, <1>2, <1>3, PTL DEF Spec

-----------------------------------------------------------------------------
(* RecordCorrectedValue.                                                    *)

\* A correction in progress: v was recorded, and then one value per interval.
FixProgress ==
  LET gain == totalCount[entry.h] - entry.total
  IN  /\ entry.v \in 0..MaxInt /\ entry.interval \in 1..MaxInt /\ entry.interval < entry.v
      /\ entry.total \in 0..MaxCount
      /\ CountsIndexFor(geom[entry.h], entry.v) \in 0..(geom[entry.h].countsLen - 1)
      /\ gain >= 1
      /\ fix.missing >= 0
      /\ fix.missing = entry.v - gain * entry.interval

FixInv ==
  /\ pc = "fix" => entry.call = "fix"
  /\ entry.call = "fix" =>
       /\ entry.h \in Hist /\ pc # "merge"
       /\ pc = "fix" => fix.h = entry.h /\ fix.interval = entry.interval
       /\ sound[entry.h] => (pc = "fix" => FixProgress) /\ CorrectedCount

\* The call up to its loop.
LEMMA FixCallInv ==
  ASSUME TypeOK, TotalIsSum, NEW h \in Hist, NEW v \in Values, NEW i \in Intervals,
         RecordCorrectedValue(h, v, i)
  PROVE  FixInv'
<1>1. /\ entry'.call = "fix" /\ entry'.h = h /\ entry'.v = v /\ entry'.interval = i
      /\ entry'.total = totalCount[h] /\ sound' = sound
  BY DEF RecordCorrectedValue
<1>2. v \in Int /\ i \in Int /\ v <= MaxInt /\ MaxInt \in Nat
  BY InputAssumption, MaxIntFacts
<1>3. FieldsOK /\ totalCount[h] \in Int BY Int64Facts DEF TypeOK, FieldsOK
<1>4. CASE RecordFails(h, v, 1)
  <2>1. totalCount' = totalCount /\ pc' = "idle" /\ ret'.err = TRUE
    BY <1>4 DEF RecordCorrectedValue, Return, fields
  <2>2. totalCount'[h] - totalCount[h] = 0 BY <1>3, <2>1
  <2>3. CorrectedCount' BY <1>1, <2>1, <2>2 DEF CorrectedCount
  <2> QED BY <1>1, <2>1, <2>3 DEF FixInv
<1>5. CASE ~RecordFails(h, v, 1)
  <2>1. Store(h, v, 1) BY <1>5 DEF RecordCorrectedValue
  <2>2. ASSUME sound[h]
        PROVE  /\ totalCount'[h] = totalCount[h] + 1 /\ totalCount[h] \in 0..MaxCount
               /\ CountsIndexFor(geom[h], v) \in 0..(geom[h].countsLen - 1)
    <3>1. Consistent(h) BY <2>2 DEF TotalIsSum
    <3>2. 1 \in Int64 BY MaxCountAssumption DEF Int64
    <3>3. /\ totalCount' = [totalCount EXCEPT ![h] = totalCount[h] + 1]
          /\ CountsIndexFor(geom[h], v) \in DOMAIN counts[h]
      BY <1>3, <1>5, <2>1, <3>1, <3>2, StoreExact
    <3>4. totalCount[h] \in 0..MaxCount /\ counts[h] \in [0..(geom[h].countsLen - 1) -> Nat]
      BY <1>3, <3>1, ConsistentCounts
    <3> QED BY <1>3, <3>3, <3>4 DEF FieldsOK
  <2>3. CASE NothingMissing(v, i)
    <3>1. pc' = "idle" /\ ret'.err = FALSE
      BY <1>5, <2>3 DEF RecordCorrectedValue, Return
    <3>2. ~(i > 0 /\ v > i) BY <1>2, <2>3 DEF NothingMissing
    <3>3. sound[h] => totalCount'[h] - totalCount[h] = 1 BY <1>3, <2>2
    <3>4. CorrectedCount' BY <1>1, <3>1, <3>2, <3>3 DEF CorrectedCount
    <3> QED BY <1>1, <3>1, <3>4 DEF FixInv
  <2>4. CASE ~NothingMissing(v, i)
    <3>1. /\ pc' = "fix" /\ fix'.h = h /\ fix'.missing = v - i /\ fix'.interval = i
      BY <1>5, <2>4 DEF RecordCorrectedValue
    <3>2. i >= 1 /\ i < v BY <1>2, <2>4 DEF NothingMissing
    <3>3. v \in 0..MaxInt /\ i \in 1..MaxInt BY <1>2, <3>2
    <3>4. geom' = geom BY <2>1 DEF Store
    <3>5. ASSUME sound[h] PROVE FixProgress'
      <4>1. /\ totalCount'[h] - totalCount[h] = 1
            /\ (totalCount'[h] - totalCount[h]) * i = i
        BY <1>2, <1>3, <2>2, <3>5
      <4>2. v - i >= 0 BY <1>2, <3>2
      <4>3. totalCount'[h] - totalCount[h] >= 1 BY <4>1
      <4> QED BY <1>1, <2>2, <3>1, <3>2, <3>3, <3>4, <3>5, <4>1, <4>2, <4>3 DEF FixProgress
    <3>6. CorrectedCount' BY <3>1 DEF CorrectedCount
    <3> QED BY <1>1, <3>1, <3>5, <3>6 DEF FixInv
  <2> QED BY <2>3, <2>4
<1> QED BY <1>4, <1>5

\* How many intervals fit: the value left over after gain of them decides.
LEMMA IntervalsIn ==
  ASSUME NEW v \in Nat, NEW q \in Nat \ {0}, NEW gain \in Nat, NEW rest \in Nat, rest = v - gain * q
  PROVE  /\ rest < q => v \div q = gain
         /\ rest >= q => gain < v \div q
         /\ rest - q = v - (gain + 1) * q
<1>1. gain * q \in Nat /\ (gain + 1) * q = gain * q + q OBVIOUS
<1>2. gain * q <= v BY <1>1
<1>3. rest - q = v - (gain + 1) * q BY <1>1
<1>4. ASSUME rest < q PROVE v \div q = gain
  <2>1. v < (gain + 1) * q BY <1>1, <1>4
  <2> QED BY <1>2, <2>1, DivBetween
<1>5. ASSUME rest >= q PROVE gain < v \div q
  <2>1. (gain + 1) * q <= v BY <1>1, <1>5
  <2>2. gain + 1 \in Nat OBVIOUS
  <2>3. gain + 1 <= v \div q BY <2>1, <2>2, DivBetween
  <2>4. v \div q \in Nat BY DivBetween
  <2> QED BY <2>3, <2>4
<1> QED BY <1>3, <1>4, <1>5

\* Its loop: every missing value is in range, so only the limit can stop it.
LEMMA FixStepInv ==
  ASSUME TypeOK, TotalIsSum, FixInv, RecordMissingValue
  PROVE  FixInv'
<1>1. pc = "fix" /\ entry' = entry /\ sound' = sound BY DEF RecordMissingValue
<1>2. /\ entry.call = "fix" /\ entry.h \in Hist
      /\ fix.h = entry.h /\ fix.interval = entry.interval
  BY <1>1 DEF FixInv
<1>3. pc' # "merge" /\ (pc' = "fix" => fix'.h = entry.h /\ fix'.interval = entry.interval)
  BY <1>1, <1>2 DEF RecordMissingValue, Return, TypeOK, CallOK
<1>4. ASSUME sound[entry.h] PROVE (pc' = "fix" => FixProgress') /\ CorrectedCount'
  <2> DEFINE h == entry.h
             g == geom[h]
             t == totalCount[h]
             q == entry.interval
             gain == t - entry.total
             rest == fix.missing
  <2>1. FixProgress BY <1>1, <1>2, <1>4 DEF FixInv
  <2>2. /\ entry.v \in 0..MaxInt /\ q \in 1..MaxInt /\ q < entry.v /\ entry.total \in 0..MaxCount
        /\ CountsIndexFor(g, entry.v) \in 0..(g.countsLen - 1)
        /\ gain >= 1 /\ rest >= 0
    BY <2>1 DEF FixProgress
  <2>e. rest = entry.v - gain * q BY <2>1 DEF FixProgress
  <2>3. Consistent(h) /\ FieldsOK BY <1>2, <1>4 DEF TotalIsSum, TypeOK
  <2>4. /\ g \in Geometries /\ g.countsLen \in Nat \ {0}
        /\ counts[h] \in [0..(g.countsLen - 1) -> Nat] /\ t \in 0..MaxCount
    BY <1>2, <2>3, ConsistentCounts
  <2>5. MaxInt \in Nat /\ MaxCount \in Nat BY MaxIntFacts, MaxCountAssumption
  <2>6. rest \in Int BY DEF TypeOK, CallOK
  <2>f. t \in Int /\ entry.total \in Int BY <2>2, <2>4, <2>5
  <2> HIDE DEF h, g, t, q, rest
  <2>7. gain \in Nat /\ rest \in Nat /\ entry.v \in Nat /\ q \in Nat \ {0} BY <2>2, <2>f, <2>5, <2>6
  <2>8. /\ rest < q => entry.v \div q = gain
        /\ rest >= q => gain < entry.v \div q
        /\ rest - q = entry.v - (gain + 1) * q
    <3> HIDE DEF gain
    <3> QED BY <2>e, <2>7, IntervalsIn
  <2>9. q > 0 /\ entry.v > q BY <2>2, <2>5
  <2>10. CASE rest < q
    <3>1. totalCount' = totalCount /\ pc' = "idle" /\ ret'.err = FALSE
      BY <1>2, <2>7, <2>10 DEF RecordMissingValue, Return, fields, rest, q
    <3> QED BY <1>1, <2>8, <2>9, <2>10, <3>1 DEF CorrectedCount, h, t, q
  <2>11. CASE rest >= q /\ RecordFails(h, rest, 1)
    <3>1. totalCount' = totalCount /\ pc' = "idle" /\ ret'.err = TRUE
      BY <1>2, <2>7, <2>11 DEF RecordMissingValue, Return, fields, rest, q, h
    <3>2. t = MaxCount
      <4>1. gain * q \in Nat BY <2>7
      <4>2. rest <= entry.v /\ rest \in 0..MaxInt BY <2>2, <2>e, <2>5, <2>7, <4>1
      <4>3. Built(g) BY <2>4, GeometriesBuilt
      <4>4. CountsIndexFor(g, rest) <= CountsIndexFor(g, entry.v)
        BY <2>2, <4>2, <4>3, IndexMonotone DEF Built
      <4>5. CountsIndexFor(g, rest) \in Nat BY <4>2, <4>3, Covered
      <4>6. CountsIndexFor(g, rest) \in 0..(g.countsLen - 1) BY <2>2, <2>4, <4>4, <4>5
      <4>7. CountsIndexFor(geom[h], rest) \in DOMAIN counts[h] BY <2>4, <4>6 DEF g
      <4>8. 1 > Wrap64(MaxCount - t) BY <2>7, <2>11, <4>7 DEF RecordFails, t
      <4>9. MaxCount - t \in Int64 BY <2>4, <2>5 DEF Int64
      <4>10. Wrap64(MaxCount - t) = MaxCount - t BY <4>9, Wrap64Id
      <4> QED BY <2>4, <2>5, <4>8, <4>10
    <3> QED BY <1>1, <2>8, <2>9, <2>11, <3>1, <3>2 DEF CorrectedCount, h, t, q
  <2>12. CASE rest >= q /\ ~RecordFails(h, rest, 1)
    <3>1. /\ Store(h, rest, 1) /\ pc' = "fix"
          /\ fix' = [fix EXCEPT !.missing = rest - q]
      <4>1. fix.missing >= fix.interval /\ ~RecordFails(fix.h, fix.missing, 1)
        BY <1>2, <2>12 DEF rest, q, h
      <4>2. ~(fix.missing < fix.interval) BY <1>2, <2>7, <2>12 DEF rest, q
      <4>3. /\ Store(fix.h, fix.missing, 1) /\ pc' = pc
            /\ fix' = [fix EXCEPT !.missing = @ - fix.interval]
        BY <4>1, <4>2 DEF RecordMissingValue
      <4> QED BY <1>1, <1>2, <4>3 DEF rest, q, h
    <3>2. 1 \in Int64 BY MaxCountAssumption DEF Int64
    <3>3. totalCount' = [totalCount EXCEPT ![h] = totalCount[h] + 1] /\ geom' = geom
      <4>1. h \in Hist BY <1>2 DEF h
      <4> QED BY <2>3, <2>12, <3>1, <3>2, <4>1, StoreExact DEF Store
    <3>4. totalCount'[h] = t + 1 BY <1>2, <2>3, <3>3 DEF FieldsOK, h, t
    <3>5. fix'.missing = rest - q BY <3>1 DEF TypeOK, CallOK
    <3>6. /\ totalCount'[h] - entry.total = gain + 1 /\ gain + 1 >= 1 /\ rest - q >= 0
      <4>1. rest - q >= 0 BY <2>7, <2>12
      <4>2. totalCount'[h] - entry.total = gain + 1 BY <2>f, <3>4
      <4> HIDE DEF gain
      <4> QED BY <2>7, <4>1, <4>2
    <3>7. FixProgress'
      BY <1>1, <2>2, <2>8, <3>3, <3>5, <3>6 DEF FixProgress, h, q, g
    <3>8. CorrectedCount' BY <3>1 DEF CorrectedCount
    <3> QED BY <3>7, <3>8
  <2> QED BY <2>7, <2>10, <2>11, <2>12
<1> QED BY <1>1, <1>2, <1>3, <1>4 DEF FixInv

\* Every step of every call preserves the invariant of a correction in progress.
LEMMA NextFixInv == TypeOK /\ TotalIsSum /\ FixInv /\ [Next]_vars => FixInv'
<1> SUFFICES ASSUME TypeOK, TotalIsSum, FixInv, [Next]_vars PROVE FixInv' OBVIOUS
<1>1. ASSUME OneStep PROVE FixInv' BY <1>1 DEF OneStep, NoEntry, FixInv
<1>2. ASSUME NEW h \in Hist, NEW v \in Values, NEW i \in Intervals, RecordCorrectedValue(h, v, i)
      PROVE  FixInv'
  BY <1>2, FixCallInv
<1>3. ASSUME RecordMissingValue PROVE FixInv' BY <1>3, FixStepInv
<1>4. ASSUME NEW h \in Hist, NEW k \in Hist, MergeCall(h, k) PROVE FixInv'
  <2>1. entry'.call = "merge" /\ pc' = "merge" BY <1>4 DEF MergeCall
  <2> QED BY <2>1 DEF FixInv
<1>5. ASSUME MergeStep PROVE FixInv'
  <2>1. pc = "merge" /\ entry' = entry /\ pc' # "fix" BY <1>5 DEF MergeStep, Return
  <2>2. entry.call # "fix" BY <2>1 DEF FixInv
  <2> QED BY <2>1, <2>2 DEF FixInv
<1>6. CASE UNCHANGED vars
  <2>1. /\ geom' = geom /\ totalCount' = totalCount /\ fix' = fix /\ entry' = entry /\ sound' = sound
        /\ pc' = pc /\ ret' = ret
    BY <1>6 DEF vars, fields
  <2> QED BY <2>1 DEF FixInv, FixProgress, CorrectedCount
<1> QED BY <1>1, <1>2, <1>3, <1>4, <1>5, <1>6
  DEF Next, RecordValues, New, SetLabel, Clone, Reset, Import

\* For every instance: RecordCorrectedValue records v and one value per missed
\* interval, or it fails before it records anything, or because the total has
\* reached the limit.
THEOREM CorrectionsCount == Spec => []CorrectedCount
<1>1. Init => TypeOK /\ TotalIsSum /\ FixInv
  <2>1. Init => FixInv BY DEF Init, NoEntry, FixInv
  <2> QED BY <2>1, InitType, InitTotal
<1>2. TypeOK /\ TotalIsSum /\ FixInv /\ [Next]_vars => (TypeOK /\ TotalIsSum /\ FixInv)'
  BY NextType, NextTotal, NextFixInv
<1>3. FixInv => CorrectedCount BY DEF FixInv, CorrectedCount
<1> QED BY <1>1, <1>2, <1>3, PTL DEF Spec
=============================================================================
