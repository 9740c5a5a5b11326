----------------------------- MODULE CodecProofs ----------------------------
(***************************************************************************)
(* The V2 codec, for every word size, every histogram and every stream.    *)
(***************************************************************************)
EXTENDS Codec, ArithmeticProofs

-----------------------------------------------------------------------------
(* Numbers of one to MaxBytes bytes.                                        *)

\* The powers of two that the code shifts by.
LEMMA ShiftFacts ==
  /\ GroupBits \in Nat \ {0} /\ MaxBytes \in Nat \ {0, 1}
  /\ More \in Nat \ {0} /\ More >= 2
  /\ \A k \in Nat : 2^(GroupBits * k) \in Nat \ {0} /\ 2^(GroupBits * (k + 1)) = 2^(GroupBits * k) * More
  /\ 2^(GroupBits * 0) = 1
  /\ \A b \in Byte : b \in Nat /\ b < 2 * More
  /\ SignedMax \in Nat /\ SignedMax + 1 = 2^(GroupBits * MaxBytes)
<1>1. GroupBits \in Nat \ {0} /\ MaxBytes \in Nat \ {0, 1} BY ZigZagAssumption
<1>2. More \in Nat \ {0} /\ More >= 2
  <2>1. GroupBits - 1 \in Nat /\ (GroupBits - 1) + 1 = GroupBits BY <1>1
  <2>2. 2^((GroupBits - 1) + 1) = 2 * 2^(GroupBits - 1) /\ 2^(GroupBits - 1) \in Nat \ {0} BY <2>1, PowerFacts
  <2> QED BY <2>1, <2>2 DEF More
<1>3. ASSUME NEW k \in Nat
      PROVE  2^(GroupBits * k) \in Nat \ {0} /\ 2^(GroupBits * (k + 1)) = 2^(GroupBits * k) * More
  <2>1. GroupBits * k \in Nat /\ GroupBits * (k + 1) = GroupBits * k + GroupBits BY <1>1
  <2> QED BY <1>1, <2>1, PowerFacts, PowerSum DEF More
<1>4. 2^(GroupBits * 0) = 1 BY <1>1, PowerZero
<1>5. \A b \in Byte : b \in Nat /\ b < 2 * More BY <1>2 DEF Byte
<1>6. SignedMax \in Nat /\ SignedMax + 1 = 2^(GroupBits * MaxBytes)
  <2>1. 2^(GroupBits * MaxBytes) \in Nat \ {0} BY <1>1, <1>3
  <2> QED BY <2>1 DEF SignedMax
<1> QED BY <1>1, <1>2, <1>3, <1>4, <1>5, <1>6

\* Where a number ends: at the first byte without a continuation bit, at the latest
\* at the last of MaxBytes bytes, or else with the buffer.
LEMMA ReadFacts ==
  ASSUME NEW buf \in Seq(Byte), buf # <<>>
  PROVE  LET m == BytesRead(buf) IN
         /\ m \in 1..Len(buf)
         /\ \A j \in 1..(m - 1) : j < MaxBytes /\ buf[j] >= More
         /\ ~Truncated(buf) => m <= MaxBytes /\ LastByte(buf, m)
         /\ Truncated(buf) => Len(buf) < MaxBytes /\ \A j \in 1..Len(buf) : buf[j] >= More
<1> DEFINE L == Len(buf)
<1> DEFINE m == BytesRead(buf)
<1> DEFINE stops == {j \in 1..L : j <= MaxBytes /\ LastByte(buf, j)}
<1>1. L \in Nat /\ L >= 1 /\ \A j \in 1..L : buf[j] \in Byte OBVIOUS
<1>2. MaxBytes \in Nat \ {0, 1} /\ More \in Nat /\ \A b \in Byte : b \in Nat BY ShiftFacts
<1>3. m = IF stops = {} THEN L ELSE CHOOSE i \in stops : \A j \in stops : i <= j BY DEF BytesRead
<1>4. Truncated(buf) <=> m = L /\ ~LastByte(buf, L) BY DEF Truncated
<1> HIDE DEF L
<1>5. CASE stops = {}
  <2>1. m = L BY <1>3, <1>5
  <2>2. L < MaxBytes
    <3> SUFFICES ASSUME MaxBytes <= L PROVE FALSE BY <1>1, <1>2
    <3>1. MaxBytes \in stops BY <1>1, <1>2 DEF LastByte
    <3> QED BY <1>5, <3>1
  <2>3. \A j \in 1..L : j < MaxBytes /\ ~LastByte(buf, j)
    <3>1. \A j \in 1..L : j < MaxBytes BY <1>1, <1>2, <2>2
    <3>2. \A j \in 1..L : j <= MaxBytes BY <1>1, <1>2, <2>2
    <3> QED BY <1>5, <3>1, <3>2
  <2>4. \A j \in 1..L : j < MaxBytes /\ buf[j] >= More
    <3> SUFFICES ASSUME NEW j \in 1..L PROVE j < MaxBytes /\ buf[j] >= More OBVIOUS
    <3>1. ~(buf[j] < More) BY <2>3 DEF LastByte
    <3>2. buf[j] \in Nat BY <1>1, <1>2
    <3> QED BY <1>2, <2>3, <3>1, <3>2
  <2>5. L \in 1..L /\ 1..(L - 1) \subseteq 1..L BY <1>1
  <2>6. Truncated(buf) BY <1>4, <2>1, <2>3, <2>5
  <2> QED BY <2>1, <2>2, <2>4, <2>5, <2>6 DEF L
<1>6. CASE stops # {}
  <2>1. stops \in SUBSET Nat BY <1>1
  <2> HIDE DEF stops
  <2>2. \E i \in stops : \A j \in stops : i <= j BY <1>6, <2>1, LeastElement
  <2>3. m \in stops /\ \A j \in stops : m <= j BY <1>3, <1>6, <2>2
  <2> HIDE DEF m
  <2>4. m \in 1..L /\ m <= MaxBytes /\ LastByte(buf, m) BY <2>3 DEF stops
  <2>5. ASSUME NEW j \in 1..(m - 1) PROVE j < MaxBytes /\ buf[j] >= More
    <3>1. j \in 1..L /\ j < m /\ j < MaxBytes /\ j <= MaxBytes BY <1>1, <1>2, <2>4
    <3>2. j \notin stops BY <2>3, <2>4, <3>1
    <3>3. ~LastByte(buf, j) BY <3>1, <3>2 DEF stops
    <3>4. ~(buf[j] < More) /\ buf[j] \in Nat BY <1>1, <1>2, <3>1, <3>3 DEF LastByte
    <3> QED BY <1>2, <3>1, <3>4
  <2>6. ~Truncated(buf) BY <1>4, <2>4
  <2> QED BY <2>4, <2>5, <2>6 DEF m, L
<1> QED BY <1>5, <1>6

\* The groups are summed in a loop.
LEMMA GroupsLoop ==
  ASSUME NEW buf, NEW m, m \in Nat
  PROVE  \E g : /\ g[0] = 0
                /\ \A k \in 0..(m - 1) : g[k + 1] = g[k] + (IF (k + 1) < MaxBytes THEN buf[(k + 1)] % More ELSE buf[(k + 1)]) * 2^(GroupBits * (k))
                /\ GroupsOf(buf, m) = g[m]
<1> DEFINE N == m
<1> DEFINE start == 0
<1> DEFINE Eq(p, n) == p = [k \in 0..n |-> IF k = 0 THEN start ELSE p[k - 1] + (IF k < MaxBytes THEN buf[k] % More ELSE buf[k]) * 2^(GroupBits * (k - 1))]
<1> DEFINE T == {n \in Nat : \E p : Eq(p, n)}
<1>1. 0 \in T
  <2>1. Eq([k \in 0..0 |-> start], 0) OBVIOUS
  <2> QED BY <2>1
<1>2. ASSUME NEW n \in T PROVE n + 1 \in T
  <2>1. PICK p : Eq(p, n) OBVIOUS
  <2> DEFINE e == [k \in 0..(n + 1) |-> IF k = n + 1 THEN p[n] + (IF (n + 1) < MaxBytes THEN buf[(n + 1)] % More ELSE buf[(n + 1)]) * 2^(GroupBits * (n)) ELSE p[k]]
  <2>2. ASSUME NEW k \in 0..(n + 1)
        PROVE  e[k] = IF k = 0 THEN start ELSE e[k - 1] + (IF k < MaxBytes THEN buf[k] % More ELSE buf[k]) * 2^(GroupBits * (k - 1))
    <3> HIDE DEF start
    <3>1. CASE k = n + 1
      <4>1. k - 1 = n /\ k # 0 /\ e[k - 1] = p[n] BY <3>1
      <4>2. e[k] = p[n] + (IF (n + 1) < MaxBytes THEN buf[(n + 1)] % More ELSE buf[(n + 1)]) * 2^(GroupBits * (n)) BY <3>1
      <4> HIDE DEF e
      <4> QED BY <3>1, <4>1, <4>2
    <3>2. CASE k # n + 1
      <4>1. k \in 0..n /\ e[k] = p[k] /\ (k # 0 => e[k - 1] = p[k - 1]) BY <3>2
      <4> HIDE DEF e
      <4>2. p[k] = IF k = 0 THEN start ELSE p[k - 1] + (IF k < MaxBytes THEN buf[k] % More ELSE buf[k]) * 2^(GroupBits * (k - 1)) BY <2>1, <4>1
      <4> QED BY <4>1, <4>2
    <3> QED BY <3>1, <3>2
  <2>3. Eq(e, n + 1)
    <3> DEFINE d == [k \in 0..(n + 1) |-> IF k = 0 THEN start ELSE e[k - 1] + (IF k < MaxBytes THEN buf[k] % More ELSE buf[k]) * 2^(GroupBits * (k - 1))]
    <3>1. \A k \in 0..(n + 1) : e[k] = d[k] BY <2>2
    <3>2. e = d BY <3>1
    <3> QED BY <3>2
  <2>4. \E q : Eq(q, n + 1)
    <3> HIDE DEF e, Eq
    <3> QED BY <2>3
  <2> HIDE DEF Eq
  <2> QED BY <2>4
<1>3. T = Nat
  <2>1. T \in SUBSET Nat OBVIOUS
  <2> HIDE DEF T
  <2> QED BY <1>1, <1>2, <2>1, SetInduction
<1>4. \E p : Eq(p, N)
  <2> HIDE DEF Eq
  <2> QED BY <1>3
<1> DEFINE after == CHOOSE p : Eq(p, N)
<1>5. Eq(after, N)
  <2> HIDE DEF Eq
  <2> QED BY <1>4
<1>6. GroupsOf(buf, m) = after[m] BY DEF GroupsOf
<1> HIDE DEF after
<1>7. after[0] = start BY <1>5
<1>8. ASSUME NEW k \in 0..(N - 1) PROVE after[k + 1] = after[k] + (IF (k + 1) < MaxBytes THEN buf[(k + 1)] % More ELSE buf[(k + 1)]) * 2^(GroupBits * (k))
  <2>1. k + 1 \in 0..N /\ k + 1 # 0 /\ (k + 1) - 1 = k OBVIOUS
  <2> HIDE DEF start
  <2> QED BY <1>5, <2>1
<1> QED BY <1>6, <1>7, <1>8

\* The payload bits of byte j.
Group(buf, j) == IF j < MaxBytes THEN buf[j] % More ELSE buf[j]

\* What GroupsOf computes.
LEMMA GroupsSum ==
  ASSUME NEW buf, NEW m \in Nat
  PROVE  \E g : /\ g[0] = 0
                /\ \A k \in 0..(m - 1) : g[k + 1] = g[k] + Group(buf, k + 1) * 2^(GroupBits * k)
                /\ GroupsOf(buf, m) = g[m]
<1>1. PICK g : /\ g[0] = 0
               /\ \A k \in 0..(m - 1) : g[k + 1] = g[k] + (IF (k + 1) < MaxBytes THEN buf[(k + 1)] % More
                                                           ELSE buf[(k + 1)]) * 2^(GroupBits * (k))
               /\ GroupsOf(buf, m) = g[m]
  BY GroupsLoop
<1>2. \A k \in 0..(m - 1) : g[k + 1] = g[k] + Group(buf, k + 1) * 2^(GroupBits * k) BY <1>1 DEF Group
<1> QED BY <1>1, <1>2

\* A group is a number of GroupBits bits, in the last of MaxBytes bytes of one more.
LEMMA GroupFacts ==
  ASSUME NEW buf \in Seq(Byte), NEW j \in 1..Len(buf), j <= MaxBytes
  PROVE  /\ Group(buf, j) \in Nat
         /\ j < MaxBytes => Group(buf, j) < More
         /\ Group(buf, j) < 2 * More
<1>1. buf[j] \in Byte OBVIOUS
<1>2. buf[j] \in Nat /\ buf[j] < 2 * More /\ More \in Nat \ {0} BY <1>1, ShiftFacts
<1> DEFINE x == buf[j]
<1>3. x \in Int /\ x \in Nat /\ x < 2 * More BY <1>2
<1>4. Group(buf, j) = IF j < MaxBytes THEN x % More ELSE x BY DEF Group
<1> HIDE DEF x
<1>5. x % More \in 0..(More - 1) BY <1>2, <1>3, DivMod
<1> QED BY <1>2, <1>3, <1>4, <1>5

\* The first m groups are a number of m groups.
LEMMA GroupsBound ==
  ASSUME NEW buf \in Seq(Byte), NEW m \in 0..Len(buf), m <= MaxBytes
  PROVE  /\ GroupsOf(buf, m) \in Nat
         /\ m < MaxBytes => GroupsOf(buf, m) < 2^(GroupBits * m)
         /\ GroupsOf(buf, m) < 2 * 2^(GroupBits * m)
<1>0. m \in Nat /\ Len(buf) \in Nat /\ MaxBytes \in Nat BY ShiftFacts
<1>1. PICK g : /\ g[0] = 0
               /\ \A k \in 0..(m - 1) : g[k + 1] = g[k] + Group(buf, k + 1) * 2^(GroupBits * k)
               /\ GroupsOf(buf, m) = g[m]
  BY <1>0, GroupsSum
<1> DEFINE P(k) == 2^(GroupBits * k)
<1> DEFINE T == {k \in Nat : k <= m => /\ g[k] \in Nat
                                       /\ k < MaxBytes => g[k] < P(k)
                                       /\ g[k] < 2 * P(k)}
<1>2. 0 \in T
  <2>1. P(0) = 1 BY ShiftFacts
  <2> HIDE DEF P
  <2> QED BY <1>1, <2>1
<1>3. ASSUME NEW k \in T PROVE k + 1 \in T
  <2> SUFFICES ASSUME k + 1 <= m
               PROVE  /\ g[k + 1] \in Nat
                      /\ k + 1 < MaxBytes => g[k + 1] < P(k + 1)
                      /\ g[k + 1] < 2 * P(k + 1)
    OBVIOUS
  <2>1. k \in Nat /\ k \in 0..(m - 1) /\ k + 1 \in 1..Len(buf) /\ k + 1 <= MaxBytes /\ k < MaxBytes BY <1>0
  <2>2. g[k] \in Nat /\ g[k] < P(k) BY <1>0, <2>1
  <2>3. P(k) \in Nat \ {0} /\ P(k + 1) = P(k) * More /\ More \in Nat \ {0} BY <2>1, ShiftFacts
  <2> DEFINE x == Group(buf, k + 1)
  <2>4. x \in Nat /\ (k + 1 < MaxBytes => x < More) /\ x < 2 * More BY <2>1, GroupFacts
  <2>5. g[k + 1] = g[k] + x * P(k) BY <1>1, <2>1
  <2> DEFINE p == P(k)
  <2> DEFINE q == P(k + 1)
  <2> HIDE DEF T, x, P
  <2>6. p \in Nat \ {0} /\ q = p * More /\ g[k + 1] = g[k] + x * p /\ g[k] < p BY <2>2, <2>3, <2>5
  <2> HIDE DEF p, q
  <2>7. x * p \in Nat BY <2>4, <2>6
  <2>8. ASSUME NEW b \in Nat, x < b PROVE g[k] + x * p < b * p
    <3>1. b - x - 1 \in Nat BY <2>4, <2>8
    <3>2. b * p = x * p + p + (b - x - 1) * p BY <2>4, <2>6
    <3>3. (b - x - 1) * p \in Nat BY <2>6, <3>1
    <3> QED BY <2>2, <2>6, <2>7, <3>2, <3>3
  <2>9. (2 * More) * p = 2 * q /\ More * p = q /\ 2 * More \in Nat BY <2>3, <2>6
  <2>10. g[k + 1] \in Nat BY <2>2, <2>6, <2>7
  <2>11. k + 1 < MaxBytes => g[k + 1] < q BY <2>3, <2>4, <2>6, <2>8, <2>9
  <2>12. g[k + 1] < 2 * q BY <2>4, <2>6, <2>8, <2>9
  <2> QED BY <2>10, <2>11, <2>12 DEF q
<1>4. T = Nat
  <2>1. T \in SUBSET Nat OBVIOUS
  <2> HIDE DEF T
  <2> QED BY <1>2, <1>3, <2>1, SetInduction
<1>5. m \in T /\ m <= m BY <1>0, <1>4
<1> HIDE DEF P
<1> QED BY <1>1, <1>5 DEF P

\* The zigzag mapping is a bijection of the signed words and the unsigned ones.
LEMMA ZagFacts ==
  ASSUME NEW u \in Nat, u < 2 * (SignedMax + 1)
  PROVE  Zag(u) \in Signed /\ Zig(Zag(u)) = u
<1>1. SignedMax \in Nat BY ShiftFacts
<1>2. u % 2 \in 0..1 /\ u \div 2 \in Int /\ u = 2 * (u \div 2) + (u % 2) BY DivMod
<1> DEFINE q == u \div 2
<1> DEFINE r == u % 2
<1>3. r \in 0..1 /\ q \in Int /\ u = 2 * q + r BY <1>2
<1>4. Zag(u) = IF r = 0 THEN q ELSE -q - 1 BY DEF Zag
<1> HIDE DEF q, r
<1>5. q \in 0..SignedMax BY <1>1, <1>3
<1>6. CASE r = 0
  <2>1. Zag(u) = q BY <1>4, <1>6
  <2> QED BY <1>1, <1>3, <1>5, <1>6, <2>1 DEF Signed, Zig
<1>7. CASE r # 0
  <2>1. Zag(u) = -q - 1 /\ r = 1 BY <1>3, <1>4, <1>7
  <2> QED BY <1>1, <1>3, <1>5, <2>1 DEF Signed, Zig
<1> QED BY <1>6, <1>7

LEMMA ZigFacts ==
  ASSUME NEW v \in Signed
  PROVE  Zig(v) \in Nat /\ Zig(v) < 2 * (SignedMax + 1) /\ Zag(Zig(v)) = v
<1>1. SignedMax \in Nat BY ShiftFacts
<1>2. v \in Int /\ -(SignedMax + 1) <= v /\ v <= SignedMax BY <1>1 DEF Signed
<1>3. CASE v >= 0
  <2>1. Zig(v) = 2 * v BY <1>3 DEF Zig
  <2>2. (2 * v + 0) % 2 = 0 /\ (2 * v + 0) \div 2 = v BY <1>2, ModOf
  <2>3. 2 * v + 0 = 2 * v BY <1>2
  <2>4. Zag(2 * v) = v BY <2>2, <2>3 DEF Zag
  <2> QED BY <1>1, <1>2, <1>3, <2>1, <2>4
<1>4. CASE ~(v >= 0)
  <2> DEFINE q == -v - 1
  <2>1. Zig(v) = -2 * v - 1 BY <1>4 DEF Zig
  <2>2. q \in Int /\ -2 * v - 1 = 2 * q + 1 BY <1>2
  <2> HIDE DEF q
  <2>3. (2 * q + 1) % 2 = 1 /\ (2 * q + 1) \div 2 = q BY <2>2, ModOf
  <2>4. Zag(2 * q + 1) = -q - 1 BY <2>3 DEF Zag
  <2>5. -q - 1 = v BY <1>2 DEF q
  <2>6. Zig(v) = 2 * q + 1 BY <2>1, <2>2
  <2>7. Zag(Zig(v)) = v BY <2>4, <2>5, <2>6
  <2> QED BY <1>1, <1>2, <1>4, <2>1, <2>7
<1> QED BY <1>3, <1>4

\* What zig_zag_decode_i64 returns, whatever the buffer.
LEMMA DecodeFacts ==
  ASSUME NEW buf \in Seq(Byte), buf # <<>>
  PROVE  /\ DecodeI64(buf).n \in 1..Len(buf)
         /\ DecodeI64(buf).err \in BOOLEAN
         /\ DecodeI64(buf).value \in Signed
         /\ ~DecodeI64(buf).err => /\ DecodeI64(buf).n <= MaxBytes
                                   /\ DecodeI64(buf).n < MaxBytes =>
                                        Zig(DecodeI64(buf).value) < 2^(GroupBits * DecodeI64(buf).n)
         /\ DecodeI64(buf).err => Len(buf) < MaxBytes /\ \A j \in 1..Len(buf) : buf[j] >= More
<1> DEFINE m == BytesRead(buf)
<1> DEFINE u == GroupsOf(buf, m)
<1>1. /\ m \in 1..Len(buf)
      /\ ~Truncated(buf) => m <= MaxBytes
      /\ Truncated(buf) => Len(buf) < MaxBytes /\ \A j \in 1..Len(buf) : buf[j] >= More
  BY ReadFacts
<1>2. /\ DecodeI64(buf).n = m /\ DecodeI64(buf).err = Truncated(buf)
      /\ DecodeI64(buf).value = IF Truncated(buf) THEN 0 ELSE Zag(u)
  BY DEF DecodeI64
<1>3. Truncated(buf) \in BOOLEAN BY DEF Truncated
<1>4. SignedMax \in Nat /\ SignedMax + 1 = 2^(GroupBits * MaxBytes) /\ MaxBytes \in Nat /\ GroupBits \in Nat BY ShiftFacts
<1>5. 0 \in Signed BY <1>4 DEF Signed
<1>6. ASSUME ~Truncated(buf) PROVE Zag(u) \in Signed /\ (m < MaxBytes => Zig(Zag(u)) < 2^(GroupBits * m))
  <2>1. m \in 0..Len(buf) /\ m <= MaxBytes /\ m \in Nat BY <1>1, <1>6
  <2> HIDE DEF m
  <2>2. u \in Nat /\ (m < MaxBytes => u < 2^(GroupBits * m)) /\ u < 2 * 2^(GroupBits * m) BY <2>1, GroupsBound
  <2>3. 2^(GroupBits * m) <= 2^(GroupBits * MaxBytes)
    <3>1. GroupBits * m \in Nat /\ GroupBits * MaxBytes \in Nat BY <1>4, <2>1
    <3>2. MaxBytes - m \in Nat /\ GroupBits * MaxBytes = GroupBits * m + GroupBits * (MaxBytes - m) BY <1>4, <2>1
    <3>3. GroupBits * (MaxBytes - m) \in Nat BY <1>4, <3>2
    <3>4. GroupBits * m <= GroupBits * MaxBytes BY <3>1, <3>2, <3>3
    <3> QED BY <3>1, <3>4, PowerMonotone
  <2>4. 2^(GroupBits * m) \in Nat BY <2>1, ShiftFacts
  <2>5. u < 2 * (SignedMax + 1) BY <1>4, <2>2, <2>3, <2>4
  <2> HIDE DEF u
  <2>6. Zag(u) \in Signed /\ Zig(Zag(u)) = u BY <2>2, <2>5, ZagFacts
  <2> QED BY <2>2, <2>6
<1> HIDE DEF m, u
<1>7. CASE Truncated(buf) BY <1>1, <1>2, <1>3, <1>5, <1>7
<1>8. CASE ~Truncated(buf) BY <1>1, <1>2, <1>3, <1>6, <1>8
<1> QED BY <1>7, <1>8

\* One group less is left after a shift by one group more.
LEMMA ShiftedFacts ==
  ASSUME NEW u \in Nat, NEW k \in Nat
  PROVE  /\ Shifted(u, k) \in Nat
         /\ Shifted(u, k + 1) = Shifted(u, k) \div More
         /\ Shifted(u, 0) = u
         /\ Shifted(u, k) = 0 <=> u < 2^(GroupBits * k)
<1> DEFINE p == 2^(GroupBits * k)
<1> DEFINE a == u \div p
<1> DEFINE b == a \div More
<1>1. More \in Nat \ {0} BY ShiftFacts
<1>2. p \in Nat \ {0} /\ 2^(GroupBits * (k + 1)) = p * More BY ShiftFacts
<1> HIDE DEF p
<1>3. a \in Nat /\ a * p <= u /\ u < (a + 1) * p
      /\ \A c \in Nat : (c * p <= u => c <= a) /\ (u < c * p => a < c)
  BY <1>2, DivBetween
<1> HIDE DEF a
<1>4. b \in Nat /\ b * More <= a /\ a < (b + 1) * More BY <1>1, <1>3, DivBetween
<1> HIDE DEF b
<1>5. b * (p * More) <= u
  <2>1. a - b * More \in Nat BY <1>1, <1>3, <1>4
  <2>2. (a - b * More) * p \in Nat BY <1>2, <2>1
  <2>3. a * p = b * (p * More) + (a - b * More) * p BY <1>1, <1>2, <1>3, <1>4
  <2>4. b * (p * More) \in Nat /\ a * p \in Nat BY <1>1, <1>2, <1>3, <1>4
  <2> QED BY <1>3, <2>2, <2>3, <2>4
<1>6. u < (b + 1) * (p * More)
  <2> DEFINE d == (b + 1) * More - (a + 1)
  <2>0. (b + 1) * More \in Nat BY <1>1, <1>4
  <2>1. d \in Nat /\ (b + 1) * More = (a + 1) + d BY <1>3, <1>4, <2>0
  <2> HIDE DEF d
  <2>2. d * p \in Nat BY <1>2, <2>1
  <2>3. (b + 1) * (p * More) = ((b + 1) * More) * p BY <1>1, <1>2, <1>4
  <2>4. ((a + 1) + d) * p = (a + 1) * p + d * p BY <1>2, <1>3, <2>1
  <2>5. (a + 1) * p \in Nat BY <1>2, <1>3
  <2> QED BY <1>3, <2>1, <2>2, <2>3, <2>4, <2>5
<1>7. p * More \in Nat \ {0} BY <1>1, <1>2
<1>8. u \div (p * More) = b
  <2> DEFINE q == p * More
  <2>1. q \in Nat \ {0} /\ b * q <= u /\ u < (b + 1) * q BY <1>5, <1>6, <1>7
  <2> HIDE DEF q
  <2>2. u \div q = b BY <1>4, <2>1, DivBetween
  <2> QED BY <2>2 DEF q
<1>9. Shifted(u, k) = a BY DEF Shifted, a, p
<1>10. Shifted(u, k + 1) = b BY <1>2, <1>8 DEF Shifted
<1>11. Shifted(u, 0) = u
  <2>1. 2^(GroupBits * 0) = 1 BY ShiftFacts
  <2>2. u * 1 <= u /\ u < (u + 1) * 1 /\ 1 \in Nat \ {0} OBVIOUS
  <2>3. u \div 1 = u BY <2>2, DivBetween
  <2> QED BY <2>1, <2>3 DEF Shifted
<1>12. a = 0 <=> u < p
  <2>1. 1 \in Nat /\ 1 * p = p BY <1>2
  <2> QED BY <1>2, <1>3, <2>1
<1> QED BY <1>3, <1>9, <1>10, <1>11, <1>12 DEF b, p

\* How many bytes the encoder writes: as many as are needed, at most MaxBytes.
LEMMA LengthFacts ==
  ASSUME NEW u \in Nat
  PROVE  /\ EncodedLength(u) \in 1..MaxBytes
         /\ EncodedLength(u) = MaxBytes \/ Shifted(u, EncodedLength(u)) = 0
         /\ \A k \in 1..(EncodedLength(u) - 1) : Shifted(u, k) # 0
<1> DEFINE Q(n) == /\ n = MaxBytes \/ Shifted(u, n) = 0
                   /\ \A k \in 1..(n - 1) : Shifted(u, k) # 0
<1> DEFINE T == {n \in 1..MaxBytes : n = MaxBytes \/ Shifted(u, n) = 0}
<1>1. MaxBytes \in Nat \ {0} BY ShiftFacts
<1>2. T \in SUBSET Nat /\ MaxBytes \in T BY <1>1
<1>3. PICK n \in T : \A k \in T : n <= k
  <2> HIDE DEF T
  <2> QED BY <1>2, LeastElement
<1>4. n \in 1..MaxBytes /\ Q(n)
  <2>1. n \in 1..MaxBytes /\ (n = MaxBytes \/ Shifted(u, n) = 0) OBVIOUS
  <2>2. ASSUME NEW k \in 1..(n - 1), Shifted(u, k) = 0 PROVE FALSE
    <3>1. k \in T BY <1>1, <2>1, <2>2
    <3>2. n <= k /\ k < n BY <1>3, <2>1, <3>1
    <3> QED BY <2>1, <3>2
  <2> QED BY <2>1, <2>2
<1>5. EncodedLength(u) = CHOOSE e \in 1..MaxBytes : Q(e) BY DEF EncodedLength
<1> HIDE DEF Q
<1>6. EncodedLength(u) \in 1..MaxBytes /\ Q(EncodedLength(u)) BY <1>4, <1>5
<1> QED BY <1>6 DEF Q

\* The bytes that zig_zag_encode_i64 writes: only the last one lacks the
\* continuation bit, and the last of MaxBytes bytes has none.
LEMMA EncodeFacts ==
  ASSUME NEW v \in Signed
  PROVE  LET u == Zig(v)
             n == EncodedLength(u)
         IN  /\ EncodeI64(v) \in Seq(Byte) /\ Len(EncodeI64(v)) = n /\ n \in 1..MaxBytes
             /\ \A i \in 1..(n - 1) : EncodeI64(v)[i] = (Shifted(u, i - 1) % More) + More
             /\ EncodeI64(v)[n] = Shifted(u, n - 1)
             /\ n < MaxBytes => Shifted(u, n - 1) < More
<1> DEFINE u == Zig(v)
<1> DEFINE n == EncodedLength(u)
<1> DEFINE B(i) == IF i < n THEN (Shifted(u, i - 1) % More) + More ELSE Shifted(u, i - 1) % (2 * More)
<1>1. u \in Nat /\ u < 2 * (SignedMax + 1) BY ZigFacts
<1>2. EncodeI64(v) = [i \in 1..n |-> B(i)] BY DEF EncodeI64
<1> HIDE DEF u
<1>3. n \in 1..MaxBytes /\ (n = MaxBytes \/ Shifted(u, n) = 0) BY <1>1, LengthFacts
<1>4. More \in Nat \ {0} /\ MaxBytes \in Nat /\ SignedMax \in Nat /\ SignedMax + 1 = 2^(GroupBits * MaxBytes)
  BY ShiftFacts
<1> HIDE DEF n
<1>5. \A i \in 1..n : Shifted(u, i - 1) \in Nat
  <2> SUFFICES ASSUME NEW i \in 1..n PROVE Shifted(u, i - 1) \in Nat OBVIOUS
  <2>1. i - 1 \in Nat BY <1>3
  <2> QED BY <1>1, <2>1, ShiftedFacts
<1>6. \A i \in 1..n : B(i) \in Byte
  <2> SUFFICES ASSUME NEW i \in 1..n PROVE B(i) \in Byte OBVIOUS
  <2> DEFINE x == Shifted(u, i - 1)
  <2>1. x \in Int BY <1>5
  <2>2. B(i) = IF i < n THEN (x % More) + More ELSE x % (2 * More) OBVIOUS
  <2> HIDE DEF x, B
  <2>3. x % More \in 0..(More - 1) BY <1>4, <2>1, DivMod
  <2>4. 2 * More \in Nat \ {0} BY <1>4
  <2>5. x % (2 * More) \in 0..(2 * More - 1) BY <2>1, <2>4, DivMod
  <2> QED BY <1>4, <2>2, <2>3, <2>5 DEF Byte
<1> DEFINE y == Shifted(u, n - 1)
<1>7. n - 1 \in Nat /\ (n - 1) + 1 = n /\ n \in 1..n BY <1>3
<1>8. y \in Nat /\ Shifted(u, n) = y \div More /\ (y = 0 <=> u < 2^(GroupBits * (n - 1)))
  <2>1. Shifted(u, (n - 1) + 1) = Shifted(u, n - 1) \div More BY <1>1, <1>7, ShiftedFacts
  <2> QED BY <1>1, <1>7, <2>1, ShiftedFacts
<1>9. y < 2 * More /\ (n < MaxBytes => y < More)
  <2>1. CASE n < MaxBytes
    <3>1. y \div More = 0 BY <1>3, <1>4, <1>8, <2>1
    <3> HIDE DEF y
    <3>2. y % More \in 0..(More - 1) /\ y = More * (y \div More) + (y % More) BY <1>4, <1>8, DivMod
    <3>3. y = y % More BY <1>4, <3>1, <3>2
    <3> QED BY <1>4, <1>8, <3>2, <3>3
  <2>2. CASE ~(n < MaxBytes)
    <3> DEFINE p == 2^(GroupBits * (n - 1))
    <3>1. n = MaxBytes BY <1>3, <1>4, <2>2
    <3>2. p \in Nat \ {0} /\ 2^(GroupBits * ((n - 1) + 1)) = p * More BY <1>7, ShiftFacts
    <3>3. SignedMax + 1 = p * More BY <1>4, <1>7, <3>1, <3>2
    <3>4. y = u \div p BY DEF Shifted
    <3> HIDE DEF p, y
    <3>5. 2 * (p * More) = (2 * More) * p /\ 2 * More \in Nat BY <1>4, <3>2
    <3>6. u < (2 * More) * p BY <1>1, <3>3, <3>5
    <3>7. u \div p < 2 * More BY <1>1, <3>2, <3>5, <3>6, DivBetween
    <3> QED BY <2>2, <3>4, <3>7
  <2> QED BY <2>1, <2>2
<1>10. B(n) = y
  <2>1. B(n) = y % (2 * More) BY <1>3, <1>7
  <2> HIDE DEF y, B
  <2>2. 2 * More \in Nat \ {0} /\ y \in 0..(2 * More - 1) /\ (2 * More) * 0 + y = y BY <1>4, <1>8, <1>9
  <2>3. ((2 * More) * 0 + y) % (2 * More) = y BY <2>2, ModOf
  <2> QED BY <2>1, <2>2, <2>3
<1>11. \A i \in 1..(n - 1) : i \in 1..n /\ B(i) = (Shifted(u, i - 1) % More) + More BY <1>3, <1>4
<1> HIDE DEF B
<1>12. EncodeI64(v) \in Seq(Byte) /\ Len(EncodeI64(v)) = n BY <1>2, <1>3, <1>6
<1>13. \A i \in 1..n : EncodeI64(v)[i] = B(i) BY <1>2
<1>14. \A i \in 1..(n - 1) : EncodeI64(v)[i] = (Shifted(u, i - 1) % More) + More BY <1>11, <1>13
<1>15. EncodeI64(v)[n] = y BY <1>7, <1>10, <1>13
<1> HIDE DEF y
<1> QED BY <1>3, <1>9, <1>12, <1>14, <1>15 DEF n, u, y

\* A number ends at its first byte that stops the decoder.
LEMMA ReadIs ==
  ASSUME NEW buf \in Seq(Byte), NEW n \in 1..Len(buf), n <= MaxBytes, LastByte(buf, n),
         \A j \in 1..(n - 1) : ~LastByte(buf, j)
  PROVE  BytesRead(buf) = n /\ ~Truncated(buf)
<1> DEFINE m == BytesRead(buf)
<1> DEFINE stops == {j \in 1..Len(buf) : j <= MaxBytes /\ LastByte(buf, j)}
<1>1. n \in stops OBVIOUS
<1>2. m = IF stops = {} THEN Len(buf) ELSE CHOOSE i \in stops : \A j \in stops : i <= j BY DEF BytesRead
<1>3. stops \in SUBSET Nat OBVIOUS
<1>4. \A i \in stops : i \in 1..Len(buf) /\ LastByte(buf, i) OBVIOUS
<1> HIDE DEF stops
<1>5. \E i \in stops : \A j \in stops : i <= j BY <1>1, <1>3, LeastElement
<1>6. m \in stops /\ \A j \in stops : m <= j BY <1>1, <1>2, <1>5
<1>7. m \in 1..Len(buf) /\ LastByte(buf, m) /\ m <= n BY <1>1, <1>4, <1>6
<1> HIDE DEF m
<1>8. m = n
  <2> SUFFICES ASSUME m < n PROVE FALSE BY <1>7
  <2>1. m \in 1..(n - 1) BY <1>7
  <2> QED BY <1>7, <2>1
<1>9. ~Truncated(buf)
  <2> SUFFICES ASSUME Truncated(buf) PROVE FALSE OBVIOUS
  <2>1. m = Len(buf) /\ ~LastByte(buf, Len(buf)) BY DEF Truncated, m
  <2> QED BY <1>7, <2>1
<1> QED BY <1>8, <1>9 DEF m

\* What is written is read again, whatever follows it.
LEMMA EncodeDecode ==
  ASSUME NEW v \in Signed, NEW buf \in Seq(Byte), Len(buf) >= Len(EncodeI64(v)),
         \A i \in 1..Len(EncodeI64(v)) : buf[i] = EncodeI64(v)[i]
  PROVE  DecodeI64(buf) = [value |-> v, n |-> Len(EncodeI64(v)), err |-> FALSE]
<1> DEFINE u == Zig(v)
<1> DEFINE n == EncodedLength(u)
<1> DEFINE s(k) == Shifted(u, k)
<1> DEFINE P(k) == 2^(GroupBits * k)
<1>1. u \in Nat /\ u < 2 * (SignedMax + 1) /\ Zag(u) = v BY ZigFacts
<1>2. /\ Len(EncodeI64(v)) = n /\ n \in 1..MaxBytes
      /\ \A i \in 1..(n - 1) : EncodeI64(v)[i] = (s(i - 1) % More) + More
      /\ EncodeI64(v)[n] = s(n - 1)
      /\ n < MaxBytes => s(n - 1) < More
  BY EncodeFacts
<1>3. More \in Nat \ {0} /\ MaxBytes \in Nat BY ShiftFacts
<1> HIDE DEF u
<1>4. \A k \in Nat : s(k) \in Nat /\ s(k + 1) = s(k) \div More BY <1>1, ShiftedFacts
<1>5. s(0) = u BY <1>1, ShiftedFacts
<1> HIDE DEF n, s
<1>6. /\ n \in Nat /\ n \in 1..Len(buf) /\ n <= MaxBytes /\ n - 1 \in Nat
      /\ \A i \in 1..(n - 1) : i < MaxBytes /\ i - 1 \in Nat /\ buf[i] = (s(i - 1) % More) + More
      /\ buf[n] = s(n - 1)
  <2>1. n \in Nat /\ n \in 1..Len(buf) /\ n <= MaxBytes /\ n - 1 \in Nat BY <1>2, <1>3
  <2>2. \A i \in 1..(n - 1) : i < MaxBytes /\ i - 1 \in Nat /\ i \in 1..n BY <1>3, <2>1
  <2>3. n \in 1..n BY <2>1
  <2> QED BY <1>2, <2>1, <2>2, <2>3
<1>7. LastByte(buf, n) BY <1>2, <1>3, <1>6 DEF LastByte
<1>8. ASSUME NEW j \in 1..(n - 1) PROVE ~LastByte(buf, j)
  <2> DEFINE x == s(j - 1)
  <2>0. j - 1 \in Nat /\ j < MaxBytes /\ buf[j] = (x % More) + More BY <1>6
  <2>1. x \in Nat /\ x \in Int BY <1>4, <2>0
  <2> HIDE DEF x
  <2>2. x % More \in 0..(More - 1) BY <1>3, <2>1, DivMod
  <2> QED BY <1>3, <2>0, <2>2 DEF LastByte
<1>9. BytesRead(buf) = n /\ ~Truncated(buf) BY <1>6, <1>7, <1>8, ReadIs
<1>10. PICK g : /\ g[0] = 0
                /\ \A k \in 0..(n - 1) : g[k + 1] = g[k] + Group(buf, k + 1) * P(k)
                /\ GroupsOf(buf, n) = g[n]
  BY <1>6, GroupsSum
<1>11. \A k \in Nat : P(k) \in Nat \ {0} /\ P(k + 1) = P(k) * More BY ShiftFacts
<1>12. P(0) = 1 BY ShiftFacts
<1> HIDE DEF P
<1> DEFINE T == {k \in Nat : k <= n - 1 => g[k] \in Nat /\ g[k] + s(k) * P(k) = u}
<1>13. 0 \in T
  <2>1. 0 + u * 1 = u BY <1>1
  <2> QED BY <1>5, <1>10, <1>12, <2>1
<1>14. ASSUME NEW k \in T PROVE k + 1 \in T
  <2> SUFFICES ASSUME k + 1 <= n - 1 PROVE g[k + 1] \in Nat /\ g[k + 1] + s(k + 1) * P(k + 1) = u OBVIOUS
  <2>1. k \in Nat /\ k <= n - 1 /\ k \in 0..(n - 1) /\ k + 1 \in 1..(n - 1) /\ (k + 1) - 1 = k BY <1>6
  <2>2. g[k] \in Nat /\ g[k] + s(k) * P(k) = u BY <2>1
  <2> HIDE DEF T
  <2> DEFINE x == s(k)
  <2> DEFINE p == P(k)
  <2> DEFINE q == x \div More
  <2> DEFINE r == x % More
  <2>3. x \in Nat /\ s(k + 1) = q BY <1>4, <2>1
  <2>4. p \in Nat \ {0} /\ P(k + 1) = p * More BY <1>11, <2>1
  <2>5. g[k + 1] = g[k] + Group(buf, k + 1) * p BY <1>10, <2>1
  <2>6. buf[k + 1] = r + More /\ k + 1 < MaxBytes BY <1>6, <2>1
  <2>7. g[k] + x * p = u BY <2>2
  <2> HIDE DEF x, p
  <2>8. r \in 0..(More - 1) /\ q \in Int /\ x = More * q + r BY <1>3, <2>3, DivMod
  <2> HIDE DEF q, r
  <2>9. Group(buf, k + 1) = r
    <3>1. More * 1 + r = r + More BY <1>3, <2>8
    <3>2. (More * 1 + r) % More = r BY <1>3, <2>8, ModOf
    <3> QED BY <2>6, <3>1, <3>2 DEF Group
  <2>10. r * p \in Nat BY <1>3, <2>4, <2>8
  <2>11. x * p = r * p + q * (p * More) BY <1>3, <2>4, <2>8
  <2>12. q * (p * More) \in Int BY <1>3, <2>4, <2>8
  <2>13. g[k + 1] = g[k] + r * p BY <2>5, <2>9
  <2>14. g[k + 1] \in Nat BY <2>2, <2>10, <2>13
  <2>15. g[k + 1] + q * (p * More) = u BY <2>2, <2>7, <2>10, <2>11, <2>12, <2>13
  <2> QED BY <2>3, <2>4, <2>14, <2>15
<1>15. T = Nat
  <2>1. T \in SUBSET Nat OBVIOUS
  <2> HIDE DEF T
  <2> QED BY <1>13, <1>14, <2>1, SetInduction
<1>16. GroupsOf(buf, n) = u
  <2> DEFINE k == n - 1
  <2> DEFINE x == s(k)
  <2>1. k \in Nat /\ k <= n - 1 /\ k \in 0..(n - 1) /\ k + 1 = n BY <1>6
  <2>2. g[k] \in Nat /\ g[k] + x * P(k) = u BY <1>15, <2>1
  <2>3. g[n] = g[k] + Group(buf, n) * P(k) BY <1>10, <2>1
  <2>4. buf[n] = x /\ (n < MaxBytes => x < More) /\ x \in Nat BY <1>2, <1>4, <1>6, <2>1
  <2> HIDE DEF k, x
  <2>5. Group(buf, n) = x
    <3>1. CASE n < MaxBytes
      <4>1. x \in 0..(More - 1) /\ More * 0 + x = x BY <1>3, <2>4, <3>1
      <4>2. (More * 0 + x) % More = x BY <1>3, <4>1, ModOf
      <4> QED BY <2>4, <3>1, <4>1, <4>2 DEF Group
    <3>2. CASE ~(n < MaxBytes) BY <2>4, <3>2 DEF Group
    <3> QED BY <3>1, <3>2
  <2> QED BY <1>10, <2>2, <2>3, <2>5
<1> HIDE DEF T
<1>17. DecodeI64(buf) = [value |-> v, n |-> n, err |-> FALSE]
  <2>1. Truncated(buf) = FALSE BY <1>9 DEF Truncated
  <2> QED BY <1>1, <1>9, <1>16, <2>1 DEF DecodeI64
<1> QED BY <1>2, <1>17

\* What a decoder reads can be written in no more bytes.
LEMMA WrittenAgain ==
  ASSUME NEW buf \in Seq(Byte), buf # <<>>, ~DecodeI64(buf).err
  PROVE  Len(EncodeI64(DecodeI64(buf).value)) <= DecodeI64(buf).n
<1> DEFINE v == DecodeI64(buf).value
<1> DEFINE m == DecodeI64(buf).n
<1> DEFINE u == Zig(v)
<1>1. /\ m \in 1..Len(buf) /\ v \in Signed /\ m <= MaxBytes
      /\ m < MaxBytes => u < 2^(GroupBits * m)
  BY DecodeFacts
<1> HIDE DEF v, m
<1>2. u \in Nat BY <1>1, ZigFacts
<1>3. Len(EncodeI64(v)) = EncodedLength(u) BY <1>1, EncodeFacts
<1> HIDE DEF u
<1>4. EncodedLength(u) \in 1..MaxBytes /\ \A k \in 1..(EncodedLength(u) - 1) : Shifted(u, k) # 0 BY <1>2, LengthFacts
<1>5. MaxBytes \in Nat /\ m \in Nat BY <1>1, ShiftFacts
<1>6. EncodedLength(u) <= m
  <2> SUFFICES ASSUME m < EncodedLength(u) PROVE FALSE BY <1>4, <1>5
  <2>1. m < MaxBytes /\ m \in 1..(EncodedLength(u) - 1) BY <1>1, <1>4, <1>5
  <2>2. Shifted(u, m) = 0 BY <1>1, <1>2, <1>5, <2>1, ShiftedFacts
  <2> QED BY <1>4, <2>1, <2>2
<1> QED BY <1>3, <1>6 DEF v, m

\* What is left of a payload.
LEMMA RestFacts ==
  ASSUME NEW buf \in Seq(Byte), NEW i \in 0..Len(buf)
  PROVE  LET rest == SubSeq(buf, i + 1, Len(buf)) IN
         /\ rest \in Seq(Byte) /\ Len(rest) = Len(buf) - i
         /\ \A j \in 1..Len(rest) : rest[j] = buf[i + j]
         /\ i < Len(buf) => rest # <<>>
<1> DEFINE rest == SubSeq(buf, i + 1, Len(buf))
<1> DEFINE N == Len(buf)
<1>1. N \in Nat /\ i \in Nat /\ i <= N /\ \A j \in 1..N : buf[j] \in Byte OBVIOUS
<1>2. Len(rest) = N - i BY <1>1
<1>3. rest = [j \in 1..(N - i) |-> buf[(i + 1) + j - 1]] BY <1>1
<1>4. \A j \in 1..(N - i) : (i + 1) + j - 1 = i + j /\ i + j \in 1..N BY <1>1
<1>5. rest = [j \in 1..(N - i) |-> buf[i + j]] BY <1>3, <1>4
<1>6. rest \in Seq(Byte) BY <1>1, <1>4, <1>5
<1> QED BY <1>1, <1>2, <1>5, <1>6

-----------------------------------------------------------------------------
(* Histograms.                                                              *)

\* A histogram that recording could have built: its counts are not negative, and its
\* total is their sum.
Proper(x) ==
  /\ Built(x.geom)
  /\ x.counts \in [0..(x.geom.countsLen - 1) -> 0..MaxCount]
  /\ x.total = PrefixSum(x.counts)[x.geom.countsLen]
  /\ x.total <= MaxCount

\* A counts array has a position.
LEMMA LengthOfBuilt == ASSUME NEW g, Built(g) PROVE g.countsLen \in Nat \ {0}
<1>1. Sized(g) /\ g.bucketCount \in Nat \ {0} /\ g.countsLen = (g.bucketCount + 1) * 2^g.m BY DEF Built
<1>2. 2^g.m \in Nat \ {0} BY <1>1, SizedPowers
<1> QED BY <1>1, <1>2

\* Position 0 is that of the value 0.
LEMMA FirstPosition ==
  ASSUME NEW g, Built(g)
  PROVE  /\ ValueFromFlatIndex(g, 0) = 0
         /\ CountsIndexFor(g, HighestEquivalent(g, 0)) = 0
         /\ CountsIndexFor(g, PackedHighestEquivalent(g, 0)) = 0
<1>1. g.countsLen \in Nat \ {0} /\ 0 \in 0..(g.countsLen - 1) BY LengthOfBuilt
<1>2. Sized(g) BY DEF Built
<1>3. 2^g.m \in Nat \ {0} /\ 2^(g.m + 1) = 2 * 2^g.m /\ g.m \in Nat /\ 2^(0 + g.u) \in Nat \ {0}
  BY <1>2, SizedPowers DEF Sized
<1>4. Cell(g, 0, 0) BY <1>3 DEF Cell
<1>5. ValueFromFlatIndex(g, 0 * 2^g.m + 0) = 0 * 2^(0 + g.u) BY <1>2, <1>4, FlatValue
<1>6. 0 * 2^g.m + 0 = 0 /\ 0 * 2^(0 + g.u) = 0 BY <1>3
<1>7. ValueFromFlatIndex(g, 0) = 0 BY <1>5, <1>6
<1>8. 0 \in 0..MaxInt BY MaxIntFacts
<1>9. CountsIndexFor(g, HighestEquivalent(g, 0)) = 0 BY <1>1, <1>7, PositionEnds
<1>10. PackedHighestEquivalent(g, 0) = HighestEquivalent(g, 0)
  <2>1. PICK b, s : Cell(g, b, s) /\ Reaches(g, b) /\ At(g, 0, b, s) BY <1>2, <1>8, ValueCell
  <2> QED BY <1>2, <1>8, <2>1, Equivalent
<1> QED BY <1>7, <1>9, <1>10

\* The packed type's highest equivalent value is the dense one's.
LEMMA SameHighest ==
  ASSUME NEW g, Built(g), NEW v \in 0..MaxInt
  PROVE  PackedHighestEquivalent(g, v) = HighestEquivalent(g, v)
<1>1. Sized(g) BY DEF Built
<1>2. PICK b, s : Cell(g, b, s) /\ Reaches(g, b) /\ At(g, v, b, s) BY <1>1, ValueCell
<1> QED BY <1>1, <1>2, Equivalent

\* countsLimit is the position behind the last one populated, which is in the array.
LEMMA LimitFacts ==
  ASSUME NEW x, Proper(x)
  PROVE  /\ x.geom.countsLen \in Nat \ {0}
         /\ CountsLimit(x) \in 1..x.geom.countsLen
         /\ \A i \in 0..(x.geom.countsLen - 1) : i >= CountsLimit(x) => x.counts[i] = 0
         /\ IF \A i \in 0..(x.geom.countsLen - 1) : x.counts[i] = 0 THEN CountsLimit(x) = 1
            ELSE x.counts[CountsLimit(x) - 1] # 0
<1> DEFINE g == x.geom
           L == x.geom.countsLen
           P == Populated(x)
           last == CHOOSE i \in P : \A j \in P : j <= i
           Lo(i) == ValueFromFlatIndex(g, i)
           Hi(i) == HighestEquivalent(g, Lo(i))
<1>1. Built(g) /\ L \in Nat \ {0} BY LengthOfBuilt DEF Proper
<1>2. /\ x.counts \in [0..(L - 1) -> 0..MaxCount] /\ x.total = PrefixSum(x.counts)[L]
      /\ MaxCount \in Nat
  BY MaxCountAssumption DEF Proper
<1>3. x.counts \in [0..(L - 1) -> Nat] /\ DOMAIN x.counts = 0..(L - 1) BY <1>2
<1>4. P = {i \in 0..(L - 1) : x.counts[i] # 0} BY <1>3 DEF Populated
<1>5. \A n \in 0..L : PrefixSum(x.counts)[n] \in Nat
  <2>1. \A i \in 0..(L - 1) : x.counts[i] \in Nat BY <1>3
  <2>2. \A n \in 0..L : 0 \in 0..n BY <1>1
  <2> QED BY <1>1, <2>1, <2>2, PrefixSumMonotone
<1>6. x.total \in Nat BY <1>1, <1>2, <1>5
<1>7. CASE x.total > 0
  <2>1. P \subseteq Visited(x) /\ P # {} /\ P \subseteq 0..(L - 1) BY <1>1, <1>2, <1>3, <1>7, PopulatedVisited
  <2>2. last \in P /\ \A j \in P : j <= last
    <3>1. \E i \in P : \A j \in P : j <= i BY <1>1, <2>1, EndsOf
    <3> HIDE DEF P
    <3> QED BY <3>1
  <2>3. last \in 0..(L - 1) BY <2>1, <2>2
  <2>4. CountsIndexFor(g, Hi(last)) = last /\ HighestEquivalent(g, Hi(last)) = Hi(last)
    <3> HIDE DEF last
    <3> QED BY <1>1, <2>3, PositionEnds
  <2>5. MaxOf(x) = HighestEquivalent(g, Hi(last))
    <3>1. Visited(x) \intersect Populated(x) = P BY <2>1
    <3> QED BY <2>1, <3>1 DEF MaxOf
  <2>6. CountsLimit(x) = last + 1 BY <2>4, <2>5 DEF CountsLimit
  <2> HIDE DEF last
  <2>7. CountsLimit(x) \in 1..L /\ CountsLimit(x) - 1 = last BY <1>1, <2>3, <2>6
  <2>8. x.counts[last] # 0 BY <1>4, <2>2
  <2>9. ASSUME NEW i \in 0..(L - 1), i >= CountsLimit(x) PROVE x.counts[i] = 0
    <3>1. ~(i <= last) BY <1>1, <2>3, <2>6, <2>9
    <3> QED BY <1>4, <2>2, <3>1
  <2> QED BY <1>1, <2>3, <2>7, <2>8, <2>9
<1>8. CASE x.total = 0
  <2>1. \A i \in 0..(L - 1) : x.counts[i] = 0
    <3> SUFFICES ASSUME NEW i \in 0..(L - 1) PROVE x.counts[i] = 0 OBVIOUS
    <3>1. x.counts[i] <= PrefixSum(x.counts)[L] BY <1>1, <1>3, SumAfterAdd
    <3>2. x.counts[i] \in Nat BY <1>3
    <3> QED BY <1>2, <1>8, <3>1, <3>2
  <2>2. P = {} BY <1>4, <2>1
  <2>3. MaxOf(x) = HighestEquivalent(g, 0) BY <2>2 DEF MaxOf
  <2>4. CountsLimit(x) = 1 BY <1>1, <2>3, FirstPosition DEF CountsLimit
  <2>5. CountsLimit(x) \in 1..L BY <1>1, <2>4
  <2> QED BY <1>1, <2>1, <2>4, <2>5
<1> QED BY <1>6, <1>7, <1>8

\* A run of zeros ends before the limit or at the next count.
LEMMA RunEndFacts ==
  ASSUME NEW c, NEW i \in Nat, NEW limit \in Nat, i < limit
  PROVE  LET e == RunEnd(c, i, limit) IN
         /\ e \in (i + 1)..limit
         /\ \A k \in (i + 1)..(e - 1) : c[k] = 0
         /\ e = limit \/ c[e] # 0
<1> DEFINE Q(e) == (\A k \in (i + 1)..(e - 1) : c[k] = 0) /\ (e = limit \/ c[e] # 0)
<1> DEFINE T == {e \in (i + 1)..limit : e = limit \/ c[e] # 0}
<1>1. T \in SUBSET Nat /\ limit \in T OBVIOUS
<1>2. PICK e \in T : \A k \in T : e <= k
  <2> HIDE DEF T
  <2> QED BY <1>1, LeastElement
<1>3. e \in (i + 1)..limit /\ (e = limit \/ c[e] # 0) OBVIOUS
<1>4. ASSUME NEW k \in (i + 1)..(e - 1), c[k] # 0 PROVE FALSE
  <2>1. k \in T /\ k < e BY <1>3, <1>4
  <2>2. e <= k BY <1>2, <2>1
  <2> QED BY <1>3, <2>1, <2>2
<1>5. Q(e) BY <1>3, <1>4
<1>6. RunEnd(c, i, limit) = CHOOSE q \in (i + 1)..limit : Q(q) BY DEF RunEnd
<1> HIDE DEF Q, T
<1>7. RunEnd(c, i, limit) \in (i + 1)..limit /\ Q(RunEnd(c, i, limit)) BY <1>3, <1>5, <1>6
<1> QED BY <1>7 DEF Q

-----------------------------------------------------------------------------
(* Decoders at work.                                                        *)

Fields == {"status", "pos", "dst", "geom", "total", "ratio", "counts"}

\* The sum of the counts that a decoder has read.
Held(x) == PrefixSum(Expanded(x))[x.geom.countsLen]

\* A decoder has a place in the payload and one in the counts array, and has read
\* no count beyond the latter.
Working(x) ==
  /\ DOMAIN x = Fields /\ x.status \in {"filling", "ok"}
  /\ Built(x.geom) /\ x.geom = WireGeometry(stream) /\ x.ratio = stream.ratio
  /\ x.pos \in 0..Len(stream.payload) /\ x.dst \in 0..x.geom.countsLen
  /\ Expanded(x) \in [0..(x.geom.countsLen - 1) -> 0..MaxCount]
  /\ \A i \in 0..(x.geom.countsLen - 1) : i >= x.dst => Expanded(x)[i] = 0

\* Decode keeps an exact total.
DenseOK(x) == Working(x) /\ x.counts = Expanded(x) /\ x.total = Held(x) /\ Held(x) <= MaxCount

\* DecodePacked stores only what is populated, and its total saturates.
PackedOK(x) ==
  /\ Working(x) /\ x.total = Smaller(MaxCount, Held(x))
  /\ DOMAIN x.counts \subseteq 0..(x.geom.countsLen - 1) /\ \A i \in DOMAIN x.counts : x.counts[i] > 0

\* A decoder goes from x to y with the number t of n bytes.
Reads(x, y, t, n) ==
  /\ DOMAIN y = Fields /\ y.status = x.status /\ y.geom = x.geom /\ y.ratio = x.ratio
  /\ y.pos = x.pos + n
  /\ IF t < 0 THEN y.dst = x.dst + Wrap64(-t) /\ Expanded(y) = Expanded(x)
              ELSE y.dst = x.dst + 1 /\ Expanded(y) = [Expanded(x) EXCEPT ![x.dst] = t]

\* A number that fits the array.
FitsArray(x, t) ==
  IF t < 0 THEN Wrap64(-t) > 0 /\ Wrap64(-t) <= x.geom.countsLen - x.dst ELSE x.dst < x.geom.countsLen

\* The sum that a decoder holds.
LEMMA HeldType ==
  ASSUME NEW x, Working(x)
  PROVE  x.geom.countsLen \in Nat \ {0} /\ MaxCount \in Nat /\ Held(x) \in Nat
<1> DEFINE L == x.geom.countsLen
<1> DEFINE c == Expanded(x)
<1>1. L \in Nat \ {0} BY LengthOfBuilt DEF Working
<1>2. MaxCount \in Nat BY MaxCountAssumption
<1>3. c \in [0..(L - 1) -> 0..MaxCount] BY DEF Working
<1> HIDE DEF c
<1>4. c \in [0..(L - 1) -> Nat] /\ 0 \in 0..(L - 1) /\ 0 \in Nat BY <1>1, <1>2, <1>3
<1>5. PrefixSum(c)[L] \in Nat BY <1>1, <1>4, SumAfterAdd
<1> QED BY <1>1, <1>2, <1>5 DEF Held, c

\* A number that fits leaves a decoder at work, and adds to what it holds.
LEMMA ReadKeeps ==
  ASSUME NEW x, Working(x), NEW y, NEW t \in Int64, NEW n \in Nat, Reads(x, y, t, n), FitsArray(x, t),
         Len(stream.payload) \in Nat, x.pos + n <= Len(stream.payload)
  PROVE  Working(y) /\ Held(y) = Held(x) + (IF t < 0 THEN 0 ELSE t)
<1> DEFINE L == x.geom.countsLen
<1> DEFINE c == Expanded(x)
<1> DEFINE k == x.dst
<1>1. L \in Nat \ {0} /\ MaxCount \in Nat /\ Held(x) \in Nat BY HeldType
<1>2. /\ c \in [0..(L - 1) -> 0..MaxCount] /\ k \in 0..L
      /\ \A i \in 0..(L - 1) : i >= k => c[i] = 0
  BY DEF Working
<1>3. /\ DOMAIN y = Fields /\ y.status = x.status /\ y.geom = x.geom /\ y.ratio = x.ratio
      /\ y.pos = x.pos + n
  BY DEF Reads
<1>4. /\ x.status \in {"filling", "ok"} /\ x.pos \in 0..Len(stream.payload)
      /\ Built(x.geom) /\ x.geom = WireGeometry(stream) /\ x.ratio = stream.ratio
  BY DEF Working
<1>5. y.pos \in 0..Len(stream.payload) BY <1>3, <1>4
<1>6. CASE t < 0
  <2> DEFINE w == Wrap64(-t)
  <2>1. -t \in Int BY Int64Facts
  <2>2. w \in Int BY <2>1, Wrap64Range, Int64Facts
  <2>3. w > 0 /\ w <= L - k BY <1>6 DEF FitsArray
  <2>4. y.dst = k + w /\ Expanded(y) = c BY <1>6 DEF Reads
  <2> HIDE DEF w, c, k, L
  <2>5. y.dst \in 0..L /\ y.dst >= k BY <1>1, <1>2, <2>2, <2>3, <2>4
  <2>6. \A i \in 0..(L - 1) : i >= y.dst => c[i] = 0 BY <1>1, <1>2, <2>5
  <2>7. Working(y) BY <1>2, <1>3, <1>4, <1>5, <2>4, <2>5, <2>6 DEF Working, L
  <2>8. Held(y) = Held(x) BY <1>3, <2>4 DEF Held, c
  <2> QED BY <1>1, <1>6, <2>7, <2>8
<1>7. CASE ~(t < 0)
  <2>1. t \in 0..MaxCount /\ t \in Nat BY <1>7, Int64Facts
  <2>2. k < L BY <1>7 DEF FitsArray
  <2> DEFINE d == [c EXCEPT ![k] = t]
  <2>3. y.dst = k + 1 /\ Expanded(y) = d BY <1>7 DEF Reads
  <2> HIDE DEF c, k, L
  <2>4. k \in 0..(L - 1) /\ k + 1 \in 0..L BY <1>1, <1>2, <2>2
  <2>5. d \in [0..(L - 1) -> 0..MaxCount] BY <1>2, <2>1
  <2>6. \A i \in 0..(L - 1) : i >= k + 1 => d[i] = 0
    <3> SUFFICES ASSUME NEW i \in 0..(L - 1), i >= k + 1 PROVE d[i] = 0 OBVIOUS
    <3>1. i # k /\ i >= k BY <2>4
    <3> QED BY <1>2, <3>1
  <2>7. Working(y) BY <1>2, <1>3, <1>4, <1>5, <2>3, <2>4, <2>5, <2>6 DEF Working, L
  <2>8. c[k] = 0 BY <1>1, <1>2, <2>4
  <2>12. c \in [0..(L - 1) -> Nat] /\ L \in Nat /\ k \in 0..(L - 1) /\ t \in Nat BY <1>1, <1>2, <2>1, <2>4
  <2>9. PrefixSum([c EXCEPT ![k] = c[k] + t])[L] = PrefixSum(c)[L] + t BY <2>12, SumAfterAdd
  <2>10. c[k] + t = t BY <2>1, <2>8
  <2>11. Held(y) = Held(x) + t BY <1>3, <2>3, <2>9, <2>10 DEF Held, c, L
  <2> QED BY <1>7, <2>7, <2>11
<1> QED BY <1>6, <1>7

\* Fields of a decoder.
LEMMA FieldNames ==
  /\ "status" \in Fields /\ "pos" \in Fields /\ "dst" \in Fields /\ "geom" \in Fields
  /\ "total" \in Fields /\ "ratio" \in Fields /\ "counts" \in Fields
BY DEF Fields

\* The run's length is that of the code's negation.
LEMMA RunLength ==
  ASSUME NEW t \in Int64
  PROVE  Wrap64(-t) \in Int /\ (t < 0 /\ t >= -MaxCount => Wrap64(-t) = -t)
<1>1. t \in Int /\ MaxCount \in Nat BY Int64Facts, MaxCountAssumption
<1>2. -t \in Int BY <1>1
<1>3. Wrap64(-t) \in Int BY <1>2, Wrap64Range, Int64Facts
<1>4. ASSUME t < 0, t >= -MaxCount PROVE Wrap64(-t) = -t
  <2>1. -t \in Int64 BY <1>1, <1>4 DEF Int64
  <2> QED BY <2>1, Wrap64Id
<1> QED BY <1>3, <1>4

\* One number of fillCountsArrayFromSourceBuffer.
LEMMA DenseReads ==
  ASSUME NEW x, DenseOK(x), NEW t \in Int64, NEW n \in Nat,
         Len(stream.payload) \in Nat, x.pos + n <= Len(stream.payload)
  PROVE  LET y == [DenseTaken(x, t) EXCEPT !.pos = @ + n] IN
         /\ DenseRefused(x, t) <=> ~FitsArray(x, t) \/ (t >= 0 /\ Held(x) + t > MaxCount)
         /\ ~DenseRefused(x, t) => DenseOK(y) /\ Reads(x, y, t, n)
<1> DEFINE L == x.geom.countsLen
<1> DEFINE c == Expanded(x)
<1> DEFINE k == x.dst
<1> DEFINE z == DenseTaken(x, t)
<1> DEFINE y == [DenseTaken(x, t) EXCEPT !.pos = @ + n]
<1>1. Working(x) /\ x.counts = c /\ x.total = Held(x) /\ Held(x) <= MaxCount BY DEF DenseOK
<1>2. L \in Nat \ {0} /\ MaxCount \in Nat /\ Held(x) \in Nat BY <1>1, HeldType
<1>3. /\ DOMAIN x = Fields /\ k \in 0..L /\ c \in [0..(L - 1) -> 0..MaxCount]
      /\ \A i \in 0..(L - 1) : i >= k => c[i] = 0
  BY <1>1 DEF Working
<1>4. t \in Int /\ Wrap64(-t) \in Int BY RunLength, Int64Facts
<1>5. MaxCount - x.total \in Int64 /\ Wrap64(MaxCount - x.total) = MaxCount - x.total
  <2>1. MaxCount - x.total \in 0..MaxCount BY <1>1, <1>2
  <2>2. MaxCount - x.total \in Int64 BY <2>1, Int64Facts
  <2> QED BY <2>2, Wrap64Id
<1>6. DenseRefused(x, t) <=> ~FitsArray(x, t) \/ (t >= 0 /\ Held(x) + t > MaxCount)
  <2>1. CASE t < 0
    <3>1. ~(t >= 0) BY <1>4, <2>1
    <3> QED BY <1>2, <1>3, <1>4, <2>1, <3>1 DEF DenseRefused, RunRefused, FitsArray
  <2>2. CASE ~(t < 0)
    <3>1. t >= 0 BY <1>4, <2>2
    <3>2. t > MaxCount - x.total <=> Held(x) + t > MaxCount BY <1>1, <1>2, <1>4
    <3>3. k >= L <=> ~(k < L) BY <1>2, <1>3
    <3> QED BY <1>5, <2>2, <3>1, <3>2, <3>3 DEF DenseRefused, FitsArray
  <2> QED BY <2>1, <2>2
<1>7. ASSUME ~DenseRefused(x, t) PROVE DenseOK(y) /\ Reads(x, y, t, n)
  <2>1. FitsArray(x, t) /\ (t >= 0 => Held(x) + t <= MaxCount)
    <3>1. FitsArray(x, t) /\ ~(t >= 0 /\ Held(x) + t > MaxCount) BY <1>6, <1>7
    <3> QED BY <1>2, <1>4, <3>1
  <2>2. CASE t < 0
    <3>1. z = [x EXCEPT !.dst = @ + Wrap64(-t)] BY <2>2 DEF DenseTaken
    <3>2. y = [z EXCEPT !.pos = @ + n] OBVIOUS
    <3> HIDE DEF z, y
    <3>3. /\ DOMAIN z = Fields /\ z.status = x.status /\ z.geom = x.geom /\ z.ratio = x.ratio
          /\ z.pos = x.pos /\ z.dst = k + Wrap64(-t) /\ z.counts = x.counts /\ z.total = x.total
      BY <1>3, <3>1, FieldNames
    <3>4. /\ DOMAIN y = Fields /\ y.status = x.status /\ y.geom = x.geom /\ y.ratio = x.ratio
          /\ y.pos = x.pos + n /\ y.dst = k + Wrap64(-t) /\ y.counts = x.counts /\ y.total = x.total
      BY <3>2, <3>3, FieldNames
    <3>5. Expanded(y) = c BY <3>4 DEF Expanded, CountAt
    <3>6. Reads(x, y, t, n) BY <2>2, <3>4, <3>5 DEF Reads
    <3>7. Working(y) /\ Held(y) = Held(x) + 0 BY <1>1, <2>1, <2>2, <3>6, ReadKeeps
    <3>8. Held(y) = Held(x) BY <1>2, <3>7
    <3> QED BY <1>1, <3>4, <3>5, <3>6, <3>7, <3>8 DEF DenseOK
  <2>3. CASE ~(t < 0)
    <3> DEFINE e == [c EXCEPT ![k] = t]
    <3>0. t >= 0 BY <1>4, <2>3
    <3>1. k \in 0..(L - 1) /\ c[k] = 0
      <4>1. k < L BY <2>1, <2>3 DEF FitsArray
      <4>2. k \in 0..(L - 1) /\ k >= k BY <1>2, <1>3, <4>1
      <4> QED BY <1>3, <4>2
    <3>2. Wrap64(c[k] + t) = t /\ Wrap64(x.total + t) = x.total + t
      <4>1. c[k] + t = t BY <1>4, <3>1
      <4>2. x.total + t \in 0..MaxCount BY <1>1, <1>2, <1>4, <2>1, <3>0
      <4>3. x.total + t \in Int64 BY <4>2, Int64Facts
      <4> QED BY <4>1, <4>3, Wrap64Id
    <3>3. z = [x EXCEPT !.counts = [x.counts EXCEPT ![k] = Wrap64(x.counts[k] + t)],
                        !.total = Wrap64(x.total + t), !.dst = k + 1]
      BY <2>3 DEF DenseTaken
    <3>4. [x.counts EXCEPT ![k] = Wrap64(x.counts[k] + t)] = e BY <1>1, <3>2
    <3>5. y = [z EXCEPT !.pos = @ + n] OBVIOUS
    <3>6. z = [x EXCEPT !.counts = e, !.total = x.total + t, !.dst = k + 1] BY <3>2, <3>3, <3>4
    <3>7. DOMAIN e = 0..(L - 1) /\ e = [i \in 0..(L - 1) |-> e[i]] BY <1>3
    <3> HIDE DEF z, y, e
    <3>8. /\ DOMAIN z = Fields /\ z.status = x.status /\ z.geom = x.geom /\ z.ratio = x.ratio
          /\ z.pos = x.pos /\ z.dst = k + 1 /\ z.counts = e /\ z.total = x.total + t
      BY <1>3, <3>6, FieldNames
    <3>9. /\ DOMAIN y = Fields /\ y.status = x.status /\ y.geom = x.geom /\ y.ratio = x.ratio
          /\ y.pos = x.pos + n /\ y.dst = k + 1 /\ y.counts = e /\ y.total = x.total + t
      BY <3>5, <3>8, FieldNames
    <3>10. Expanded(y) = e
      <4>1. Expanded(y) = [i \in 0..(L - 1) |-> CountAt(y, i)] BY <3>9 DEF Expanded
      <4>2. \A i \in 0..(L - 1) : CountAt(y, i) = e[i] BY <3>7, <3>9 DEF CountAt
      <4> QED BY <3>7, <4>1, <4>2
    <3>11. Reads(x, y, t, n) BY <2>3, <3>9, <3>10 DEF Reads, e
    <3>12. Working(y) /\ Held(y) = Held(x) + t BY <1>1, <2>1, <2>3, <3>11, ReadKeeps
    <3> QED BY <1>1, <2>1, <3>0, <3>9, <3>10, <3>11, <3>12 DEF DenseOK
  <2> QED BY <2>2, <2>3
<1> QED BY <1>6, <1>7

\* One number of fillSparseFromPayload.
LEMMA PackedReads ==
  ASSUME NEW x, PackedOK(x), NEW t \in Int64, NEW n \in Nat,
         Len(stream.payload) \in Nat, x.pos + n <= Len(stream.payload)
  PROVE  LET y == [PackedTaken(x, t) EXCEPT !.pos = @ + n] IN
         /\ PackedRefused(x, t) <=> ~FitsArray(x, t)
         /\ ~PackedRefused(x, t) => PackedOK(y) /\ Reads(x, y, t, n)
<1> DEFINE L == x.geom.countsLen
<1> DEFINE c == Expanded(x)
<1> DEFINE k == x.dst
<1> DEFINE z == PackedTaken(x, t)
<1> DEFINE y == [PackedTaken(x, t) EXCEPT !.pos = @ + n]
<1>1. /\ Working(x) /\ x.total = Smaller(MaxCount, Held(x))
      /\ DOMAIN x.counts \subseteq 0..(L - 1) /\ \A i \in DOMAIN x.counts : x.counts[i] > 0
  BY DEF PackedOK
<1>2. L \in Nat \ {0} /\ MaxCount \in Nat /\ Held(x) \in Nat BY <1>1, HeldType
<1>3. /\ DOMAIN x = Fields /\ k \in 0..L /\ c \in [0..(L - 1) -> 0..MaxCount]
      /\ \A i \in 0..(L - 1) : i >= k => c[i] = 0
  BY <1>1 DEF Working
<1>4. t \in Int /\ Wrap64(-t) \in Int BY RunLength, Int64Facts
<1>5. c = [i \in 0..(L - 1) |-> CountAt(x, i)] BY DEF Expanded
<1>6. PackedRefused(x, t) <=> ~FitsArray(x, t)
  <2>1. CASE t < 0 BY <1>2, <1>3, <1>4, <2>1 DEF PackedRefused, FitsArray
  <2>2. CASE ~(t < 0)
    <3>1. k >= L <=> ~(k < L) BY <1>2, <1>3
    <3> QED BY <2>2, <3>1 DEF PackedRefused, FitsArray
  <2> QED BY <2>1, <2>2
<1>7. ASSUME ~PackedRefused(x, t) PROVE PackedOK(y) /\ Reads(x, y, t, n)
  <2>1. FitsArray(x, t) BY <1>6, <1>7
  <2>2. CASE t < 0
    <3>1. z = [x EXCEPT !.dst = @ + Wrap64(-t)] BY <2>2 DEF PackedTaken
    <3>2. y = [z EXCEPT !.pos = @ + n] OBVIOUS
    <3> HIDE DEF z, y
    <3>3. /\ DOMAIN z = Fields /\ z.status = x.status /\ z.geom = x.geom /\ z.ratio = x.ratio
          /\ z.pos = x.pos /\ z.dst = k + Wrap64(-t) /\ z.counts = x.counts /\ z.total = x.total
      BY <1>3, <3>1, FieldNames
    <3>4. /\ DOMAIN y = Fields /\ y.status = x.status /\ y.geom = x.geom /\ y.ratio = x.ratio
          /\ y.pos = x.pos + n /\ y.dst = k + Wrap64(-t) /\ y.counts = x.counts /\ y.total = x.total
      BY <3>2, <3>3, FieldNames
    <3>5. Expanded(y) = c BY <3>4 DEF Expanded, CountAt
    <3>6. Reads(x, y, t, n) BY <2>2, <3>4, <3>5 DEF Reads
    <3>7. Working(y) /\ Held(y) = Held(x) + 0 BY <1>1, <2>1, <2>2, <3>6, ReadKeeps
    <3>8. Held(y) = Held(x) BY <1>2, <3>7
    <3> QED BY <1>1, <3>4, <3>6, <3>7, <3>8 DEF PackedOK
  <2>3. CASE t = 0
    <3>0. ~(t < 0) /\ k < L BY <2>1, <2>3 DEF FitsArray
    <3>1. z = [x EXCEPT !.dst = @ + 1] BY <2>3, <3>0 DEF PackedTaken
    <3>2. y = [z EXCEPT !.pos = @ + n] OBVIOUS
    <3> HIDE DEF z, y
    <3>3. /\ DOMAIN z = Fields /\ z.status = x.status /\ z.geom = x.geom /\ z.ratio = x.ratio
          /\ z.pos = x.pos /\ z.dst = k + 1 /\ z.counts = x.counts /\ z.total = x.total
      BY <1>3, <3>1, FieldNames
    <3>4. /\ DOMAIN y = Fields /\ y.status = x.status /\ y.geom = x.geom /\ y.ratio = x.ratio
          /\ y.pos = x.pos + n /\ y.dst = k + 1 /\ y.counts = x.counts /\ y.total = x.total
      BY <3>2, <3>3, FieldNames
    <3>5. Expanded(y) = c BY <3>4 DEF Expanded, CountAt
    <3>9. c = [c EXCEPT ![k] = t]
      <4>1. k \in 0..(L - 1) /\ k >= k BY <1>2, <1>3, <3>0
      <4>2. c[k] = t BY <1>3, <2>3, <4>1
      <4> HIDE DEF c
      <4> QED BY <1>3, <4>2
    <3>6. Reads(x, y, t, n) BY <3>0, <3>4, <3>5, <3>9 DEF Reads
    <3>7. Working(y) /\ Held(y) = Held(x) + t BY <1>1, <2>1, <3>0, <3>6, ReadKeeps
    <3>8. Held(y) = Held(x) BY <1>2, <2>3, <3>7
    <3> QED BY <1>1, <3>4, <3>6, <3>7, <3>8 DEF PackedOK
  <2>4. CASE t > 0
    <3> DEFINE D == DOMAIN x.counts \union {k}
    <3> DEFINE e == [i \in D |-> IF i = k THEN t ELSE x.counts[i]]
    <3> DEFINE w == AddDropped(x.total, t)
    <3>0. ~(t < 0) /\ t # 0 /\ t \in 0..MaxCount BY <1>4, <2>4, Int64Facts
    <3>1. k \in 0..(L - 1)
      <4>1. k < L BY <2>1, <3>0 DEF FitsArray
      <4> QED BY <1>2, <1>3, <4>1
    <3>3. z = [x EXCEPT !.counts = e, !.total = w, !.dst = k + 1] BY <3>0 DEF PackedTaken
    <3>5. y = [z EXCEPT !.pos = @ + n] OBVIOUS
    <3>6. w = Smaller(MaxCount, Held(x) + t)
      <4>1. x.total \in 0..MaxCount BY <1>1, <1>2 DEF Smaller
      <4>2. w = Smaller(MaxCount, x.total + t) BY <3>0, <4>1, AddDroppedFacts
      <4> QED BY <1>1, <1>2, <3>0, <4>2 DEF Smaller
    <3>7. DOMAIN e = D /\ \A i \in D : e[i] = IF i = k THEN t ELSE x.counts[i] OBVIOUS
    <3>13. D \subseteq 0..(L - 1) /\ k \in D /\ \A i \in 0..(L - 1) : i # k => (i \in D <=> i \in DOMAIN x.counts) BY <1>1, <3>1
    <3> HIDE DEF z, y, e, w, D
    <3>14. \A i \in D : e[i] > 0
      <4> SUFFICES ASSUME NEW i \in D PROVE e[i] > 0 OBVIOUS
      <4>1. CASE i = k BY <2>4, <3>7, <4>1
      <4>2. CASE i # k
        <5>1. i \in DOMAIN x.counts BY <3>13, <4>2
        <5> QED BY <1>1, <3>7, <4>2, <5>1
      <4> QED BY <4>1, <4>2
    <3>8. /\ DOMAIN z = Fields /\ z.status = x.status /\ z.geom = x.geom /\ z.ratio = x.ratio
          /\ z.pos = x.pos /\ z.dst = k + 1 /\ z.counts = e /\ z.total = w
      BY <1>3, <3>3, FieldNames
    <3>9. /\ DOMAIN y = Fields /\ y.status = x.status /\ y.geom = x.geom /\ y.ratio = x.ratio
          /\ y.pos = x.pos + n /\ y.dst = k + 1 /\ y.counts = e /\ y.total = w
      BY <3>5, <3>8, FieldNames
    <3>10. Expanded(y) = [c EXCEPT ![k] = t]
      <4>1. Expanded(y) = [i \in 0..(L - 1) |-> CountAt(y, i)] BY <3>9 DEF Expanded
      <4>2. \A i \in 0..(L - 1) : CountAt(y, i) = IF i = k THEN t ELSE CountAt(x, i)
        <5> SUFFICES ASSUME NEW i \in 0..(L - 1) PROVE CountAt(y, i) = IF i = k THEN t ELSE CountAt(x, i) OBVIOUS
        <5>1. CountAt(y, i) = IF i \in D THEN e[i] ELSE 0 BY <3>7, <3>9 DEF CountAt
        <5>2. CASE i = k BY <3>7, <3>13, <5>1, <5>2
        <5>3. CASE i # k BY <3>7, <3>13, <5>1, <5>3 DEF CountAt
        <5> QED BY <5>2, <5>3
      <4>3. [c EXCEPT ![k] = t] = [i \in 0..(L - 1) |-> IF i = k THEN t ELSE CountAt(x, i)]
        <5>1. DOMAIN c = 0..(L - 1) /\ \A i \in 0..(L - 1) : c[i] = CountAt(x, i) BY <1>5
        <5> HIDE DEF c
        <5> QED BY <5>1
      <4> QED BY <4>1, <4>2, <4>3
    <3>11. Reads(x, y, t, n) BY <3>0, <3>9, <3>10 DEF Reads
    <3>12. Working(y) /\ Held(y) = Held(x) + t BY <1>1, <2>1, <3>0, <3>11, ReadKeeps
    <3> QED BY <3>6, <3>7, <3>9, <3>11, <3>12, <3>13, <3>14 DEF PackedOK
  <2> QED BY <1>4, <2>2, <2>3, <2>4
<1> QED BY <1>6, <1>7

-----------------------------------------------------------------------------
(* What every state satisfies.                                              *)

DecoderOK(d, x) == x = NotStarted \/ x = Failed \/ IF d = "dense" THEN DenseOK(x) ELSE PackedOK(x)

\* The program's histogram, and the buffer of its encoder.
ProgramOK ==
  /\ pc \in {"idle", "fill", "decode"} /\ own \in BOOLEAN
  /\ Proper(h) /\ h.geom.high \in -(MaxInt + 1)..MaxInt /\ h.geom.countsLen <= MaxCount
  /\ src \in 0..h.geom.countsLen /\ out \in Seq(Byte)
  /\ pc # "fill" => src = 0 /\ out = <<>>

\* The decoders run on a stream of words and bytes only.
DecodersOK ==
  /\ DOMAIN dec = Decoders
  /\ IF pc = "decode" THEN /\ Words(stream) /\ stream.payload \in Seq(Byte)
                           /\ \A d \in Decoders : DecoderOK(d, dec[d])
                      ELSE \A d \in Decoders : dec[d] = NotStarted

Sound == ProgramOK /\ DecodersOK

LEMMA DecoderNames == "dense" \in Decoders /\ "packed" \in Decoders /\ "dense" # "packed"
BY DEF Decoders

\* The statuses tell the states of a decoder apart.
LEMMA StatusFacts ==
  ASSUME NEW d, NEW x, DecoderOK(d, x)
  PROVE  /\ x.status \in {"none", "error", "filling", "ok"}
         /\ x.status \in {"filling", "ok"} => Working(x) /\ IF d = "dense" THEN DenseOK(x) ELSE PackedOK(x)
         /\ x.status = "none" <=> x = NotStarted
         /\ x.status = "error" <=> x = Failed
<1>1. NotStarted.status = "none" /\ Failed.status = "error" BY DEF NotStarted, Failed
<1>2. CASE x = NotStarted BY <1>1, <1>2
<1>3. CASE x = Failed BY <1>1, <1>3
<1>4. CASE IF d = "dense" THEN DenseOK(x) ELSE PackedOK(x)
  <2>1. Working(x) BY <1>4 DEF DenseOK, PackedOK
  <2>2. x.status \in {"filling", "ok"} BY <2>1 DEF Working
  <2> QED BY <1>1, <1>4, <2>1, <2>2
<1> QED BY <1>2, <1>3, <1>4 DEF DecoderOK

\* Signed words are int64, which is what counts and runs are.
LEMMA SignedIsInt64 == Signed = Int64 /\ MaxCount \in Nat
BY CodecAssumption, MaxCountAssumption DEF Signed, Int64

\* Only a stream's geometry is needed of it.
LEMMA StreamGeometry ==
  ASSUME NEW s, Words(s), WireAccepts(s)
  PROVE  /\ Built(WireGeometry(s)) /\ WireGeometry(s).high \in -(MaxInt + 1)..MaxInt
         /\ WireGeometry(s).countsLen \in Nat \ {0} /\ WireGeometry(s).countsLen <= MaxCount
<1>1. IsArgs(s) BY DEF IsArgs, Words
<1>2. Built(WireGeometry(s)) BY <1>1, WireBuilt
<1>3. WireGeometry(s).high = s.high BY DEF WireGeometry, ExactGeometry
<1>4. WireGeometry(s).countsLen \in Nat \ {0} BY <1>2, LengthOfBuilt
<1> QED BY <1>2, <1>3, <1>4 DEF Words

\* A decoder starts with an empty histogram.
LEMMA BlankFacts ==
  ASSUME NEW d \in Decoders, Words(stream), WireAccepts(stream), stream.payload \in Seq(Byte)
  PROVE  /\ DecoderOK(d, Blank(d)) /\ Blank(d).status = "filling"
         /\ Blank(d).pos = 0 /\ Blank(d).dst = 0 /\ Held(Blank(d)) = 0 /\ Blank(d).total = 0
         /\ Blank(d).geom = WireGeometry(stream) /\ Blank(d).ratio = stream.ratio
         /\ Expanded(Blank(d)) = [i \in 0..(WireGeometry(stream).countsLen - 1) |-> 0]
<1> DEFINE g == WireGeometry(stream)
<1> DEFINE L == g.countsLen
<1> DEFINE x == Blank(d)
<1> DEFINE D == IF d = "dense" THEN 0..(L - 1) ELSE {}
<1> DEFINE c == [i \in D |-> 0]
<1>1. Built(g) /\ L \in Nat \ {0} BY StreamGeometry
<1>2. x = [status |-> "filling", pos |-> 0, dst |-> 0, geom |-> g, total |-> 0, ratio |-> stream.ratio, counts |-> c]
  BY DEF Blank
<1>3. D \subseteq 0..(L - 1) /\ (d = "dense" => D = 0..(L - 1)) /\ (d # "dense" => D = {}) OBVIOUS
<1>4. DOMAIN c = D /\ \A i \in D : c[i] = 0 OBVIOUS
<1> HIDE DEF x, c, D, g
<1>5. /\ DOMAIN x = Fields /\ x.status = "filling" /\ x.pos = 0 /\ x.dst = 0 /\ x.geom = g
      /\ x.total = 0 /\ x.ratio = stream.ratio /\ x.counts = c
  BY <1>2 DEF Fields
<1>6. Expanded(x) = [i \in 0..(L - 1) |-> 0]
  <2>1. \A i \in 0..(L - 1) : CountAt(x, i) = 0 BY <1>4, <1>5 DEF CountAt
  <2> QED BY <1>5, <2>1 DEF Expanded
<1>7. MaxCount \in Nat BY SignedIsInt64
<1>8. Held(x) = 0
  <2> DEFINE e == [i \in 0..(L - 1) |-> 0]
  <2>1. \A i \in 0..(L - 1) : e[i] = 0 OBVIOUS
  <2> HIDE DEF e
  <2>2. L \in Nat /\ L \in 0..L BY <1>1
  <2>3. PrefixSum(e)[L] = 0 BY <2>1, <2>2, PrefixSumOfZeros
  <2> QED BY <1>5, <1>6, <2>3 DEF Held, e
<1>9. Working(x)
  <2>1. Len(stream.payload) \in Nat /\ 0 \in 0..Len(stream.payload) OBVIOUS
  <2>2. 0 \in 0..L BY <1>1
  <2>3. Expanded(x) \in [0..(L - 1) -> 0..MaxCount] /\ \A i \in 0..(L - 1) : Expanded(x)[i] = 0 BY <1>6, <1>7
  <2> QED BY <1>1, <1>5, <2>1, <2>2, <2>3 DEF Working, g
<1>10. DecoderOK(d, x)
  <2>1. CASE d = "dense"
    <3>1. c = [i \in 0..(L - 1) |-> 0] BY <1>3, <2>1 DEF c
    <3>2. DenseOK(x) BY <1>5, <1>6, <1>7, <1>8, <1>9, <3>1 DEF DenseOK
    <3> QED BY <2>1, <3>2 DEF DecoderOK
  <2>2. CASE d # "dense"
    <3>1. DOMAIN x.counts = {} BY <1>3, <1>4, <1>5, <2>2
    <3>2. Smaller(MaxCount, 0) = 0 BY <1>7 DEF Smaller
    <3>3. PackedOK(x) BY <1>5, <1>8, <1>9, <3>1, <3>2 DEF PackedOK
    <3> QED BY <2>2, <3>3 DEF DecoderOK
  <2> QED BY <2>1, <2>2
<1> QED BY <1>5, <1>6, <1>8, <1>10 DEF x, g

\* The number at a decoder's place, whether the decoder refuses it, and what it does
\* with it.
Number(x) == DecodeI64(SubSeq(stream.payload, x.pos + 1, Len(stream.payload)))
Refused(d, x) ==
  Number(x).err \/ IF d = "dense" THEN DenseRefused(x, Number(x).value) ELSE PackedRefused(x, Number(x).value)
Following(d, x) ==
  [IF d = "dense" THEN DenseTaken(x, Number(x).value) ELSE PackedTaken(x, Number(x).value)
     EXCEPT !.pos = @ + Number(x).n]

\* One iteration of either loop.
LEMMA NumberStep ==
  ASSUME NEW d \in Decoders, NEW x, DecoderOK(d, x), x.status = "filling", Unfinished(x),
         stream.payload \in Seq(Byte)
  PROVE  LET t == Number(x).value
             y == Following(d, x)
         IN  /\ t \in Int64 /\ Number(x).err \in BOOLEAN /\ Number(x).n \in 1..(Len(stream.payload) - x.pos)
             /\ Working(x) /\ Held(x) \in Nat
             /\ Refused(d, x) <=> \/ Number(x).err \/ ~FitsArray(x, t)
                                  \/ d = "dense" /\ t >= 0 /\ Held(x) + t > MaxCount
             /\ ~Refused(d, x) => /\ DecoderOK(d, y) /\ y.status = "filling" /\ Working(y)
                                  /\ Reads(x, y, t, Number(x).n)
                                  /\ Held(y) = Held(x) + (IF t < 0 THEN 0 ELSE t)
<1> DEFINE N == Len(stream.payload)
<1> DEFINE rest == SubSeq(stream.payload, x.pos + 1, N)
<1> DEFINE number == Number(x)
<1> DEFINE t == number.value
<1> DEFINE n == number.n
<1> DEFINE y == Following(d, x)
<1>1. Working(x) /\ (d = "dense" => DenseOK(x)) /\ (d # "dense" => PackedOK(x)) BY StatusFacts
<1>2. N \in Nat /\ x.pos \in 0..N /\ x.pos < N BY <1>1 DEF Working, Unfinished
<1>3. rest \in Seq(Byte) /\ Len(rest) = N - x.pos /\ rest # <<>> BY <1>2, RestFacts
<1>4. number = DecodeI64(rest) BY DEF Number
<1> HIDE DEF rest, N
<1>5. n \in 1..(N - x.pos) /\ t \in Int64 /\ number.err \in BOOLEAN BY <1>3, <1>4, DecodeFacts, SignedIsInt64
<1>6. n \in Nat /\ x.pos + n <= N BY <1>2, <1>5
<1>7. Held(x) \in Nat BY <1>1, HeldType
<1> HIDE DEF number
<1>8. CASE d = "dense"
  <2>1. Refused(d, x) <=> number.err \/ DenseRefused(x, t) BY <1>8 DEF Refused, number
  <2>2. y = [DenseTaken(x, t) EXCEPT !.pos = @ + n] BY <1>8 DEF Following, number
  <2>3. /\ DenseRefused(x, t) <=> ~FitsArray(x, t) \/ (t >= 0 /\ Held(x) + t > MaxCount)
        /\ ~DenseRefused(x, t) => DenseOK([DenseTaken(x, t) EXCEPT !.pos = @ + n])
                                  /\ Reads(x, [DenseTaken(x, t) EXCEPT !.pos = @ + n], t, n)
    BY <1>1, <1>2, <1>5, <1>6, <1>8, DenseReads DEF N
  <2> HIDE DEF y
  <2>4. Refused(d, x) <=> number.err \/ ~FitsArray(x, t) \/ (d = "dense" /\ t >= 0 /\ Held(x) + t > MaxCount)
    BY <1>8, <2>1, <2>3
  <2>5. ASSUME ~Refused(d, x)
        PROVE  /\ DecoderOK(d, y) /\ y.status = "filling" /\ Working(y) /\ Reads(x, y, t, n)
               /\ Held(y) = Held(x) + (IF t < 0 THEN 0 ELSE t)
    <3>1. DenseOK(y) /\ Reads(x, y, t, n) /\ FitsArray(x, t) BY <2>1, <2>2, <2>3, <2>5
    <3>2. y.status = "filling" BY <3>1 DEF Reads
    <3>3. Working(y) /\ Held(y) = Held(x) + (IF t < 0 THEN 0 ELSE t) BY <1>1, <1>2, <1>5, <1>6, <3>1, ReadKeeps DEF N
    <3> QED BY <1>8, <3>1, <3>2, <3>3 DEF DecoderOK
  <2> QED BY <1>1, <1>5, <1>7, <2>4, <2>5 DEF y, number, N
<1>9. CASE d # "dense"
  <2>1. Refused(d, x) <=> number.err \/ PackedRefused(x, t) BY <1>9 DEF Refused, number
  <2>2. y = [PackedTaken(x, t) EXCEPT !.pos = @ + n] BY <1>9 DEF Following, number
  <2>3. /\ PackedRefused(x, t) <=> ~FitsArray(x, t)
        /\ ~PackedRefused(x, t) => PackedOK([PackedTaken(x, t) EXCEPT !.pos = @ + n])
                                  /\ Reads(x, [PackedTaken(x, t) EXCEPT !.pos = @ + n], t, n)
    BY <1>1, <1>2, <1>5, <1>6, <1>9, PackedReads DEF N
  <2> HIDE DEF y
  <2>4. Refused(d, x) <=> number.err \/ ~FitsArray(x, t) \/ (d = "dense" /\ t >= 0 /\ Held(x) + t > MaxCount)
    BY <1>9, <2>1, <2>3
  <2>5. ASSUME ~Refused(d, x)
        PROVE  /\ DecoderOK(d, y) /\ y.status = "filling" /\ Working(y) /\ Reads(x, y, t, n)
               /\ Held(y) = Held(x) + (IF t < 0 THEN 0 ELSE t)
    <3>1. PackedOK(y) /\ Reads(x, y, t, n) /\ FitsArray(x, t) BY <2>1, <2>2, <2>3, <2>5
    <3>2. y.status = "filling" BY <3>1 DEF Reads
    <3>3. Working(y) /\ Held(y) = Held(x) + (IF t < 0 THEN 0 ELSE t) BY <1>1, <1>2, <1>5, <1>6, <3>1, ReadKeeps DEF N
    <3> QED BY <1>9, <3>1, <3>2, <3>3 DEF DecoderOK
  <2> QED BY <1>1, <1>5, <1>7, <2>4, <2>5 DEF y, number, N
<1> QED BY <1>8, <1>9

\* The end of either loop.
LEMMA EndStep ==
  ASSUME NEW d \in Decoders, NEW x, DecoderOK(d, x), x.status = "filling"
  PROVE  LET y == [x EXCEPT !.status = "ok"] IN
         /\ DecoderOK(d, y) /\ y.status = "ok" /\ y.pos = x.pos /\ y.dst = x.dst /\ y.geom = x.geom
         /\ y.total = x.total /\ y.ratio = x.ratio /\ y.counts = x.counts
         /\ Expanded(y) = Expanded(x) /\ Held(y) = Held(x)
<1> DEFINE y == [x EXCEPT !.status = "ok"]
<1>1. Working(x) /\ (d = "dense" => DenseOK(x)) /\ (d # "dense" => PackedOK(x)) BY StatusFacts
<1>2. DOMAIN x = Fields BY <1>1 DEF Working
<1>3. /\ DOMAIN y = Fields /\ y.status = "ok" /\ y.pos = x.pos /\ y.dst = x.dst /\ y.geom = x.geom
      /\ y.total = x.total /\ y.ratio = x.ratio /\ y.counts = x.counts
  BY <1>2, FieldNames
<1> HIDE DEF y
<1>4. Expanded(y) = Expanded(x) BY <1>3 DEF Expanded, CountAt
<1>5. Held(y) = Held(x) BY <1>3, <1>4 DEF Held
<1>6. Working(y) BY <1>1, <1>3, <1>4 DEF Working
<1>7. CASE d = "dense"
  <2>1. DenseOK(y) BY <1>1, <1>3, <1>4, <1>5, <1>6, <1>7 DEF DenseOK
  <2> QED BY <1>3, <1>4, <1>5, <1>7, <2>1 DEF DecoderOK, y
<1>8. CASE d # "dense"
  <2>1. PackedOK(y) BY <1>1, <1>3, <1>4, <1>5, <1>6, <1>8 DEF PackedOK
  <2> QED BY <1>3, <1>4, <1>5, <1>8, <2>1 DEF DecoderOK, y
<1> QED BY <1>7, <1>8

\* DecodeNumber, with these names.
LEMMA NumberAction ==
  ASSUME NEW d \in Decoders, DecodeNumber(d)
  PROVE  /\ dec[d].status = "filling" /\ Unfinished(dec[d])
         /\ dec' = [dec EXCEPT ![d] = IF Refused(d, dec[d]) THEN Failed ELSE Following(d, dec[d])]
         /\ UNCHANGED <<h, pc, src, out, stream, own>>
<1>1. CASE d = "dense" BY <1>1 DEF DecodeNumber, Refused, Following, Number
<1>2. CASE d # "dense" BY <1>2 DEF DecodeNumber, Refused, Following, Number
<1> QED BY <1>1, <1>2

\* Where the encoder goes from position i, and the number it writes for the way.
Beyond(x, i) == IF x.counts[i] = 0 THEN RunEnd(x.counts, i, CountsLimit(x)) ELSE i + 1
Token(x, i) == IF x.counts[i] = 0 THEN Run(Beyond(x, i) - i) ELSE x.counts[i]

\* One iteration of fillBufferFromCountsArray: what is written is a count, a single
\* zero or a run of zeros, which ends at a count or at the limit.
LEMMA FillFacts ==
  ASSUME NEW x, Proper(x), x.geom.countsLen <= MaxCount, NEW i \in Nat, i < CountsLimit(x)
  PROVE  LET e == Beyond(x, i)
             t == Token(x, i)
         IN  /\ e \in (i + 1)..CountsLimit(x) /\ i \in 0..(x.geom.countsLen - 1)
             /\ t \in Signed /\ t >= -MaxCount
             /\ t < 0 => e = i - t /\ \A k \in i..(e - 1) : x.counts[k] = 0
             /\ t >= 0 => e = i + 1 /\ t = x.counts[i]
             /\ x.counts[i] = 0 => e = CountsLimit(x) \/ x.counts[e] # 0
<1> DEFINE L == x.geom.countsLen
<1> DEFINE limit == CountsLimit(x)
<1> DEFINE e == Beyond(x, i)
<1> DEFINE t == Token(x, i)
<1> DEFINE c == x.counts
<1>1. L \in Nat \ {0} /\ limit \in 1..L BY LimitFacts
<1>2. c \in [0..(L - 1) -> 0..MaxCount] BY DEF Proper
<1>3. Signed = Int64 /\ MaxCount \in Nat /\ 0..MaxCount \subseteq Int64 BY SignedIsInt64, Int64Facts
<1> HIDE DEF limit
<1>4. i < limit /\ limit \in Nat /\ L <= MaxCount BY <1>1 DEF limit
<1>5. i \in 0..(L - 1) BY <1>1, <1>4
<1>6. CASE c[i] = 0
  <2>1. e = RunEnd(c, i, limit) BY <1>6 DEF Beyond, limit
  <2>2. t = Run(e - i) BY <1>6 DEF Token
  <2> HIDE DEF e, c, t, L
  <2>0. LET q == RunEnd(c, i, limit)
        IN  q \in (i + 1)..limit /\ (\A k \in (i + 1)..(q - 1) : c[k] = 0) /\ (q = limit \/ c[q] # 0)
    BY <1>4, RunEndFacts
  <2>3. e \in (i + 1)..limit /\ (\A k \in (i + 1)..(e - 1) : c[k] = 0) /\ (e = limit \/ c[e] # 0)
    BY <2>0, <2>1
  <2>4. CASE e - i > 1
    <3>1. t = -(e - i) BY <2>2, <2>4 DEF Run
    <3>2. e \in Nat /\ e <= MaxCount BY <1>1, <1>3, <1>4, <2>3
    <3>3. t \in Int /\ t < 0 /\ t >= -MaxCount /\ e = i - t BY <1>3, <2>4, <3>1, <3>2
    <3>4. t \in Int64 BY <1>3, <3>3 DEF Int64
    <3>5. \A k \in i..(e - 1) : k = i \/ k \in (i + 1)..(e - 1) BY <3>2
    <3>6. \A k \in i..(e - 1) : c[k] = 0 BY <1>6, <2>3, <3>5
    <3>7. ~(t >= 0) BY <3>3
    <3> QED BY <1>3, <1>5, <2>3, <3>3, <3>4, <3>6, <3>7 DEF t, e, c, L, limit
  <2>5. CASE ~(e - i > 1)
    <3>1. t = 0 BY <2>2, <2>5 DEF Run
    <3>2. e = i + 1 BY <1>4, <2>3, <2>5
    <3>3. 0 \in Int64 /\ 0 >= -MaxCount BY <1>3
    <3> QED BY <1>3, <1>5, <1>6, <2>3, <3>1, <3>2, <3>3 DEF t, e, c, L, limit
  <2> QED BY <2>4, <2>5
<1>7. CASE c[i] # 0
  <2>1. e = i + 1 /\ t = c[i] BY <1>7 DEF Beyond, Token
  <2>2. c[i] \in 0..MaxCount BY <1>2, <1>5
  <2>3. t \in Int64 /\ t >= 0 /\ t >= -MaxCount BY <1>3, <2>1, <2>2
  <2>4. e \in (i + 1)..limit BY <1>4, <2>1
  <2>5. ~(t < 0) BY <2>1, <2>2
  <2> HIDE DEF e, t, c, L
  <2> QED BY <1>3, <1>5, <1>7, <2>1, <2>3, <2>4, <2>5 DEF limit, e, t, c, L
<1> QED BY <1>6, <1>7

\* FillStep, with these names.
LEMMA FillAction ==
  ASSUME FillStep
  PROVE  /\ pc = "fill" /\ src < CountsLimit(h)
         /\ src' = Beyond(h, src) /\ out' = out \o EncodeI64(Token(h, src))
         /\ UNCHANGED <<h, pc, stream, own, dec>>
BY DEF FillStep, Beyond, Token

\* The encoded stream has the histogram's geometry.
LEMMA FramedFacts ==
  ASSUME ProgramOK
  PROVE  /\ Words(Framed(h, out)) /\ Framed(h, out).payload = out /\ out \in Seq(Byte)
         /\ WireAccepts(Framed(h, out)) /\ WireGeometry(Framed(h, out)) = h.geom
<1> DEFINE s == Framed(h, out)
<1>1. /\ s.size = 8 + ZlibSize /\ s.clen = ZlibSize /\ s.payloadLen = Len(out) /\ s.payload = out
      /\ s.sig = h.geom.sig /\ s.low = h.geom.low /\ s.high = h.geom.high
  BY DEF Framed
<1>2. /\ Built(h.geom) /\ h.geom.high \in -(MaxInt + 1)..MaxInt /\ h.geom.countsLen <= MaxCount
      /\ out \in Seq(Byte)
  BY DEF ProgramOK, Proper
<1> HIDE DEF s
<1>3. WireAccepts(s) /\ WireGeometry(s) = h.geom BY <1>1, <1>2, WireRebuilds
<1>4. h.geom.low \in 1..MaxInt /\ h.geom.sig \in 0..5 BY <1>2 DEF Built
<1>5. ZlibSize \in Nat /\ MaxInt \in Nat BY CodecAssumption, MaxIntFacts
<1>6. s.low \in -(MaxInt + 1)..MaxInt BY <1>1, <1>4, <1>5
<1>7. s.size \in Nat /\ s.clen \in Int /\ s.payloadLen \in Int /\ s.sig \in Int BY <1>1, <1>2, <1>4, <1>5
<1>8. {s.low, s.high} \subseteq -(MaxInt + 1)..MaxInt BY <1>1, <1>2, <1>6
<1>9. Words(s) BY <1>2, <1>3, <1>7, <1>8 DEF Words
<1> QED BY <1>1, <1>2, <1>3, <1>9 DEF s

\* What a decoder is depends only on its state and the stream.
LEMMA DecoderStays ==
  ASSUME UNCHANGED stream
  PROVE  \A d, x : DecoderOK(d, x) <=> DecoderOK(d, x)'
BY DEF DecoderOK, DenseOK, PackedOK, Working

\* Sound depends only on the variables.
LEMMA SoundStutters == Sound /\ UNCHANGED vars => Sound'
<1> SUFFICES ASSUME Sound, UNCHANGED vars PROVE Sound' OBVIOUS
<1>1. UNCHANGED <<h, pc, src, out, own>> /\ UNCHANGED stream /\ UNCHANGED dec BY DEF vars
<1>2. ProgramOK' BY <1>1 DEF Sound, ProgramOK, Proper
<1>3. \A d \in Decoders : DecoderOK(d, dec[d]) => DecoderOK(d, dec[d])' BY <1>1, DecoderStays
<1>4. DecodersOK' BY <1>1, <1>3 DEF Sound, DecodersOK, Words
<1> QED BY <1>2, <1>4 DEF Sound

LEMMA SoundInit == Init => Sound
<1> SUFFICES ASSUME Init PROVE Sound OBVIOUS
<1>1. PICK x \in Sources : h = Histogram(x) BY DEF Init
<1>2. pc = "idle" /\ src = 0 /\ out = <<>> /\ own = FALSE /\ dec = [d \in Decoders |-> NotStarted] BY DEF Init
<1>3. /\ x.geom.low \in 1..MaxInt /\ x.geom.high \in -(MaxInt + 1)..MaxInt
      /\ WireAccepts(x.geom) /\ x.geom = WireGeometry(x.geom)
      /\ x.counts \in [0..(x.geom.countsLen - 1) -> 0..MaxCount]
      /\ PrefixSum(x.counts)[x.geom.countsLen] <= MaxCount /\ x.geom.countsLen <= MaxCount
  BY CodecAssumption
<1>4. /\ h.geom = x.geom /\ h.counts = x.counts /\ h.total = PrefixSum(x.counts)[x.geom.countsLen]
  BY <1>1 DEF Histogram
<1>5. IsArgs(x.geom)
  <2>1. x.geom.sig \in Int BY <1>3 DEF WireAccepts
  <2>2. x.geom.low \in -(MaxInt + 1)..MaxInt BY <1>3, MaxIntFacts
  <2> QED BY <1>3, <2>1, <2>2 DEF IsArgs
<1>6. Built(x.geom) BY <1>3, <1>5, WireBuilt
<1>7. Proper(h) BY <1>3, <1>4, <1>6 DEF Proper
<1>8. 0 \in 0..h.geom.countsLen BY <1>4, <1>6, LengthOfBuilt
<1>9. ProgramOK
  <2>1. out \in Seq(Byte) /\ pc \in {"idle", "fill", "decode"} /\ own \in BOOLEAN
    <3>1. <<>> \in Seq(Byte) OBVIOUS
    <3>2. own \in BOOLEAN BY <1>2, Zenon
    <3> QED BY <1>2, <3>1, <3>2
  <2>2. h.geom.high \in -(MaxInt + 1)..MaxInt /\ h.geom.countsLen <= MaxCount BY <1>3, <1>4
  <2> QED BY <1>2, <1>7, <1>8, <2>1, <2>2 DEF ProgramOK
<1>10. DecodersOK BY <1>2 DEF DecodersOK
<1> QED BY <1>9, <1>10 DEF Sound

\* Every step keeps all of this.
LEMMA SoundNext == Sound /\ [Next]_vars => Sound'
<1> SUFFICES ASSUME Sound, Next PROVE Sound' BY SoundStutters
<1>0. ProgramOK /\ DecodersOK BY DEF Sound
<1>1. CASE Encode
  <2>1. /\ pc = "idle" /\ pc' = "fill" /\ src' = 0 /\ out' = <<>>
        /\ UNCHANGED <<h, own>> /\ UNCHANGED dec
    BY <1>1 DEF Encode
  <2>2. h.geom.countsLen \in Nat BY <1>0, LengthOfBuilt DEF ProgramOK, Proper
  <2>3. 0 \in 0..h.geom.countsLen /\ <<>> \in Seq(Byte) BY <2>2
  <2>4. ProgramOK' BY <1>0, <2>1, <2>3 DEF ProgramOK, Proper
  <2>5. DecodersOK' BY <1>0, <2>1 DEF DecodersOK
  <2> QED BY <2>4, <2>5 DEF Sound
<1>2. CASE FillStep
  <2>1. /\ pc = "fill" /\ src < CountsLimit(h)
        /\ src' = Beyond(h, src) /\ out' = out \o EncodeI64(Token(h, src))
        /\ UNCHANGED <<h, pc, stream, own, dec>>
    BY <1>2, FillAction
  <2>2. Proper(h) /\ h.geom.countsLen <= MaxCount /\ src \in 0..h.geom.countsLen /\ out \in Seq(Byte)
    BY <1>0 DEF ProgramOK
  <2>3. h.geom.countsLen \in Nat /\ CountsLimit(h) \in 1..h.geom.countsLen BY <2>2, LimitFacts
  <2>4. src \in Nat BY <2>2
  <2>5. Beyond(h, src) \in (src + 1)..CountsLimit(h) /\ Token(h, src) \in Signed BY <2>1, <2>2, <2>4, FillFacts
  <2>6. src' \in 0..h.geom.countsLen BY <2>1, <2>3, <2>4, <2>5
  <2>7. EncodeI64(Token(h, src)) \in Seq(Byte) BY <2>5, EncodeFacts
  <2>8. out' \in Seq(Byte) BY <2>1, <2>2, <2>7
  <2>9. ProgramOK' BY <1>0, <2>1, <2>6, <2>8 DEF ProgramOK, Proper
  <2>10. DecodersOK' BY <1>0, <2>1 DEF DecodersOK
  <2> QED BY <2>9, <2>10 DEF Sound
<1>3. CASE FillEnd
  <2>1. /\ stream' = Framed(h, out) /\ own' = TRUE /\ pc' = "decode"
        /\ dec' = [d \in Decoders |-> NotStarted] /\ src' = 0 /\ out' = <<>> /\ UNCHANGED h
    BY <1>3 DEF FillEnd
  <2>2. Words(Framed(h, out)) /\ Framed(h, out).payload \in Seq(Byte) BY <1>0, FramedFacts
  <2>3. h.geom.countsLen \in Nat BY <1>0, LengthOfBuilt DEF ProgramOK, Proper
  <2>4. 0 \in 0..h.geom.countsLen /\ <<>> \in Seq(Byte) BY <2>3
  <2>5. own' \in BOOLEAN BY <2>1, Zenon
  <2>6. ProgramOK' BY <1>0, <2>1, <2>4, <2>5 DEF ProgramOK, Proper
  <2>7. Words(stream)' /\ stream'.payload \in Seq(Byte) BY <2>1, <2>2 DEF Words
  <2>8. DecodersOK'
    <3>1. DOMAIN dec' = Decoders /\ \A d \in Decoders : dec'[d] = NotStarted BY <2>1
    <3>2. \A d \in Decoders : DecoderOK(d, dec[d])' BY <3>1 DEF DecoderOK
    <3> QED BY <2>1, <2>7, <3>1, <3>2 DEF DecodersOK
  <2> QED BY <2>6, <2>8 DEF Sound
<1>4. ASSUME NEW s \in Streams, Receive(s) PROVE Sound'
  <2>1. /\ pc = "idle" /\ pc' = "decode" /\ stream' = s /\ own' = FALSE
        /\ dec' = [d \in Decoders |-> NotStarted] /\ UNCHANGED <<h, src, out>>
    BY <1>4 DEF Receive
  <2>2. Words(s) /\ s.payload \in Seq(Byte) BY CodecAssumption
  <2>3. own' \in BOOLEAN BY <2>1, Zenon
  <2>4. ProgramOK' BY <1>0, <2>1, <2>3 DEF ProgramOK, Proper
  <2>5. Words(stream)' /\ stream'.payload \in Seq(Byte) BY <2>1, <2>2 DEF Words
  <2>6. DecodersOK'
    <3>1. DOMAIN dec' = Decoders /\ \A d \in Decoders : dec'[d] = NotStarted BY <2>1
    <3>2. \A d \in Decoders : DecoderOK(d, dec[d])' BY <3>1 DEF DecoderOK
    <3> QED BY <2>1, <2>5, <3>1, <3>2 DEF DecodersOK
  <2> QED BY <2>4, <2>6 DEF Sound
<1>5. ASSUME NEW d \in Decoders, DecodeFrame(d) \/ DecodeNumber(d) \/ DecodeEnd(d) PROVE Sound'
  <2>1. UNCHANGED <<h, pc, src, out, own>> /\ UNCHANGED stream BY <1>5, NumberAction DEF DecodeFrame, DecodeEnd
  <2>2. ProgramOK' BY <1>0, <2>1 DEF ProgramOK, Proper
  <2>3. pc = "decode"
    <3>1. NotStarted.status = "none" BY DEF NotStarted
    <3>2. pc = "decode" \/ dec[d].status = "filling" BY <1>5, NumberAction DEF DecodeFrame, DecodeEnd
    <3> QED BY <1>0, <3>1, <3>2 DEF DecodersOK
  <2>4. /\ Words(stream) /\ stream.payload \in Seq(Byte) /\ DOMAIN dec = Decoders
        /\ \A q \in Decoders : DecoderOK(q, dec[q])
    BY <1>0, <2>3 DEF DecodersOK
  <2>5. \E y : DecoderOK(d, y) /\ dec' = [dec EXCEPT ![d] = y]
    <3>1. CASE DecodeFrame(d)
      <4>1. dec' = [dec EXCEPT ![d] = IF Accepted(d) THEN Blank(d) ELSE Failed] BY <3>1 DEF DecodeFrame
      <4>2. CASE Accepted(d)
        <5>1. WireAccepts(stream) BY <4>2 DEF Accepted, HeaderAccepted, PackedHeaderAccepted
        <5>2. DecoderOK(d, Blank(d)) BY <2>4, <5>1, BlankFacts
        <5> QED BY <4>1, <4>2, <5>2
      <4>3. CASE ~Accepted(d)
        <5>1. DecoderOK(d, Failed) BY DEF DecoderOK
        <5> QED BY <4>1, <4>3, <5>1
      <4> QED BY <4>2, <4>3
    <3>2. CASE DecodeNumber(d)
      <4>1. /\ dec[d].status = "filling" /\ Unfinished(dec[d])
            /\ dec' = [dec EXCEPT ![d] = IF Refused(d, dec[d]) THEN Failed ELSE Following(d, dec[d])]
        BY <3>2, NumberAction
      <4>2. CASE Refused(d, dec[d])
        <5>1. DecoderOK(d, Failed) BY DEF DecoderOK
        <5> QED BY <4>1, <4>2, <5>1
      <4>3. CASE ~Refused(d, dec[d])
        <5>1. DecoderOK(d, Following(d, dec[d])) BY <2>4, <4>1, <4>3, NumberStep
        <5> QED BY <4>1, <4>3, <5>1
      <4> QED BY <4>2, <4>3
    <3>3. CASE DecodeEnd(d)
      <4> DEFINE y == [dec[d] EXCEPT !.status = "ok"]
      <4>1. dec[d].status = "filling" /\ dec' = [dec EXCEPT ![d] = y] BY <3>3 DEF DecodeEnd
      <4>2. DecoderOK(d, y) BY <2>4, <4>1, EndStep
      <4> HIDE DEF y
      <4> QED BY <4>1, <4>2
    <3> QED BY <1>5, <3>1, <3>2, <3>3
  <2>6. PICK y : DecoderOK(d, y) /\ dec' = [dec EXCEPT ![d] = y] BY <2>5
  <2>7. DOMAIN dec' = Decoders /\ \A q \in Decoders : DecoderOK(q, dec'[q])
    <3>1. DOMAIN dec' = Decoders /\ \A q \in Decoders : dec'[q] = IF q = d THEN y ELSE dec[q] BY <2>4, <2>6
    <3> QED BY <2>4, <2>6, <3>1
  <2>8. \A q \in Decoders : DecoderOK(q, dec[q])'
    <3> SUFFICES ASSUME NEW q \in Decoders PROVE DecoderOK(q, dec[q])' OBVIOUS
    <3>1. PICK z : z = dec'[q] OBVIOUS
    <3>2. DecoderOK(q, z) BY <2>7, <3>1
    <3>3. DecoderOK(q, z)' BY <2>1, <3>2, DecoderStays
    <3> QED BY <3>1, <3>3 DEF DecoderOK, DenseOK, PackedOK, Working, Held, Expanded, CountAt
  <2>9. DecodersOK' BY <2>1, <2>3, <2>4, <2>7, <2>8 DEF DecodersOK, Words
  <2> QED BY <2>2, <2>9 DEF Sound
<1>6. CASE Adopt
  <2> DEFINE x == dec["dense"]
  <2>1. /\ pc = "decode" /\ pc' = "idle" /\ own' = FALSE /\ dec' = [d \in Decoders |-> NotStarted]
        /\ UNCHANGED <<src, out>>
        /\ h' = IF x.status = "ok" THEN [geom |-> x.geom, counts |-> x.counts, ratio |-> x.ratio, total |-> x.total]
                ELSE h
    BY <1>6 DEF Adopt
  <2>2. DecoderOK("dense", x) /\ Words(stream) BY <1>0, <2>1, DecoderNames DEF DecodersOK
  <2>3. src = 0 /\ out = <<>> BY <1>0, <2>1 DEF ProgramOK
  <2>4. own' \in BOOLEAN BY <2>1, Zenon
  <2>5. Proper(h') /\ h'.geom.high \in -(MaxInt + 1)..MaxInt /\ h'.geom.countsLen <= MaxCount
    <3>1. CASE x.status = "ok"
      <4>1. DenseOK(x) BY <2>2, <3>1, StatusFacts
      <4>2. Working(x) BY <4>1 DEF DenseOK
      <4> HIDE DEF x
      <4>3. h'.geom = x.geom /\ h'.counts = x.counts /\ h'.total = x.total BY <2>1, <3>1
      <4>4. Built(x.geom) /\ x.geom = WireGeometry(stream)
            /\ x.counts \in [0..(x.geom.countsLen - 1) -> 0..MaxCount]
        BY <4>1, <4>2 DEF Working, DenseOK
      <4>5. x.total = PrefixSum(x.counts)[x.geom.countsLen] /\ x.total <= MaxCount BY <4>1 DEF DenseOK, Held
      <4>6. Proper(h') BY <4>3, <4>4, <4>5 DEF Proper
      <4>7. x.geom.high \in -(MaxInt + 1)..MaxInt /\ x.geom.countsLen <= MaxCount
        <5>1. WireGeometry(stream).high = stream.high BY DEF WireGeometry, ExactGeometry
        <5>2. WireAccepts(stream)
          <6>1. x.geom.sig = stream.sig /\ x.geom.low = ClampLow(stream.low) BY <4>4 DEF WireGeometry, ExactGeometry
          <6>2. x.geom.sig \in 0..5 /\ Representable(x.geom.low, x.geom.sig) BY <4>4 DEF Built
          <6> QED BY <6>1, <6>2 DEF WireAccepts
        <5> QED BY <2>2, <4>4, <5>1, <5>2 DEF Words
      <4> QED BY <4>3, <4>6, <4>7
    <3>2. CASE x.status # "ok"
      <4>1. h' = h BY <2>1, <3>2
      <4> QED BY <1>0, <4>1 DEF ProgramOK
    <3> QED BY <3>1, <3>2
  <2>6. h'.geom.countsLen \in Nat BY <2>5, LengthOfBuilt DEF Proper
  <2>7. src' \in 0..h'.geom.countsLen /\ out' \in Seq(Byte) /\ src' = 0 /\ out' = <<>>
    <3>1. <<>> \in Seq(Byte) OBVIOUS
    <3> QED BY <2>1, <2>3, <2>6, <3>1
  <2>8. ProgramOK' BY <2>1, <2>4, <2>5, <2>7 DEF ProgramOK, Proper
  <2>9. DecodersOK'
    <3>1. DOMAIN dec' = Decoders /\ \A d \in Decoders : dec'[d] = NotStarted BY <2>1
    <3> QED BY <2>1, <3>1 DEF DecodersOK
  <2> QED BY <2>8, <2>9 DEF Sound
<1> QED BY <1>1, <1>2, <1>3, <1>4, <1>5, <1>6 DEF Next

LEMMA AlwaysSound == Spec => []Sound
BY SoundInit, SoundNext, PTL DEF Spec

\* A histogram that Decode is building or has returned, and so the program's, is one
\* that recording could have built, whatever the stream (fillCountsArrayFromSourceBuffer
\* checks every number before it uses it).
THEOREM DecodedIsSound == Spec => []DecodedSound
<1>1. Sound => DecodedSound
  <2> SUFFICES ASSUME Sound PROVE DecodedSound OBVIOUS
  <2>1. ProgramOK /\ DecodersOK BY DEF Sound
  <2>2. h.total = PrefixSum(h.counts)[h.geom.countsLen] /\ h.counts \in [0..(h.geom.countsLen - 1) -> 0..MaxCount]
    BY <2>1 DEF ProgramOK, Proper
  <2>3. \A d \in Decoders : DecoderOK(d, dec[d]) BY <2>1 DEF DecodersOK, DecoderOK
  <2>4. ASSUME NEW d \in Decoders
        PROVE  /\ dec[d].status \in {"none", "filling", "ok", "error"}
               /\ dec[d].status \in {"filling", "ok"} => /\ dec[d].pos \in 0..Len(stream.payload)
                                                         /\ dec[d].dst \in 0..dec[d].geom.countsLen
                                                         /\ dec[d].total \in 0..MaxCount
    <3> DEFINE x == dec[d]
    <3>1. DecoderOK(d, x) BY <2>3
    <3> HIDE DEF x
    <3>2. x.status \in {"none", "filling", "ok", "error"} BY <3>1, StatusFacts
    <3>3. ASSUME x.status \in {"filling", "ok"}
          PROVE  x.pos \in 0..Len(stream.payload) /\ x.dst \in 0..x.geom.countsLen /\ x.total \in 0..MaxCount
      <4>1. Working(x) /\ IF d = "dense" THEN DenseOK(x) ELSE PackedOK(x) BY <3>1, <3>3, StatusFacts
      <4>2. Held(x) \in Nat /\ MaxCount \in Nat BY <4>1, HeldType
      <4>3. (x.total = Held(x) /\ Held(x) <= MaxCount) \/ x.total = Smaller(MaxCount, Held(x))
        BY <4>1 DEF DenseOK, PackedOK
      <4>4. x.total \in 0..MaxCount BY <4>2, <4>3 DEF Smaller
      <4> QED BY <4>1, <4>4 DEF Working
    <3> QED BY <3>2, <3>3 DEF x
  <2>5. TypeOK BY <2>1, <2>2, <2>4 DEF TypeOK, ProgramOK
  <2>6. ASSUME dec["dense"].status \in {"filling", "ok"}
        PROVE  LET x == dec["dense"]
               IN  /\ x.total = PrefixSum(x.counts)[x.geom.countsLen]
                   /\ \A i \in DOMAIN x.counts : x.counts[i] >= 0 /\ (i >= x.dst => x.counts[i] = 0)
    <3> DEFINE x == dec["dense"]
    <3>1. DecoderOK("dense", x) BY <2>3, DecoderNames
    <3> HIDE DEF x
    <3>2. DenseOK(x) BY <2>6, <3>1, StatusFacts DEF x
    <3>3. Working(x) /\ x.counts = Expanded(x) /\ x.total = Held(x) BY <3>2 DEF DenseOK
    <3>4. x.total = PrefixSum(x.counts)[x.geom.countsLen] BY <3>3 DEF Held
    <3>5. /\ x.counts \in [0..(x.geom.countsLen - 1) -> 0..MaxCount]
          /\ \A i \in 0..(x.geom.countsLen - 1) : i >= x.dst => x.counts[i] = 0
      BY <3>3 DEF Working
    <3>6. MaxCount \in Nat BY SignedIsInt64
    <3>7. \A i \in DOMAIN x.counts : x.counts[i] >= 0 /\ (i >= x.dst => x.counts[i] = 0)
      <4> SUFFICES ASSUME NEW i \in DOMAIN x.counts PROVE x.counts[i] >= 0 /\ (i >= x.dst => x.counts[i] = 0) OBVIOUS
      <4>1. i \in 0..(x.geom.countsLen - 1) BY <3>5
      <4>2. x.counts[i] \in 0..MaxCount BY <3>5, <4>1
      <4> QED BY <3>5, <3>6, <4>1, <4>2
    <3> QED BY <3>4, <3>7 DEF x
  <2> QED BY <2>2, <2>5, <2>6 DEF DecodedSound
<1> QED BY <1>1, AlwaysSound, PTL

\* A decoder finds the numbers of any payload where an encoder would put them
\* (zigZagDecodeI64 and zigZagEncodeI64), and reports an error only where the payload
\* ends inside a number.
THEOREM NumbersAreExact == Spec => []NumbersExact
<1>1. Sound => NumbersExact
  <2> SUFFICES ASSUME Sound, NEW d \in Decoders, dec[d].status = "filling", dec[d].pos < Len(stream.payload)
               PROVE  LET rest == SubSeq(stream.payload, dec[d].pos + 1, Len(stream.payload))
                          number == DecodeI64(rest)
                          again == EncodeI64(number.value)
                      IN  IF number.err THEN Len(rest) < MaxBytes /\ \A i \in 1..Len(rest) : rest[i] >= More
                          ELSE /\ number.value \in Signed
                               /\ Len(again) <= number.n /\ number.n <= MaxBytes
                               /\ DecodeI64(again \o rest) = [value |-> number.value, n |-> Len(again), err |-> FALSE]
    BY DEF NumbersExact
  <2> DEFINE x == dec[d]
  <2> DEFINE rest == SubSeq(stream.payload, x.pos + 1, Len(stream.payload))
  <2> DEFINE number == DecodeI64(rest)
  <2> DEFINE v == number.value
  <2> DEFINE again == EncodeI64(v)
  <2>1. DecoderOK(d, x) /\ stream.payload \in Seq(Byte)
    <3>1. NotStarted.status = "none" BY DEF NotStarted
    <3>2. DecodersOK BY DEF Sound
    <3> QED BY <3>1, <3>2 DEF DecodersOK
  <2>2. x.pos \in 0..Len(stream.payload) /\ x.pos < Len(stream.payload)
    <3>1. Working(x) BY <2>1, StatusFacts
    <3> QED BY <3>1 DEF Working
  <2> HIDE DEF x
  <2>3. rest \in Seq(Byte) /\ rest # <<>> BY <2>1, <2>2, RestFacts
  <2> HIDE DEF rest
  <2>4. /\ number.err \in BOOLEAN /\ v \in Signed
        /\ ~number.err => number.n <= MaxBytes
        /\ number.err => Len(rest) < MaxBytes /\ \A i \in 1..Len(rest) : rest[i] >= More
    BY <2>3, DecodeFacts
  <2>5. ~number.err => Len(again) <= number.n BY <2>3, WrittenAgain
  <2> HIDE DEF number
  <2>6. again \in Seq(Byte) BY <2>4, EncodeFacts
  <2>7. DecodeI64(again \o rest) = [value |-> v, n |-> Len(again), err |-> FALSE]
    <3> DEFINE b == again \o rest
    <3>1. b \in Seq(Byte) /\ Len(b) >= Len(again) /\ \A i \in 1..Len(again) : b[i] = again[i]
      <4> HIDE DEF again
      <4> QED BY <2>3, <2>6
    <3> HIDE DEF b
    <3>2. DecodeI64(b) = [value |-> v, n |-> Len(again), err |-> FALSE] BY <2>4, <3>1, EncodeDecode
    <3> QED BY <3>2 DEF b
  <2> HIDE DEF again, v
  <2> QED BY <2>4, <2>5, <2>7 DEF again, v, number, rest, x
<1> QED BY <1>1, AlwaysSound, PTL

-----------------------------------------------------------------------------
(* The two decoders on the same stream.                                     *)

\* At the same place with the same counts.
Alike(x, p) ==
  x.pos = p.pos /\ x.dst = p.dst /\ x.geom = p.geom /\ x.ratio = p.ratio /\ Expanded(x) = Expanded(p)

\* The states that Decode went through, from the empty histogram to the K-th number.
History(K, g) ==
  /\ K \in Nat /\ g[0] = Blank("dense")
  /\ \A k \in 0..K : DecoderOK("dense", g[k]) /\ g[k].status = "filling"
  /\ \A k \in 0..(K - 1) : /\ Unfinished(g[k]) /\ ~Refused("dense", g[k])
                           /\ g[k + 1] = Following("dense", g[k])

\* Where they led: x is reading still, has come to the end, or was refused a number.
Leads(K, g, x) ==
  \/ x = g[K]
  \/ ~Unfinished(g[K]) /\ x = [g[K] EXCEPT !.status = "ok"]
  \/ Unfinished(g[K]) /\ Refused("dense", g[K]) /\ x = Failed

\* DecodePacked goes through the same states; it alone goes on where the sum passes
\* MaxInt64.
Shadows(K, g, x, p) ==
  \/ p = NotStarted
  \/ p.status = "filling" /\ x.status \in {"ok", "error"} /\ \E k \in 0..K : Alike(g[k], p)
  \/ p.status = "ok" /\ x.status = "ok" /\ Alike(g[K], p)
  \/ p.status \in {"filling", "ok"} /\ x = Failed /\ Held(p) > MaxCount
  \/ p = Failed /\ x = Failed

Together(x, p) ==
  \/ x = NotStarted /\ p = NotStarted
  \/ ~Accepted("dense") /\ x = Failed /\ p \in {NotStarted, Failed}
  \/ Accepted("dense") /\ \E K, g : History(K, g) /\ Leads(K, g, x) /\ Shadows(K, g, x, p)

Agreeing == pc = "decode" => \E x, p : x = dec["dense"] /\ p = dec["packed"] /\ Together(x, p)

\* The two functions check a frame and a header alike.
LEMMA SameFrames == ASSUME Words(stream) PROVE Accepted("dense") <=> Accepted("packed")
<1>1. stream.clen \in Int /\ stream.size \in Nat BY DEF Words
<1>2. stream.clen \in 0..(stream.size - 8) <=> stream.clen >= 0 /\ stream.clen <= stream.size - 8 BY <1>1
<1>3. Accepted("dense") <=> FrameAccepted(stream) /\ HeaderAccepted(stream) BY DEF Accepted
<1>4. Accepted("packed") <=> PackedFrameAccepted(stream) /\ PackedHeaderAccepted(stream)
  BY DecoderNames DEF Accepted
<1>5. FrameAccepted(stream) <=> PackedFrameAccepted(stream) BY <1>2 DEF FrameAccepted, PackedFrameAccepted
<1>6. HeaderAccepted(stream) <=> PackedHeaderAccepted(stream) BY DEF HeaderAccepted, PackedHeaderAccepted
<1> QED BY <1>3, <1>4, <1>5, <1>6

\* One number for both decoders.
LEMMA SameNumber ==
  ASSUME NEW x, DecoderOK("dense", x), x.status = "filling",
         NEW p, DecoderOK("packed", p), p.status = "filling",
         Alike(x, p), Unfinished(p), stream.payload \in Seq(Byte)
  PROVE  /\ Unfinished(x)
         /\ Refused("packed", p) => Refused("dense", x)
         /\ ~Refused("dense", x) => Alike(Following("dense", x), Following("packed", p))
         /\ Refused("dense", x) /\ ~Refused("packed", p) => Held(Following("packed", p)) > MaxCount
<1> DEFINE t == Number(p).value
<1> DEFINE n == Number(p).n
<1> DEFINE y == Following("dense", x)
<1> DEFINE q == Following("packed", p)
<1>1. Unfinished(x) BY DEF Unfinished, Alike
<1>2. Number(x) = Number(p) BY DEF Number, Alike
<1>3. /\ t \in Int64 /\ Working(x)
      /\ Refused("dense", x) <=> Number(p).err \/ ~FitsArray(x, t) \/ (t >= 0 /\ Held(x) + t > MaxCount)
      /\ ~Refused("dense", x) => Reads(x, y, t, n)
  BY <1>1, <1>2, NumberStep, DecoderNames
<1>4. /\ Held(p) \in Nat
      /\ Refused("packed", p) <=> Number(p).err \/ ~FitsArray(p, t)
      /\ ~Refused("packed", p) => Reads(p, q, t, n) /\ Held(q) = Held(p) + (IF t < 0 THEN 0 ELSE t)
  BY NumberStep, DecoderNames
<1> HIDE DEF y, q, t, n
<1>5. x.pos = p.pos /\ x.dst = p.dst /\ x.geom = p.geom /\ x.ratio = p.ratio /\ Expanded(x) = Expanded(p)
  BY DEF Alike
<1>6. FitsArray(x, t) <=> FitsArray(p, t) BY <1>5 DEF FitsArray
<1>7. Held(x) = Held(p) BY <1>5 DEF Held
<1>8. t \in Int BY <1>3, Int64Facts
<1>9. Refused("packed", p) => Refused("dense", x) BY <1>3, <1>4, <1>6
<1>10. ASSUME ~Refused("dense", x) PROVE Alike(y, q)
  <2>1. Reads(x, y, t, n) /\ Reads(p, q, t, n) BY <1>3, <1>4, <1>9, <1>10
  <2> QED BY <1>5, <2>1 DEF Reads, Alike
<1>11. ASSUME Refused("dense", x), ~Refused("packed", p) PROVE Held(q) > MaxCount
  <2>1. t >= 0 /\ Held(p) + t > MaxCount BY <1>3, <1>4, <1>6, <1>7, <1>11
  <2>2. ~(t < 0) BY <1>8, <2>1
  <2> QED BY <1>4, <1>11, <2>1, <2>2
<1> QED BY <1>1, <1>9, <1>10, <1>11 DEF y, q

\* These predicates depend on the stream only.
LEMMA TogetherStays ==
  ASSUME UNCHANGED stream
  PROVE  \A x, p : Together(x, p) <=> Together(x, p)'
BY DEF Together, Accepted, History, Leads, Shadows, Blank, DecoderOK, DenseOK, PackedOK, Working, Unfinished,
       Refused, Following, Number

\* The states of a decoder have different statuses.
LEMMA Statuses ==
  /\ NotStarted.status = "none" /\ Failed.status = "error" /\ NotStarted # Failed
  /\ "none" # "error" /\ "none" # "filling" /\ "none" # "ok" /\ "error" # "filling" /\ "error" # "ok"
BY DEF NotStarted, Failed

\* Where Decode is, and that DecodePacked has not begun, while it reads.
LEMMA WhileReading ==
  ASSUME NEW x, NEW p, Together(x, p), x.status = "filling"
  PROVE  /\ Accepted("dense") /\ p = NotStarted
         /\ \E K, g : History(K, g) /\ x = g[K]
<1>1. x # NotStarted /\ x # Failed BY Statuses
<1>2. PICK K, g : History(K, g) /\ Leads(K, g, x) /\ Shadows(K, g, x, p) BY <1>1 DEF Together
<1>3. Accepted("dense") BY <1>1 DEF Together
<1>4. K \in Nat /\ K \in 0..K BY <1>2 DEF History
<1>5. DecoderOK("dense", g[K]) /\ g[K].status = "filling" BY <1>2, <1>4 DEF History
<1>6. x = g[K]
  <2>1. CASE x = [g[K] EXCEPT !.status = "ok"]
    <3>1. x.status = "ok" BY <1>5, <2>1, EndStep, DecoderNames
    <3> QED BY <3>1
  <2> QED BY <1>1, <1>2, <2>1 DEF Leads
<1>7. p = NotStarted BY <1>1, <1>2 DEF Shadows
<1> QED BY <1>2, <1>3, <1>6, <1>7

\* Decode starts.
LEMMA DenseStarts ==
  ASSUME NEW p, Together(NotStarted, p), Words(stream), stream.payload \in Seq(Byte)
  PROVE  Together(IF Accepted("dense") THEN Blank("dense") ELSE Failed, p)
<1>1. p = NotStarted
  <2>1. CASE NotStarted = Failed BY <2>1, Statuses
  <2>2. CASE \E K, g : History(K, g) /\ Leads(K, g, NotStarted) /\ Shadows(K, g, NotStarted, p)
    <3>1. PICK K, g : History(K, g) /\ Leads(K, g, NotStarted) /\ Shadows(K, g, NotStarted, p) BY <2>2
    <3> QED BY <3>1, Statuses DEF Shadows
  <2> QED BY <2>1, <2>2 DEF Together
<1>2. CASE ~Accepted("dense") BY <1>1, <1>2 DEF Together
<1>3. CASE Accepted("dense")
  <2> DEFINE x == Blank("dense")
  <2> DEFINE g == [k \in 0..0 |-> x]
  <2>1. WireAccepts(stream) BY <1>3 DEF Accepted, HeaderAccepted
  <2>2. DecoderOK("dense", x) /\ x.status = "filling" BY <2>1, BlankFacts, DecoderNames
  <2> HIDE DEF x
  <2>3. g[0] = x /\ \A k \in 0..0 : k = 0 OBVIOUS
  <2> HIDE DEF g
  <2>4. History(0, g)
    <3>1. 0..(0 - 1) = {} OBVIOUS
    <3> QED BY <2>2, <2>3, <3>1 DEF History, x
  <2>5. Leads(0, g, x) BY <2>3 DEF Leads
  <2>6. Shadows(0, g, x, p) BY <1>1 DEF Shadows
  <2>7. Together(x, p) BY <1>3, <2>4, <2>5, <2>6 DEF Together
  <2> QED BY <1>3, <2>7 DEF x
<1> QED BY <1>2, <1>3

\* Decode reads a number.
LEMMA DenseGoesOn ==
  ASSUME NEW x, NEW p, Together(x, p), x.status = "filling", DecoderOK("dense", x), Unfinished(x),
         stream.payload \in Seq(Byte)
  PROVE  Together(IF Refused("dense", x) THEN Failed ELSE Following("dense", x), p)
<1>1. Accepted("dense") /\ p = NotStarted BY WhileReading
<1>2. PICK K, g : History(K, g) /\ x = g[K] BY WhileReading
<1>3. CASE Refused("dense", x)
  <2>1. Leads(K, g, Failed) BY <1>2, <1>3 DEF Leads
  <2>2. Shadows(K, g, Failed, p) BY <1>1 DEF Shadows
  <2>3. Together(Failed, p) BY <1>1, <1>2, <2>1, <2>2 DEF Together
  <2> QED BY <1>3, <2>3
<1>4. CASE ~Refused("dense", x)
  <2> DEFINE y == Following("dense", x)
  <2> DEFINE f == [k \in 0..(K + 1) |-> IF k = K + 1 THEN y ELSE g[k]]
  <2>1. DecoderOK("dense", y) /\ y.status = "filling" BY <1>4, NumberStep, DecoderNames
  <2> HIDE DEF y
  <2>2. K \in Nat BY <1>2 DEF History
  <2>3. f[K + 1] = y /\ (\A k \in 0..K : f[k] = g[k]) BY <2>2
  <2> HIDE DEF f
  <2>4. History(K + 1, f)
    <3>1. 0 \in 0..K /\ K \in 0..K /\ K + 1 \in Nat /\ (K + 1) - 1 = K BY <2>2
    <3>2. f[0] = Blank("dense") BY <1>2, <2>3, <3>1 DEF History
    <3>3. ASSUME NEW k \in 0..(K + 1) PROVE DecoderOK("dense", f[k]) /\ f[k].status = "filling"
      <4>1. CASE k = K + 1 BY <2>1, <2>3, <4>1
      <4>2. CASE k # K + 1
        <5>1. k \in 0..K BY <2>2, <4>2
        <5> QED BY <1>2, <2>3, <5>1 DEF History
      <4> QED BY <4>1, <4>2
    <3>4. ASSUME NEW k \in 0..K
          PROVE  Unfinished(f[k]) /\ ~Refused("dense", f[k]) /\ f[k + 1] = Following("dense", f[k])
      <4>1. CASE k = K
        <5>1. f[k] = x BY <1>2, <2>3, <3>1, <4>1
        <5> QED BY <1>4, <2>3, <4>1, <5>1 DEF y
      <4>2. CASE k # K
        <5>1. k \in 0..(K - 1) /\ k + 1 \in 0..K BY <2>2, <4>2
        <5>2. Unfinished(g[k]) /\ ~Refused("dense", g[k]) /\ g[k + 1] = Following("dense", g[k])
          BY <1>2, <5>1 DEF History
        <5> QED BY <2>3, <5>1, <5>2
      <4> QED BY <4>1, <4>2
    <3> QED BY <3>1, <3>2, <3>3, <3>4 DEF History
  <2>5. Leads(K + 1, f, y) BY <2>3 DEF Leads
  <2>6. Shadows(K + 1, f, y, p) BY <1>1 DEF Shadows
  <2>7. Together(y, p) BY <1>1, <2>4, <2>5, <2>6 DEF Together
  <2> QED BY <1>4, <2>7 DEF y
<1> QED BY <1>3, <1>4

\* Decode comes to the end.
LEMMA DenseEnds ==
  ASSUME NEW x, NEW p, Together(x, p), x.status = "filling", ~Unfinished(x)
  PROVE  Together([x EXCEPT !.status = "ok"], p)
<1>1. Accepted("dense") /\ p = NotStarted BY WhileReading
<1>2. PICK K, g : History(K, g) /\ x = g[K] BY WhileReading
<1> DEFINE y == [x EXCEPT !.status = "ok"]
<1>3. Leads(K, g, y) BY <1>2 DEF Leads
<1> HIDE DEF y
<1>4. Shadows(K, g, y, p) BY <1>1 DEF Shadows
<1> QED BY <1>1, <1>2, <1>3, <1>4 DEF Together, y

\* What is known once Decode has finished with a frame that is accepted.
LEMMA AfterDense ==
  ASSUME NEW x, NEW p, Together(x, p), x.status \in {"ok", "error"}, Accepted("dense")
  PROVE  \E K, g : /\ History(K, g) /\ Leads(K, g, x) /\ Shadows(K, g, x, p)
                   /\ x.status = "ok" => ~Unfinished(g[K]) /\ x = [g[K] EXCEPT !.status = "ok"]
                   /\ x.status = "error" => Unfinished(g[K]) /\ Refused("dense", g[K]) /\ x = Failed
<1>1. x # NotStarted BY Statuses
<1>2. PICK K, g : History(K, g) /\ Leads(K, g, x) /\ Shadows(K, g, x, p) BY <1>1 DEF Together
<1>3. K \in Nat /\ K \in 0..K BY <1>2 DEF History
<1>4. DecoderOK("dense", g[K]) /\ g[K].status = "filling" BY <1>2, <1>3 DEF History
<1>5. [g[K] EXCEPT !.status = "ok"].status = "ok" BY <1>4, EndStep, DecoderNames
<1>6. x # g[K] BY <1>4
<1>7. /\ x.status = "ok" => ~Unfinished(g[K]) /\ x = [g[K] EXCEPT !.status = "ok"]
      /\ x.status = "error" => Unfinished(g[K]) /\ Refused("dense", g[K]) /\ x = Failed
  BY <1>2, <1>5, <1>6, Statuses DEF Leads
<1> QED BY <1>2, <1>7

\* DecodePacked starts.
LEMMA PackedStarts ==
  ASSUME NEW x, Together(x, NotStarted), x.status \in {"ok", "error"}, Words(stream), stream.payload \in Seq(Byte)
  PROVE  Together(x, IF Accepted("packed") THEN Blank("packed") ELSE Failed)
<1>1. Accepted("dense") <=> Accepted("packed") BY SameFrames
<1>2. x # NotStarted BY Statuses
<1>3. CASE ~Accepted("packed")
  <2>1. x = Failed BY <1>1, <1>2, <1>3 DEF Together
  <2>2. Together(x, Failed) BY <1>1, <1>3, <2>1 DEF Together
  <2> QED BY <1>3, <2>2
<1>4. CASE Accepted("packed")
  <2> DEFINE p == Blank("packed")
  <2>1. PICK K, g : History(K, g) /\ Leads(K, g, x) BY <1>1, <1>4, AfterDense
  <2>2. WireAccepts(stream) BY <1>1, <1>4 DEF Accepted, HeaderAccepted
  <2>3. K \in Nat /\ 0 \in 0..K /\ g[0] = Blank("dense") BY <2>1 DEF History
  <2>4. Alike(Blank("dense"), p) BY <2>2, BlankFacts, DecoderNames DEF Alike
  <2>5. p.status = "filling" BY <2>2, BlankFacts, DecoderNames
  <2> HIDE DEF p
  <2>6. Shadows(K, g, x, p) BY <2>3, <2>4, <2>5 DEF Shadows
  <2>7. Together(x, p) BY <1>1, <1>4, <2>1, <2>6 DEF Together
  <2> QED BY <1>4, <2>7 DEF p
<1> QED BY <1>3, <1>4

\* DecodePacked reads a number.
LEMMA PackedGoesOn ==
  ASSUME NEW x, NEW p, Together(x, p), x.status \in {"ok", "error"}, p.status = "filling",
         DecoderOK("packed", p), Unfinished(p), stream.payload \in Seq(Byte)
  PROVE  Together(x, IF Refused("packed", p) THEN Failed ELSE Following("packed", p))
<1> DEFINE q == Following("packed", p)
<1> DEFINE r == IF Refused("packed", p) THEN Failed ELSE q
<1>1. p # NotStarted /\ p # Failed /\ x # NotStarted BY Statuses
<1>2. Accepted("dense") BY <1>1 DEF Together
<1>3. PICK K, g : /\ History(K, g) /\ Leads(K, g, x) /\ Shadows(K, g, x, p)
                  /\ x.status = "ok" => ~Unfinished(g[K]) /\ x = [g[K] EXCEPT !.status = "ok"]
                  /\ x.status = "error" => Unfinished(g[K]) /\ Refused("dense", g[K]) /\ x = Failed
  BY <1>2, AfterDense
<1>4. /\ Number(p).value \in Int64 /\ Held(p) \in Nat
      /\ ~Refused("packed", p) => /\ q.status = "filling"
                                  /\ Held(q) = Held(p) + (IF Number(p).value < 0 THEN 0 ELSE Number(p).value)
  BY NumberStep, DecoderNames
<1>5. SUFFICES Shadows(K, g, x, r) BY <1>2, <1>3 DEF Together
<1> HIDE DEF q
<1>6. CASE x = Failed /\ Held(p) > MaxCount
  <2>1. CASE Refused("packed", p) BY <1>6, <2>1 DEF Shadows
  <2>2. CASE ~Refused("packed", p)
    <3>1. Number(p).value \in Int BY <1>4, Int64Facts
    <3>2. MaxCount \in Nat BY SignedIsInt64
    <3>3. Held(q) > MaxCount BY <1>4, <1>6, <2>2, <3>1, <3>2
    <3> QED BY <1>4, <1>6, <2>2, <3>3 DEF Shadows
  <2> QED BY <2>1, <2>2
<1>7. CASE \E k \in 0..K : Alike(g[k], p)
  <2>1. PICK k \in 0..K : Alike(g[k], p) BY <1>7
  <2>2. DecoderOK("dense", g[k]) /\ g[k].status = "filling" /\ K \in Nat BY <1>3 DEF History
  <2>3. /\ Unfinished(g[k])
        /\ Refused("packed", p) => Refused("dense", g[k])
        /\ ~Refused("dense", g[k]) => Alike(Following("dense", g[k]), q)
        /\ Refused("dense", g[k]) /\ ~Refused("packed", p) => Held(q) > MaxCount
    BY <2>1, <2>2, SameNumber DEF q
  <2>4. CASE k < K
    <3>1. k \in 0..(K - 1) /\ k + 1 \in 0..K BY <2>2, <2>4
    <3>2. ~Refused("dense", g[k]) /\ g[k + 1] = Following("dense", g[k]) BY <1>3, <3>1 DEF History
    <3>3. ~Refused("packed", p) /\ Alike(g[k + 1], q) BY <2>3, <3>2
    <3> QED BY <1>4, <3>1, <3>3 DEF Shadows
  <2>5. CASE k = K
    <3>1. x = Failed /\ Refused("dense", g[k]) BY <1>3, <2>3, <2>5
    <3>2. CASE Refused("packed", p) BY <3>1, <3>2 DEF Shadows
    <3>3. CASE ~Refused("packed", p) BY <1>4, <2>3, <3>1, <3>3 DEF Shadows
    <3> QED BY <3>2, <3>3
  <2> QED BY <2>2, <2>4, <2>5
<1> QED BY <1>1, <1>3, <1>6, <1>7 DEF Shadows

\* DecodePacked comes to the end.
LEMMA PackedEnds ==
  ASSUME NEW x, NEW p, Together(x, p), x.status \in {"ok", "error"}, p.status = "filling",
         DecoderOK("packed", p), ~Unfinished(p)
  PROVE  Together(x, [p EXCEPT !.status = "ok"])
<1> DEFINE q == [p EXCEPT !.status = "ok"]
<1>1. p # NotStarted /\ p # Failed /\ x # NotStarted BY Statuses
<1>2. Accepted("dense") BY <1>1 DEF Together
<1>3. PICK K, g : /\ History(K, g) /\ Leads(K, g, x) /\ Shadows(K, g, x, p)
                  /\ x.status = "ok" => ~Unfinished(g[K]) /\ x = [g[K] EXCEPT !.status = "ok"]
                  /\ x.status = "error" => Unfinished(g[K]) /\ Refused("dense", g[K]) /\ x = Failed
  BY <1>2, AfterDense
<1>4. /\ q.status = "ok" /\ q.pos = p.pos /\ q.dst = p.dst /\ q.geom = p.geom /\ q.ratio = p.ratio
      /\ Expanded(q) = Expanded(p) /\ Held(q) = Held(p)
  BY EndStep, DecoderNames
<1> HIDE DEF q
<1>5. SUFFICES Shadows(K, g, x, q) BY <1>2, <1>3 DEF Together, q
<1>6. CASE x = Failed /\ Held(p) > MaxCount BY <1>4, <1>6 DEF Shadows
<1>7. CASE \E k \in 0..K : Alike(g[k], p)
  <2>1. PICK k \in 0..K : Alike(g[k], p) BY <1>7
  <2>2. K \in Nat /\ ~Unfinished(g[k]) BY <1>3, <2>1 DEF History, Alike, Unfinished
  <2>3. k = K
    <3> SUFFICES ASSUME k # K PROVE FALSE OBVIOUS
    <3>1. k \in 0..(K - 1) BY <2>2
    <3> QED BY <1>3, <2>2, <3>1 DEF History
  <2>4. x.status = "ok" BY <1>3, <2>2, <2>3
  <2>5. Alike(g[K], q) BY <1>4, <2>1, <2>3 DEF Alike
  <2> QED BY <1>4, <2>4, <2>5 DEF Shadows
<1> QED BY <1>1, <1>3, <1>6, <1>7 DEF Shadows

\* Together with what every state satisfies this is inductive.
LEMMA AgreeingNext == Sound /\ Agreeing /\ [Next]_vars => Agreeing'
<1> SUFFICES ASSUME Sound, Agreeing, [Next]_vars, pc' = "decode"
             PROVE  \E x, p : x = dec'["dense"] /\ p = dec'["packed"] /\ Together(x, p)'
  BY DEF Agreeing
<1>0. DecodersOK BY DEF Sound
<1>1. SUFFICES \/ dec'["dense"] = NotStarted /\ dec'["packed"] = NotStarted
               \/ stream' = stream /\ \E x, p : Together(x, p) /\ dec'["dense"] = x /\ dec'["packed"] = p
  <2>1. CASE dec'["dense"] = NotStarted /\ dec'["packed"] = NotStarted BY <2>1 DEF Together
  <2>2. CASE stream' = stream /\ \E x, p : Together(x, p) /\ dec'["dense"] = x /\ dec'["packed"] = p
    <3>1. PICK x, p : Together(x, p) /\ dec'["dense"] = x /\ dec'["packed"] = p BY <2>2
    <3>2. Together(x, p)' BY <2>2, <3>1, TogetherStays
    <3> QED BY <3>1, <3>2
  <2> QED BY <1>1, <2>1, <2>2
<1>2. CASE UNCHANGED vars
  <2>1. pc = "decode" /\ stream' = stream /\ dec' = dec BY <1>2 DEF vars
  <2> QED BY <2>1 DEF Agreeing
<1>3. CASE Encode \/ FillStep \/ Adopt
  <2>1. pc' # "decode" BY <1>3, FillAction DEF Encode, Adopt
  <2> QED BY <2>1
<1>4. CASE FillEnd \/ \E s \in Streams : Receive(s)
  <2>1. dec' = [d \in Decoders |-> NotStarted] BY <1>4 DEF FillEnd, Receive
  <2> QED BY <2>1, DecoderNames
<1>5. ASSUME NEW d \in Decoders, d = "packed" => Finished("dense"),
             DecodeFrame(d) \/ DecodeNumber(d) \/ DecodeEnd(d)
      PROVE  stream' = stream /\ \E x, p : Together(x, p) /\ dec'["dense"] = x /\ dec'["packed"] = p
  <2> DEFINE x == dec["dense"]
  <2> DEFINE p == dec["packed"]
  <2>1. UNCHANGED <<pc, stream>> BY <1>5, NumberAction DEF DecodeFrame, DecodeEnd
  <2>2. /\ Words(stream) /\ stream.payload \in Seq(Byte) /\ DOMAIN dec = Decoders
        /\ DecoderOK("dense", x) /\ DecoderOK("packed", p)
    BY <1>0, <2>1, DecoderNames DEF DecodersOK
  <2>3. Together(x, p) BY <2>1 DEF Agreeing
  <2>4. \E y : /\ dec' = [dec EXCEPT ![d] = y]
               /\ IF d = "dense" THEN Together(y, p) ELSE Together(x, y)
    <3>1. CASE d = "dense"
      <4>1. CASE DecodeFrame(d)
        <5>1. x.status = "none" /\ dec' = [dec EXCEPT ![d] = IF Accepted("dense") THEN Blank("dense") ELSE Failed]
          BY <3>1, <4>1 DEF DecodeFrame
        <5>2. x = NotStarted BY <2>2, <5>1, StatusFacts
        <5>3. Together(IF Accepted("dense") THEN Blank("dense") ELSE Failed, p) BY <2>2, <2>3, <5>2, DenseStarts
        <5> QED BY <3>1, <5>1, <5>3
      <4>2. CASE DecodeNumber(d)
        <5>1. /\ x.status = "filling" /\ Unfinished(x)
              /\ dec' = [dec EXCEPT ![d] = IF Refused("dense", x) THEN Failed ELSE Following("dense", x)]
          BY <3>1, <4>2, NumberAction
        <5>2. Together(IF Refused("dense", x) THEN Failed ELSE Following("dense", x), p)
          BY <2>2, <2>3, <5>1, DenseGoesOn
        <5> QED BY <3>1, <5>1, <5>2
      <4>3. CASE DecodeEnd(d)
        <5>1. x.status = "filling" /\ ~Unfinished(x) /\ dec' = [dec EXCEPT ![d] = [x EXCEPT !.status = "ok"]]
          BY <3>1, <4>3 DEF DecodeEnd
        <5>2. Together([x EXCEPT !.status = "ok"], p) BY <2>3, <5>1, DenseEnds
        <5> QED BY <3>1, <5>1, <5>2
      <4> QED BY <1>5, <4>1, <4>2, <4>3
    <3>2. CASE d # "dense"
      <4>0. d = "packed" /\ x.status \in {"ok", "error"} BY <1>5, <3>2 DEF Decoders, Finished
      <4>1. CASE DecodeFrame(d)
        <5>1. p.status = "none" /\ dec' = [dec EXCEPT ![d] = IF Accepted("packed") THEN Blank("packed") ELSE Failed]
          BY <4>0, <4>1 DEF DecodeFrame
        <5>2. p = NotStarted BY <2>2, <5>1, StatusFacts
        <5>3. Together(x, IF Accepted("packed") THEN Blank("packed") ELSE Failed)
          BY <2>2, <2>3, <4>0, <5>2, PackedStarts
        <5> QED BY <3>2, <5>1, <5>3
      <4>2. CASE DecodeNumber(d)
        <5>1. /\ p.status = "filling" /\ Unfinished(p)
              /\ dec' = [dec EXCEPT ![d] = IF Refused("packed", p) THEN Failed ELSE Following("packed", p)]
          BY <4>0, <4>2, NumberAction
        <5>2. Together(x, IF Refused("packed", p) THEN Failed ELSE Following("packed", p))
          BY <2>2, <2>3, <4>0, <5>1, PackedGoesOn
        <5> QED BY <3>2, <5>1, <5>2
      <4>3. CASE DecodeEnd(d)
        <5>1. p.status = "filling" /\ ~Unfinished(p) /\ dec' = [dec EXCEPT ![d] = [p EXCEPT !.status = "ok"]]
          BY <4>0, <4>3 DEF DecodeEnd
        <5>2. Together(x, [p EXCEPT !.status = "ok"]) BY <2>2, <2>3, <4>0, <5>1, PackedEnds
        <5> QED BY <3>2, <5>1, <5>2
      <4> QED BY <1>5, <4>1, <4>2, <4>3
    <3> QED BY <3>1, <3>2
  <2>5. PICK y : /\ dec' = [dec EXCEPT ![d] = y]
                 /\ IF d = "dense" THEN Together(y, p) ELSE Together(x, y)
    BY <2>4
  <2>6. CASE d = "dense"
    <3>1. dec'["dense"] = y /\ dec'["packed"] = p BY <2>2, <2>5, <2>6, DecoderNames
    <3> QED BY <2>1, <2>5, <2>6, <3>1
  <2>7. CASE d # "dense"
    <3>0. d = "packed" BY <2>7 DEF Decoders
    <3>1. dec'["dense"] = x /\ dec'["packed"] = y BY <2>2, <2>5, <3>0, DecoderNames
    <3> QED BY <2>1, <2>5, <2>7, <3>1
  <2> QED BY <2>6, <2>7
<1> QED BY <1>2, <1>3, <1>4, <1>5 DEF Next

LEMMA AlwaysAgreeing == Spec => []Agreeing
<1>1. Init => Agreeing BY DEF Init, Agreeing
<1> QED BY <1>1, AgreeingNext, AlwaysSound, PTL DEF Spec

\* Decode and DecodePacked accept the same streams and read the same counts from them,
\* except where the sum passes MaxInt64: fillCountsArrayFromSourceBuffer refuses that,
\* fillSparseFromPayload saturates the total.
THEOREM DecodersDoAgree == Spec => []DecodersAgree
<1>1. Sound /\ Agreeing => DecodersAgree
  <2> DEFINE x == dec["dense"]
  <2> DEFINE p == dec["packed"]
  <2> SUFFICES ASSUME Sound, Agreeing, Finished("dense"), Finished("packed")
               PROVE  IF p.status = "error" THEN x.status = "error"
                      ELSE IF Held(p) > MaxCount THEN x.status = "error" /\ p.total = MaxCount
                      ELSE x.status = "ok" /\ x.counts = Expanded(p) /\ x.total = p.total /\ x.ratio = p.ratio
    BY DEF DecodersAgree, Held
  <2>1. x.status \in {"ok", "error"} /\ p.status \in {"ok", "error"} BY DEF Finished
  <2>2. pc = "decode" /\ DecoderOK("dense", x) /\ DecoderOK("packed", p)
    <3>1. DecodersOK BY DEF Sound
    <3> QED BY <2>1, <3>1, Statuses, DecoderNames DEF DecodersOK
  <2>3. Together(x, p) BY <2>2 DEF Agreeing
  <2>4. p # NotStarted BY <2>1, Statuses
  <2> HIDE DEF x, p
  <2>5. CASE ~Accepted("dense")
    <3>1. x = Failed /\ p = Failed BY <2>3, <2>4, <2>5 DEF Together
    <3> QED BY <3>1, Statuses
  <2>6. CASE Accepted("dense")
    <3>1. PICK K, g : /\ History(K, g) /\ Shadows(K, g, x, p)
                      /\ x.status = "ok" => x = [g[K] EXCEPT !.status = "ok"]
      BY <2>1, <2>3, <2>6, AfterDense
    <3>2. CASE p = Failed /\ x = Failed BY <3>2, Statuses
    <3>3. CASE p.status = "ok" /\ x = Failed /\ Held(p) > MaxCount
      <4>1. PackedOK(p) BY <2>2, <3>3, StatusFacts, DecoderNames
      <4>2. Held(p) \in Nat /\ MaxCount \in Nat BY <4>1, HeldType DEF PackedOK
      <4>3. p.total = MaxCount BY <3>3, <4>1, <4>2 DEF PackedOK, Smaller
      <4> QED BY <3>3, <4>3, Statuses
    <3>4. CASE p.status = "ok" /\ x.status = "ok" /\ Alike(g[K], p)
      <4>1. PackedOK(p) /\ DenseOK(x) BY <2>2, <3>4, StatusFacts, DecoderNames
      <4>2. Held(p) \in Nat /\ MaxCount \in Nat BY <4>1, HeldType DEF PackedOK
      <4>3. K \in Nat /\ K \in 0..K BY <3>1 DEF History
      <4>4. DecoderOK("dense", g[K]) /\ g[K].status = "filling" BY <3>1, <4>3 DEF History
      <4>5. x.geom = g[K].geom /\ x.ratio = g[K].ratio /\ Expanded(x) = Expanded(g[K])
        <5>1. PICK y : y = g[K] OBVIOUS
        <5>2. x = [y EXCEPT !.status = "ok"] BY <3>1, <3>4, <5>1
        <5>3. DecoderOK("dense", y) /\ y.status = "filling" BY <4>4, <5>1
        <5>4. x.geom = y.geom /\ x.ratio = y.ratio /\ Expanded(x) = Expanded(y) BY <5>2, <5>3, EndStep, DecoderNames
        <5> QED BY <5>1, <5>4
      <4>6. x.geom = p.geom /\ x.ratio = p.ratio /\ Expanded(x) = Expanded(p) BY <3>4, <4>5 DEF Alike
      <4>7. Held(x) = Held(p) BY <4>6 DEF Held
      <4>8. x.counts = Expanded(p) /\ x.total = Held(p) /\ Held(p) <= MaxCount BY <4>1, <4>6, <4>7 DEF DenseOK
      <4>9. p.total = Held(p) BY <4>1, <4>2, <4>8 DEF PackedOK, Smaller
      <4> QED BY <3>4, <4>2, <4>6, <4>8, <4>9
    <3> QED BY <2>1, <2>4, <3>1, <3>2, <3>3, <3>4 DEF Shadows
  <2> QED BY <2>5, <2>6
<1> QED BY <1>1, AlwaysSound, AlwaysAgreeing, PTL

-----------------------------------------------------------------------------
(* What is encoded is decoded again.                                        *)

\* The bytes that the encoder writes at position i.
Piece(x, i) == EncodeI64(Token(x, i))

\* buf holds K numbers: number k is for position s[k] of x and begins behind byte b[k].
Marks(x, buf, K, s, b) ==
  /\ K \in Nat /\ s[0] = 0 /\ b[0] = 0 /\ b[K] = Len(buf)
  /\ \A k \in 0..K : s[k] \in 0..CountsLimit(x) /\ b[k] \in 0..Len(buf) /\ b[k] <= s[k] * MaxBytes
  /\ \A k \in 0..(K - 1) : /\ s[k] < CountsLimit(x) /\ s[k + 1] = Beyond(x, s[k])
                           /\ b[k + 1] = b[k] + Len(Piece(x, s[k]))
                           /\ \A j \in 1..Len(Piece(x, s[k])) : buf[b[k] + j] = Piece(x, s[k])[j]

LEMMA PieceFacts ==
  ASSUME NEW x, Proper(x), x.geom.countsLen <= MaxCount, NEW i \in Nat, i < CountsLimit(x)
  PROVE  Piece(x, i) \in Seq(Byte) /\ Len(Piece(x, i)) \in 1..MaxBytes /\ MaxBytes \in Nat /\ Token(x, i) \in Signed
<1>1. Token(x, i) \in Signed BY FillFacts
<1>2. MaxBytes \in Nat BY ShiftFacts
<1> QED BY <1>1, <1>2, EncodeFacts DEF Piece

\* A buffer that is empty holds no number.
LEMMA NoMarks ==
  ASSUME NEW x, Proper(x)
  PROVE  \E K, s, b : Marks(x, <<>>, K, s, b) /\ s[K] = 0
<1> DEFINE z == [k \in 0..0 |-> 0]
<1>1. z[0] = 0 /\ \A k \in 0..0 : k = 0 OBVIOUS
<1>2. 0 \in 0..CountsLimit(x) BY LimitFacts
<1>3. MaxBytes \in Nat /\ 0 <= 0 * MaxBytes /\ Len(<<>>) = 0 /\ 0 \in 0..0 BY ShiftFacts
<1>4. 0..(0 - 1) = {} OBVIOUS
<1> HIDE DEF z
<1>5. \A k \in 0..0 : z[k] \in 0..CountsLimit(x) /\ z[k] \in 0..Len(<<>>) /\ z[k] <= z[k] * MaxBytes
  BY <1>1, <1>2, <1>3
<1>6. Marks(x, <<>>, 0, z, z) BY <1>1, <1>3, <1>4, <1>5 DEF Marks
<1> QED BY <1>1, <1>6

\* An iteration of fillBufferFromCountsArray adds a number.
LEMMA MarksAppend ==
  ASSUME NEW x, Proper(x), x.geom.countsLen <= MaxCount, NEW buf \in Seq(Byte), NEW K, NEW s, NEW b,
         Marks(x, buf, K, s, b), s[K] < CountsLimit(x)
  PROVE  \E q, r : Marks(x, buf \o Piece(x, s[K]), K + 1, q, r) /\ q[K + 1] = Beyond(x, s[K])
<1> DEFINE limit == CountsLimit(x)
<1> DEFINE i == s[K]
<1> DEFINE E == Piece(x, i)
<1> DEFINE B == buf \o E
<1> DEFINE q == [k \in 0..(K + 1) |-> IF k = K + 1 THEN Beyond(x, i) ELSE s[k]]
<1> DEFINE r == [k \in 0..(K + 1) |-> IF k = K + 1 THEN Len(buf) + Len(E) ELSE b[k]]
<1>1. K \in Nat /\ limit \in Nat /\ limit >= 1 BY LimitFacts DEF Marks
<1>2. K \in 0..K /\ 0 \in 0..K /\ K + 1 \in Nat /\ (K + 1) - 1 = K BY <1>1
<1>3. i \in Nat /\ i < limit /\ b[K] = Len(buf) /\ Len(buf) <= i * MaxBytes BY <1>1, <1>2 DEF Marks
<1> HIDE DEF i, limit
<1>4. E \in Seq(Byte) /\ Len(E) \in 1..MaxBytes /\ MaxBytes \in Nat BY <1>3, PieceFacts DEF limit
<1>5. Beyond(x, i) \in (i + 1)..limit BY <1>3, FillFacts DEF limit
<1> HIDE DEF E
<1>6. B \in Seq(Byte) /\ Len(B) = Len(buf) + Len(E) BY <1>4
<1>7. \A j \in 1..Len(buf) : B[j] = buf[j] BY <1>4
<1>8. \A j \in 1..Len(E) : B[Len(buf) + j] = E[j]
  <2> SUFFICES ASSUME NEW j \in 1..Len(E) PROVE B[Len(buf) + j] = E[j] OBVIOUS
  <2>1. Len(buf) \in Nat /\ Len(E) \in Nat BY <1>4
  <2>2. Len(buf) + j \in 1..(Len(buf) + Len(E)) /\ ~(Len(buf) + j <= Len(buf)) /\ (Len(buf) + j) - Len(buf) = j BY <2>1
  <2> QED BY <1>4, <2>2
<1>9. /\ q[K + 1] = Beyond(x, i) /\ r[K + 1] = Len(B)
      /\ \A k \in 0..K : q[k] = s[k] /\ r[k] = b[k]
  BY <1>1, <1>6
<1> HIDE DEF q, r, B
<1>10. ASSUME NEW k \in 0..(K + 1) PROVE q[k] \in 0..limit /\ r[k] \in 0..Len(B) /\ r[k] <= q[k] * MaxBytes
  <2>0. Len(buf) \in Nat /\ Len(E) \in Nat /\ Len(B) \in Nat /\ Len(buf) <= Len(B) BY <1>4, <1>6
  <2>1. CASE k = K + 1
    <3> DEFINE e == Beyond(x, i)
    <3>1. q[k] = e /\ r[k] = Len(buf) + Len(E) BY <1>6, <1>9, <2>1
    <3>2. e \in Nat /\ e >= i + 1 /\ e <= limit BY <1>1, <1>3, <1>5
    <3> HIDE DEF e
    <3>3. Len(buf) + Len(E) <= i * MaxBytes + MaxBytes
      <4>1. i * MaxBytes \in Nat BY <1>3, <1>4
      <4> QED BY <1>3, <1>4, <2>0, <4>1
    <3>4. e * MaxBytes = (i * MaxBytes + MaxBytes) + (e - i - 1) * MaxBytes /\ e - i - 1 \in Nat BY <1>3, <1>4, <3>2
    <3>5. (e - i - 1) * MaxBytes \in Nat /\ i * MaxBytes + MaxBytes \in Nat BY <1>3, <1>4, <3>4
    <3>6. Len(buf) + Len(E) <= e * MaxBytes BY <2>0, <3>3, <3>4, <3>5
    <3>7. e \in 0..limit /\ r[k] \in 0..Len(B) BY <1>1, <1>6, <2>0, <3>1, <3>2
    <3> QED BY <3>1, <3>6, <3>7
  <2>2. CASE k # K + 1
    <3>1. k \in 0..K BY <1>1, <2>2
    <3>2. s[k] \in 0..limit /\ b[k] \in 0..Len(buf) /\ b[k] <= s[k] * MaxBytes BY <3>1 DEF Marks, limit
    <3>3. b[k] \in 0..Len(B) BY <2>0, <3>2
    <3> QED BY <1>9, <3>1, <3>2, <3>3
  <2> QED BY <2>1, <2>2
<1>11. ASSUME NEW k \in 0..K
       PROVE  /\ q[k] < limit /\ q[k + 1] = Beyond(x, q[k])
              /\ r[k + 1] = r[k] + Len(Piece(x, q[k]))
              /\ \A j \in 1..Len(Piece(x, q[k])) : B[r[k] + j] = Piece(x, q[k])[j]
  <2>1. CASE k = K
    <3>1. q[k] = i /\ r[k] = Len(buf) /\ Piece(x, q[k]) = E BY <1>2, <1>3, <1>9, <2>1 DEF i, E
    <3>2. q[k + 1] = Beyond(x, i) /\ r[k + 1] = Len(buf) + Len(E) BY <1>6, <1>9, <2>1
    <3> QED BY <1>3, <1>8, <3>1, <3>2
  <2>2. CASE k # K
    <3>1. k \in 0..(K - 1) /\ k + 1 \in 0..K BY <1>1, <2>2
    <3> DEFINE P == Piece(x, s[k])
    <3>2. /\ s[k] < limit /\ s[k + 1] = Beyond(x, s[k]) /\ b[k + 1] = b[k] + Len(P)
          /\ \A j \in 1..Len(P) : buf[b[k] + j] = P[j]
      BY <3>1 DEF Marks, limit
    <3>3. b[k] \in 0..Len(buf) /\ b[k + 1] \in 0..Len(buf) /\ s[k] \in 0..limit BY <3>1 DEF Marks, limit
    <3>4. Len(P) \in Nat
      <4>1. s[k] \in Nat BY <1>1, <3>3
      <4>2. Len(P) \in 1..MaxBytes BY <3>2, <4>1, PieceFacts DEF limit
      <4> QED BY <1>4, <4>2
    <3> HIDE DEF P
    <3>5. ASSUME NEW j \in 1..Len(P) PROVE B[b[k] + j] = P[j]
      <4>1. Len(buf) \in Nat OBVIOUS
      <4>2. b[k] + j \in 1..Len(buf) BY <3>2, <3>3, <3>4, <4>1
      <4>3. B[b[k] + j] = buf[b[k] + j] BY <1>7, <4>2
      <4> QED BY <3>2, <4>3
    <3>6. q[k] = s[k] /\ r[k] = b[k] /\ q[k + 1] = s[k + 1] /\ r[k + 1] = b[k + 1] BY <1>9, <3>1
    <3> QED BY <3>2, <3>5, <3>6 DEF P
  <2> QED BY <2>1, <2>2
<1>12. q[0] = 0 /\ r[0] = 0 BY <1>2, <1>9 DEF Marks
<1>13. Marks(x, B, K + 1, q, r) BY <1>2, <1>9, <1>10, <1>11, <1>12 DEF Marks, limit
<1> QED BY <1>9, <1>13 DEF B, E, i

\* A decoder has read the first k numbers of an encoding of x, and has x's counts so far.
Retraces(x, K, s, b, k, y) ==
  /\ k \in 0..K /\ y.pos = b[k] /\ y.dst = s[k]
  /\ \A i \in 0..(x.geom.countsLen - 1) : i < s[k] => Expanded(y)[i] = x.counts[i]

\* It reads the next number, which is the one written, and does not refuse it.
LEMMA Retraced ==
  ASSUME NEW x, Proper(x), x.geom.countsLen <= MaxCount, stream.payload \in Seq(Byte),
         NEW K, NEW s, NEW b, Marks(x, stream.payload, K, s, b),
         NEW d \in Decoders, NEW y, DecoderOK(d, y), y.status = "filling", y.geom = x.geom,
         NEW k, Retraces(x, K, s, b, k, y), Unfinished(y)
  PROVE  ~Refused(d, y) /\ Retraces(x, K, s, b, k + 1, Following(d, y))
<1> DEFINE L == x.geom.countsLen
<1> DEFINE limit == CountsLimit(x)
<1> DEFINE N == Len(stream.payload)
<1> DEFINE i == s[k]
<1> DEFINE t == Token(x, i)
<1> DEFINE e == Beyond(x, i)
<1> DEFINE P == Piece(x, i)
<1> DEFINE c == Expanded(y)
<1> DEFINE z == Following(d, y)
<1>1. /\ L \in Nat \ {0} /\ limit \in 1..L BY LimitFacts
<1>2. x.counts \in [0..(L - 1) -> 0..MaxCount] /\ x.total = PrefixSum(x.counts)[L] /\ x.total <= MaxCount BY DEF Proper
<1>3. K \in Nat /\ k \in 0..K /\ y.pos = b[k] /\ y.dst = i /\ N \in Nat /\ y.pos < N BY DEF Marks, Retraces, Unfinished
<1>4. k \in 0..(K - 1) /\ k + 1 \in 0..K
  <2>1. k # K BY <1>3 DEF Marks
  <2> QED BY <1>3, <2>1
<1>5. /\ i < limit /\ s[k + 1] = e /\ b[k + 1] = b[k] + Len(P)
      /\ \A j \in 1..Len(P) : stream.payload[b[k] + j] = P[j]
  BY <1>4 DEF Marks
<1>6. i \in 0..limit /\ b[k] \in 0..N /\ b[k + 1] \in 0..N BY <1>3, <1>4 DEF Marks
<1>7. i \in Nat BY <1>1, <1>6
<1> HIDE DEF i, limit
<1>8. P \in Seq(Byte) /\ Len(P) \in 1..MaxBytes /\ MaxBytes \in Nat /\ t \in Signed BY <1>5, <1>7, PieceFacts DEF limit
<1>9. /\ e \in (i + 1)..limit /\ i \in 0..(L - 1) /\ t >= -MaxCount
      /\ t < 0 => e = i - t /\ \A l \in i..(e - 1) : x.counts[l] = 0
      /\ t >= 0 => e = i + 1 /\ t = x.counts[i]
  BY <1>5, <1>7, FillFacts DEF limit
<1>10. Number(y) = [value |-> t, n |-> Len(P), err |-> FALSE]
  <2> DEFINE rest == SubSeq(stream.payload, y.pos + 1, N)
  <2>0. y.pos \in 0..N BY <1>3, <1>6
  <2>1. rest \in Seq(Byte) /\ Len(rest) = N - y.pos /\ \A j \in 1..Len(rest) : rest[j] = stream.payload[y.pos + j]
    BY <2>0, RestFacts
  <2>2. Number(y) = DecodeI64(rest) BY DEF Number
  <2> HIDE DEF rest, N
  <2>3. Len(rest) >= Len(P) BY <1>3, <1>5, <1>6, <1>8, <2>1
  <2>4. ASSUME NEW j \in 1..Len(P) PROVE rest[j] = P[j]
    <3>1. j \in 1..Len(rest) BY <1>3, <1>6, <1>8, <2>1, <2>3
    <3> QED BY <1>3, <1>5, <2>1, <3>1
  <2>5. P = EncodeI64(t) BY DEF Piece
  <2> HIDE DEF t, P
  <2>6. DecodeI64(rest) = [value |-> t, n |-> Len(P), err |-> FALSE] BY <1>8, <2>1, <2>3, <2>4, <2>5, EncodeDecode
  <2> QED BY <2>2, <2>6
<1>11. Number(y).value = t /\ Number(y).n = Len(P) /\ Number(y).err = FALSE BY <1>10
<1>12. /\ Working(y) /\ Held(y) \in Nat
       /\ Refused(d, y) <=> Number(y).err \/ ~FitsArray(y, t) \/ (d = "dense" /\ t >= 0 /\ Held(y) + t > MaxCount)
       /\ ~Refused(d, y) => Reads(y, z, t, Len(P))
  BY <1>11, NumberStep
<1> HIDE DEF t, e, P, z
<1>13. t \in Int64 /\ t \in Int /\ MaxCount \in Nat BY <1>8, SignedIsInt64, Int64Facts
<1>14. t < 0 => Wrap64(-t) = -t BY <1>9, <1>13, RunLength
<1>15. FitsArray(y, t)
  <2>1. CASE t < 0
    <3>1. Wrap64(-t) = -t BY <1>14, <2>1
    <3>2. -t > 0 /\ -t <= L - i BY <1>1, <1>7, <1>9, <1>13, <2>1
    <3> QED BY <1>3, <2>1, <3>1, <3>2 DEF FitsArray
  <2>2. CASE ~(t < 0)
    <3>1. i < L BY <1>1, <1>9
    <3> QED BY <1>3, <2>2, <3>1 DEF FitsArray
  <2> QED BY <2>1, <2>2
<1>16. /\ c \in [0..(L - 1) -> 0..MaxCount] /\ \A l \in 0..(L - 1) : l >= i => c[l] = 0
       /\ \A l \in 0..(L - 1) : l < i => c[l] = x.counts[l]
  BY <1>3, <1>12 DEF Working, Retraces, i
<1>17. t >= 0 => Held(y) + t <= MaxCount
  <2> SUFFICES ASSUME t >= 0 PROVE Held(y) + t <= MaxCount OBVIOUS
  <2> DEFINE f == [c EXCEPT ![i] = c[i] + t]
  <2>0. Held(y) = PrefixSum(c)[L] BY DEF Held
  <2> HIDE DEF c
  <2>1. t = x.counts[i] /\ c[i] = 0 /\ t \in Nat
    <3>1. i >= i BY <1>7
    <3> QED BY <1>9, <1>13, <1>16, <3>1
  <2>2. c \in [0..(L - 1) -> Nat] /\ x.counts \in [0..(L - 1) -> Nat] BY <1>2, <1>13, <1>16
  <2>8. c \in [0..(L - 1) -> Nat] /\ L \in Nat /\ i \in 0..(L - 1) /\ t \in Nat BY <1>1, <1>9, <2>1, <2>2
  <2>3. PrefixSum(f)[L] = PrefixSum(c)[L] + t BY <2>8, SumAfterAdd
  <2>4. \A l \in 0..(L - 1) : f[l] = IF l = i THEN c[i] + t ELSE c[l] BY <2>2
  <2> HIDE DEF f
  <2>5. ASSUME NEW l \in 0..(L - 1) PROVE f[l] \in Nat /\ x.counts[l] \in Nat /\ f[l] <= x.counts[l]
    <3>1. x.counts[l] \in Nat /\ c[l] \in Nat BY <2>2
    <3>2. CASE l = i BY <2>1, <2>4, <3>1, <3>2
    <3>3. CASE l # i
      <4>1. f[l] = c[l] BY <2>4, <3>3
      <4>2. c[l] = 0 \/ c[l] = x.counts[l] BY <1>7, <1>16
      <4> QED BY <3>1, <4>1, <4>2
    <3> QED BY <3>2, <3>3
  <2>6. L \in Nat /\ L \in 0..L BY <1>1
  <2>7. PrefixSum(f)[L] <= PrefixSum(x.counts)[L] /\ PrefixSum(f)[L] \in Nat /\ PrefixSum(x.counts)[L] \in Nat
    <3> HIDE DEF L
    <3>1. \A n \in 0..L : /\ PrefixSum(f)[n] \in Nat /\ PrefixSum(x.counts)[n] \in Nat
                          /\ PrefixSum(f)[n] <= PrefixSum(x.counts)[n]
      BY <2>5, <2>6, PrefixSumPointwise
    <3> QED BY <2>6, <3>1
  <2> QED BY <1>2, <1>13, <2>0, <2>3, <2>7
<1>18. ~Refused(d, y)
  <2>1. ~(t >= 0 /\ Held(y) + t > MaxCount) BY <1>12, <1>13, <1>17
  <2> QED BY <1>11, <1>12, <1>15, <2>1
<1>19. Reads(y, z, t, Len(P)) BY <1>12, <1>18
<1>20. z.pos = b[k + 1] BY <1>3, <1>5, <1>19 DEF Reads
<1>21. z.dst = s[k + 1] /\ \A l \in 0..(L - 1) : l < e => Expanded(z)[l] = x.counts[l]
  <2>1. CASE t < 0
    <3>1. z.dst = i + Wrap64(-t) /\ Expanded(z) = c BY <1>3, <1>19, <2>1 DEF Reads
    <3>2. z.dst = e BY <1>7, <1>9, <1>13, <1>14, <2>1, <3>1
    <3> HIDE DEF c
    <3>3. ASSUME NEW l \in 0..(L - 1), l < e PROVE c[l] = x.counts[l]
      <4>1. CASE l < i BY <1>16, <4>1
      <4>2. CASE ~(l < i)
        <5>1. l >= i /\ l \in i..(e - 1) BY <1>1, <1>7, <1>9, <3>3, <4>2
        <5> QED BY <1>9, <1>16, <2>1, <5>1
      <4> QED BY <4>1, <4>2
    <3> QED BY <1>5, <3>1, <3>2, <3>3
  <2>2. CASE ~(t < 0)
    <3>0. t >= 0 BY <1>13, <2>2
    <3>1. z.dst = i + 1 /\ Expanded(z) = [c EXCEPT ![i] = t] BY <1>3, <1>19, <2>2 DEF Reads
    <3>2. z.dst = e BY <1>9, <3>0, <3>1
    <3> HIDE DEF c
    <3>3. ASSUME NEW l \in 0..(L - 1), l < e PROVE Expanded(z)[l] = x.counts[l]
      <4>1. CASE l = i BY <1>9, <1>16, <3>0, <3>1, <4>1
      <4>2. CASE l # i
        <5>1. l < i BY <1>7, <1>9, <3>0, <3>3, <4>2
        <5> QED BY <1>16, <3>1, <4>2, <5>1
      <4> QED BY <4>1, <4>2
    <3> QED BY <1>5, <3>2, <3>3
  <2> QED BY <2>1, <2>2
<1>22. Retraces(x, K, s, b, k + 1, z) BY <1>4, <1>5, <1>20, <1>21 DEF Retraces
<1> QED BY <1>18, <1>22 DEF z

\* A decoder of an own encoding has not started, or is on its way, or at the end.
Retracing(x, K, s, b, y) ==
  \/ y = NotStarted
  \/ y.status \in {"filling", "ok"} /\ \E k : Retraces(x, K, s, b, k, y) /\ (y.status = "ok" => k = K)

\* The encoder's buffer, and an own stream with what has been read of it.
Written ==
  /\ own => pc = "decode"
  /\ pc = "fill" => \E K, s, b : Marks(h, out, K, s, b) /\ s[K] = src
  /\ own => /\ stream = Framed(h, stream.payload)
            /\ \E K, s, b : /\ Marks(h, stream.payload, K, s, b) /\ s[K] = CountsLimit(h)
                            /\ \A d \in Decoders : Retracing(h, K, s, b, dec[d])

\* The decoders accept the frame of an own stream.
LEMMA OwnFrame ==
  ASSUME Proper(h), stream.payload \in Seq(Byte), stream = Framed(h, stream.payload),
         NEW K, NEW s, NEW b, Marks(h, stream.payload, K, s, b), s[K] = CountsLimit(h)
  PROVE  /\ WireAccepts(stream) /\ WireGeometry(stream) = h.geom /\ stream.ratio = Ratio(h)
         /\ \A d \in Decoders : Accepted(d)
<1> DEFINE N == Len(stream.payload)
<1> DEFINE L == h.geom.countsLen
<1>1. /\ stream.base64 = TRUE /\ stream.size = 8 + ZlibSize /\ stream.cookie = <<V2Compressed, 1>>
      /\ stream.clen = ZlibSize /\ stream.intact = TRUE /\ stream.header = TRUE /\ stream.inner = <<V2, 1>>
      /\ stream.payloadLen = N /\ stream.sig = h.geom.sig /\ stream.low = h.geom.low
      /\ stream.high = h.geom.high /\ stream.ratio = Ratio(h)
  BY DEF Framed
<1>2. Built(h.geom) BY DEF Proper
<1>3. WireAccepts(stream) /\ WireGeometry(stream) = h.geom BY <1>1, <1>2, WireRebuilds
<1>4. L \in Nat /\ CountsLimit(h) \in 1..L BY LimitFacts
<1>5. N \in Nat /\ MaxBytes \in Nat /\ ZlibSize \in Nat BY ShiftFacts, CodecAssumption
<1>6. N <= L * MaxBytes
  <2> DEFINE m == CountsLimit(h)
  <2>1. K \in Nat /\ K \in 0..K /\ b[K] = N BY DEF Marks
  <2>2. N <= m * MaxBytes BY <2>1 DEF Marks
  <2>3. m \in Nat /\ m <= L BY <1>4
  <2> HIDE DEF m, N
  <2>4. L - m \in Nat /\ L * MaxBytes = m * MaxBytes + (L - m) * MaxBytes BY <1>4, <1>5, <2>3
  <2>5. m * MaxBytes \in Nat /\ (L - m) * MaxBytes \in Nat BY <1>5, <2>3, <2>4
  <2> QED BY <1>5, <2>2, <2>4, <2>5
<1>7. stream.clen \in 0..(stream.size - 8) /\ stream.clen >= 0 /\ stream.clen <= stream.size - 8
      /\ stream.size >= 8 /\ stream.clen >= ZlibSize /\ stream.payloadLen >= 0
  BY <1>1, <1>5
<1>8. Masked(stream.cookie) = V2Compressed /\ Masked(stream.inner) = V2 BY <1>1 DEF Masked
<1>9. stream.payloadLen <= WireGeometry(stream).countsLen * MaxBytes /\ Len(stream.payload) = stream.payloadLen
  BY <1>1, <1>3, <1>6
<1> HIDE DEF N, L
<1>10. FrameAccepted(stream) /\ PackedFrameAccepted(stream) BY <1>1, <1>7, <1>8 DEF FrameAccepted, PackedFrameAccepted
<1>11. Inflates(stream) BY <1>1, <1>7 DEF Inflates
<1>12. HeaderAccepted(stream) /\ PackedHeaderAccepted(stream)
  BY <1>1, <1>3, <1>7, <1>8, <1>9, <1>11 DEF HeaderAccepted, PackedHeaderAccepted
<1>13. \A d \in Decoders : Accepted(d) BY <1>10, <1>12 DEF Accepted
<1> QED BY <1>1, <1>3, <1>13

\* One step of a decoder of an own stream.
LEMMA RetracingStep ==
  ASSUME Sound, pc = "decode", stream = Framed(h, stream.payload),
         NEW K, NEW s, NEW b, Marks(h, stream.payload, K, s, b), s[K] = CountsLimit(h),
         NEW d \in Decoders, Retracing(h, K, s, b, dec[d]),
         DecodeFrame(d) \/ DecodeNumber(d) \/ DecodeEnd(d)
  PROVE  \E y : dec' = [dec EXCEPT ![d] = y] /\ Retracing(h, K, s, b, y)
<1> DEFINE x == dec[d]
<1>1. Proper(h) /\ h.geom.countsLen <= MaxCount BY DEF Sound, ProgramOK
<1>2. Words(stream) /\ stream.payload \in Seq(Byte) /\ DecoderOK(d, x) BY DEF Sound, DecodersOK
<1>3. WireAccepts(stream) /\ WireGeometry(stream) = h.geom /\ Accepted(d) BY <1>1, <1>2, OwnFrame
<1>4. K \in Nat /\ 0 \in 0..K /\ s[0] = 0 /\ b[0] = 0 BY DEF Marks
<1>5. CASE DecodeFrame(d)
  <2> DEFINE y == Blank(d)
  <2>1. dec' = [dec EXCEPT ![d] = y] BY <1>3, <1>5 DEF DecodeFrame
  <2>2. y.pos = 0 /\ y.dst = 0 /\ y.status = "filling" BY <1>2, <1>3, BlankFacts
  <2> HIDE DEF y
  <2>3. h.geom.countsLen \in Nat BY <1>1, LimitFacts
  <2>4. \A i \in 0..(h.geom.countsLen - 1) : ~(i < 0) BY <2>3
  <2>5. Retraces(h, K, s, b, 0, y) BY <1>4, <2>2, <2>4 DEF Retraces
  <2>6. Retracing(h, K, s, b, y) BY <2>2, <2>5 DEF Retracing
  <2> QED BY <2>1, <2>6
<1>6. CASE DecodeNumber(d)
  <2> DEFINE y == Following(d, x)
  <2>1. /\ x.status = "filling" /\ Unfinished(x)
        /\ dec' = [dec EXCEPT ![d] = IF Refused(d, x) THEN Failed ELSE y]
    BY <1>6, NumberAction
  <2>2. PICK k : Retraces(h, K, s, b, k, x) BY <2>1, Statuses DEF Retracing
  <2>3. x.geom = h.geom
    <3>1. Working(x) BY <1>2, <2>1, StatusFacts
    <3> QED BY <1>3, <3>1 DEF Working
  <2> HIDE DEF x
  <2>4. ~Refused(d, x) /\ Retraces(h, K, s, b, k + 1, y) BY <1>1, <1>2, <2>1, <2>2, <2>3, Retraced
  <2>5. y.status = "filling" BY <1>2, <2>1, <2>4, NumberStep
  <2> HIDE DEF y
  <2>6. Retracing(h, K, s, b, y) BY <2>4, <2>5 DEF Retracing
  <2> QED BY <2>1, <2>4, <2>6
<1>7. CASE DecodeEnd(d)
  <2> DEFINE y == [x EXCEPT !.status = "ok"]
  <2>1. x.status = "filling" /\ ~Unfinished(x) /\ dec' = [dec EXCEPT ![d] = y] BY <1>7 DEF DecodeEnd
  <2>2. PICK k : Retraces(h, K, s, b, k, x) BY <2>1, Statuses DEF Retracing
  <2>3. y.status = "ok" /\ y.pos = x.pos /\ y.dst = x.dst /\ Expanded(y) = Expanded(x) BY <1>2, <2>1, EndStep
  <2> HIDE DEF y, x
  <2>4. k = K
    <3> SUFFICES ASSUME k # K PROVE FALSE OBVIOUS
    <3>1. k \in 0..K /\ x.pos = b[k] BY <2>2 DEF Retraces
    <3>2. k \in 0..(K - 1) /\ k + 1 \in 0..K BY <1>4, <3>1
    <3>3. s[k] \in 0..CountsLimit(h) /\ b[k] \in 0..Len(stream.payload) BY <3>1 DEF Marks
    <3>4. b[k + 1] \in 0..Len(stream.payload) BY <3>2 DEF Marks
    <3>5. s[k] < CountsLimit(h) /\ b[k + 1] = b[k] + Len(Piece(h, s[k])) BY <3>2 DEF Marks
    <3>6. s[k] \in Nat BY <3>3
    <3>7. Len(Piece(h, s[k])) \in 1..MaxBytes BY <1>1, <3>5, <3>6, PieceFacts
    <3>8. b[k] < Len(stream.payload) BY <3>3, <3>4, <3>5, <3>7, ShiftFacts
    <3> QED BY <2>1, <3>1, <3>8 DEF Unfinished
  <2>5. Retraces(h, K, s, b, k, y) BY <2>2, <2>3 DEF Retraces
  <2>6. Retracing(h, K, s, b, y) BY <2>3, <2>4, <2>5 DEF Retracing
  <2> QED BY <2>1, <2>6 DEF x
<1> QED BY <1>5, <1>6, <1>7

\* Every step keeps the buffer and the stream what they are.
LEMMA WrittenNext == Sound /\ Written /\ [Next]_vars => Written'
<1> SUFFICES ASSUME Sound, Written, [Next]_vars PROVE Written' OBVIOUS
<1>0. /\ ProgramOK /\ DecodersOK /\ Proper(h) /\ h.geom.countsLen <= MaxCount /\ out \in Seq(Byte)
      /\ (own => pc = "decode") /\ src \in 0..h.geom.countsLen
  BY DEF Sound, Written, ProgramOK
<1>1. CASE UNCHANGED vars
  <2>1. UNCHANGED <<h, pc, src, out, stream, own, dec>> BY <1>1 DEF vars
  <2> QED BY <2>1 DEF Written
<1>2. CASE Encode
  <2>1. pc = "idle" /\ pc' = "fill" /\ src' = 0 /\ out' = <<>> /\ UNCHANGED <<h, own>> BY <1>2 DEF Encode
  <2>2. ~own' BY <1>0, <2>1
  <2>3. \E K, s, b : Marks(h, <<>>, K, s, b) /\ s[K] = 0 BY <1>0, NoMarks
  <2>4. \E K, s, b : Marks(h', out', K, s, b) /\ s[K] = src' BY <2>1, <2>3
  <2> QED BY <2>2, <2>4 DEF Written
<1>3. CASE FillStep
  <2>1. /\ pc = "fill" /\ src < CountsLimit(h)
        /\ src' = Beyond(h, src) /\ out' = out \o Piece(h, src)
        /\ UNCHANGED <<h, pc, own>>
    BY <1>3, FillAction DEF Piece
  <2>2. ~own' BY <1>0, <2>1
  <2>3. PICK K, s, b : Marks(h, out, K, s, b) /\ s[K] = src BY <2>1 DEF Written
  <2>4. PICK q, r : Marks(h, out \o Piece(h, s[K]), K + 1, q, r) /\ q[K + 1] = Beyond(h, s[K])
    BY <1>0, <2>1, <2>3, MarksAppend
  <2>5. Marks(h', out', K + 1, q, r) /\ q[K + 1] = src' BY <2>1, <2>3, <2>4
  <2> QED BY <2>2, <2>5 DEF Written
<1>4. CASE FillEnd
  <2>1. /\ pc = "fill" /\ src >= CountsLimit(h) /\ stream' = Framed(h, out) /\ pc' = "decode"
        /\ dec' = [d \in Decoders |-> NotStarted] /\ UNCHANGED h
    BY <1>4 DEF FillEnd
  <2>2. PICK K, s, b : Marks(h, out, K, s, b) /\ s[K] = src BY <2>1 DEF Written
  <2>3. s[K] = CountsLimit(h)
    <3>1. K \in Nat /\ K \in 0..K BY <2>2 DEF Marks
    <3>2. s[K] \in 0..CountsLimit(h) BY <2>2, <3>1 DEF Marks
    <3>3. CountsLimit(h) \in Nat BY <1>0, LimitFacts
    <3> QED BY <2>1, <2>2, <3>2, <3>3
  <2>4. stream'.payload = out BY <2>1 DEF Framed
  <2>5. stream' = Framed(h', stream'.payload) BY <2>1, <2>4
  <2>6. \A d \in Decoders : dec'[d] = NotStarted BY <2>1
  <2>7. \A d \in Decoders : Retracing(h', K, s, b, dec'[d]) BY <2>6 DEF Retracing
  <2>8. Marks(h', stream'.payload, K, s, b) /\ s[K] = CountsLimit(h') BY <2>1, <2>2, <2>3, <2>4
  <2>9. \E K1, s1, b1 : /\ Marks(h', stream'.payload, K1, s1, b1) /\ s1[K1] = CountsLimit(h')
                        /\ \A d \in Decoders : Retracing(h', K1, s1, b1, dec'[d])
    BY <2>7, <2>8
  <2> QED BY <2>1, <2>5, <2>9 DEF Written
<1>5. ASSUME NEW s \in Streams, Receive(s) PROVE Written'
  <2>1. pc' = "decode" /\ own' = FALSE BY <1>5 DEF Receive
  <2> QED BY <2>1 DEF Written
<1>6. ASSUME NEW d \in Decoders, DecodeFrame(d) \/ DecodeNumber(d) \/ DecodeEnd(d) PROVE Written'
  <2>1. UNCHANGED <<h, pc, src, out, own, stream>> BY <1>6, NumberAction DEF DecodeFrame, DecodeEnd
  <2>2. pc = "decode"
    <3>1. NotStarted.status = "none" BY DEF NotStarted
    <3>2. pc = "decode" \/ dec[d].status = "filling" BY <1>6, NumberAction DEF DecodeFrame, DecodeEnd
    <3> QED BY <1>0, <3>1, <3>2 DEF DecodersOK
  <2>3. CASE ~own
    <3>1. ~own' BY <2>1, <2>3
    <3> QED BY <2>1, <2>2, <3>1 DEF Written
  <2>4. CASE own
    <3>1. stream = Framed(h, stream.payload) BY <2>4 DEF Written
    <3>2. PICK K, s, b : /\ Marks(h, stream.payload, K, s, b) /\ s[K] = CountsLimit(h)
                         /\ \A q \in Decoders : Retracing(h, K, s, b, dec[q])
      BY <2>4 DEF Written
    <3>3. PICK y : dec' = [dec EXCEPT ![d] = y] /\ Retracing(h, K, s, b, y)
      BY <1>6, <2>2, <3>1, <3>2, RetracingStep
    <3>4. \A q \in Decoders : dec'[q] = IF q = d THEN y ELSE dec[q] BY <1>0, <3>3 DEF DecodersOK
    <3>5. \A q \in Decoders : Retracing(h, K, s, b, dec'[q]) BY <3>2, <3>3, <3>4
    <3>6. stream' = Framed(h', stream'.payload) BY <2>1, <3>1
    <3>7. \E K1, s1, b1 : /\ Marks(h', stream'.payload, K1, s1, b1) /\ s1[K1] = CountsLimit(h')
                          /\ \A q \in Decoders : Retracing(h', K1, s1, b1, dec'[q])
      BY <2>1, <3>2, <3>5
    <3> QED BY <2>1, <2>2, <3>6, <3>7 DEF Written
  <2> QED BY <2>3, <2>4
<1>7. CASE Adopt
  <2>1. pc' = "idle" /\ own' = FALSE BY <1>7 DEF Adopt
  <2> QED BY <2>1 DEF Written
<1> QED BY <1>1, <1>2, <1>3, <1>4, <1>5, <1>6, <1>7 DEF Next

LEMMA AlwaysWritten == Spec => []Written
<1>1. Init => Written BY DEF Init, Written
<1> QED BY <1>1, WrittenNext, AlwaysSound, PTL DEF Spec

\* The decoders of an own stream that are done have x's counts, total and ratio.
LEMMA OwnDecoded ==
  ASSUME Sound, Written, own, NEW d \in Decoders, Finished(d)
  PROVE  LET y == dec[d] IN
         /\ y.status = "ok" /\ DecoderOK(d, y) /\ y.geom = h.geom /\ Expanded(y) = h.counts
         /\ y.total = h.total /\ y.ratio = Ratio(h) /\ DOMAIN y = Fields
         /\ \E K, s, b : Marks(h, stream.payload, K, s, b) /\ s[K] = CountsLimit(h)
<1> DEFINE y == dec[d]
<1> DEFINE L == h.geom.countsLen
<1>0. pc = "decode" /\ stream = Framed(h, stream.payload) /\ y.status \in {"ok", "error"}
  BY DEF Written, Finished
<1>1. Proper(h) /\ h.geom.countsLen <= MaxCount BY DEF Sound, ProgramOK
<1>2. stream.payload \in Seq(Byte) /\ DecoderOK(d, y) BY <1>0 DEF Sound, DecodersOK
<1>3. PICK K, s, b : /\ Marks(h, stream.payload, K, s, b) /\ s[K] = CountsLimit(h)
                     /\ Retracing(h, K, s, b, y)
  BY DEF Written
<1>4. WireGeometry(stream) = h.geom /\ stream.ratio = Ratio(h) BY <1>0, <1>1, <1>2, <1>3, OwnFrame
<1> HIDE DEF y
<1>5. y.status = "ok" /\ Retraces(h, K, s, b, K, y) BY <1>0, <1>3, Statuses DEF Retracing
<1>6. Working(y) /\ IF d = "dense" THEN DenseOK(y) ELSE PackedOK(y) BY <1>2, <1>5, StatusFacts
<1>7. /\ y.geom = h.geom /\ y.ratio = Ratio(h) /\ DOMAIN y = Fields
      /\ Expanded(y) \in [0..(L - 1) -> 0..MaxCount]
      /\ \A i \in 0..(L - 1) : i >= y.dst => Expanded(y)[i] = 0
  BY <1>4, <1>6 DEF Working
<1>8. L \in Nat \ {0} /\ CountsLimit(h) \in 1..L /\ \A i \in 0..(L - 1) : i >= CountsLimit(h) => h.counts[i] = 0
  BY <1>1, LimitFacts
<1>9. y.dst = CountsLimit(h) /\ \A i \in 0..(L - 1) : i < CountsLimit(h) => Expanded(y)[i] = h.counts[i]
  BY <1>3, <1>5 DEF Retraces
<1>10. Expanded(y) = h.counts
  <2>1. h.counts \in [0..(L - 1) -> 0..MaxCount] BY <1>1 DEF Proper
  <2> DEFINE c == Expanded(y)
  <2> DEFINE m == CountsLimit(h)
  <2>2. c \in [0..(L - 1) -> 0..MaxCount] BY <1>7
  <2>3. m \in Nat BY <1>8
  <2>4. ASSUME NEW i \in 0..(L - 1) PROVE c[i] = h.counts[i]
    <3>1. i < m \/ i >= m BY <2>3
    <3> QED BY <1>7, <1>8, <1>9, <3>1
  <2> HIDE DEF c, m
  <2>5. c = [i \in 0..(L - 1) |-> c[i]] /\ h.counts = [i \in 0..(L - 1) |-> h.counts[i]] BY <2>1, <2>2, Zenon
  <2>6. [i \in 0..(L - 1) |-> c[i]] = [i \in 0..(L - 1) |-> h.counts[i]] BY <2>4, Zenon
  <2> QED BY <2>5, <2>6 DEF c
<1>11. Held(y) = h.total /\ h.total <= MaxCount BY <1>1, <1>7, <1>10 DEF Held, Proper
<1>12. y.total = h.total
  <2>1. CASE d = "dense" BY <1>6, <1>11, <2>1 DEF DenseOK
  <2>2. CASE d # "dense"
    <3>1. y.total = Smaller(MaxCount, Held(y)) BY <1>6, <2>2 DEF PackedOK
    <3>2. Held(y) \in Nat /\ MaxCount \in Nat BY <1>6, HeldType
    <3> QED BY <1>11, <3>1, <3>2 DEF Smaller
  <2> QED BY <2>1, <2>2
<1> QED BY <1>2, <1>3, <1>5, <1>7, <1>10, <1>12 DEF y

\* What Encode writes, Decode and DecodePacked read: the number at every place is the
\* one that fillBufferFromCountsArray put there, neither loop refuses it, and behind
\* the last one the array is as empty as countsLimit says.
THEOREM RoundTrips == Spec => []RoundTrip
<1>1. Sound /\ Written => RoundTrip
  <2> SUFFICES ASSUME Sound, Written, own, NEW d \in Decoders, Finished(d)
               PROVE  /\ dec[d].status = "ok"
                      /\ Equals([dec[d] EXCEPT !.counts = Expanded(dec[d])], h)
                      /\ dec[d].ratio = (IF h.ratio = 0 THEN 1 ELSE h.ratio)
    BY DEF RoundTrip
  <2>1. PICK y : y = dec[d] OBVIOUS
  <2>2. /\ y.status = "ok" /\ y.geom = h.geom /\ Expanded(y) = h.counts
        /\ y.total = h.total /\ y.ratio = Ratio(h) /\ DOMAIN y = Fields
    BY <2>1, OwnDecoded
  <2> DEFINE z == [y EXCEPT !.counts = Expanded(y)]
  <2>3. z.geom = y.geom /\ z.total = y.total /\ z.counts = Expanded(y) BY <2>2, FieldNames
  <2> HIDE DEF z
  <2>4. Equals(z, h) BY <2>2, <2>3 DEF Equals
  <2> QED BY <2>1, <2>2, <2>4 DEF z, Ratio
<1> QED BY <1>1, AlwaysSound, AlwaysWritten, PTL

-----------------------------------------------------------------------------
(* The packed type encodes what it has read as it was written.              *)

\* PackedHistogram.Max and countsLimit find the same end.
LEMMA SparseLimit ==
  ASSUME NEW x, Proper(x), NEW y, PackedOK(y), y.geom = x.geom, Expanded(y) = x.counts
  PROVE  /\ CountsIndexFor(y.geom, HighestStored(y)) + 1 = CountsLimit(x)
         /\ \A i \in 0..(x.geom.countsLen - 1) : CountAt(y, i) = x.counts[i]
<1> DEFINE g == x.geom
<1> DEFINE L == x.geom.countsLen
<1> DEFINE D == DOMAIN y.counts
<1> DEFINE last == CHOOSE i \in D : \A j \in D : j <= i
<1> DEFINE limit == CountsLimit(x)
<1>1. Built(g) /\ L \in Nat \ {0} /\ limit \in 1..L BY LimitFacts DEF Proper
<1>2. D \subseteq 0..(L - 1) /\ \A i \in D : y.counts[i] > 0 BY DEF PackedOK
<1>3. \A i \in 0..(L - 1) : CountAt(y, i) = x.counts[i] BY DEF Expanded
<1>4. /\ \A i \in 0..(L - 1) : i >= limit => x.counts[i] = 0
      /\ IF \A i \in 0..(L - 1) : x.counts[i] = 0 THEN limit = 1 ELSE x.counts[limit - 1] # 0
  BY LimitFacts
<1>5. \A i \in 0..(L - 1) : x.counts[i] # 0 <=> i \in D
  <2> SUFFICES ASSUME NEW i \in 0..(L - 1) PROVE x.counts[i] # 0 <=> i \in D OBVIOUS
  <2>1. CASE i \in D
    <3>1. x.counts[i] = y.counts[i] /\ y.counts[i] > 0 BY <1>2, <1>3, <2>1 DEF CountAt
    <3>2. x.counts \in [0..(L - 1) -> 0..MaxCount] /\ MaxCount \in Nat BY SignedIsInt64 DEF Proper
    <3>3. x.counts[i] \in 0..MaxCount BY <3>2, Zenon
    <3>4. x.counts[i] \in Int BY <3>2, <3>3
    <3> QED BY <2>1, <3>1, <3>4
  <2>2. CASE i \notin D
    <3>1. x.counts[i] = 0 BY <1>3, <2>2 DEF CountAt
    <3> QED BY <2>2, <3>1
  <2> QED BY <2>1, <2>2
<1>6. CountsIndexFor(g, HighestStored(y)) + 1 = limit
  <2>1. CASE D = {}
    <3>1. HighestStored(y) = PackedHighestEquivalent(g, 0) BY <2>1 DEF HighestStored
    <3>2. CountsIndexFor(g, HighestStored(y)) = 0 BY <1>1, <3>1, FirstPosition
    <3>3. \A i \in 0..(L - 1) : x.counts[i] = 0 BY <1>5, <2>1
    <3>4. limit = 1 BY <1>4, <3>3
    <3> QED BY <3>2, <3>4
  <2>2. CASE D # {}
    <3>1. \E i \in D : \A j \in D : j <= i BY <1>1, <1>2, <2>2, EndsOf
    <3> HIDE DEF D
    <3>2. last \in D /\ \A j \in D : j <= last BY <3>1
    <3>3. HighestStored(y) = PackedHighestEquivalent(g, ValueFromFlatIndex(g, last)) BY <2>2 DEF HighestStored, D
    <3> HIDE DEF last, limit
    <3>4. last \in 0..(L - 1) BY <1>2, <3>2
    <3>5. /\ ValueFromFlatIndex(g, last) \in 0..MaxInt
          /\ CountsIndexFor(g, HighestEquivalent(g, ValueFromFlatIndex(g, last))) = last
      BY <1>1, <3>4, PositionEnds
    <3>6. CountsIndexFor(g, HighestStored(y)) = last BY <1>1, <3>3, <3>5, SameHighest
    <3>7. x.counts[last] # 0 BY <1>5, <3>2, <3>4
    <3>8. x.counts[limit - 1] # 0 BY <1>4, <3>4, <3>7
    <3>9. limit - 1 \in 0..(L - 1) BY <1>1
    <3>10. limit - 1 <= last BY <1>5, <3>2, <3>8, <3>9
    <3>11. ~(last >= limit) BY <1>4, <3>4, <3>7
    <3>12. last + 1 = limit BY <1>1, <3>4, <3>10, <3>11
    <3> QED BY <3>6, <3>12
  <2> QED BY <2>1, <2>2
<1> QED BY <1>3, <1>6

\* A run of zeros has one end.
LEMMA OneRunEnd ==
  ASSUME NEW c, NEW i \in Nat, NEW limit \in Nat, NEW e \in (i + 1)..limit, NEW q \in (i + 1)..limit,
         \A k \in (i + 1)..(e - 1) : c[k] = 0, e = limit \/ c[e] # 0,
         \A k \in (i + 1)..(q - 1) : c[k] = 0, q = limit \/ c[q] # 0
  PROVE  e = q
<1>1. ASSUME e < q PROVE FALSE
  <2>1. e \in (i + 1)..(q - 1) /\ e # limit BY <1>1
  <2> QED BY <2>1
<1>2. ASSUME q < e PROVE FALSE
  <2>1. q \in (i + 1)..(e - 1) /\ q # limit BY <1>2
  <2> QED BY <2>1
<1> QED BY <1>1, <1>2

\* f has, for every position, the bytes from there on.
Unrolled(x, f) ==
  f = [i \in 0..CountsLimit(x) |-> IF i = CountsLimit(x) THEN <<>> ELSE Piece(x, i) \o f[Beyond(x, i)]]

\* There is such a function: a run only leads on.
LEMMA UnrolledExists ==
  ASSUME NEW x, Proper(x), x.geom.countsLen <= MaxCount
  PROVE  \E f : Unrolled(x, f)
<1> DEFINE limit == CountsLimit(x)
<1> DEFINE F(f, i) == IF i = limit THEN <<>> ELSE Piece(x, i) \o f[Beyond(x, i)]
<1> DEFINE G(f, m) == DOMAIN f = 0..limit /\ f = [i \in 0..limit |-> f[i]] /\ \A i \in 0..limit : i >= limit - m => f[i] = F(f, i)
<1> DEFINE S == {m \in Nat : \E f : G(f, m)}
<1>1. limit \in Nat \ {0} BY LimitFacts
<1>2. \A i \in 0..limit : i # limit => Beyond(x, i) \in (i + 1)..limit
  <2> SUFFICES ASSUME NEW i \in 0..limit, i # limit PROVE Beyond(x, i) \in (i + 1)..limit OBVIOUS
  <2>1. i \in Nat /\ i < limit BY <1>1
  <2> QED BY <2>1, FillFacts
<1> HIDE DEF limit
<1>3. 0 \in S
  <2> DEFINE f == [i \in 0..limit |-> <<>>]
  <2>1. DOMAIN f = 0..limit /\ f = [i \in 0..limit |-> f[i]] OBVIOUS
  <2>2. \A i \in 0..limit : i >= limit - 0 => i = limit BY <1>1
  <2>3. G(f, 0) BY <2>1, <2>2
  <2> HIDE DEF f, G
  <2> QED BY <2>3
<1>4. ASSUME NEW m \in S PROVE m + 1 \in S
  <2>1. m \in Nat /\ m + 1 \in Nat OBVIOUS
  <2>2. PICK f : G(f, m) OBVIOUS
  <2> DEFINE p == limit - (m + 1)
  <2> DEFINE r == [i \in 0..limit |-> IF i = p THEN F(f, p) ELSE f[i]]
  <2>3. DOMAIN r = 0..limit /\ r = [i \in 0..limit |-> r[i]] OBVIOUS
  <2>4. ASSUME NEW i \in 0..limit, i >= limit - (m + 1) PROVE r[i] = F(r, i)
    <3>1. i \in Nat /\ p \in Int /\ i >= p BY <1>1, <2>1, <2>4
    <3>2. r[i] = F(f, i)
      <4>1. CASE i = p BY <4>1
      <4>2. CASE i # p
        <5>1. i >= limit - m BY <1>1, <2>1, <3>1, <4>2
        <5> QED BY <2>2, <4>2, <5>1
      <4> QED BY <4>1, <4>2
    <3>3. CASE i = limit BY <3>2, <3>3
    <3>4. CASE i # limit
      <4> DEFINE e == Beyond(x, i)
      <4>1. e \in (i + 1)..limit BY <1>2, <3>4
      <4> HIDE DEF e
      <4>2. e \in 0..limit /\ e # p BY <3>1, <4>1
      <4>3. r[e] = f[e] BY <4>2
      <4> HIDE DEF r
      <4> QED BY <3>2, <3>4, <4>3 DEF e
    <3> QED BY <3>3, <3>4
  <2> HIDE DEF r, p
  <2>5. G(r, m + 1) BY <2>3, <2>4
  <2> HIDE DEF G
  <2> QED BY <2>1, <2>5
<1>5. S = Nat
  <2>1. S \in SUBSET Nat OBVIOUS
  <2> HIDE DEF S
  <2> QED BY <1>3, <1>4, <2>1, SetInduction
<1>6. PICK f : G(f, limit)
  <2>1. limit \in S BY <1>1, <1>5
  <2> QED BY <2>1
<1>7. \A i \in 0..limit : f[i] = F(f, i)
  <2>1. \A i \in 0..limit : i >= limit - limit BY <1>1
  <2> QED BY <1>6, <2>1
<1>8. f = [i \in 0..limit |-> f[i]] BY <1>6
<1>9. [i \in 0..limit |-> f[i]] = [i \in 0..limit |-> F(f, i)] BY <1>7, Zenon
<1>10. f = [i \in 0..limit |-> F(f, i)] BY <1>8, <1>9, Zenon
<1>11. Unrolled(x, f) BY <1>10 DEF Unrolled, limit
<1> QED BY <1>11

\* Along the marks of a buffer, those bytes are the buffer's.
LEMMA UnrolledIs ==
  ASSUME NEW x, Proper(x), x.geom.countsLen <= MaxCount, NEW buf \in Seq(Byte), NEW K, NEW s, NEW b,
         Marks(x, buf, K, s, b), s[K] = CountsLimit(x), NEW f, Unrolled(x, f)
  PROVE  f[0] = buf
<1> DEFINE limit == CountsLimit(x)
<1> DEFINE N == Len(buf)
<1> DEFINE Rest(k) == SubSeq(buf, b[k] + 1, N)
<1> DEFINE S == {m \in Nat : m <= K => f[s[K - m]] = Rest(K - m)}
<1>1. limit \in Nat \ {0} BY LimitFacts
<1>2. K \in Nat /\ N \in Nat /\ b[K] = N /\ s[0] = 0 /\ b[0] = 0 BY DEF Marks
<1>3. \A i \in 0..limit : f[i] = IF i = limit THEN <<>> ELSE Piece(x, i) \o f[Beyond(x, i)] BY DEF Unrolled
<1>4. 0 \in S
  <2>1. K - 0 = K /\ limit \in 0..limit BY <1>1, <1>2
  <2>2. f[s[K]] = <<>> BY <1>3, <2>1
  <2>3. Rest(K) = <<>> BY <1>2
  <2> QED BY <2>1, <2>2, <2>3
<1>5. ASSUME NEW m \in S PROVE m + 1 \in S
  <2> SUFFICES ASSUME m + 1 <= K PROVE f[s[K - (m + 1)]] = Rest(K - (m + 1)) OBVIOUS
  <2> DEFINE k == K - (m + 1)
  <2>1. k \in 0..(K - 1) /\ k + 1 = K - m /\ k \in 0..K /\ k + 1 \in 0..K BY <1>2
  <2>2. f[s[k + 1]] = Rest(k + 1) BY <1>2, <2>1
  <2> HIDE DEF k
  <2> DEFINE P == Piece(x, s[k])
  <2>3. /\ s[k] < limit /\ s[k + 1] = Beyond(x, s[k]) /\ b[k + 1] = b[k] + Len(P)
        /\ \A j \in 1..Len(P) : buf[b[k] + j] = P[j]
    BY <2>1 DEF Marks
  <2>4. s[k] \in 0..limit /\ b[k] \in 0..N /\ b[k + 1] \in 0..N BY <2>1 DEF Marks
  <2>5. s[k] \in Nat BY <2>4
  <2>6. P \in Seq(Byte) /\ Len(P) \in Nat BY <2>3, <2>5, PieceFacts
  <2>7. f[s[k]] = P \o Rest(k + 1)
    <3>1. s[k] # limit BY <1>1, <2>3, <2>5
    <3>2. f[s[k]] = Piece(x, s[k]) \o f[Beyond(x, s[k])] BY <1>3, <2>4, <3>1, Zenon
    <3> QED BY <2>2, <2>3, <3>2, Zenon
  <2> HIDE DEF P
  <2>8. P \o Rest(k + 1) = Rest(k)
    <3> DEFINE A == Rest(k + 1)
    <3> DEFINE B == Rest(k)
    <3>1. A \in Seq(Byte) /\ Len(A) = N - b[k + 1] /\ \A j \in 1..Len(A) : A[j] = buf[b[k + 1] + j]
      BY <1>2, <2>4, RestFacts
    <3>2. B \in Seq(Byte) /\ Len(B) = N - b[k] /\ \A j \in 1..Len(B) : B[j] = buf[b[k] + j]
      BY <1>2, <2>4, RestFacts
    <3> HIDE DEF A, B, N
    <3>0. Len(A) \in Nat /\ Len(B) \in Nat /\ Len(B) = Len(P) + Len(A)
      <4>1. b[k] \in Nat /\ b[k + 1] \in Nat /\ b[k] <= N /\ b[k + 1] <= N BY <1>2, <2>4
      <4>2. Len(A) = N - b[k + 1] /\ Len(B) = N - b[k] /\ b[k + 1] = b[k] + Len(P) BY <2>3, <3>1, <3>2, Zenon
      <4>3. N \in Nat /\ Len(P) \in Nat BY <1>2, <2>6, Zenon
      <4> QED BY <4>1, <4>2, <4>3
    <3>3. Len(P \o A) = Len(B) /\ P \o A \in Seq(Byte)
      <4>1. P \in Seq(Byte) /\ A \in Seq(Byte) BY <2>6, <3>1, Zenon
      <4>2. Len(P \o A) = Len(P) + Len(A) /\ P \o A \in Seq(Byte) BY <4>1
      <4> QED BY <3>0, <4>2
    <3>4. ASSUME NEW j \in 1..Len(B) PROVE (P \o A)[j] = B[j]
      <4>1. Len(A) \in Nat /\ Len(B) \in Nat /\ Len(B) = Len(P) + Len(A) BY <3>0
      <4>2. CASE j <= Len(P)
        <5>1. j \in 1..Len(P) BY <2>6, <4>2
        <5>2. (P \o A)[j] = P[j] BY <2>6, <3>1, <4>1, <5>1
        <5> QED BY <2>3, <3>2, <5>1, <5>2
      <4>3. CASE ~(j <= Len(P))
        <5>1. j - Len(P) \in 1..Len(A) /\ j \in 1..(Len(P) + Len(A)) BY <2>6, <4>1, <4>3
        <5>2. (P \o A)[j] = A[j - Len(P)] BY <2>6, <3>1, <4>1, <4>3, <5>1
        <5>3. A[j - Len(P)] = buf[b[k + 1] + (j - Len(P))] BY <3>1, <5>1
        <5>4. b[k + 1] + (j - Len(P)) = b[k] + j BY <1>2, <2>3, <2>4, <2>6
        <5> QED BY <3>2, <5>2, <5>3, <5>4
      <4> QED BY <4>2, <4>3
    <3>5. P \o A = B
      <4> DEFINE C == P \o A
      <4>1. C \in Seq(Byte) /\ B \in Seq(Byte) /\ Len(C) = Len(B) BY <3>2, <3>3
      <4>2. \A j \in 1..Len(B) : C[j] = B[j] BY <3>4
      <4> HIDE DEF C
      <4>3. C = B BY <4>1, <4>2
      <4> QED BY <4>3 DEF C
    <3> QED BY <3>5 DEF A, B
  <2> QED BY <2>7, <2>8 DEF k
<1>6. K \in S
  <2>1. S \in SUBSET Nat OBVIOUS
  <2> HIDE DEF S
  <2>2. S = Nat BY <1>4, <1>5, <2>1, SetInduction
  <2> QED BY <1>2, <2>2
<1>7. f[s[0]] = Rest(0)
  <2>1. K <= K /\ K - K = 0 BY <1>2
  <2> QED BY <1>6, <2>1
<1>8. Rest(0) = buf BY <1>2
<1> QED BY <1>2, <1>7, <1>8

\* fillBufferFromSparse writes the numbers that fillBufferFromCountsArray wrote.
LEMMA SparseUnrolls ==
  ASSUME NEW x, Proper(x), x.geom.countsLen <= MaxCount,
         NEW y, PackedOK(y), y.geom = x.geom, Expanded(y) = x.counts
  PROVE  \E f : Unrolled(x, f) /\ SparsePayload(y) = f[0]
<1> DEFINE L == x.geom.countsLen
<1> DEFINE limit == CountsIndexFor(y.geom, HighestStored(y)) + 1
<1> DEFINE Q(i, e) == (\A k \in (i + 1)..(e - 1) : CountAt(y, k) = 0) /\ (e = limit \/ CountAt(y, e) # 0)
<1> DEFINE RunStop(i) == CHOOSE e \in (i + 1)..limit : Q(i, e)
<1> DEFINE T(f, i) == IF i = limit THEN <<>>
                      ELSE IF CountAt(y, i) # 0 THEN EncodeI64(CountAt(y, i)) \o f[i + 1]
                      ELSE EncodeI64(IF RunStop(i) - i > 1 THEN i - RunStop(i) ELSE 0) \o f[RunStop(i)]
<1> DEFINE F(f) == [i \in 0..limit |-> T(f, i)]
<1> DEFINE U(f) == [i \in 0..limit |-> IF i = limit THEN <<>> ELSE Piece(x, i) \o f[Beyond(x, i)]]
<1>1. SparsePayload(y) = (CHOOSE f : f = F(f))[0] BY DEF SparsePayload
<1>2. limit = CountsLimit(x) /\ \A i \in 0..(L - 1) : CountAt(y, i) = x.counts[i] BY SparseLimit
<1>3. L \in Nat \ {0} /\ CountsLimit(x) \in 1..L BY LimitFacts
<1> HIDE DEF limit
<1>4. limit \in Nat /\ limit <= L BY <1>2, <1>3
<1>5. ASSUME NEW i \in 0..limit, i # limit, NEW f PROVE T(f, i) = Piece(x, i) \o f[Beyond(x, i)]
  <2>1. i \in Nat /\ i < limit /\ i \in 0..(L - 1) BY <1>3, <1>4, <1>5
  <2>2. CountAt(y, i) = x.counts[i] BY <1>2, <2>1
  <2>3. CASE x.counts[i] # 0
    <3>1. Beyond(x, i) = i + 1 /\ Piece(x, i) = EncodeI64(x.counts[i]) BY <2>3 DEF Beyond, Token, Piece
    <3> QED BY <1>5, <2>2, <2>3, <3>1
  <2>4. CASE x.counts[i] = 0
    <3> DEFINE c == x.counts
    <3> DEFINE e == RunEnd(c, i, limit)
    <3>1. Beyond(x, i) = e /\ Piece(x, i) = EncodeI64(Run(e - i)) BY <1>2, <2>4 DEF Beyond, Token, Piece
    <3>2. LET q == RunEnd(c, i, limit)
          IN  q \in (i + 1)..limit /\ (\A k \in (i + 1)..(q - 1) : c[k] = 0) /\ (q = limit \/ c[q] # 0)
      <4> HIDE DEF c, Q, T
      <4>1. i \in Nat /\ limit \in Nat /\ i < limit BY <1>4, <2>1
      <4> QED BY <4>1, RunEndFacts
    <3>3. e \in (i + 1)..limit /\ (\A k \in (i + 1)..(e - 1) : c[k] = 0) /\ (e = limit \/ c[e] # 0) BY <3>2
    <3> HIDE DEF e
    <3>4. \A q \in (i + 1)..limit : /\ \A k \in (i + 1)..(q - 1) : CountAt(y, k) = c[k]
                                    /\ q # limit => CountAt(y, q) = c[q]
      <4> SUFFICES ASSUME NEW q \in (i + 1)..limit
                   PROVE  /\ \A k \in (i + 1)..(q - 1) : CountAt(y, k) = c[k]
                          /\ q # limit => CountAt(y, q) = c[q]
        OBVIOUS
      <4>1. \A k \in (i + 1)..(q - 1) : k \in 0..(L - 1) BY <1>3, <1>4, <2>1
      <4>2. q # limit => q \in 0..(L - 1) BY <1>3, <1>4, <2>1
      <4> QED BY <1>2, <4>1, <4>2
    <3>5. Q(i, e) BY <3>3, <3>4
    <3> DEFINE q == RunStop(i)
    <3>6. q \in (i + 1)..limit /\ Q(i, q)
      <4> HIDE DEF Q
      <4> QED BY <3>3, <3>5
    <3> HIDE DEF q
    <3>7. (\A k \in (i + 1)..(q - 1) : c[k] = 0) /\ (q = limit \/ c[q] # 0) BY <3>4, <3>6
    <3>8. q = e
      <4> HIDE DEF c, Q
      <4> QED BY <1>4, <2>1, <3>3, <3>6, <3>7, OneRunEnd
    <3>9. T(f, i) = EncodeI64(IF q - i > 1 THEN i - q ELSE 0) \o f[q] BY <1>5, <2>2, <2>4 DEF q
    <3>10. (IF q - i > 1 THEN i - q ELSE 0) = Run(e - i)
      <4>1. e \in Int /\ i - e = -(e - i) BY <2>1, <3>3
      <4> QED BY <3>8, <4>1 DEF Run
    <3> HIDE DEF T
    <3> QED BY <3>1, <3>8, <3>9, <3>10
  <2> QED BY <2>3, <2>4
<1>6. \A f : F(f) = U(f)
  <2> SUFFICES ASSUME NEW f PROVE F(f) = U(f) OBVIOUS
  <2>1. \A i \in 0..limit : T(f, i) = IF i = limit THEN <<>> ELSE Piece(x, i) \o f[Beyond(x, i)]
    <3> SUFFICES ASSUME NEW i \in 0..limit
                 PROVE  T(f, i) = IF i = limit THEN <<>> ELSE Piece(x, i) \o f[Beyond(x, i)]
      OBVIOUS
    <3>1. CASE i = limit BY <3>1
    <3>2. CASE i # limit
      <4>1. T(f, i) = Piece(x, i) \o f[Beyond(x, i)] BY <1>5, <3>2
      <4> HIDE DEF T
      <4> QED BY <3>2, <4>1
    <3> QED BY <3>1, <3>2
  <2> HIDE DEF T
  <2> QED BY <2>1, Zenon
<1>7. PICK r : Unrolled(x, r) BY UnrolledExists
<1>8. \A f : Unrolled(x, f) <=> f = U(f) BY <1>2 DEF Unrolled
<1> DEFINE z == CHOOSE f : f = F(f)
<1> HIDE DEF F, U
<1>9. r = F(r) BY <1>6, <1>7, <1>8, Zenon
<1>10. z = F(z) BY <1>9, Zenon
<1> HIDE DEF z
<1>11. Unrolled(x, z) BY <1>6, <1>8, <1>10, Zenon
<1> QED BY <1>1, <1>11 DEF z

\* PackedHistogram.Encode of what DecodePacked read from an own stream is that stream,
\* byte for byte: both ends and all runs of zeros are where Encode saw them, and
\* getIntegerToDoubleValueConversionRatio leaves a ratio that it wrote as it is.
THEOREM BytesAreIdentical == Spec => []BytesIdentical
<1>1. Sound /\ Written => BytesIdentical
  <2> SUFFICES ASSUME Sound, Written, own, dec["packed"].status = "ok"
               PROVE  PackedEncode(dec["packed"]) = stream
    BY DEF BytesIdentical
  <2>1. PICK y : y = dec["packed"] OBVIOUS
  <2>2. "packed" \in Decoders /\ Finished("packed") BY DecoderNames DEF Finished
  <2>3. /\ DecoderOK("packed", y) /\ y.status = "ok" /\ y.geom = h.geom /\ Expanded(y) = h.counts /\ y.ratio = Ratio(h)
        /\ \E K, s, b : Marks(h, stream.payload, K, s, b) /\ s[K] = CountsLimit(h)
    BY <2>1, <2>2, OwnDecoded
  <2>4. PICK K, s, b : Marks(h, stream.payload, K, s, b) /\ s[K] = CountsLimit(h) BY <2>3
  <2>5. PackedOK(y) BY <2>3, StatusFacts, DecoderNames
  <2>6. Proper(h) /\ h.geom.countsLen <= MaxCount /\ stream = Framed(h, stream.payload) /\ stream.payload \in Seq(Byte)
    BY DEF Sound, ProgramOK, DecodersOK, Written
  <2>7. PICK f : Unrolled(h, f) /\ SparsePayload(y) = f[0] BY <2>3, <2>5, <2>6, SparseUnrolls
  <2>8. f[0] = stream.payload BY <2>4, <2>6, <2>7, UnrolledIs
  <2>9. SparsePayload(y) = stream.payload BY <2>7, <2>8
  <2>10. Ratio(y) = Ratio(h) BY <2>3 DEF Ratio
  <2>11. PackedEncode(y) = Framed(h, stream.payload) BY <2>3, <2>9, <2>10, Zenon DEF PackedEncode, Framed
  <2> QED BY <2>1, <2>6, <2>11
<1> QED BY <1>1, AlwaysSound, AlwaysWritten, PTL
=============================================================================
