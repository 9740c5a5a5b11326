----------------------------- MODULE FloatRank ------------------------------
(***************************************************************************)
(* percentileRank of hdr.go, in binary floating point with a significand   *)
(* of Precision bits and rounding to nearest, ties to even.  A float is    *)
(* written as the number of its Units: 1.0 is Unit, and floats closer to   *)
(* zero than 2^Precision units lose bits as subnormal numbers do.          *)
(*                                                                         *)
(* In the code Precision = 53 and totals have 63 bits: with fewer bits     *)
(* than the total needs, float64(totalCount) and the rank are rounded, up  *)
(* or down.  NaN stands for every percentile that is not a number.         *)
(***************************************************************************)
EXTENDS Integers

CONSTANTS
  Precision, Unit,
  MaxExponent,      \* larger than the exponents of the numbers that are rounded
  NaN

ASSUME FloatAssumption ==
  Precision \in Nat \ {0} /\ MaxExponent \in Nat /\ \E k \in 1..MaxExponent : Unit = 2^k

\* Rounded[n][d] is the float nearest to n / d.
Rounded == [n \in Nat |-> [d \in Nat \ {0} |->
  LET e == CHOOSE k \in 0..MaxExponent :
             /\ n < 2^(Precision + k) * d
             /\ k = 0 \/ n >= 2^(Precision + k - 1) * d
      step == d * 2^e
      q == n \div step
      twice == 2 * (n % step)
  IN  2^e * (IF twice > step \/ (twice = step /\ q % 2 = 1) THEN q + 1 ELSE q)]]

\* float64(totalCount), a whole number.
FloatTotal(total) == Rounded[total][1]

Capped(p) == IF p > 100 * Unit THEN 100 * Unit ELSE p

\* (percentile / 100) * float64(totalCount) + 0.5, each operation rounded.
RawRank(p, total) ==
  Rounded[Rounded[Rounded[Capped(p)][100] * FloatTotal(total)][1] + Unit \div 2][1]

\* Mutant of PastTotal: the exact total is the bound.
PastTotal_Exact(r, total) == r >= total * Unit

\* The rank r reaches the rounded total.
PastTotal(r, total) == r >= FloatTotal(total) * Unit

\* percentileRank: NaN, negative percentiles and ranks below the first sample are
\* the first.
PercentileRank(p, total) ==
  LET r == RawRank(p, total)
  IN  IF p = NaN \/ p < 0 \/ r < Unit THEN 1
      ELSE IF PastTotal(r, total) THEN total
      ELSE r \div Unit
=============================================================================
