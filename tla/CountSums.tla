----------------------------- MODULE CountSums ------------------------------
(***************************************************************************)
(* Counts and their sums.  An array of length n is a function on 0..(n-1), *)
(* as in Go; PrefixSum(c)[n] is c[0] + ... + c[n-1], the running total of  *)
(* a scan that stands before position n.                                   *)
(*                                                                         *)
(* MaxCount is math.MaxInt64 where the code bounds a count by it.  It is a *)
(* constant of its own, not Geometry's MaxInt, because nothing in the code *)
(* compares a count with a value and a model checker wants few counts.     *)
(***************************************************************************)
EXTENDS Integers

CONSTANT MaxCount

ASSUME MaxCountAssumption == MaxCount \in Nat \ {0}

\* The values of an int64 that holds a count.
Int64 == -(MaxCount + 1)..MaxCount

\* The int64 that the bits of x denote: every int64 addition and subtraction of
\* the code is the exact one followed by this.
Wrap64(x) == ((x + MaxCount + 1) % (2 * (MaxCount + 1))) - (MaxCount + 1)

\* addDropped (packed_window.go): a saturating sum.
AddDropped(total, c) ==
  IF c > Wrap64(MaxCount - total) THEN MaxCount ELSE Wrap64(total + c)

\* Exact prefix sums.
PrefixSum(c) ==
  LET s[n \in Nat] == IF n = 0 THEN 0 ELSE s[n - 1] + c[n - 1] IN s

\* c with its negative entries replaced by zero.
NonNegativePart(c) == [i \in DOMAIN c |-> IF c[i] > 0 THEN c[i] ELSE 0]
=============================================================================
