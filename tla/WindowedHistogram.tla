------------------------- MODULE WindowedHistogram --------------------------
(***************************************************************************)
(* The rolling window of window.go: n histograms of one geometry, a cursor *)
(* over them, and the histogram m that Merge resets, refills and returns.  *)
(* A program records through w.Current, or through a pointer to an earlier *)
(* Current that it still holds; both are positions of h here.              *)
(*                                                                         *)
(* The histograms' own operations are those of module Histogram, each a    *)
(* single step: positions stand for the buckets and a count that would     *)
(* push a total past MaxCount is refused.                                  *)
(*                                                                         *)
(* recorded and asked are not in the code.  recorded[e] is what was        *)
(* recorded into the histogram that became current at the e-th rotation,   *)
(* from then until the window reused it; asked is the part of recorded     *)
(* that the last Merge was to return.                                      *)
(***************************************************************************)
EXTENDS CountSums

CONSTANTS
  n,            \* number of histograms of the window
  Buckets,      \* positions of their counts are 0..(Buckets-1)
  MaxRotations  \* bound on idx, for model checking

ASSUME WindowAssumption == n \in Nat \ {0} /\ Buckets \in Nat \ {0} /\ MaxRotations \in Nat

VARIABLES
  idx, h, m, Current,   \* the struct's fields; Current is a position of h
  held,                 \* a pointer the program took from Current earlier
  recorded, asked       \* observations

vars == <<idx, h, m, Current, held, recorded, asked>>

Positions == 0..(Buckets - 1)
Zero == [b \in Positions |-> 0]
Total(c) == PrefixSum(c)[Buckets]

\* NewWindowed, which ends with a call of Rotate.
Init ==
  /\ idx = 0 /\ h = [i \in 0..(n - 1) |-> Zero] /\ m = Zero /\ Current = 0
  /\ held = 0
  /\ recorded = [e \in 0..0 |-> Zero] /\ asked = Zero

\* RecordValues has room for one more value.
Admits(c) == Total(c) < MaxCount

\* RecordValue on the histogram at position i, the one of epoch e.
Record(i, e, b) ==
  /\ Admits(h[i])
  /\ h' = [h EXCEPT ![i][b] = @ + 1]
  /\ recorded' = [recorded EXCEPT ![e][b] = @ + 1]
  /\ UNCHANGED <<idx, m, Current, held, asked>>

\* The rotation that last made position i current.
Epoch(i) == CHOOSE e \in 0..idx : e % n = i /\ \A f \in (e + 1)..idx : f % n # i

RecordCurrent(b) == Record(Current, idx, b)
RecordHeld(b) == held # Current /\ Record(held, Epoch(held), b)

\* p := w.Current
Hold ==
  /\ held # Current
  /\ held' = Current
  /\ UNCHANGED <<idx, h, m, Current, recorded, asked>>

\* Mutant of Reused: the cursor is used before it is advanced.
Reused_BeforeAdvance == idx % n

\* The position that Rotate makes current.
Reused == (idx + 1) % n

Rotate ==
  /\ idx < MaxRotations
  /\ idx' = idx + 1
  /\ Current' = Reused
  /\ h' = [h EXCEPT ![Reused] = Zero]
  /\ recorded' = [e \in 0..(idx + 1) |-> IF e \in DOMAIN recorded THEN recorded[e] ELSE Zero]
  /\ UNCHANGED <<m, held, asked>>

\* Histogram.Merge: the counts of c, each as a whole or not at all.
MergedInto(x, c) ==
  LET after[b \in 0..Buckets] ==
        IF b = 0 THEN x
        ELSE IF c[b - 1] <= MaxCount - Total(after[b - 1])
        THEN [after[b - 1] EXCEPT ![b - 1] = @ + c[b - 1]] ELSE after[b - 1]
  IN  after[Buckets]

\* Mutant of MergeBase: the histogram is refilled without a reset.
MergeBase_NoReset == m

\* Merge first resets m.
MergeBase == Zero

\* Merge then merges the histograms of the window one after the other.
Merged ==
  LET after[i \in 0..n] == IF i = 0 THEN MergeBase ELSE MergedInto(after[i - 1], h[i - 1])
  IN  after[n]

\* The epochs in the window, and what they recorded at position b.
Window == {e \in 0..idx : e > idx - n}
WindowCount(b) ==
  PrefixSum([e \in 0..idx |-> IF e \in Window THEN recorded[e][b] ELSE 0])[idx + 1]

Merge ==
  /\ m' = Merged
  /\ asked' = [b \in Positions |-> WindowCount(b)]
  /\ UNCHANGED <<idx, h, Current, held, recorded>>

Next ==
  \/ \E b \in Positions : RecordCurrent(b) \/ RecordHeld(b)
  \/ Hold
  \/ Rotate
  \/ Merge

Spec == Init /\ [][Next]_vars

-----------------------------------------------------------------------------
Counts == [Positions -> 0..MaxCount]

TypeOK ==
  /\ idx \in 0..MaxRotations
  /\ h \in [0..(n - 1) -> Counts] /\ m \in Counts
  /\ Current \in 0..(n - 1) /\ held \in 0..(n - 1)
  /\ recorded \in [0..idx -> Counts]
  /\ DOMAIN asked = Positions /\ \A b \in Positions : asked[b] \in Nat

\* Every histogram of the window holds the values of the latest epoch it was
\* current in and no older ones, also when a pointer taken from Current before a
\* rotation is still being recorded through: Rotate resets exactly the oldest.
SlotsHoldTheirEpoch ==
  /\ TypeOK
  /\ Current = idx % n
  /\ \A i \in 0..(n - 1) : h[i] = IF i <= idx THEN recorded[Epoch(i)] ELSE Zero

\* What Merge returned is the window's content at that call and stays so until
\* the next call, whatever is recorded or rotated meanwhile, when the values fit
\* the total; otherwise it holds no more than them and never exceeds the limit.
MergeIsWindow ==
  IF Total(asked) <= MaxCount THEN m = asked
  ELSE Total(m) <= MaxCount /\ \A b \in Positions : m[b] <= asked[b]
=============================================================================
