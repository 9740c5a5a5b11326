---------------------------- MODULE BucketStore -----------------------------
(***************************************************************************)
(* What a histogram promises, whatever its storage: a count for every      *)
(* position of a geometry, and their total, held at MaxCount when a        *)
(* decoded stream sums past it.  The doc comments of packed.go and         *)
(* packed_window.go promise this of PackedHistogram in terms of the dense  *)
(* type: recording, merging (in any of the three directions) and           *)
(* compaction give what re-recording bucket by bucket gives.               *)
(*                                                                         *)
(* PackedHistogram implements this module; see ImplementsStore there.      *)
(***************************************************************************)
EXTENDS Geometry, CountSums, FiniteSets

CONSTANTS
  Stores,      \* names of histograms
  StoreGeometries,
  StoreValues, StoreAmounts, StoreIntervals,  \* inputs of the record calls
  StoreLoads   \* geometries with the counts that decoded streams give them

VARIABLES geom, counts, total, dropped

storeVars == <<geom, counts, total, dropped>>

Positions(g) == 0..(g.countsLen - 1)

StoreInit ==
  /\ geom \in [Stores -> StoreGeometries]
  /\ counts = [s \in Stores |-> [i \in Positions(geom[s]) |-> 0]]
  /\ total = [s \in Stores |-> 0]
  /\ dropped = 0

\* n more values at v are admissible.
Admits(s, v, n) ==
  v >= 0 /\ CountsIndexFor(geom[s], v) \in Positions(geom[s]) /\ n \in 0..(MaxCount - total[s])

\* n values at v, and for each whole interval missed before v one value more, the
\* largest first, until the total is at its limit.
Record(s, v, n, missing, interval) ==
  /\ Admits(s, v, n)
  /\ LET extra == 1..Smaller(missing, MaxCount - (total[s] + n))
         At(x) == CountsIndexFor(geom[s], x)
     IN  /\ counts' = [counts EXCEPT ![s] = [i \in DOMAIN @ |->
                @[i] + (IF At(v) = i THEN n ELSE 0)
                     + Cardinality({k \in extra : At(v - k * interval) = i})]]
         /\ total' = [total EXCEPT ![s] = @ + n + Cardinality(extra)]
  /\ dropped' = 0
  /\ UNCHANGED geom

\* A count c offered to position ci of a, the counts, total and dropped values of a
\* histogram: recorded as a whole if a admits it and dropped otherwise.
Offered(a, ci, c) ==
  IF ci \in DOMAIN a.counts /\ c <= MaxCount - a.total
  THEN [a EXCEPT !.counts[ci] = @ + c, !.total = @ + c]
  ELSE [a EXCEPT !.dropped = Smaller(MaxCount, @ + c)]

\* The positions of from in order, each offered to s at its value.
Rerecorded(s, from) ==
  LET Target(i) == CountsIndexFor(geom[s], ValueFromFlatIndex(geom[from], i))
      after[k \in 0..geom[from].countsLen] ==
        IF k = 0 THEN [counts |-> counts[s], total |-> total[s], dropped |-> 0]
        ELSE Offered(after[k - 1], Target(k - 1), counts[from][k - 1])
  IN  after[geom[from].countsLen]

Merge(s, from) ==
  /\ counts' = [counts EXCEPT ![s] = Rerecorded(s, from).counts]
  /\ total' = [total EXCEPT ![s] = Rerecorded(s, from).total]
  /\ dropped' = Rerecorded(s, from).dropped
  /\ UNCHANGED geom

\* s becomes a histogram with counts c of geometry g.
Become(s, g, c) ==
  /\ geom' = [geom EXCEPT ![s] = g]
  /\ counts' = [counts EXCEPT ![s] = c]
  /\ total' = [total EXCEPT ![s] = Smaller(MaxCount, PrefixSum(c)[g.countsLen])]
  /\ dropped' = 0

\* A call that leaves every histogram as it was.
Keep == UNCHANGED <<geom, counts, total>> /\ dropped' = 0

StoreNext ==
  \/ Keep
  \/ \E s \in Stores :
       \/ \E v \in StoreValues, n \in StoreAmounts : Record(s, v, n, 0, 0)
       \/ \E v \in StoreValues, i \in StoreIntervals :
            Record(s, v, 1, IF i > 0 /\ v > i THEN v \div i - 1 ELSE 0, i)
       \/ \E from \in Stores : Merge(s, from) \/ Become(s, geom[from], counts[from])
                               \/ Become(s, geom[from], [i \in DOMAIN counts[from] |-> 0])
       \/ \E x \in StoreLoads : Become(s, x.geom, x.counts)

StoreSpec == StoreInit /\ [][StoreNext]_storeVars
=============================================================================
