--------------------------- MODULE MCPercentiles ----------------------------
(* Instance of Percentiles: five positions in two blocks of two and a tail of *)
(* one, every array of small counts and some with totals that five bits of    *)
(* precision round down (65) and up, past a word of seven bits (127), and     *)
(* lists of percentiles in any order with duplicates, NaN and percentiles     *)
(* outside [0, 100].                                                          *)
EXTENDS Percentiles

MCGeometryArgs == [low |-> 2, high |-> 30, sig |-> 0]
LargeTotals == {65, 127}
MCCountArrays ==
  [0..4 -> 0..2] \union {c \in [0..4 -> {0, 1, 63}] : PrefixSum(c)[5] \in LargeTotals}

Percent(S) == {x * Unit : x \in S}
Asks == {NaN} \union Percent({-1, 0, 30, 96, 100, 152})
Lists(S, k) == [1..k -> S]
MCRequests == {<<>>} \union Lists(Asks, 2) \union Lists({NaN} \union Percent({30, 100}), 3)

AscendingLists(S, k) == {t \in [1..k -> S] : \A a \in 2..k : t[a - 1] <= t[a]}
MCDirectRanks == {<<>>} \union AscendingLists(1..11, 1) \union AscendingLists(1..11, 2)
=============================================================================
