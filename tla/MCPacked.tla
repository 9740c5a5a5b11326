------------------------------ MODULE MCPacked ------------------------------
(* Instances of PackedHistogram: two to four positions, two or three count   *)
(* widths, and payloads that are corrupt (a run or an index past the end,    *)
(* the least int64 as a run), end in zeros, or sum past the limit.           *)
EXTENDS PackedHistogram

Arg(l, h, s) == [low |-> l, high |-> h, sig |-> s]

\* One packed histogram: four positions, three widths.
MCArgs == {Arg(1, 7, 0), Arg(2, 3, 0)}
MCLimit == <<1, 2, 8>>
MCValues == {-1, 0, 1, 2, 4, 8}
MCAmounts == {-1, 0, 1, 3}
MCPayloads == {<<1, -2, 8>>, <<-2, 2, 1>>, <<-9>>, <<0, 8, 8>>, <<-5>>, <<1, 1, 1, 1, 1>>}

\* Two histograms: geometries that index alike over different lengths, and one
\* that indexes differently.
MCArgsPair == {Arg(1, 1, 0), Arg(1, 3, 0), Arg(2, 3, 0)}
MCLimitPair == <<1, 3>>
MCPayloadsPair == {<<1>>, <<-2, 1>>, <<0, 2>>, <<0, 3, 3>>, <<2, 0, 1>>, <<1, 1>>}

\* A packed histogram and a dense one.
MCArgsDense == {Arg(1, 3, 0), Arg(2, 3, 0)}
MCValuesDense == {0, 1, 3}
MCAmountsDense == {1, 2}
MCPayloadsDense == {<<0, 3, 3>>, <<1, -1>>}
=============================================================================
