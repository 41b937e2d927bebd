----------------------------- MODULE MCValueRun -----------------------------
(* Instances of ValueRun for TLC.                                          *)
EXTENDS ValueRun, TLC

CONSTANTS a1, a2, refund, other

MCCase == 1..6
MCPairable == 1..5
MCFailed == {1, 3}
MCCaseTags == [c \in MCCase |-> IF c \in {5, 6} THEN {} ELSE {refund}]
MCAssetTags == (a1 :> {other}) @@ (a2 :> {refund})
MCAssetOrder == <<a1, a2>>

\* A shuffle of the cases for each seed.
Rank(stream, c) == (c * (stream.seed + 1)) % 7
MCDraw(stream, S, n) ==
    {c \in S : Cardinality({d \in S : Rank(stream, d) < Rank(stream, c)}) < n}

MCRouted == [seed |-> 0, reserve |-> 40, rate |-> 50, controlRate |-> 100, minSample |-> 1,
             trials |-> 1, disable |-> FALSE]
MCLonger == [MCRouted EXCEPT !.reserve = 20, !.trials = 2]
MCOptions == {MCRouted, MCLonger}
MCPlain == {MCRouted}

=============================================================================
