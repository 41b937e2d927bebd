---------------------------- MODULE MCSelection -----------------------------
(* Four assets with any of eight valuations each, and what contends: two    *)
(* pairs of overlapping contents, every destination, caps that two assets   *)
(* fill and three exceed.                                                   *)
EXTENDS Selection, TLC

Of(kind, perCost, delta, interval, net, powered, tokens, acquisition) ==
    [kind |-> kind, perCost |-> perCost, delta |-> delta, interval |-> interval, net |-> net,
     powered |-> powered, tokens |-> tokens, acquisition |-> acquisition, notMeasured |-> "none"]

MCValuations ==
    { Of("knowledge", 2, 2, "above", "none", FALSE, 2, 1),
      Of("knowledge", 1, 2, "above", "clear", TRUE, 1, 2),
      Of("unspecified", 2, 1, "above", "harm", FALSE, 1, 0),
      Of("behavior", 1, 2, "above", "clear", TRUE, 1, 1),
      Of("knowledge", 1, 1, "crosses", "none", TRUE, 1, 1),
      Of("behavior", -1, -2, "below", "harm", TRUE, 1, 1),
      Of("knowledge", 0, 0, "none", "none", FALSE, 1, 1),
      [Of("knowledge", 0, 0, "none", "none", FALSE, 0, 0) EXCEPT !.notMeasured = "IRRELEVANT"] }

MCSources ==
    [status : {"COMPLETED"}, valuations : [Asset -> MCValuations]]
      \cup [status : {"INTERRUPTED"}, valuations : [Asset -> {None, CHOOSE v \in MCValuations : TRUE}]]

MCPool ==
    <<[destination |-> "context", bytes |-> 1], [destination |-> "knowledge_base", bytes |-> 2],
      [destination |-> "unspecified", bytes |-> 2], [destination |-> "tuning_set", bytes |-> 1]>>
MCPools == {None, MCPool, [a \in {2, 3} |-> [destination |-> "knowledge_base", bytes |-> a - 1]]}

MCOverlap == {<<1, 3>>, <<3, 1>>, <<2, 4>>, <<4, 2>>, <<2, 3>>, <<3, 2>>}

Caps(context, training, knowledge, cost) ==
    [r \in Resource |-> CASE r = "context" -> context [] r = "training" -> training
                          [] r = "knowledge" -> knowledge [] OTHER -> cost]
MCBudgets == {Caps(3, 1, 2, 0), Caps(0, 0, 0, 3), Caps(2, 2, 3, 4)}

=============================================================================
