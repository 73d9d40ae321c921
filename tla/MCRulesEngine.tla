----------------------------- MODULE MCRulesEngine -----------------------------
(* Instances of RulesEngine for TLC: the events of one or two partitions   *)
(* and how many faults of each kind occur.                                 *)
EXTENDS RulesEngine, TLC

M(score, auto) == [compound |-> FALSE, score |-> score, auto |-> auto]
Compound == [compound |-> TRUE, score |-> 2, auto |-> TRUE]
E(y, ms) == [player |-> y, backfill |-> FALSE, suppressed |-> FALSE, matches |-> ms]
Backfill(v) == [v EXCEPT !.backfill = TRUE]
Suppressed(v) == [v EXCEPT !.suppressed = TRUE]

Faults(kinds) == [f \in FaultKinds |-> IF f \in kinds THEN 1 ELSE 0]
NoFaults == Faults({})
CrashOrWrite == Faults({"crash", "write"})
PublishOrRebalance == Faults({"publish", "rebalance", "analyst"})

(* Two partitions that hold events of one player: a critical alert and a   *)
(* low one of the same event; a backfill and a suppressed event.           *)
Shared ==
  [p \in {"p1", "p2"} |->
     IF p = "p1" THEN <<E("ana", <<M(2, TRUE), M(1, FALSE)>>)>>
     ELSE <<Backfill(E("ana", <<M(1, TRUE)>>)), Suppressed(E("ana", <<M(1, TRUE)>>))>>]

(* Several matches of one event against a queue of one. *)
Busy == [p \in {"p1"} |-> <<E("ana", <<M(1, TRUE), M(2, FALSE), M(2, TRUE)>>), Suppressed(E("bia", <<M(1, TRUE)>>)), E("bia", <<M(0, FALSE)>>)>>]

(* A compound match next to a simple one. *)
WithCompound == [p \in {"p1"} |-> <<E("ana", <<M(1, TRUE), Compound>>)>>]
=============================================================================
