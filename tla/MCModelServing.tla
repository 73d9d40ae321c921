---------------------------- MODULE MCModelServing -----------------------------
(* Instances of ModelServing for TLC.                                      *)
EXTENDS ModelServing, TLC

(* Development and production with automatic promotion, and the default    *)
(* of production.                                                          *)
Environments ==
  {[strict |-> FALSE, manual |-> FALSE], [strict |-> TRUE, manual |-> FALSE],
   [strict |-> TRUE, manual |-> TRUE]}

(* Real and synthetic models of good measured quality.                     *)
ByHand == {[type |-> "ANOMALY", synthetic |-> s, grade |-> "good"] : s \in BOOLEAN}

Alike == Permutations(Callers) \cup Permutations(Replicas) \cup Permutations(Threads)
=============================================================================
