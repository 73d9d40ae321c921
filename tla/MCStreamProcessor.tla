-------------------------- MODULE MCStreamProcessor --------------------------
(* Instances of StreamProcessor for TLC: which topics are in use, which    *)
(* messages are published and how many faults of each kind occur.          *)
EXTENDS StreamProcessor, TLC

Msg(sys, id, form) ==
  [key |-> <<sys, id>>, form |-> form, player |-> TRUE, backfill |-> FALSE,
   status |-> FALSE]

Txn  == "canonical.transactions"

NoFaults == [f \in FaultKinds |-> 0]
Faults(k) == k @@ NoFaults

(* One event on the transaction topic, published twice, and a malformed    *)
(* one; with a record that the consumer cannot decode.                     *)
TxnTopics == {Txn}
TxnInputs == {<<Txn, Msg("sysA", "e1", "ok")>>, <<Txn, Msg("sysA", "e2", "invalid")>>}
WithGarbage == TxnInputs \cup {<<Txn, Msg("sysA", "e2", "garbage")>>}

AllFaults == [f \in FaultKinds |-> 1]
HandlerFaults == Faults([step |-> 1, expiry |-> 1])
CrashFaults == Faults([crash |-> 1])
LivenessFaults == Faults([crash |-> 1, step |-> 1, rebalance |-> 1, expiry |-> 1])

(* Every handler, the messages that reach their early returns included;    *)
(* another source system that numbers its events alike.                    *)
HandlerTopics == Raw \cup Canonical \cup Lifecycle
HandlerInputs ==
  {<<t, [key |-> <<"sysA", "e1">>, form |-> "ok", player |-> k # "stranger",
         backfill |-> k = "backfill", status |-> k = "status"]>> :
     t \in HandlerTopics, k \in {"stranger", "backfill", "status"}}
  \cup {<<Txn, Msg("sysB", "e1", "ok")>>}
=============================================================================
