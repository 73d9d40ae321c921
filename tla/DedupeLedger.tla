----------------------------- MODULE DedupeLedger -----------------------------
(***************************************************************************)
(* What the stream processor promises about the effects of an event, with  *)
(* the workers, the offsets and the faults taken away: an event identity   *)
(* is claimed before it has any effect, and while its first claim lives    *)
(* every effect happens at most once, on one topic.  A claim that has      *)
(* expired once protects nothing any more.                                 *)
(***************************************************************************)
EXTENDS Naturals

CONSTANTS Topics, Keys, Effects

VARIABLES claims, expired, done

ledger == <<claims, expired, done>>

Init ==
  /\ claims = {}
  /\ expired = {}
  /\ done = [t \in Topics |-> [k \in Keys |-> [e \in Effects |-> 0]]]

Claim(k) ==
  /\ k \notin claims
  /\ claims' = claims \cup {k}
  /\ UNCHANGED <<expired, done>>

(* The first time that effect e of event k happens, and on its only topic. *)
Fresh(t, k, e) ==
  \A u \in Topics, f \in Effects : done[u][k][f] > 0 => (u = t /\ f # e)

Apply(t, k, e) ==
  /\ k \in claims \cup expired
  /\ k \notin expired => Fresh(t, k, e)
  /\ done' = [done EXCEPT ![t][k][e] = @ + 1]
  /\ UNCHANGED <<claims, expired>>

Expire(k) ==
  /\ k \in claims
  /\ claims' = claims \ {k}
  /\ expired' = expired \cup {k}
  /\ UNCHANGED done

Next ==
  \E k \in Keys :
    \/ Claim(k)
    \/ \E t \in Topics, e \in Effects : Apply(t, k, e)
    \/ Expire(k)

Spec == Init /\ [][Next]_ledger
=============================================================================
