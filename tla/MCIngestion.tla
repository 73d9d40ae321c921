----------------------------- MODULE MCIngestion ------------------------------
(* Instances of Ingestion for TLC: the events and payloads that are sent.  *)
EXTENDS Ingestion, TLC

CONSTANTS good, card, odd, wrong, broken, fresh

AllRecords == {good, card, odd, wrong, broken, fresh}
KindOf == (good :> "good") @@ (card :> "card") @@ (odd :> "invalid") @@ (wrong :> "unmapped")
          @@ (broken :> "broken") @@ (fresh :> "good")

(* Payloads for a connector: one that only the canonical schema objects to *)
(* and one that cannot be parsed.  Files of rows: one with a line that is  *)
(* dropped before a good one, and one that the mapping refuses.            *)
Payloads ==
  {[form |-> "connector", records |-> <<good, odd>>],
   [form |-> "connector", records |-> <<broken>>],
   [form |-> "rows", records |-> <<broken, good>>],
   [form |-> "rows", records |-> <<wrong>>]}

ClientsAlike == Permutations(Clients)
=============================================================================
