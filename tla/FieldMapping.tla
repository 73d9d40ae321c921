----------------------------- MODULE FieldMapping ------------------------------
(***************************************************************************)
(* libs/mapping.py: the templates of field mappings that come with the     *)
(* code, MappingEngine.apply, and the two checks against the canonical     *)
(* schema: of the targets of a configuration when it is saved, and of      *)
(* every record mapped with it when it is ingested.                        *)
(***************************************************************************)
EXTENDS Naturals, FiniteSets

CONSTANT Gaps  \* bound: columns missing from a record

VARIABLES
  template,  \* a key of BACKOFFICE_CONFIGS
  raw        \* [missing, unreadable : columns, positive : BOOLEAN]: a raw record, by its targets

(* Fields by what makes their value None: a column that is missing, also   *)
(* one that is no number, or nothing: a constant or an enum with _default. *)
(* must: marked required.                                                  *)
Fields(copied, numbers, filled, must) ==
  [copied |-> copied, numbers |-> numbers, filled |-> filled, must |-> must]

Movement == {"transaction_id", "player_id", "type", "currency", "method", "status", "occurred_at"}
Connected == {"external_transaction_id", "player_cpf", "type", "currency", "occurred_at", "device_id", "method"}

Templates ==
  [Alpha_TRANSACTION |-> Fields(Movement, {"amount"}, {}, {}),
   Alpha_PLAYER |-> Fields({"external_player_id", "full_name", "cpf", "email", "birth_date", "pep_flag"},
                           {"declared_income_monthly"}, {}, {}),
   Beta_TRANSACTION |-> Fields(Movement, {"amount"}, {}, {}),
   Beta_PLAYER |-> Fields({"external_player_id", "cpf", "name", "birth_date", "pep_flag"}, {}, {}, {}),
   X_TRANSACTION |->
     Fields({"external_transaction_id", "player_cpf", "external_player_id", "currency", "occurred_at", "description"},
            {"amount"}, {"type", "method", "status", "source_system"},
            {"external_transaction_id", "player_cpf", "type", "amount", "method", "status", "occurred_at"}),
   X_PLAYER |->
     Fields({"external_player_id", "name", "cpf", "birth_date", "email", "phone", "profession",
             "registration_date", "nationality"},
            {"declared_income_monthly"}, {"pep_flag", "source_system"}, {"external_player_id", "name", "cpf"}),
   X_BET |->
     Fields({"external_bet_id", "player_cpf", "external_player_id", "event_id", "selection", "placed_at",
             "settled_at", "game_id", "game_name", "game_provider"},
            {"stake_amount", "odds", "potential_payout", "settled_payout", "cashout_amount", "rtp_teorico"},
            {"market_type", "sport", "channel", "status", "product_type", "game_category", "source_system"},
            {"external_bet_id", "player_cpf", "stake_amount", "placed_at"}),
   X_DEVICE_EVENT |->
     Fields({"external_player_id", "player_cpf", "device_id", "ip", "geo_country", "user_agent", "occurred_at"},
            {}, {"event_type", "source_system"}, {"device_id", "occurred_at"}),
   Gamma_TRANSACTION |-> Fields(Connected, {"amount"}, {"status"}, {}),
   Delta_TRANSACTION |-> Fields(Connected \cup {"ip_address", "session_id"}, {"amount"}, {"status"}, {}),
   Epsilon_TRANSACTION |-> Fields(Connected \cup {"ip_address", "session_id"}, {"amount"}, {"status"}, {})]

EntityOf(k) ==
  CASE k \in {"Alpha_PLAYER", "Beta_PLAYER", "X_PLAYER"} -> "PLAYER"
    [] k = "X_BET" -> "BET"
    [] k = "X_DEVICE_EVENT" -> "DEVICE_EVENT"
    [] OTHER -> "TRANSACTION"

Columns(t) == t.copied \cup t.numbers
Targets(t) == Columns(t) \cup t.filled

-----------------------------------------------------------------------------
(* CANONICAL_INGEST_SCHEMA, the fields that no template has left out.      *)
Identity == {"player_id", "player_cpf", "external_player_id"}
RequiredAny(entity) ==
  CASE entity = "TRANSACTION" ->
         {{"external_transaction_id", "transaction_id", "event_id"}, Identity,
          {"type", "transaction_type"}, {"amount"}, {"occurred_at"}}
    [] entity = "BET" ->
         {{"external_bet_id", "bet_id", "event_id"}, Identity, {"stake_amount", "amount"}, {"placed_at", "occurred_at"}}
    [] entity = "PLAYER" -> {{"external_player_id", "player_id"}, {"cpf"}, {"name", "full_name"}}
    [] entity = "DEVICE_EVENT" -> {{"device_id"}, {"occurred_at"}}

AllowedFields(entity) ==
  (UNION RequiredAny(entity)) \cup {"source_system"} \cup
  CASE entity = "TRANSACTION" ->
         {"currency", "method", "status", "description", "device_id", "ip_address", "session_id"}
    [] entity = "BET" ->
         {"odds", "potential_payout", "settled_payout", "market_type", "sport", "event_id_ref", "selection",
          "channel", "settled_at", "status", "cashout_amount", "outcome", "device_id"}
    [] entity = "PLAYER" ->
         {"birth_date", "pep_flag", "declared_income_monthly", "profession", "email", "phone", "nationality",
          "registration_date", "registered_since"}
    [] entity = "DEVICE_EVENT" ->
         {"player_id", "player_cpf", "ip", "ip_address", "geo_country", "country_code", "user_agent",
          "event_type", "action"}

MissingGroups(entity, fields) == {g \in RequiredAny(entity) : g \cap fields = {}}

(* validate_mapping_targets_against_canonical_schema.                      *)
TargetsValid(k) ==
  LET t == Templates[k]
  IN Targets(t) \subseteq AllowedFields(EntityOf(k)) /\ MissingGroups(EntityOf(k), Targets(t)) = {}

-----------------------------------------------------------------------------
(* A date that is not recognised is passed on as it is.                    *)
IsNone(t, r, f) == f \in Columns(t) /\ (f \in r.missing \/ (f \in t.numbers /\ f \in r.unreadable))

(* MappingEngine.apply: the values, or {} for an error.                    *)
Applied(t, r) ==
  IF \E f \in t.must : IsNone(t, r, f) THEN {}
  ELSE {[field |-> f, none |-> IsNone(t, r, f), readable |-> f \notin r.unreadable] : f \in Targets(t)}

(* empty_required_fields: every field of a required group that was mapped  *)
(* needs a value, its alternatives having one or not.                      *)
EmptyRequired(entity, payload) ==
  {v \in payload : v.none /\ v.field \in UNION RequiredAny(entity)}

(* Mutant of UnknownFields: what is not canonical is passed on.            *)
UnknownIgnored(entity, fields) == {}

UnknownFields(entity, fields) == fields \ AllowedFields(entity)

(* validate_canonical_ingest_payload.                                      *)
Ingestible(k, r) ==
  LET entity == EntityOf(k)
      payload == Applied(Templates[k], r)
      fields == {v.field : v \in payload}
  IN /\ payload # {}
     /\ UnknownFields(entity, fields) = {}
     /\ MissingGroups(entity, fields) = {}
     /\ EmptyRequired(entity, payload) = {}
     /\ entity = "TRANSACTION" =>
          /\ \A v \in payload : v.field = "amount" => v.readable /\ ~v.none /\ r.positive
          /\ \A v \in payload : v.field = "occurred_at" => v.readable

-----------------------------------------------------------------------------
FieldMappingInit ==
  /\ template \in DOMAIN Templates
  /\ \E missing \in {m \in SUBSET Columns(Templates[template]) : Cardinality(m) <= Gaps},
        unreadable \in {{}, {"amount"}, {"stake_amount"}, {"declared_income_monthly"}, {"occurred_at"}},
        positive \in BOOLEAN :
       raw = [missing |-> missing, unreadable |-> unreadable, positive |-> positive]

Whole(r) == r.missing = {} /\ r.unreadable = {} /\ r.positive

(* What a template can be saved with is what ingestion takes: a template   *)
(* passes the check of its targets if and only if a record that has every  *)
(* column passes the check of its payload.                                 *)
CheckedOnSave == Whole(raw) => (Ingestible(template, raw) <=> TargetsValid(template))

(* A record is refused for nothing else than a column of a field that is   *)
(* marked required, or that is one of a group of which the schema asks for *)
(* any: a record with a CPF and without the operator's player number is    *)
(* refused where the template maps both.                                   *)
RefusedForAColumn ==
  LET t == Templates[template]
      needed == t.must \cup (Targets(t) \cap UNION RequiredAny(EntityOf(template)))
  IN TargetsValid(template) =>
       (Ingestible(template, raw) <=>
          /\ \A f \in needed \cap Columns(t) : f \notin raw.missing
          /\ needed \cap t.numbers \cap raw.unreadable = {}
          /\ EntityOf(template) = "TRANSACTION" => raw.positive /\ "occurred_at" \notin raw.unreadable)

(* A template that was accepted does not fail, and a record is refused for *)
(* what it lacks only.                                                     *)
FieldsSound == CheckedOnSave /\ RefusedForAColumn
=============================================================================
