---------------------------- MODULE TenantSettings -----------------------------
(***************************************************************************)
(* Settings of a tenant that handlers change and others read later         *)
(* (routers/admin.py): the maintenance flag, which the middleware of every *)
(* replica of the API keeps for a while (middleware.py), and the limits of *)
(* the risk bands in scoring_configs.                                      *)
(***************************************************************************)
EXTENDS ApiRequests

CONSTANTS
  Replicas,   \* of the API
  CacheTtl,   \* _CACHE_TTL, in ticks
  LastMoment, \* bound: ticks of a run
  Bands,      \* values of the limits of the risk bands
  Limits      \* the ones create_tenant sets

ASSUME SettingsAssumption ==
  /\ CacheTtl \in Nat \ {0} /\ LastMoment \in Nat
  /\ Bands \subseteq Nat /\ Limits \in [low : Bands, high : Bands] /\ Limits.low < Limits.high

VARIABLES
  moment,
  flag,        \* flag_value of maintenance_mode: "none", "on" or "off"
  flaggedAt,   \* history: when it was last committed
  cached,      \* [Replicas -> entry of _maintenance_cache]
  limits       \* risk_band_low_threshold and risk_band_high_threshold

settingsVars == <<moment, flag, flaggedAt, cached, limits>>

(* sure: the lookup did not fail.                                          *)
SettingsInit ==
  /\ moment = 0
  /\ flag = "none" /\ flaggedAt = 0
  /\ cached = [r \in Replicas |-> [on |-> FALSE, until |-> 0, sure |-> TRUE]]
  /\ limits = Limits

Current(r) == moment < cached[r].until

(* _is_maintenance_enabled without an entry in the cache: the time is      *)
(* taken, the flag read, the entry written.                                *)
LookupBegin(w, r) ==
  /\ ~Current(r)
  /\ Begin(w, [op |-> "lookup", at |-> r, now |-> moment])
  /\ UNCHANGED <<moment, flag, flaggedAt, cached, limits>>

LookupRead(w) ==
  /\ Doing(w, "lookup")
  /\ \/ GoesOn(w, [op |-> "store", at |-> request[w].at, now |-> request[w].now, on |-> flag = "on", sure |-> TRUE])
     \/ GoesOn(w, [op |-> "store", at |-> request[w].at, now |-> request[w].now, on |-> FALSE, sure |-> FALSE])
  /\ UNCHANGED <<moment, flag, flaggedAt, cached, limits>>

(* Mutant of Until: the entry is good for a while from when it is written. *)
UntilFromWrite(w) == moment + CacheTtl

Until(w) == request[w].now + CacheTtl

LookupStore(w) ==
  /\ Doing(w, "store")
  /\ cached' = [cached EXCEPT ![request[w].at] =
                  [on |-> request[w].on, until |-> Until(w), sure |-> request[w].sure]]
  /\ Ends(w)
  /\ UNCHANGED <<moment, flag, flaggedAt, limits>>

-----------------------------------------------------------------------------
(* MaintenanceModeMiddleware: with an entry in the cache, and during       *)
(* maintenance only the request that ends it.                              *)
Admitted(r, op, on) ==
  /\ Current(r)
  /\ cached[r].on => op = "toggle" /\ ~on

(* set_maintenance_mode, and upsert_system_flag for this flag.             *)
ToggleBegin(w, r, op, on) ==
  /\ Admitted(r, op, on)
  /\ Begin(w, [op |-> op, at |-> r, on |-> on, insert |-> flag = "none"])
  /\ UNCHANGED <<moment, flag, flaggedAt, cached, limits>>

(* A second INSERT meets the unique key.                                   *)
ToggleCommit(w) ==
  /\ Doing(w, "toggle") \/ Doing(w, "put_flag")
  /\ IF request[w].insert /\ flag # "none"
     THEN Ends(w) /\ UNCHANGED <<flag, flaggedAt>>
     ELSE /\ flag' = IF request[w].on THEN "on" ELSE "off"
          /\ flaggedAt' = moment
          /\ IF request[w].op = "put_flag" THEN Ends(w)
             ELSE GoesOn(w, [op |-> "cache", at |-> request[w].at, on |-> request[w].on])
  /\ UNCHANGED <<moment, cached, limits>>

ToggleCache(w) ==
  /\ Doing(w, "cache")
  /\ cached' = [cached EXCEPT ![request[w].at] =
                  [on |-> request[w].on, until |-> moment + CacheTtl, sure |-> TRUE]]
  /\ Ends(w)
  /\ UNCHANGED <<moment, flag, flaggedAt, limits>>

(* From the commit to the entry in the cache no time passes.               *)
MomentPasses ==
  /\ moment < LastMoment
  /\ \A w \in Workers : ~Doing(w, "cache")
  /\ moment' = moment + 1
  /\ UNCHANGED <<requestVars, flag, flaggedAt, cached, limits>>

-----------------------------------------------------------------------------
(* What the body gives, and the rest as the row has it.                    *)
Merged(row, body) ==
  [c \in DOMAIN row |-> IF c \in DOMAIN body THEN body[c] ELSE row[c]]

Allowed(row, body) == Merged(row, body).low < Merged(row, body).high

(* update_scoring_config, for the limits of the bands.                     *)
LimitsBegin(w) ==
  /\ \E columns \in (SUBSET {"low", "high"}) \ {{}} : \E body \in [columns -> Bands] :
       /\ Allowed(limits, body)
       /\ Begin(w, [op |-> "limits", before |-> limits, after |-> Merged(limits, body)])
  /\ UNCHANGED <<moment, flag, flaggedAt, cached, limits>>

LimitsCommit(w) ==
  /\ Doing(w, "limits")
  /\ limits' = Flushed(limits, request[w].before, request[w].after)
  /\ Ends(w)
  /\ UNCHANGED <<moment, flag, flaggedAt, cached>>

SettingsNext ==
  \/ \E w \in Workers :
       \/ \E r \in Replicas :
            \/ LookupBegin(w, r)
            \/ \E op \in {"toggle", "put_flag"}, on \in BOOLEAN : ToggleBegin(w, r, op, on)
       \/ LookupRead(w) \/ LookupStore(w) \/ ToggleCommit(w) \/ ToggleCache(w)
       \/ LimitsBegin(w) \/ LimitsCommit(w)
  \/ MomentPasses

SettingsSpec == RequestInit /\ SettingsInit /\ [][SettingsNext]_<<requestVars, settingsVars>>

-----------------------------------------------------------------------------
SettingsTypeOK ==
  /\ moment \in 0..LastMoment /\ flaggedAt \in 0..LastMoment
  /\ flag \in {"none", "on", "off"}
  /\ cached \in [Replicas -> [on : BOOLEAN, until : 0..(LastMoment + CacheTtl), sure : BOOLEAN]]
  /\ limits \in [low : Bands, high : Bands]

(* "Uses an in-process dict cache with 60-second TTL": a replica that acts *)
(* on another value than the flag has does so for no longer than the TTL   *)
(* after the flag was changed, whoever changed it and whatever lookup was  *)
(* under way then; unless its last lookup failed.                          *)
MaintenanceArrives ==
  \A r \in Replicas :
    Current(r) /\ cached[r].sure /\ cached[r].on # (flag = "on") => moment < flaggedAt + CacheTtl

(* "risk_band_low_threshold deve ser menor que risk_band_high_threshold":  *)
(* also after two updates of one limit each, unless they overlapped.       *)
BandsOrdered == crossed \/ limits.low < limits.high

(* What the replicas go by is what was set, within the life of a cache,    *)
(* and what was set is in order.                                           *)
SettingsSound == SettingsTypeOK /\ MaintenanceArrives /\ BandsOrdered
=============================================================================
