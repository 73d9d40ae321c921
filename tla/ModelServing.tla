----------------------------- MODULE ModelServing ------------------------------
(***************************************************************************)
(* The ml_service beside the registry: it trains and registers champions   *)
(* of its own and scores with models it keeps in a cache.  Its endpoints   *)
(* are synchronous, so each request is a thread, and only its own training *)
(* (or a restart, or /models/reload) empties the cache.                    *)
(***************************************************************************)
EXTENDS ModelRegistry

CONSTANT Threads \* requests at once

ASSUME ServingAssumption ==
  /\ Threads \cap (Writers \cup {"trainer"}) = {}
  /\ None # [do |-> "clear"]

VARIABLES thread,     \* what each request is doing
          cache,      \* model per variant
          untold,     \* the registry changed under a loaded cache, by others
          crossed     \* the cache was emptied between a load's read and its end

servingVars == <<thread, cache, untold, crossed>>
vars == <<registryVars, servingVars>>

Variants == {"champion", "challenger"}

Init ==
  /\ RegistryInit
  /\ thread = [t \in Threads |-> None]
  /\ cache = [v \in Variants |-> None]
  /\ untold = FALSE /\ crossed = FALSE

(* The row a load takes: the latest of the tenant, whatever its type.      *)
Servable(v) ==
  {i \in DOMAIN models :
    IF v = "challenger"
    THEN models[i].status = "challenger" /\ models[i].challenger
    ELSE /\ models[i].status = "champion" \/ (models[i].status = "bootstrap" /\ ~strict)
         /\ ~models[i].challenger}

Latest(v) ==
  IF Servable(v) = {} THEN None
  ELSE CHOOSE i \in Servable(v) : \A j \in Servable(v) : j <= i

(* /score: the variant's entry in the cache answers, else it is loaded.    *)
ScoreBegin(t, v) ==
  /\ thread[t] = None /\ cache[v] = None
  /\ Called
  /\ thread' = [thread EXCEPT ![t] = [do |-> "load", variant |-> v, model |-> Latest(v)]]
  /\ UNCHANGED <<tableVars, cache, untold, crossed>>

(* One entry per tenant.                                                   *)
LoadEndsShared(t) ==
  /\ thread[t] # None /\ thread[t].do = "load"
  /\ thread[t].model # None /\ models[thread[t].model].loadable
  /\ cache' = [v \in Variants |-> thread[t].model]
  /\ thread' = [thread EXCEPT ![t] = None]
  /\ UNCHANGED <<registryVars, untold, crossed>>

(* The download ends: only an artifact the service stored itself can be    *)
(* read.  Without a challenger the champion is loaded instead.             *)
LoadEnds(t) ==
  /\ thread[t] # None /\ thread[t].do = "load"
  /\ LET v == thread[t].variant
         loaded == thread[t].model # None /\ models[thread[t].model].loadable
     IN /\ cache' = IF loaded THEN [cache EXCEPT ![v] = thread[t].model] ELSE cache
        /\ thread' = [thread EXCEPT ![t] =
             IF ~loaded /\ v = "challenger" /\ cache["champion"] = None
             THEN [do |-> "load", variant |-> "champion", model |-> Latest("champion")]
             ELSE None]
  /\ UNCHANGED <<registryVars, untold, crossed>>

EmptyCache ==
  /\ cache' = [v \in Variants |-> None]
  /\ untold' = \E t \in Threads : thread[t] # None /\ thread[t].do = "load" /\ untold
  /\ crossed' = (crossed \/ \E t \in Threads : thread[t] # None /\ thread[t].do = "load")

(* register_model_db: nobody is demoted.                                   *)
Registered(t, type, synthetic, uploaded) ==
  /\ ~(synthetic /\ strict)
  /\ Register(t, NewModel(type, "champion", synthetic, "missing", uploaded))

(* /train and the nightly retraining: too few rows are made up, where that *)
(* is allowed.  The upload may fail (the artifact is then a memory://      *)
(* address), and so may the registration, which is only logged.            *)
Train(t, synthetic, uploaded, registered) ==
  /\ thread[t] = None
  /\ Called
  /\ ~(synthetic /\ strict)
  /\ IF registered THEN Registered(t, "ANOMALY", synthetic, uploaded)
     ELSE UNCHANGED <<models, overlap>>
  /\ thread' = [thread EXCEPT ![t] = [do |-> "clear"]]
  /\ UNCHANGED <<strict, manual, tx, run, trainer, cache, untold, crossed>>

(* /train/structuring, /train/graph and /train/recurrence always train on  *)
(* made-up rows.                                                           *)
TrainMadeUp(t, type, uploaded, registered) ==
  /\ thread[t] = None /\ ~strict
  /\ Called
  /\ IF registered THEN Registered(t, type, TRUE, uploaded)
     ELSE UNCHANGED <<models, overlap>>
  /\ thread' = [thread EXCEPT ![t] = [do |-> "clear"]]
  /\ UNCHANGED <<strict, manual, tx, run, trainer, cache, untold, crossed>>

TrainEnds(t) ==
  /\ thread[t] # None /\ thread[t].do = "clear"
  /\ EmptyCache
  /\ thread' = [thread EXCEPT ![t] = None]
  /\ UNCHANGED registryVars

(* /models/reload, and a restart, which loses the requests too.            *)
Reload ==
  /\ Called
  /\ EmptyCache
  /\ UNCHANGED <<tableVars, thread>>

Restart ==
  /\ Called
  /\ cache' = [v \in Variants |-> None]
  /\ thread' = [t \in Threads |-> None]
  /\ untold' = FALSE /\ crossed' = FALSE
  /\ UNCHANGED tableVars

Loaded == \/ \E v \in Variants : cache[v] # None
          \/ \E t \in Threads : thread[t] # None /\ thread[t].do = "load"

ServingNext ==
  \/ \E t \in Threads :
       \/ \E v \in Variants : ScoreBegin(t, v)
       \/ LoadEnds(t) \/ TrainEnds(t)
       \/ \E synthetic, uploaded, registered \in BOOLEAN : Train(t, synthetic, uploaded, registered)
       \/ \E type \in Types \ {"ANOMALY"}, uploaded, registered \in BOOLEAN :
            TrainMadeUp(t, type, uploaded, registered)
  \/ Reload \/ Restart

(* Nobody tells the ml_service of a change in the registry.                *)
Next ==
  \/ ServingNext
  \/ /\ RegistryNext
     /\ untold' = (untold \/ (Loaded /\ \E v \in Variants : Latest(v)' # Latest(v)))
     /\ UNCHANGED <<thread, cache, crossed>>

Spec == Init /\ [][Next]_vars

-----------------------------------------------------------------------------
(* Properties.                                                             *)

(* Every variable has its type.                                            *)
TypeOK ==
  /\ RegistryTypeOK
  /\ cache \in [Variants -> DOMAIN models \cup {None}]
  /\ thread \in [Threads -> {None} \cup [do : {"clear"}]
       \cup [do : {"load"}, variant : Variants, model : DOMAIN models \cup {None}]]
  /\ untold \in BOOLEAN /\ crossed \in BOOLEAN

(* "Modelos sinteticos nao podem ser promovidos para active/champion em    *)
(* staging ou production": whichever of the six ways to become champion a  *)
(* model takes, and however they overlap.                                  *)
NoSyntheticChampion ==
  strict => \A i \in DOMAIN models :
    models[i].status \in {"champion", "bootstrap"} => ~models[i].synthetic

(* A designation resets the challenger there was: a type has at most one,  *)
(* as long as no write fell between another's read and write.              *)
OneChallenger == ~overlap => \A type \in Types : Cardinality(Challengers(type)) <= 1

(* A promotion, by an analyst or by the job, leaves the model as the only  *)
(* champion of its type, also where the trainings had left several.        *)
PromotionReplaces ==
  [][\A w \in Writers, type \in Types :
       /\ tx[w] # None /\ tx'[w] = None /\ ~overlap'
       /\ tx[w].op = "promote" /\ models[tx[w].model].type = type
       => Champions(type)' = {tx[w].model}]_vars

(* A type that has a champion keeps one: no promotion, designation,        *)
(* expiry or training leaves it without.  Two things do: writes that       *)
(* overlap, and the daily retraining, which archives the latest champion   *)
(* of any type.                                                            *)
ChampionKept ==
  [][\A type \in Types : Champions(type) # {} /\ Champions(type)' = {} =>
       \/ overlap'
       \/ trainer # None /\ trainer' = None /\ trainer.row.type # type]_vars

(* Archived is final: a model comes back only where a call that had        *)
(* checked it before overlaps with the one that archived it.               *)
ArchivedStays ==
  [][\A i \in DOMAIN models :
       models[i].status = "archived" => models'[i].status = "archived" \/ overlap']_vars

(* A model in the cache is the one the registry would name now, unless     *)
(* somebody else changed the registry, a training has yet to empty the     *)
(* cache, or the cache was emptied while the model was being loaded.       *)
CacheCurrent ==
  \A v \in Variants :
    cache[v] # None => \/ cache[v] = Latest(v)
                       \/ untold \/ crossed
                       \/ \E t \in Threads : thread[t] # None /\ thread[t].do = "clear"

(* The registry through any interleaving of analysts, jobs and trainings:  *)
(* no model of synthetic data serves where that is forbidden, and a type   *)
(* has one challenger where writes do not overlap.                         *)
RegistrySound == TypeOK /\ NoSyntheticChampion /\ OneChallenger

(* What a step of the registry may never do: leave a second champion on a  *)
(* promotion, lose the champion of a type, or bring an archived model back.*)
LifecycleSteps == PromotionReplaces /\ ChampionKept /\ ArchivedStays
=============================================================================
