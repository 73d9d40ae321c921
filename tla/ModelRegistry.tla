----------------------------- MODULE ModelRegistry -----------------------------
(***************************************************************************)
(* The table model_registry of one tenant and who writes it: the analysts' *)
(* calls (promote, challenger), the promotion job that every API replica   *)
(* runs at 07:30, and the jobs of the ml_trainer.  The table has no        *)
(* constraint of its own, so "one champion per type" is up to them.        *)
(*                                                                         *)
(* A model's number is its place in the table, which is the order of       *)
(* trained_at.  is_active is left out: it is written and displayed, but no *)
(* decision reads it.                                                      *)
(***************************************************************************)
EXTENDS Naturals, Sequences, FiniteSets

CONSTANTS Types,      \* model types
          Callers,    \* analysts' calls to the API
          Replicas,   \* API replicas, each with a scheduler
          Settings,   \* environments: is it strict, is approval manual
          Imports,    \* models an operator may register by hand
          Measured,   \* grades of what the trainer measures
          MaxModels,  \* bound: models in the table
          MaxCalls,   \* bound: requests and job runs
          None

Writers == Callers \cup Replicas

(* What is stored of the metrics, seen from the thresholds: both within    *)
(* them, one beyond, or one missing.                                       *)
Grades == {"good", "poor", "missing"}
Statuses == {"STAGING", "challenger", "champion", "archived", "bootstrap"}

Model == [type : Types, status : Statuses, challenger : BOOLEAN, synthetic : BOOLEAN,
          grade : Grades, loadable : BOOLEAN]

(* A promotion or designation: "seen" are the rows its UPDATE will change. *)
InTransaction == [op : {"promote", "designate"}, model : Nat, seen : {None} \cup SUBSET Nat]

ASSUME RegistryAssumption ==
  /\ {"ANOMALY", "STRUCTURING"} \subseteq Types
  /\ Callers \cap Replicas = {} /\ {"trainer", None} \cap Writers = {}
  /\ MaxModels \in Nat /\ MaxCalls \in Nat
  /\ None \notin Nat \cup InTransaction \cup {"trainer"}
  /\ Settings \subseteq [strict : BOOLEAN, manual : BOOLEAN]
  /\ Imports \subseteq [type : Types, synthetic : BOOLEAN, grade : Grades]
  /\ Measured \subseteq {"poor", "missing"}

VARIABLES models,    \* the table
          strict,    \* staging or production: synthetic models are not promoted
          manual,    \* scoring_configs.require_manual_approval
          tx,        \* promotions and designations in flight
          run,       \* runs of the job: challengers read and not yet handled
          trainer,   \* the trainer's pending write
          calls,     \* calls made so far
          overlap    \* some write fell between the read and the write of another

tableVars == <<models, strict, manual, tx, run, trainer, overlap>>
registryVars == <<tableVars, calls>>

(* A model as it is registered.                                            *)
NewModel(type, status, synthetic, grade, loadable) ==
  [type |-> type, status |-> status, challenger |-> FALSE, synthetic |-> synthetic,
   grade |-> grade, loadable |-> loadable]

RegistryInit ==
  /\ models = <<>>
  /\ \E s \in Settings : strict = s.strict /\ manual = s.manual
  /\ tx = [w \in Writers |-> None]
  /\ run = [r \in Replicas |-> None]
  /\ trainer = None
  /\ calls = 0 /\ overlap = FALSE

Champions(type) == {i \in DOMAIN models : models[i].type = type /\ models[i].status = "champion"}
Challengers(type) == {i \in DOMAIN models : models[i].type = type /\ models[i].challenger}

InFlight == {w \in Writers : tx[w] # None}
            \cup {r \in Replicas : run[r] # None}
            \cup (IF trainer = None THEN {} ELSE {"trainer"})

Write(who, table) ==
  /\ models' = table
  /\ overlap' = (overlap \/ InFlight \ {who} # {})

Register(who, row) == Len(models) < MaxModels /\ Write(who, Append(models, row))

Called == calls < MaxCalls /\ calls' = calls + 1

-----------------------------------------------------------------------------
(* Governance.                                                             *)

AllowedByMetrics(synthetic, grade) == grade = "good" \/ (grade = "missing" /\ ~strict)

(* Missing metrics pass outside staging and production.                    *)
Allowed(synthetic, grade) ==
  /\ ~(strict /\ synthetic)
  /\ grade = "good" \/ (grade = "missing" /\ ~strict)

Transaction(op, i) == [op |-> op, model |-> i, seen |-> None]

Promotable(i) ==
  /\ models[i].status = "challenger" /\ models[i].challenger
  /\ Allowed(models[i].synthetic, models[i].grade)

(* A second champion makes scalar_one_or_none raise: a 500.                *)
Unambiguous(champions) == Cardinality(champions) <= 1

(* promote_model.  404, 409, 422 and 500 change nothing: they are no step. *)
(* In the strict environments a reason has to be given if manual approval  *)
(* is required, which the caller may always do.                            *)
PromoteBegin(c, i) ==
  /\ tx[c] = None
  /\ Promotable(i) /\ Unambiguous(Champions(models[i].type) \ {i})
  /\ Called
  /\ tx' = [tx EXCEPT ![c] = Transaction("promote", i)]
  /\ UNCHANGED <<models, strict, manual, run, trainer, overlap>>

(* Mutant of DesignateBegin: the status is not looked at.                  *)
DesignateBeginAny(c, i) ==
  /\ tx[c] = None
  /\ Champions(models[i].type) # {} /\ Unambiguous(Champions(models[i].type))
  /\ Called
  /\ tx' = [tx EXCEPT ![c] = Transaction("designate", i)]
  /\ UNCHANGED <<models, strict, manual, run, trainer, overlap>>

(* designate_challenger: only a STAGING model, and only beside a champion. *)
DesignateBegin(c, i) ==
  /\ tx[c] = None
  /\ models[i].status = "STAGING"
  /\ Champions(models[i].type) # {} /\ Unambiguous(Champions(models[i].type))
  /\ Called
  /\ tx' = [tx EXCEPT ![c] = Transaction("designate", i)]
  /\ UNCHANGED <<models, strict, manual, run, trainer, overlap>>

(* The UPDATE of the other rows sees what is committed when it starts.     *)
BulkUpdate(w) ==
  /\ tx[w] # None /\ tx[w].seen = None
  /\ LET type == models[tx[w].model].type
         rows == IF tx[w].op = "promote" THEN Champions(type) ELSE Challengers(type)
     IN tx' = [tx EXCEPT ![w].seen = rows \ {tx[w].model}]
  /\ UNCHANGED <<models, strict, manual, run, trainer, calls, overlap>>

(* Where the UPDATE waited for a lock it looks at the row again; the       *)
(* model's own row is written by its key, whatever it has become.          *)
Promoted(table, i, seen) ==
  [j \in DOMAIN table |->
    IF j = i THEN [table[j] EXCEPT !.status = "champion", !.challenger = FALSE]
    ELSE IF j \in seen /\ table[j].status = "champion"
    THEN [table[j] EXCEPT !.status = "archived", !.challenger = FALSE]
    ELSE table[j]]

Designated(table, i, seen) ==
  [j \in DOMAIN table |->
    IF j = i THEN [table[j] EXCEPT !.status = "challenger", !.challenger = TRUE]
    ELSE IF j \in seen /\ table[j].challenger
    THEN [table[j] EXCEPT !.status = "STAGING", !.challenger = FALSE]
    ELSE table[j]]

Commit(w) ==
  /\ tx[w] # None /\ tx[w].seen # None
  /\ Write(w, IF tx[w].op = "promote" THEN Promoted(models, tx[w].model, tx[w].seen)
              ELSE Designated(models, tx[w].model, tx[w].seen))
  /\ tx' = [tx EXCEPT ![w] = None]
  /\ UNCHANGED <<strict, manual, run, trainer, calls>>

-----------------------------------------------------------------------------
(* auto_promote_challenger_models.  The run works on the rows it read.     *)

Found == {i \in DOMAIN models : models[i].challenger /\ models[i].status = "challenger"}

(* The labelled alerts of 30 days have to say, with enough of them for both *)
(* models, that the challenger is 5 points better; they also grade metrics *)
(* that are missing.                                                       *)
AutoPromotes(i, better, estimate) ==
  /\ better /\ ~manual
  /\ Allowed(models[i].synthetic,
             IF models[i].grade = "missing" THEN estimate ELSE models[i].grade)

(* What is left of the run; it is over when nothing is.                    *)
Rest(expired, todo) ==
  IF expired \cup todo = {} THEN None ELSE [expired |-> expired, todo |-> todo]

(* "old" are those trained, not designated, more than 30 days ago.         *)
JobStart(r, old) ==
  /\ run[r] = None /\ tx[r] = None /\ Found # {}
  /\ Called
  /\ run' = [run EXCEPT ![r] = Rest(old, Found \ old)]
  /\ UNCHANGED <<models, strict, manual, tx, trainer, overlap>>

(* A challenger that is too old is archived, by its key.                   *)
JobExpires(r, i) ==
  /\ run[r] # None /\ tx[r] = None /\ i \in run[r].expired
  /\ Write(r, [models EXCEPT ![i].status = "archived", ![i].challenger = FALSE])
  /\ run' = [run EXCEPT ![r] = Rest(@.expired \ {i}, @.todo)]
  /\ UNCHANGED <<strict, manual, tx, trainer, calls>>

(* The champion of the type is looked up without regard to the challenger  *)
(* itself, which may be it by now; two champions end the run.              *)
JobDecides(r, i, better, estimate) ==
  /\ run[r] # None /\ tx[r] = None /\ i \in run[r].todo
  /\ LET champions == Champions(models[i].type)
     IN /\ run' = [run EXCEPT ![r] = IF Unambiguous(champions)
                                     THEN Rest(@.expired, @.todo \ {i}) ELSE None]
        /\ tx' = IF Unambiguous(champions) /\ champions \ {i} # {}
                    /\ AutoPromotes(i, better, estimate)
                 THEN [tx EXCEPT ![r] = Transaction("promote", i)] ELSE tx
  /\ UNCHANGED <<models, strict, manual, trainer, calls, overlap>>

-----------------------------------------------------------------------------
(* The ml_trainer, one process with one scheduler.  What it stores is      *)
(* addressed as s3://bucket/file, which the ml_service cannot download,    *)
(* and its metrics have no false positive rate.                            *)

(* The champion is looked up by status alone, whatever its type.           *)
LatestChampion ==
  LET all == {i \in DOMAIN models : models[i].status = "champion"}
  IN {i \in all : \A j \in all : j <= i}

(* What retrain_isolation_forest trains, on 30 days of alerts.             *)
Candidate(status, grade) == NewModel("ANOMALY", status, FALSE, grade, FALSE)

(* Only a supervised model with a good F1 and no loss of precision against *)
(* that champion wins.                                                     *)
Wins(supervised, goodF1, regression) == supervised /\ goodF1 /\ ~regression

TrainerRetrains(wins, grade) ==
  /\ trainer = None
  /\ trainer' = [row |-> Candidate(IF wins THEN "champion" ELSE "STAGING", grade),
                 demoted |-> IF wins THEN LatestChampion ELSE {}]
  /\ UNCHANGED <<models, strict, manual, tx, run, calls, overlap>>

(* bootstrap_model_if_needed looks once, then trains.                      *)
BootstrapBegins ==
  /\ trainer = None
  /\ models = <<>> /\ ~strict
  /\ trainer' = [row |-> NewModel("ANOMALY", "bootstrap", TRUE, "missing", FALSE), demoted |-> {}]
  /\ UNCHANGED <<models, strict, manual, tx, run, calls, overlap>>

(* The trainer's write: the champion it read is archived by its key.       *)
Demoted(table, rows) ==
  [j \in DOMAIN table |-> IF j \in rows THEN [table[j] EXCEPT !.status = "archived"] ELSE table[j]]

TrainerReplaces ==
  /\ trainer # None /\ Len(models) < MaxModels
  /\ Write("trainer", Append(Demoted(models, trainer.demoted), trainer.row))
  /\ trainer' = None
  /\ UNCHANGED <<strict, manual, tx, run, calls>>

(* The structuring job promotes on F1 > 0.70, network and recurrence       *)
(* always; nobody is demoted.                                              *)
TrainerStructuring(goodF1) ==
  /\ trainer = None
  /\ Register("trainer", NewModel("STRUCTURING", IF goodF1 THEN "champion" ELSE "STAGING",
                                  FALSE, "missing", FALSE))
  /\ UNCHANGED <<strict, manual, tx, run, trainer, calls>>

TrainerClusters(type) ==
  /\ trainer = None
  /\ Register("trainer", NewModel(type, "champion", FALSE, "missing", FALSE))
  /\ UNCHANGED <<strict, manual, tx, run, trainer, calls>>

(* A model registered by hand, not active, as docs/ml/model-governance.md  *)
(* allows.                                                                 *)
Import(m) ==
  /\ Register(None, NewModel(m.type, "STAGING", m.synthetic, m.grade, TRUE))
  /\ UNCHANGED <<strict, manual, tx, run, trainer, calls>>

RegistryNext ==
  \/ \E c \in Callers, i \in DOMAIN models :
       PromoteBegin(c, i) \/ DesignateBegin(c, i)
  \/ \E w \in Writers : BulkUpdate(w) \/ Commit(w)
  \/ \E r \in Replicas, old \in SUBSET Found : JobStart(r, old)
  \/ \E r \in Replicas, i \in DOMAIN models :
       \/ JobExpires(r, i)
       \/ \E better \in BOOLEAN, estimate \in Grades \ {"missing"} : JobDecides(r, i, better, estimate)
  \/ \E supervised, goodF1, regression \in BOOLEAN, grade \in Measured :
       TrainerRetrains(Wins(supervised, goodF1, regression), grade)
  \/ BootstrapBegins \/ TrainerReplaces
  \/ \E goodF1 \in BOOLEAN : TrainerStructuring(goodF1)
  \/ \E type \in Types \ {"ANOMALY", "STRUCTURING"} : TrainerClusters(type)
  \/ \E m \in Imports : Import(m)

RegistryTypeOK ==
  /\ models \in Seq(Model)
  /\ [strict |-> strict, manual |-> manual] \in Settings
  /\ tx \in [Writers -> {None} \cup InTransaction]
  /\ \A w \in Writers : tx[w] # None =>
       /\ tx[w].model \in DOMAIN models
       /\ tx[w].seen # None => tx[w].seen \subseteq DOMAIN models
  /\ run \in [Replicas -> {None} \cup [expired : SUBSET Nat, todo : SUBSET Nat]]
  /\ \A r \in Replicas : run[r] # None => run[r].expired \cup run[r].todo \subseteq DOMAIN models
  /\ trainer \in {None} \cup [row : Model, demoted : SUBSET Nat]
  /\ trainer # None => trainer.demoted \subseteq DOMAIN models
  /\ overlap \in BOOLEAN
=============================================================================
