-------------------------- MODULE ExternalValidation ---------------------------
(***************************************************************************)
(* Validations of a player by an external provider                         *)
(* (routers/external_validation.py): a POST stores a request, a background *)
(* task of the API process asks the provider up to three times and stores  *)
(* the result.  One player, and the one provider that is configured.  The  *)
(* circuit breaker of the mock provider changes no outcome: while it is    *)
(* open the mock provider is one that fails.                               *)
(***************************************************************************)
EXTENDS ApiRequests, Sequences

CONSTANTS
  Attempts,       \* MAX_PROVIDER_RETRIES
  MaxValidations  \* bound: rows in a run

ASSUME ValidationAssumption ==
  /\ Attempts \in Nat \ {0} /\ MaxValidations \in Nat
  /\ None \notin [row : 1..MaxValidations, attempt : 1..Attempts]

VARIABLES
  validations,  \* Seq of rows of external_validation_requests, by requested_at
  aged,         \* how many of them are older than the idempotency window
  added,        \* [rows -> background tasks that were added and did not start]
  asking,       \* [Workers -> the task it runs, or None]
  assigned,     \* history: [rows -> tasks added for it]
  stranded      \* history: rows left open without a task by a crash

validationVars == <<validations, aged, added, asking, assigned, stranded>>

Unfinished == {"PENDING", "IN_PROGRESS"}

ValidationInit ==
  /\ validations = <<>> /\ aged = 0
  /\ added = [i \in 1..MaxValidations |-> 0]
  /\ asking = [w \in Workers |-> None]
  /\ assigned = [i \in 1..MaxValidations |-> 0]
  /\ stranded = {}

AddTask(i) ==
  /\ added' = [added EXCEPT ![i] = @ + 1]
  /\ assigned' = [assigned EXCEPT ![i] = @ + 1]
  /\ stranded' = stranded \ {i}

Reusable(status) == status \in Unfinished \cup {"COMPLETED"}

(* The requests of the last IDEMPOTENCY_WINDOW_MINUTES to be given again.  *)
Existing == {i \in (aged + 1)..Len(validations) : Reusable(validations[i].status)}

(* request_external_validation: the newest is answered, and asked for once *)
(* more while it has no result.                                            *)
PostReused ==
  /\ Existing # {}
  /\ Statement
  /\ LET i == CHOOSE i \in Existing : \A j \in Existing : j <= i
     IN IF validations[i].status \in Unfinished THEN AddTask(i)
        ELSE UNCHANGED <<added, assigned, stranded>>
  /\ UNCHANGED <<validations, aged, asking>>

PostBegin(w) ==
  /\ Existing = {}
  /\ Begin(w, [op |-> "post"])
  /\ UNCHANGED validationVars

(* retry_external_validation: another row, with the first one's payload.   *)
RetryBegin(w, i) ==
  /\ validations[i].status = "FAILED"
  /\ Begin(w, [op |-> "retry"])
  /\ UNCHANGED validationVars

StoreCommit(w) ==
  /\ Doing(w, "post") \/ Doing(w, "retry")
  /\ Len(validations) < MaxValidations
  /\ validations' = Append(validations, [status |-> "PENDING", by |-> request[w].op, failed |-> FALSE])
  /\ AddTask(Len(validations) + 1)
  /\ Ends(w)
  /\ UNCHANGED <<aged, asking>>

-----------------------------------------------------------------------------
(* _process_validation_request, whatever the row's status is by now.       *)
TaskStarts(w, i) ==
  /\ added[i] > 0 /\ asking[w] = None
  /\ added' = [added EXCEPT ![i] = @ - 1]
  /\ asking' = [asking EXCEPT ![w] = [row |-> i, attempt |-> 1]]
  /\ validations' = [validations EXCEPT ![i].status = "IN_PROGRESS"]
  /\ UNCHANGED <<requestVars, aged, assigned, stranded>>

(* _dispatch_provider_call: an error, a timeout, an answer that is no JSON *)
(* or not for this environment are all an exception.                       *)
AttemptFails(w) ==
  /\ asking[w] # None /\ asking[w].attempt < Attempts
  /\ asking' = [asking EXCEPT ![w].attempt = @ + 1]
  /\ UNCHANGED <<requestVars, validations, aged, added, assigned, stranded>>

Result(w, status, failed) ==
  /\ validations' = [validations EXCEPT ![asking[w].row].status = status, ![asking[w].row].failed = failed]
  /\ asking' = [asking EXCEPT ![w] = None]
  /\ UNCHANGED <<requestVars, aged, added, assigned, stranded>>

(* The answer is stored beside an error_message that another task left.    *)
Completes(w) ==
  /\ asking[w] # None
  /\ Result(w, "COMPLETED", validations[asking[w].row].failed)

(* Mutant of Fails: the last error ends the task.                          *)
FailsUnwritten(w) ==
  /\ asking[w] # None /\ asking[w].attempt = Attempts
  /\ Result(w, validations[asking[w].row].status, validations[asking[w].row].failed)

Fails(w) ==
  /\ asking[w] # None /\ asking[w].attempt = Attempts
  /\ Result(w, "FAILED", TRUE)

(* The process ends with its tasks and requests, and starts anew.          *)
ProcessEnds ==
  /\ calls < MaxCalls /\ calls' = calls + 1
  /\ request' = [w \in Workers |-> None]
  /\ added' = [i \in 1..MaxValidations |-> 0]
  /\ asking' = [w \in Workers |-> None]
  /\ stranded' = {i \in DOMAIN validations : validations[i].status \in Unfinished}
  /\ UNCHANGED <<crossed, validations, aged, assigned>>

WindowPasses ==
  /\ aged < Len(validations)
  /\ aged' = aged + 1
  /\ UNCHANGED <<requestVars, validations, added, asking, assigned, stranded>>

ValidationNext ==
  \/ \E w \in Workers :
       \/ PostBegin(w) \/ StoreCommit(w)
       \/ \E i \in DOMAIN validations : RetryBegin(w, i) \/ TaskStarts(w, i)
       \/ AttemptFails(w) \/ Completes(w) \/ Fails(w)
  \/ PostReused \/ ProcessEnds \/ WindowPasses

ValidationSpec == RequestInit /\ ValidationInit /\ [][ValidationNext]_<<requestVars, validationVars>>

-----------------------------------------------------------------------------
ValidationTypeOK ==
  /\ validations \in Seq([status : Unfinished \cup {"COMPLETED", "FAILED"}, by : {"post", "retry"}, failed : BOOLEAN])
  /\ aged \in 0..Len(validations)
  /\ added \in [1..MaxValidations -> Nat] /\ assigned \in [1..MaxValidations -> Nat]
  /\ \A w \in Workers : asking[w] = None \/ asking[w] \in [row : DOMAIN validations, attempt : 1..Attempts]
  /\ stranded \subseteq DOMAIN validations

(* A validation stays PENDING or IN_PROGRESS only while a task is there to *)
(* finish it, also one that a second task puts back to IN_PROGRESS after   *)
(* the first has its result: all but those whose task a crash took, which  *)
(* "retry" refuses and only a POST within the window takes up again.       *)
NoneLeftOpen ==
  \A i \in DOMAIN validations :
    validations[i].status \in Unfinished =>
      i \in stranded \/ added[i] > 0 \/ \E w \in Workers : asking[w] # None /\ asking[w].row = i

(* "idempotent_reuse": within the window a POST starts a second validation *)
(* only after the first failed.  One that failed can have a result after   *)
(* all only where a reuse gave it another task; and two POSTs that overlap *)
(* start one each.                                                         *)
OneRequestPerWindow ==
  crossed \/ \A i, j \in (aged + 1)..Len(validations) :
    i < j /\ validations[j].by = "post" /\ Reusable(validations[i].status) => assigned[i] > 1

(* A validation with a result and an error_message had two tasks.          *)
OneOutcome ==
  \A i \in DOMAIN validations : validations[i].status = "COMPLETED" /\ validations[i].failed => assigned[i] > 1

(* A validation comes to one end, through retries, reuse and crashes.      *)
ValidationSound == ValidationTypeOK /\ NoneLeftOpen /\ OneRequestPerWindow /\ OneOutcome
=============================================================================
