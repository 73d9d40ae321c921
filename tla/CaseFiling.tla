------------------------------ MODULE CaseFiling -------------------------------
(***************************************************************************)
(* services/api/routers/cases.py and the linking of alerts in alerts.py:   *)
(* investigation cases, the alerts linked to them, the COAF report         *)
(* packages generated from them and their filing.                          *)
(*                                                                         *)
(* A handler reads its rows, checks them and commits later, at READ        *)
(* COMMITTED without row locks or version columns: the session writes back *)
(* the columns that the handler assigned a new value.  A handler is        *)
(* therefore two actions, the checks on what it read and the commit; users *)
(* run one request at a time each, Parallel of them at once.  A request    *)
(* that is refused changes nothing and is no action.                       *)
(***************************************************************************)
EXTENDS Naturals, Sequences, FiniteSets

CONSTANTS
  Cases,
  Alerts,
  Players,
  PlayerOf,     \* [Alerts -> Players]
  Analysts,     \* users with role ANALISTA
  Managers,     \* users with role GESTOR
  Parallel,     \* bound: requests in flight at once
  MaxPackages,  \* bound: report packages generated
  None

Users == Analysts \cup Managers

Statuses == {"OPEN", "INVESTIGATING", "PENDING_REVIEW", "CLOSED", "REPORTED"}

ASSUME CaseAssumption ==
  /\ PlayerOf \in [Alerts -> Players]
  /\ Analysts \cap Managers = {}
  /\ Parallel \in Nat \ {0}
  /\ MaxPackages \in Nat
  /\ None \notin Users \cup Players \cup Alerts \cup Cases \cup Statuses

VARIABLES
  cases,      \* [Cases -> [status, closedBy, player, source]]
  caseOf,     \* [Alerts -> Cases \cup {None}]: alerts.case_id
  packages,   \* Seq(Package): report_packages in the order of created_at
  submitted,  \* Seq([package, by]): REPORT_SUBMITTED events of the cases
  request,    \* [Users -> the request in flight with what it read, or None]
  failures,   \* operations that ended in an unhandled exception
  raced       \* history: two requests were in flight at once

vars == <<cases, caseOf, packages, submitted, request, failures, raced>>

(* _STATUS_TRANSITIONS *)
Transitions ==
  [OPEN           |-> {"INVESTIGATING", "CLOSED"},
   INVESTIGATING  |-> {"PENDING_REVIEW", "CLOSED", "OPEN"},
   PENDING_REVIEW |-> {"INVESTIGATING", "CLOSED", "REPORTED"},
   CLOSED         |-> {"OPEN"},
   REPORTED       |-> {}]

Decisions == {"FILE_SAR", "NO_ACTION", "PENDING"}

(* A case before its creation has status None. *)
Case == [status : Statuses \cup {None}, closedBy : Users \cup {None},
         player : Players \cup {None}, source : Alerts \cup {None}]

Package ==
  [case : Cases, maker : Users, decision : Decisions,
   status : {"DRAFT", "FINAL", "FILED"}, filer : Users \cup {None}, protocol : BOOLEAN]

Exists(c) == cases[c].status # None

Init ==
  /\ cases = [c \in Cases |-> [status |-> None, closedBy |-> None, player |-> None, source |-> None]]
  /\ caseOf = [a \in Alerts |-> None]
  /\ packages = <<>>
  /\ submitted = <<>>
  /\ request = [u \in Users |-> None]
  /\ failures = {}
  /\ raced = FALSE

InFlight == {w \in Users : request[w] # None}

(* A handler has passed its checks and holds what it read. *)
Begin(u, r) ==
  /\ request[u] = None
  /\ Cardinality(InFlight) < Parallel
  /\ request' = [request EXCEPT ![u] = r]
  /\ raced' = (raced \/ InFlight # {})
  /\ UNCHANGED <<cases, caseOf, packages, submitted, failures>>

Handling(u, op) == request[u] # None /\ request[u].op = op

Done(u) == request' = [request EXCEPT ![u] = None]

-----------------------------------------------------------------------------
(* Cases.                                                                  *)

(* create_case: with or without a player.                                  *)
CreateCase(u, c, y) ==
  /\ request[u] = None
  /\ ~Exists(c)
  /\ cases' = [cases EXCEPT ![c].status = "OPEN", ![c].player = y]
  /\ UNCHANGED <<caseOf, packages, submitted, request, failures, raced>>

(* Mutant of ChangeStatusBegin: any status may follow.                     *)
ChangeStatusUnchecked(u, c, s) ==
  /\ Exists(c)
  /\ s # cases[c].status
  /\ Begin(u, [op |-> "status", case |-> c, status |-> s])

(* add_case_event with event_type STATUS_CHANGE.                           *)
ChangeStatusBegin(u, c, s) ==
  /\ Exists(c)
  /\ s \in Transitions[cases[c].status]
  /\ Begin(u, [op |-> "status", case |-> c, status |-> s])

ChangeStatusCommit(u) ==
  /\ Handling(u, "status")
  /\ LET c == request[u].case
         s == request[u].status
     IN  cases' = [cases EXCEPT ![c].status = s,
                                ![c].closedBy = IF s \in {"CLOSED", "REPORTED"} THEN u ELSE @]
  /\ Done(u)
  /\ UNCHANGED <<caseOf, packages, submitted, failures, raced>>

(* Mutant of LinkBegin: the player of the alert is not compared.           *)
LinkUnchecked(u, c, a) ==
  /\ Exists(c)
  /\ Begin(u, [op |-> "link", case |-> c, alert |-> a, player |-> cases[c].player, source |-> cases[c].source])

(* link_alert_to_case, in cases.py and in alerts.py.                       *)
LinkBegin(u, c, a) ==
  /\ Exists(c)
  /\ cases[c].player \in {None, PlayerOf[a]}
  /\ Begin(u, [op |-> "link", case |-> c, alert |-> a, player |-> cases[c].player, source |-> cases[c].source])

(* Player and source are assigned only where the handler read none.        *)
LinkCommit(u) ==
  /\ Handling(u, "link")
  /\ LET r == request[u]
     IN  /\ cases' = [cases EXCEPT ![r.case].player = IF r.player = None THEN PlayerOf[r.alert] ELSE @,
                                   ![r.case].source = IF r.source = None THEN r.alert ELSE @]
         /\ caseOf' = [caseOf EXCEPT ![r.alert] = r.case]
  /\ Done(u)
  /\ UNCHANGED <<packages, submitted, failures, raced>>

(* unlink_alert_from_case: the case keeps its player and its source.       *)
UnlinkBegin(u, c, a) ==
  /\ Exists(c)
  /\ caseOf[a] = c
  /\ Begin(u, [op |-> "unlink", alert |-> a])

UnlinkCommit(u) ==
  /\ Handling(u, "unlink")
  /\ caseOf' = [caseOf EXCEPT ![request[u].alert] = None]
  /\ Done(u)
  /\ UNCHANGED <<cases, packages, submitted, failures, raced>>

-----------------------------------------------------------------------------
(* Report packages.                                                        *)

(* generate_report_package: a new package, final unless PENDING.           *)
Generate(u, c, d) ==
  /\ request[u] = None
  /\ Exists(c)
  /\ Len(packages) < MaxPackages
  /\ packages' = Append(packages,
       [case |-> c, maker |-> u, decision |-> d, filer |-> None, protocol |-> FALSE,
        status |-> IF d = "PENDING" THEN "DRAFT" ELSE "FINAL"])
  /\ UNCHANGED <<cases, caseOf, submitted, request, failures, raced>>

PackagesOf(c) == {i \in 1..Len(packages) : packages[i].case = c}

(* Mutant of Submittable: without maker-checker.                           *)
SubmittableByMaker(u, i) ==
  /\ packages[i].decision = "FILE_SAR"
  /\ packages[i].status # "FILED"

(* The checks of submit_report_package on the package it found.            *)
Submittable(u, i) ==
  /\ packages[i].maker # u
  /\ packages[i].decision = "FILE_SAR"
  /\ packages[i].status # "FILED"

(* submit_report_package: scalar_one_or_none raises when the case has more *)
(* than one package.                                                       *)
SubmitBegin(u, c) ==
  /\ u \in Managers
  /\ Exists(c)
  /\ Cardinality(PackagesOf(c)) = 1
  /\ \E i \in PackagesOf(c) :
       /\ Submittable(u, i)
       /\ Begin(u, [op |-> "submit", package |-> i, case |-> c, closer |-> cases[c].closedBy,
                    reported |-> cases[c].status = "REPORTED"])

SubmitRaises(u, c) ==
  /\ u \in Managers
  /\ request[u] = None
  /\ Exists(c)
  /\ Cardinality(PackagesOf(c)) > 1
  /\ failures' = failures \cup {"submit"}
  /\ UNCHANGED <<cases, caseOf, packages, submitted, request, raced>>

SubmitCommit(u) ==
  /\ Handling(u, "submit")
  /\ LET r == request[u]
     IN  /\ packages' = [packages EXCEPT ![r.package].status = "FILED", ![r.package].filer = u]
         /\ cases' = [cases EXCEPT ![r.case].status = IF r.reported THEN @ ELSE "REPORTED",
                                   ![r.case].closedBy = IF r.closer = None THEN u ELSE @]
         /\ submitted' = Append(submitted, [package |-> r.package, by |-> u])
  /\ Done(u)
  /\ UNCHANGED <<caseOf, failures, raced>>

(* submit_report_package_filing: any package of a FILE_SAR decision.       *)
FileBegin(u, i) ==
  /\ u \in Managers
  /\ i \in 1..Len(packages)
  /\ packages[i].decision = "FILE_SAR"
  /\ packages[i].status # "FILED"
  /\ Begin(u, [op |-> "file", package |-> i])

FileCommit(u) ==
  /\ Handling(u, "file")
  /\ packages' = [packages EXCEPT ![request[u].package].status = "FILED",
                                  ![request[u].package].filer = u]
  /\ Done(u)
  /\ UNCHANGED <<cases, caseOf, submitted, failures, raced>>

(* register_coaf_protocol_number.                                          *)
RegisterBegin(u, i) ==
  /\ u \in Managers
  /\ i \in 1..Len(packages)
  /\ packages[i].status = "FILED"
  /\ Begin(u, [op |-> "protocol", package |-> i])

RegisterCommit(u) ==
  /\ Handling(u, "protocol")
  /\ packages' = [packages EXCEPT ![request[u].package].protocol = TRUE]
  /\ Done(u)
  /\ UNCHANGED <<cases, caseOf, submitted, failures, raced>>

-----------------------------------------------------------------------------
CaseStep(u) ==
  \/ \E c \in Cases, y \in Players \cup {None} : CreateCase(u, c, y)
  \/ \E c \in Cases, s \in Statuses : ChangeStatusBegin(u, c, s)
  \/ \E c \in Cases, a \in Alerts : LinkBegin(u, c, a) \/ UnlinkBegin(u, c, a)
  \/ ChangeStatusCommit(u) \/ LinkCommit(u) \/ UnlinkCommit(u)

FilingStep(u) ==
  \/ \E c \in Cases, d \in Decisions : Generate(u, c, d)
  \/ \E c \in Cases : SubmitBegin(u, c) \/ SubmitRaises(u, c)
  \/ \E i \in 1..MaxPackages : FileBegin(u, i) \/ RegisterBegin(u, i)
  \/ SubmitCommit(u) \/ FileCommit(u) \/ RegisterCommit(u)

Next == \E u \in Users : CaseStep(u) \/ FilingStep(u)

Spec == Init /\ [][Next]_vars

-----------------------------------------------------------------------------
Ids == 1..Len(packages)

Request ==
  [op : {"status"}, case : Cases, status : Statuses]
  \cup [op : {"link"}, case : Cases, alert : Alerts, player : Players \cup {None}, source : Alerts \cup {None}]
  \cup [op : {"unlink"}, alert : Alerts]
  \cup [op : {"submit"}, package : Ids, case : Cases, closer : Users \cup {None}, reported : BOOLEAN]
  \cup [op : {"file", "protocol"}, package : Ids]

(* Type invariant of the tables and of the requests in flight.             *)
TypeOK ==
  /\ cases \in [Cases -> Case]
  /\ caseOf \in [Alerts -> Cases \cup {None}]
  /\ packages \in Seq(Package)
  /\ submitted \in Seq([package : Ids, by : Users])
  /\ request \in [Users -> Request \cup {None}]
  /\ failures \subseteq {"submit"}
  /\ raced \in BOOLEAN

(* Every submission on a case's timeline is of a FILE_SAR package of a     *)
(* case, filed, and by another user than its maker, with any interleaving. *)
SubmissionsSound ==
  \A j \in 1..Len(submitted) :
    LET p == packages[submitted[j].package]
    IN  /\ p.status = "FILED"
        /\ p.decision = "FILE_SAR"
        /\ p.maker # submitted[j].by
        /\ Exists(p.case)

(* A protocol number belongs to a filed package, and a package is filed    *)
(* for good: no later request takes it back, under any interleaving.       *)
FilingFinal ==
  /\ \A i \in Ids : packages[i].protocol => packages[i].status = "FILED"
  /\ \A i \in Ids : packages[i].status = "FILED" <=> packages[i].filer # None

(* Whoever finds a case closed or reported finds who closed it.            *)
ClosedHasCloser ==
  \A c \in Cases : cases[c].status \in {"CLOSED", "REPORTED"} => cases[c].closedBy # None

(* A package is submitted once; the second attempt gets a 409              *)
(* (cases.py:1437, "Este ReportPackage já foi submetido anteriormente.").  *)
SubmittedOnce ==
  \A j, k \in 1..Len(submitted) : submitted[j].package = submitted[k].package => j = k

(* All the alerts of a case are of its player (cases.py:2725, "Alerta      *)
(* pertence a outro jogador e não pode ser vinculado a este caso").        *)
AlertsOfOnePlayer ==
  \A a \in Alerts : caseOf[a] # None => cases[caseOf[a]].player = PlayerOf[a]

(* As long as no two requests were in flight at once the checks of the     *)
(* handlers are enough, through any sequence of requests.                  *)
SequentiallySound == ~raced => SubmittedOnce /\ AlertsOfOnePlayer

(* cases.py:49, "REPORTED is terminal: no outbound transitions allowed."   *)
(* It is, as long as no two requests were in flight at once.               *)
ReportedTerminal ==
  [][\A c \in Cases : (cases[c].status = "REPORTED" /\ ~raced')
                        => cases'[c].status = "REPORTED"]_vars

(* Under any interleaving of requests what was filed was fit to be filed,  *)
(* by another user than its maker, stays filed, and who closed the case is *)
(* on record.                                                              *)
FilingSound == TypeOK /\ SubmissionsSound /\ FilingFinal /\ ClosedHasCloser
=============================================================================
