------------------------------ MODULE SlaMonitor -------------------------------
(***************************************************************************)
(* check_sla_violations, services/api/jobs.py, as the scheduler of every   *)
(* replica of the API runs it each hour (main.py): who is told of a case   *)
(* that is overdue or about to be, and what happens when two replicas look *)
(* at the same time.  One user stands for those that are told.             *)
(***************************************************************************)
EXTENDS ApiRequests

CONSTANTS
  Dossiers,   \* cases with a deadline
  DueAt,      \* [Dossiers -> hours]
  LastHour    \* bound: the hours of a run

(* Some replica runs the job.                                              *)
ASSUME SlaAssumption ==
  /\ Workers # {} /\ DueAt \in [Dossiers -> Nat] /\ LastHour \in Nat \ {0}
  /\ None \notin [op : {"sla"}, kind : {"SLA_VIOLATION", "SLA_WARNING"}, at : Nat,
                  dossiers : SUBSET Dossiers, edge : BOOLEAN]

VARIABLES
  hour,
  isOpen,     \* cases not CLOSED or REPORTED
  notices,    \* notifications of the last hours: [dossier, kind, at, by]
  due,        \* replicas whose job of this hour is yet to run
  told,       \* [Dossiers -> hour of the last SLA_VIOLATION, or 0]
  failed      \* JOB_FAILURE was notified

slaVars == <<hour, isOpen, notices, due, told, failed>>

SlaInit ==
  /\ hour = 1
  /\ isOpen = Dossiers
  /\ notices = {}
  /\ due = Workers
  /\ told = [d \in Dossiers |-> 0]
  /\ failed = FALSE

Overdue == {d \in isOpen : DueAt[d] < hour}
Approaching == {d \in isOpen : DueAt[d] >= hour /\ DueAt[d] < hour + 2}

(* Hours within which a notification is not repeated; whether one exactly  *)
(* that old counts depends on the milliseconds of both runs.               *)
Window == [SLA_VIOLATION |-> 2, SLA_WARNING |-> 1]
Recent(d, kind, edge) ==
  {n \in notices : /\ n.dossier = d /\ n.kind = kind
                   /\ n.at > hour - Window[kind] \/ (edge /\ n.at = hour - Window[kind])}

(* scalar_one_or_none raises where two notifications are found.            *)
Raises(set, kind, edge) == \E d \in set : Cardinality(Recent(d, kind, edge)) > 1

(* Mutant of ToTell: whoever was told once is not told again.              *)
ToTellOnce(set, kind, edge) == {d \in set : kind = "SLA_VIOLATION" => told[d] = 0}

ToTell(set, kind, edge) == {d \in set : Recent(d, kind, edge) = {}}

(* A phase of the job: first the cases overdue, in one transaction, then   *)
(* those within two hours, in another.                                     *)
Phase(w, kind, set, edge) ==
  [op |-> "sla", kind |-> kind, at |-> hour, dossiers |-> ToTell(set, kind, edge), edge |-> edge]

SlaBegin(w) ==
  /\ w \in due /\ request[w] = None
  /\ due' = due \ {w}
  /\ \E edge \in BOOLEAN :
       IF Raises(Overdue, "SLA_VIOLATION", edge)
       THEN failed' = TRUE /\ UNCHANGED request
       ELSE /\ request' = [request EXCEPT ![w] = Phase(w, "SLA_VIOLATION", Overdue, edge)]
            /\ UNCHANGED failed
  /\ UNCHANGED <<calls, crossed, hour, isOpen, notices, told>>

Notices(w) ==
  {[dossier |-> d, kind |-> request[w].kind, at |-> request[w].at, by |-> w] : d \in request[w].dossiers}

SlaCommit(w) ==
  /\ Doing(w, "sla") /\ request[w].kind = "SLA_VIOLATION"
  /\ notices' = notices \cup Notices(w)
  /\ told' = [d \in Dossiers |-> IF d \in request[w].dossiers THEN request[w].at ELSE told[d]]
  /\ IF Raises(Approaching, "SLA_WARNING", request[w].edge)
     THEN failed' = TRUE /\ request' = [request EXCEPT ![w] = None]
     ELSE /\ request' = [request EXCEPT ![w] = Phase(w, "SLA_WARNING", Approaching, request[w].edge)]
          /\ UNCHANGED failed
  /\ UNCHANGED <<calls, crossed, hour, isOpen, due>>

WarningCommit(w) ==
  /\ Doing(w, "sla") /\ request[w].kind = "SLA_WARNING"
  /\ notices' = notices \cup Notices(w)
  /\ Ends(w)
  /\ UNCHANGED <<hour, isOpen, due, told, failed>>

(* A replica that is down misses its run; one is up.                       *)
Missed(w) ==
  /\ w \in due /\ request[w] = None
  /\ \E other \in Workers \ {w} : other \in due
  /\ due' = due \ {w}
  /\ UNCHANGED <<requestVars, hour, isOpen, notices, told, failed>>

(* Jobs take less than the hour; older notices concern no later run.       *)
NextHour ==
  /\ hour < LastHour
  /\ due = {} /\ UnderWay = {}
  /\ hour' = hour + 1
  /\ due' = Workers
  /\ notices' = {n \in notices : n.at >= hour - 1}
  /\ UNCHANGED <<requestVars, isOpen, told, failed>>

Closed(d) ==
  /\ d \in isOpen
  /\ isOpen' = isOpen \ {d}
  /\ UNCHANGED <<requestVars, hour, notices, due, told, failed>>

SlaNext ==
  \/ \E w \in Workers : SlaBegin(w) \/ SlaCommit(w) \/ WarningCommit(w) \/ Missed(w)
  \/ \E d \in Dossiers : Closed(d)
  \/ NextHour

-----------------------------------------------------------------------------
SlaTypeOK ==
  /\ hour \in Nat \ {0} /\ isOpen \subseteq Dossiers /\ due \subseteq Workers
  /\ notices \subseteq [dossier : Dossiers, kind : DOMAIN Window, at : Nat \ {0}, by : Workers]
  /\ told \in [Dossiers -> 0..hour] /\ failed \in BOOLEAN

(* "Cria Notification para o responsável": two replicas that look before   *)
(* either has written notify twice, which makes every later run fail, for  *)
(* every case, until the pair leaves the window; and yet an overdue case   *)
(* is notified within three hours, and again within five.                  *)
NobodyForgotten ==
  due = {} /\ UnderWay = {} =>
    \A d \in Overdue :
      \/ told[d] # 0 /\ hour - told[d] <= 4
      \/ hour - DueAt[d] <= 2

(* "ignora se já notificado nas últimas 2h": a case is notified twice only *)
(* by runs of the same hour.                                               *)
DuplicatesOfOneHour ==
  \A n, m \in notices :
    n # m /\ n.dossier = m.dossier /\ n.kind = m.kind /\ n.kind = "SLA_VIOLATION" =>
      \/ n.at = m.at
      \/ n.at - m.at >= 2 \/ m.at - n.at >= 2

(* An overdue case is notified in time and again, once in its window, with *)
(* two replicas that run the same job and either of which may be down.     *)
OverdueTold == SlaTypeOK /\ NobodyForgotten /\ DuplicatesOfOneHour
=============================================================================
