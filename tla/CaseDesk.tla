------------------------------- MODULE CaseDesk --------------------------------
(***************************************************************************)
(* Handlers of routers/cases.py that put a case together: opening it,      *)
(* linking and unlinking alerts, assignment, comments, and the             *)
(* reconciliation that traces the case back to its alerts.  The way of a   *)
(* case to its report is in CaseFiling, the files in ReportCustody.        *)
(***************************************************************************)
EXTENDS ApiRequests, Sequences

CONSTANTS
  CaseIds, FirstCases, \* FirstCases are open from the start, without a player
  Evidence,            \* alerts
  PlayerOf,            \* [Evidence -> a player or None]
  Analysts,            \* users that can be mentioned
  Outsiders            \* users that cannot: inactive, of another role or tenant

Users == Analysts \cup Outsiders

ASSUME CaseDeskAssumption ==
  FirstCases \subseteq CaseIds /\ None \notin CaseIds \cup Evidence \cup Users

VARIABLES
  opened,    \* cases that exist
  caseRow,   \* [CaseIds -> row of cases]
  linkedTo,  \* [Evidence -> alerts.case_id, or None]
  trail,     \* [CaseIds -> Seq of the case's events, in the order of their commits]
  informed       \* notifications: [case, user, kind]

caseDeskVars == <<opened, caseRow, linkedTo, trail, informed>>

NewCase(player) == [player |-> player, source |-> None, assignee |-> None]

CaseDeskInit ==
  /\ opened = FirstCases
  /\ caseRow = [c \in CaseIds |-> NewCase(None)]
  /\ linkedTo = [a \in Evidence |-> None]
  /\ trail = [c \in CaseIds |-> <<>>]
  /\ informed = {}

Noted(c, type, of) == trail' = [trail EXCEPT ![c] = Append(@, [type |-> type, of |-> of])]

(* create_case: a player that is not found is left out.                    *)
OpenCase(c) ==
  /\ c \notin opened
  /\ Statement
  /\ opened' = opened \cup {c}
  /\ \E p \in {PlayerOf[a] : a \in Evidence} \cup {None} : caseRow' = [caseRow EXCEPT ![c] = NewCase(p)]
  /\ UNCHANGED <<linkedTo, trail, informed>>

(* "Alerta pertence a outro jogador e nao pode ser vinculado a este caso". *)
Linkable(row, a) == PlayerOf[a] = None \/ row.player = None \/ row.player = PlayerOf[a]

LinkedRow(row, a) ==
  [row EXCEPT !.player = IF @ = None THEN PlayerOf[a] ELSE @,
              !.source = IF @ = None THEN a ELSE @]

LinkBegin(w, c, a) ==
  /\ c \in opened /\ Linkable(caseRow[c], a)
  /\ Begin(w, [op |-> "link", case |-> c, alert |-> a, from |-> linkedTo[a],
               before |-> caseRow[c], after |-> LinkedRow(caseRow[c], a)])
  /\ UNCHANGED caseDeskVars

(* An alert of another case is moved, without an event of that case.       *)
LinkCommit(w) ==
  /\ Doing(w, "link")
  /\ LET r == request[w]
     IN /\ caseRow' = [caseRow EXCEPT ![r.case] = Flushed(@, r.before, r.after)]
        /\ linkedTo' = [linkedTo EXCEPT ![r.alert] = IF r.from = r.case THEN @ ELSE r.case]
        /\ Noted(r.case, "ALERT_LINKED", r.alert)
  /\ Ends(w)
  /\ UNCHANGED <<opened, informed>>

UnlinkBegin(w, c, a) ==
  /\ c \in opened /\ linkedTo[a] = c
  /\ Begin(w, [op |-> "unlink", case |-> c, alert |-> a])
  /\ UNCHANGED caseDeskVars

(* Mutant of UnlinkCommit: the event is that of a note.                    *)
UnlinkCommitNoted(w) ==
  /\ Doing(w, "unlink")
  /\ linkedTo' = [linkedTo EXCEPT ![request[w].alert] = None]
  /\ Noted(request[w].case, "NOTE", request[w].alert)
  /\ Ends(w)
  /\ UNCHANGED <<opened, caseRow, informed>>

UnlinkCommit(w) ==
  /\ Doing(w, "unlink")
  /\ linkedTo' = [linkedTo EXCEPT ![request[w].alert] = None]
  /\ Noted(request[w].case, "ALERT_UNLINKED", request[w].alert)
  /\ Ends(w)
  /\ UNCHANGED <<opened, caseRow, informed>>

(* assign_case: to whoever the body names.                                 *)
AssignBegin(w, c, u) ==
  /\ c \in opened
  /\ Begin(w, [op |-> "assign", case |-> c, before |-> caseRow[c],
               after |-> [caseRow[c] EXCEPT !.assignee = u]])
  /\ UNCHANGED caseDeskVars

Reassigned(row, before, after) == Flushed(row, before, after)

AssignCommit(w) ==
  /\ Doing(w, "assign")
  /\ LET r == request[w]
     IN /\ caseRow' = [caseRow EXCEPT ![r.case] = Reassigned(@, r.before, r.after)]
        /\ Noted(r.case, "ASSIGNMENT", r.after.assignee)
        /\ informed' = informed \cup {[case |-> r.case, user |-> r.after.assignee, kind |-> "CASE_ASSIGNED"]}
  /\ Ends(w)
  /\ UNCHANGED <<opened, linkedTo>>

(* add_case_comment: where none of the mentioned can be, all of them are.  *)
Mentioned(users) == IF users \cap Analysts = {} THEN users ELSE users \cap Analysts

Comment(c, users) ==
  /\ c \in opened
  /\ Statement
  /\ Noted(c, "NOTE", None)
  /\ informed' = informed \cup {[case |-> c, user |-> u, kind |-> "CASE_MENTION"] : u \in Mentioned(users)}
  /\ UNCHANGED <<opened, caseRow, linkedTo>>

CaseDeskNext ==
  \/ \E w \in Workers :
       \/ \E c \in CaseIds :
            \/ \E a \in Evidence : LinkBegin(w, c, a) \/ UnlinkBegin(w, c, a)
            \/ \E u \in Users : AssignBegin(w, c, u)
       \/ LinkCommit(w) \/ UnlinkCommit(w) \/ AssignCommit(w)
  \/ \E c \in CaseIds : OpenCase(c) \/ \E users \in SUBSET Users : Comment(c, users)

-----------------------------------------------------------------------------
(* get_case_reconciliation, the stage alert_to_case.                       *)
AlertToCase(c) ==
  /\ \E a \in Evidence : linkedTo[a] = c
  /\ caseRow[c].source # None => linkedTo[caseRow[c].source] = c

CaseDeskTypeOK ==
  /\ opened \subseteq CaseIds
  /\ caseRow \in [CaseIds -> [player : {PlayerOf[a] : a \in Evidence} \cup {None}, source : Evidence \cup {None},
                              assignee : Users \cup {None}]]
  /\ linkedTo \in [Evidence -> opened \cup {None}]
  /\ trail \in [CaseIds -> Seq([type : {"ALERT_LINKED", "ALERT_UNLINKED", "ASSIGNMENT", "NOTE"},
                              of : Evidence \cup Users \cup {None}])]
  /\ \A c \in CaseIds \ opened : trail[c] = <<>>
  /\ informed \subseteq [case : opened, user : Users, kind : {"CASE_ASSIGNED", "CASE_MENTION"}]

Entries(c, types) == {i \in DOMAIN trail[c] : trail[c][i].type \in types}
Latest(S) == CHOOSE i \in S : \A j \in S : j <= i

(* The case's trail tells which alerts are in it: those whose last entry   *)
(* is ALERT_LINKED, but for one that was moved to another case, of which   *)
(* this one's trail has nothing, not even when that other case lets the    *)
(* alert go. Unless two requests overlapped.                               *)
TrailTellsAlerts ==
  crossed \/ \A c \in CaseIds, a \in Evidence :
    LET about == {i \in Entries(c, {"ALERT_LINKED", "ALERT_UNLINKED"}) : trail[c][i].of = a}
        isIn == about # {} /\ trail[c][Latest(about)].type = "ALERT_LINKED"
        moved == \E d \in CaseIds \ {c} : \E i \in Entries(d, {"ALERT_LINKED"}) : trail[d][i].of = a
    IN /\ linkedTo[a] = c => isIn
       /\ isIn => linkedTo[a] = c \/ moved

(* "evento de origem -> alerta -> caso": the stage alert_to_case is right  *)
(* if and only if the alert that was linked to the case first is in it.    *)
(* Unless two requests overlapped.                                         *)
ReconciliationTracesFirst ==
  crossed \/ \A c \in CaseIds :
    LET links == Entries(c, {"ALERT_LINKED"})
    IN AlertToCase(c) <=>
         /\ links # {}
         /\ linkedTo[trail[c][CHOOSE i \in links : \A j \in links : i <= j].of] = c

(* The assignee is the one of the last ASSIGNMENT in the trail, and was    *)
(* told; unless two requests overlapped: one that assigns the case to whom *)
(* it found there writes an event and not the column.                      *)
AssigneeTold ==
  \A c \in CaseIds :
    LET assignments == Entries(c, {"ASSIGNMENT"})
    IN assignments # {} =>
         /\ [case |-> c, user |-> caseRow[c].assignee, kind |-> "CASE_ASSIGNED"] \in informed
         /\ crossed \/ caseRow[c].assignee = trail[c][Latest(assignments)].of

(* What is told of a case (its timeline, its reconciliation, the notice to *)
(* its analyst) agrees with its alerts.                                    *)
CaseDeskSound == CaseDeskTypeOK /\ TrailTellsAlerts /\ ReconciliationTracesFirst /\ AssigneeTold
=============================================================================
