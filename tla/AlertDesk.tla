------------------------------- MODULE AlertDesk --------------------------------
(***************************************************************************)
(* Triage and labels of alerts, services/api/routers/alerts.py: the status *)
(* that analysts give an alert, the audit entry of each change, and the    *)
(* label that is sent to the topic feedback.labels by a task after the     *)
(* response, with two retries and a notification when they fail.  A crash  *)
(* of the replica ends its requests and tasks.                             *)
(***************************************************************************)
EXTENDS ApiRequests, Sequences

CONSTANTS
  DeskAlerts,
  Verdicts,    \* bound: the dispositions that are given
  MaxLabels    \* bound: labels given

VARIABLES
  desk,        \* [DeskAlerts -> [status, label]]
  audited,     \* [DeskAlerts -> the status that the newest audit entry names]
  labelled,    \* Seq([alert, label]): the labels committed
  feedback,    \* tasks: [n, ts, fails], of label n; ts is 0 until the task starts
  clock,       \* tasks started
  topic,       \* Seq([n, ts]): feedback.labels
  notified,    \* labels whose failure was notified
  lost,        \* history: labels whose task or notification was lost
  mixed        \* history: alerts with two labels under way at once

deskVars == <<desk, audited, labelled, feedback, clock, topic, notified, lost, mixed>>
feedbackVars == <<labelled, feedback, clock, topic, notified, lost, mixed>>

Dispositions == {"IN_REVIEW", "CONFIRMED", "DISMISSED", "FALSE_POSITIVE"}

ASSUME DeskAssumption == Verdicts \subseteq Dispositions /\ MaxLabels \in Nat

Labels == {"TRUE_POSITIVE", "FALSE_POSITIVE"}
MaxRetries == 2

DeskInit ==
  /\ desk = [a \in DeskAlerts |-> [status |-> "OPEN", label |-> None]]
  /\ audited = [a \in DeskAlerts |-> "OPEN"]
  /\ labelled = <<>> /\ feedback = {} /\ clock = 0 /\ topic = <<>>
  /\ notified = {} /\ lost = {} /\ mixed = {}

-----------------------------------------------------------------------------
(* Triage.                                                                 *)

TriagedRow(row, d) == [row EXCEPT !.status = d]

(* triage_alert for one alert, bulk_triage_alerts for several; any status  *)
(* may be triaged, CLOSED included.                                        *)
TriageBegin(w, set, d) ==
  /\ set # {}
  /\ Begin(w, [op |-> "triage", rows |-> [a \in set |-> desk[a]], to |-> d])
  /\ UNCHANGED deskVars

(* What a single triage posts to the operator's webhook nobody waits for.  *)
TriageCommit(w) ==
  /\ Doing(w, "triage")
  /\ LET r == request[w]
         set == DOMAIN r.rows
     IN  /\ desk' = [a \in DeskAlerts |->
              IF a \in set THEN Flushed(desk[a], r.rows[a], TriagedRow(r.rows[a], r.to))
              ELSE desk[a]]
         /\ audited' = [a \in DeskAlerts |-> IF a \in set THEN r.to ELSE audited[a]]
  /\ Ends(w)
  /\ UNCHANGED feedbackVars

(* close_alert: neither who nor when is kept in the row.                   *)
CloseBegin(w, a) ==
  /\ Begin(w, [op |-> "close", rows |-> [b \in {a} |-> desk[b]]])
  /\ UNCHANGED deskVars

CloseCommit(w) ==
  /\ Doing(w, "close")
  /\ \E a \in DOMAIN request[w].rows :
       LET before == request[w].rows[a]
       IN  /\ desk' = [desk EXCEPT ![a] = Flushed(desk[a], before, [before EXCEPT !.status = "CLOSED"])]
           /\ audited' = [audited EXCEPT ![a] = "CLOSED"]
  /\ Ends(w)
  /\ UNCHANGED feedbackVars

-----------------------------------------------------------------------------
(* Labels.                                                                 *)

Unstarted(a) == {t \in feedback : t.ts = 0 /\ labelled[t.n].alert = a}
Labelling(a) == {w \in UnderWay : request[w].op = "label" /\ request[w].alert = a}

LabelBegin(w, a, l) ==
  /\ Len(labelled) + Cardinality({v \in Workers : Doing(v, "label")}) < MaxLabels
  /\ Begin(w, [op |-> "label", alert |-> a, row |-> desk[a], label |-> l])
  /\ mixed' = IF Unstarted(a) # {} \/ Labelling(a) # {} THEN mixed \cup {a} ELSE mixed
  /\ UNCHANGED <<desk, audited, labelled, feedback, clock, topic, notified, lost>>

(* label_alert commits and leaves a task to run after the response.        *)
LabelCommit(w) ==
  /\ Doing(w, "label")
  /\ LET r == request[w]
     IN  /\ desk' = [desk EXCEPT ![r.alert] = Flushed(@, r.row, [r.row EXCEPT !.label = r.label])]
         /\ labelled' = Append(labelled, [alert |-> r.alert, label |-> r.label])
         /\ feedback' = feedback \cup {[n |-> Len(labelled) + 1, ts |-> 0, fails |-> 0]}
  /\ Ends(w)
  /\ UNCHANGED <<audited, clock, topic, notified, lost, mixed>>

(* _enqueue_feedback_event takes its timestamp once, before the attempts.  *)
FeedbackStart(t) ==
  /\ t.ts = 0
  /\ clock' = clock + 1
  /\ feedback' = (feedback \ {t}) \cup {[t EXCEPT !.ts = clock + 1]}
  /\ UNCHANGED <<requestVars, desk, audited, labelled, topic, notified, lost, mixed>>

(* Mutant of Publish: each attempt takes the time anew.                    *)
PublishRestamped(t) ==
  /\ t.ts > 0 /\ t.fails <= MaxRetries
  /\ clock' = clock + 1
  /\ topic' = Append(topic, [n |-> t.n, ts |-> clock + 1])
  /\ feedback' = feedback \ {t}
  /\ UNCHANGED <<requestVars, desk, audited, labelled, notified, lost, mixed>>

Publish(t) ==
  /\ t.ts > 0 /\ t.fails <= MaxRetries
  /\ topic' = Append(topic, [n |-> t.n, ts |-> t.ts])
  /\ feedback' = feedback \ {t}
  /\ UNCHANGED <<requestVars, desk, audited, labelled, clock, notified, lost, mixed>>

(* The task sleeps before it tries again; others go on meanwhile.          *)
PublishFails(t) ==
  /\ t.ts > 0 /\ t.fails <= MaxRetries
  /\ feedback' = (feedback \ {t}) \cup {[t EXCEPT !.fails = @ + 1]}
  /\ UNCHANGED <<requestVars, desk, audited, labelled, clock, topic, notified, lost, mixed>>

(* A notification for each analyst and manager, in a session of its own;   *)
(* where that fails too there is a line in the log.                        *)
NotifyFailure(t) ==
  /\ t.fails = MaxRetries + 1
  /\ feedback' = feedback \ {t}
  /\ \/ notified' = notified \cup {t.n} /\ UNCHANGED lost
     \/ lost' = lost \cup {t.n} /\ UNCHANGED notified
  /\ UNCHANGED <<requestVars, desk, audited, labelled, clock, topic, mixed>>

Crash ==
  /\ calls < MaxCalls
  /\ calls' = calls + 1
  /\ request' = [w \in Workers |-> None]
  /\ lost' = lost \cup {t.n : t \in feedback}
  /\ feedback' = {}
  /\ UNCHANGED <<crossed, desk, audited, labelled, clock, topic, notified, mixed>>

DeskNext ==
  \/ \E w \in Workers :
       \/ \E set \in SUBSET DeskAlerts, d \in Verdicts : TriageBegin(w, set, d)
       \/ \E a \in DeskAlerts : CloseBegin(w, a)
       \/ \E a \in DeskAlerts, l \in Labels : LabelBegin(w, a, l)
       \/ TriageCommit(w) \/ CloseCommit(w) \/ LabelCommit(w)
  \/ \E t \in feedback : FeedbackStart(t) \/ Publish(t) \/ PublishFails(t) \/ NotifyFailure(t)
  \/ Crash

-----------------------------------------------------------------------------
LabelIds == 1..Len(labelled)
AlertStatuses == Dispositions \cup {"OPEN", "CLOSED"}

DeskTypeOK ==
  /\ desk \in [DeskAlerts -> [status : AlertStatuses,
                              label : Labels \cup {None}]]
  /\ audited \in [DeskAlerts -> AlertStatuses]
  /\ labelled \in Seq([alert : DeskAlerts, label : Labels])
  /\ feedback \subseteq [n : LabelIds, ts : 0..clock, fails : 0..MaxRetries + 1]
  /\ topic \in Seq([n : Nat, ts : Nat])
  /\ \A i \in 1..Len(topic) : topic[i].n \in LabelIds /\ topic[i].ts \in 1..clock
  /\ notified \subseteq LabelIds /\ lost \subseteq LabelIds /\ mixed \subseteq DeskAlerts

(* The audit trail tells who an alert's status comes from: its newest      *)
(* entry names the status in the row, unless requests overlapped, when a   *)
(* triage that repeats the status it read writes none.                     *)
StatusAudited ==
  ~crossed => \A a \in DeskAlerts : desk[a].status = audited[a]

(* "on final failure stores a Notification": a label that was committed is *)
(* published, being published, notified, or lost with its replica or with  *)
(* the database; it is one of them only.                                   *)
LabelsAccounted ==
  \A n \in LabelIds :
    LET published == \E i \in 1..Len(topic) : topic[i].n = n
        pending == \E t \in feedback : t.n = n
    IN  /\ published \/ pending \/ n \in notified \cup lost
        /\ ~(published /\ (pending \/ n \in notified \cup lost))

(* Retries may publish an older label of an alert after a newer one; yet   *)
(* the record with the newest timestamp carries the label in the table,    *)
(* once no task is left, unless one did not make it or two labels of the   *)
(* alert were under way at once.                                           *)
NewestLabelTold ==
  \A a \in DeskAlerts \ mixed :
    LET mine == {i \in 1..Len(topic) : labelled[topic[i].n].alert = a}
        settled == \A n \in LabelIds : labelled[n].alert = a => \E i \in mine : topic[i].n = n
    IN  settled =>
          \A i \in mine : (\A j \in mine : topic[j].ts <= topic[i].ts)
                            => labelled[topic[i].n].label = desk[a].label

(* What other systems learn of an alert, from the audit trail and from the *)
(* topic of labels, agrees with the row of the alert.                      *)
DeskSound == DeskTypeOK /\ StatusAudited /\ LabelsAccounted /\ NewestLabelTold
=============================================================================
