----------------------------- MODULE RulesEngine ------------------------------
(***************************************************************************)
(* services/rules_engine/main.py: a consumer with automatic offset commits *)
(* that turns the rule matches of an event into alerts, publishes every    *)
(* alert on scoring.alerts and hands it, through a bounded queue in        *)
(* memory, to a writer task that makes one Postgres transaction of it: the *)
(* alert row, the automatic case or the link to the player's active case,  *)
(* the execution log and the player's risk.                                *)
(*                                                                         *)
(* The rules that fire on an event are part of the event (RuleEvaluation   *)
(* models how they are found); analysts open, close and reopen cases       *)
(* meanwhile.                                                              *)
(***************************************************************************)
EXTENDS Naturals, Sequences, FiniteSets

CONSTANTS
  Engines,      \* replicas of the rules engine (one consumer group)
  Players,
  Stream,       \* [partitions -> Seq(Event)]: the canonical events
  QueueSize,    \* capacity of db_queue (1000 in the code)
  HighBand,     \* risk_band_high_threshold
  LowBand,      \* risk_band_low_threshold
  MaxScore,     \* bound: scores are 0..MaxScore
  Budget,       \* bound: how many faults of each kind a behaviour has, and
                \* how many cases analysts open or reopen
  None

Partitions == DOMAIN Stream

(* What publish_alert and _write read of a match: whether the rule is a    *)
(* compound one, the composite score and whether the severity or the score *)
(* asks for a case.                                                        *)
Match == [compound : BOOLEAN, score : 0..MaxScore, auto : BOOLEAN]
Event == [player : Players, backfill : BOOLEAN, suppressed : BOOLEAN, matches : Seq(Match)]

(* What the writer knows of the alert it is writing: the case it found.    *)
Transaction == [alert : Nat, found : Nat \cup {None}]

FaultKinds == {"crash", "publish", "write", "rebalance", "analyst"}

ASSUME EngineAssumption ==
  /\ Stream \in [Partitions -> Seq(Event)]
  /\ QueueSize \in Nat \ {0}
  /\ MaxScore \in Nat
  /\ LowBand \in Nat /\ HighBand \in Nat
  /\ Budget \in [FaultKinds -> Nat]
  /\ None \notin Engines \cup Nat \cup Transaction

VARIABLES
  committed,  \* [Partitions -> Nat]: offset committed by the group
  owner,      \* [Partitions -> Engines \cup {None}]
  position,   \* [Engines -> [Partitions -> Nat]]: messages already returned
  pc,         \* [Engines -> {"down", "idle", "publish", "enqueue"}]
  cur,        \* [Engines -> the event in hand and its matches left, or None]
  published,  \* Seq(Alert): scoring.alerts; the index is the alert_id
  queue,      \* [Engines -> Seq(alert ids)]: db_queue
  writing,    \* [Engines -> Transaction \cup {None}]: what the writer writes
  rows,       \* alert ids with a row in Postgres
  link,       \* [rows -> case id or None]: alerts.case_id
  cases,      \* Seq(Case): the index is the case id; byHand is history, an
              \* analyst opened or reopened the case
  timeline,   \* set of <<case id, alert id>>: case_events
  risk,       \* [Players -> 0..MaxScore]
  band,       \* [Players -> {"LOW", "MEDIUM", "HIGH"}]
  faults      \* [FaultKinds -> Nat]

consumer == <<committed, owner, position>>
store    == <<rows, link, cases, timeline, risk, band>>
vars     == <<consumer, pc, cur, published, queue, writing, store, faults>>

Band(score) == IF score >= HighBand THEN "HIGH"
               ELSE IF score >= LowBand THEN "MEDIUM" ELSE "LOW"

Greatest(a, b) == IF a >= b THEN a ELSE b

Init ==
  /\ committed = [p \in Partitions |-> 0]
  /\ owner \in [Partitions -> Engines]
  /\ position = [e \in Engines |-> [p \in Partitions |-> 0]]
  /\ pc = [e \in Engines |-> "idle"]
  /\ cur = [e \in Engines |-> None]
  /\ published = <<>>
  /\ queue = [e \in Engines |-> <<>>]
  /\ writing = [e \in Engines |-> None]
  /\ rows = {} /\ link = <<>>
  /\ cases = <<>> /\ timeline = {}
  /\ risk = [y \in Players |-> 0] /\ band = [y \in Players |-> "LOW"]
  /\ faults = [f \in FaultKinds |-> 0]

Fault(f) ==
  /\ faults[f] < Budget[f]
  /\ faults' = [faults EXCEPT ![f] = @ + 1]

(* The next match of the event in hand, or the next message.               *)
Continue(e, left) ==
  IF left = <<>>
  THEN pc' = [pc EXCEPT ![e] = "idle"] /\ cur' = [cur EXCEPT ![e] = None]
  ELSE pc' = [pc EXCEPT ![e] = "publish"] /\ cur' = [cur EXCEPT ![e].left = left]

-----------------------------------------------------------------------------
(* The consumer task.                                                      *)

(* The loop takes a message and evaluates the rules on it; an event with   *)
(* suppress_alerts has no matches.                                         *)
Fetch(e, p) ==
  /\ pc[e] = "idle"
  /\ owner[p] = e
  /\ position[e][p] < Len(Stream[p])
  /\ LET i == position[e][p] + 1
         v == Stream[p][i]
         found == IF v.suppressed THEN <<>> ELSE v.matches
     IN  /\ position' = [position EXCEPT ![e][p] = i]
         /\ IF found = <<>>
            THEN UNCHANGED <<pc, cur>>
            ELSE /\ pc' = [pc EXCEPT ![e] = "publish"]
                 /\ cur' = [cur EXCEPT ![e] = [event |-> v, left |-> found]]
  /\ UNCHANGED <<committed, owner, published, queue, writing, store, faults>>

(* publish_alert, first half: a fresh alert_id, sent to scoring.alerts.    *)
Publish(e) ==
  /\ pc[e] = "publish"
  /\ published' = Append(published, [player |-> cur[e].event.player,
                                     backfill |-> cur[e].event.backfill,
                                     match |-> Head(cur[e].left), by |-> e])
  /\ pc' = [pc EXCEPT ![e] = "enqueue"]
  /\ cur' = [cur EXCEPT ![e] = [event |-> @.event, left |-> Tail(@.left),
                                alert |-> Len(published) + 1]]
  /\ UNCHANGED <<consumer, queue, writing, store, faults>>

(* The send raises: the matches left of this event are given up and the    *)
(* loop goes on with the next message.                                     *)
PublishFails(e) ==
  /\ pc[e] = "publish"
  /\ Fault("publish")
  /\ Continue(e, <<>>)
  /\ UNCHANGED <<consumer, published, queue, writing, store>>

(* Mutant of Enqueue: put_nowait, and a full queue drops the alert.        *)
EnqueueOrDrop(e) ==
  /\ pc[e] = "enqueue"
  /\ queue' = IF Len(queue[e]) < QueueSize
              THEN [queue EXCEPT ![e] = Append(@, cur[e].alert)] ELSE queue
  /\ Continue(e, cur[e].left)
  /\ UNCHANGED <<consumer, published, writing, store, faults>>

(* publish_alert, second half: put() waits while the queue is full.        *)
Enqueue(e) ==
  /\ pc[e] = "enqueue"
  /\ Len(queue[e]) < QueueSize
  /\ queue' = [queue EXCEPT ![e] = Append(@, cur[e].alert)]
  /\ Continue(e, cur[e].left)
  /\ UNCHANGED <<consumer, published, writing, store, faults>>

(* The Kafka client commits the position of the partitions it owns in the  *)
(* background, whatever became of the messages.                            *)
AutoCommit(e) ==
  /\ pc[e] # "down"
  /\ \E p \in Partitions : owner[p] = e /\ committed[p] # position[e][p]
  /\ committed' = [p \in Partitions |->
                     IF owner[p] = e THEN position[e][p] ELSE committed[p]]
  /\ UNCHANGED <<owner, position, pc, cur, published, queue, writing, store, faults>>

-----------------------------------------------------------------------------
(* The writer task.                                                        *)

(* CRITICAL severity or a composite score over the threshold, a player,    *)
(* and not a backfill.                                                     *)
WantsCase(a) == published[a].match.auto /\ ~published[a].backfill

(* The active cases of a player (SELECT ... status IN (...)).              *)
ActiveCases(y) == {c \in 1..Len(cases) : cases[c].player = y /\ cases[c].active}

Latest(S) == CHOOSE c \in S : \A d \in S : d <= c

(* Mutant of FindCase: every alert that wants a case gets a new one.       *)
FindNoCase(a) == None

(* The case the alert will be linked to, if the player has an active one.  *)
FindCase(a) ==
  LET active == ActiveCases(published[a].player)
  IN  IF WantsCase(a) /\ active # {} THEN Latest(active) ELSE None

(* Mutant of WriteBegin: the last transaction need not have ended.         *)
WriteBeginEarly(e) ==
  /\ pc[e] # "down"
  /\ queue[e] # <<>>
  /\ queue' = [queue EXCEPT ![e] = Tail(@)]
  /\ writing' = [writing EXCEPT ![e] = [alert |-> Head(queue[e]), found |-> FindCase(Head(queue[e]))]]
  /\ UNCHANGED <<consumer, pc, cur, published, store, faults>>

(* The transaction begins: up to the SELECT of an active case.             *)
WriteBegin(e) ==
  /\ pc[e] # "down"
  /\ writing[e] = None
  /\ queue[e] # <<>>
  /\ queue' = [queue EXCEPT ![e] = Tail(@)]
  /\ writing' = [writing EXCEPT ![e] = [alert |-> Head(queue[e]), found |-> FindCase(Head(queue[e]))]]
  /\ UNCHANGED <<consumer, pc, cur, published, store, faults>>

(* Mutant of RaiseRisk: the last alert sets the risk.                      *)
SetRisk(y, s) ==
  /\ risk' = [risk EXCEPT ![y] = s]
  /\ band' = [band EXCEPT ![y] = Band(s)]

(* UPDATE players SET risk_score = GREATEST(risk_score, :score), ...       *)
RaiseRisk(y, s) ==
  /\ risk' = [risk EXCEPT ![y] = Greatest(@, s)]
  /\ band' = [band EXCEPT ![y] = Band(Greatest(risk[y], s))]

(* Mutant of LinkCase: an alert of a player with an active case is linked  *)
(* to it whatever its ingest mode.                                         *)
LinkAlways(a, found) ==
  LET active == ActiveCases(published[a].player)
      c == IF active # {} THEN Latest(active) ELSE Len(cases) + 1
  IN  IF WantsCase(a) \/ active # {}
      THEN /\ cases' = IF active # {} THEN cases
                       ELSE Append(cases, [player |-> published[a].player, active |-> TRUE, source |-> a, byHand |-> FALSE])
           /\ timeline' = timeline \cup {<<c, a>>}
           /\ link' = [b \in rows \cup {a} |-> IF b = a THEN c ELSE link[b]]
      ELSE /\ UNCHANGED <<cases, timeline>>
           /\ link' = [b \in rows \cup {a} |-> IF b = a THEN None ELSE link[b]]

(* The case part of _write: a new case or the one found, an event on its   *)
(* timeline, and alerts.case_id.                                           *)
LinkCase(a, found) ==
  LET c == IF found = None THEN Len(cases) + 1 ELSE found
      case == [player |-> published[a].player, active |-> TRUE, source |-> a, byHand |-> FALSE]
  IN  IF WantsCase(a)
      THEN /\ cases' = IF found = None THEN Append(cases, case) ELSE cases
           /\ timeline' = timeline \cup {<<c, a>>}
           /\ link' = [b \in rows \cup {a} |-> IF b = a THEN c ELSE link[b]]
      ELSE /\ UNCHANGED <<cases, timeline>>
           /\ link' = [b \in rows \cup {a} |-> IF b = a THEN None ELSE link[b]]

(* The rest of the transaction and its commit.  The execution log of a     *)
(* compound alert has no rule_id, which the table does not accept, and the *)
(* whole transaction is rolled back.                                       *)
WriteCommit(e) ==
  /\ writing[e] # None
  /\ LET a == writing[e].alert
     IN  IF published[a].match.compound
         THEN UNCHANGED store
         ELSE /\ rows' = rows \cup {a}
              /\ LinkCase(a, writing[e].found)
              /\ RaiseRisk(published[a].player, published[a].match.score)
  /\ writing' = [writing EXCEPT ![e] = None]
  /\ UNCHANGED <<consumer, pc, cur, published, queue, faults>>

(* Postgres fails: rolled back, logged and forgotten.                      *)
WriteFails(e) ==
  /\ writing[e] # None
  /\ Fault("write")
  /\ writing' = [writing EXCEPT ![e] = None]
  /\ UNCHANGED <<consumer, pc, cur, published, queue, store>>

-----------------------------------------------------------------------------
(* The environment.                                                        *)

(* An analyst closes or reports a case: it leaves the active statuses.     *)
CloseCase(c) ==
  /\ cases[c].active
  /\ cases' = [cases EXCEPT ![c].active = FALSE]
  /\ UNCHANGED <<consumer, pc, cur, published, queue, writing, rows, link,
                 timeline, risk, band, faults>>

(* create_case, for a player; and the transition from CLOSED to OPEN (what *)
(* was reported stays so, that is, is not reopened).                       *)
OpenCase(y) ==
  /\ Fault("analyst")
  /\ cases' = Append(cases, [player |-> y, active |-> TRUE, source |-> None, byHand |-> TRUE])
  /\ UNCHANGED <<consumer, pc, cur, published, queue, writing, rows, link, timeline, risk, band>>

ReopenCase(c) ==
  /\ ~cases[c].active
  /\ Fault("analyst")
  /\ cases' = [cases EXCEPT ![c].active = TRUE, ![c].byHand = TRUE]
  /\ UNCHANGED <<consumer, pc, cur, published, queue, writing, rows, link, timeline, risk, band>>

(* The process dies with its queue.                                        *)
Crash(e) ==
  /\ pc[e] # "down"
  /\ Fault("crash")
  /\ pc' = [pc EXCEPT ![e] = "down"]
  /\ cur' = [cur EXCEPT ![e] = None]
  /\ queue' = [queue EXCEPT ![e] = <<>>]
  /\ writing' = [writing EXCEPT ![e] = None]
  /\ owner' = [p \in Partitions |-> IF owner[p] = e THEN None ELSE owner[p]]
  /\ UNCHANGED <<committed, position, published, store>>

Restart(e) ==
  /\ pc[e] = "down"
  /\ pc' = [pc EXCEPT ![e] = "idle"]
  /\ UNCHANGED <<consumer, cur, published, queue, writing, store, faults>>

Assign(e, p) ==
  /\ pc[e] # "down"
  /\ IF owner[p] = None THEN UNCHANGED faults ELSE Fault("rebalance")
  /\ owner' = [owner EXCEPT ![p] = e]
  /\ position' = [position EXCEPT ![e][p] = committed[p]]
  /\ UNCHANGED <<committed, pc, cur, published, queue, writing, store>>

(* All events consumed, all alerts written: the engine waits for more.     *)
Drained ==
  /\ \A e \in Engines : pc[e] = "idle" /\ queue[e] = <<>> /\ writing[e] = None
  /\ \A p \in Partitions : owner[p] # None /\ position[owner[p]][p] = Len(Stream[p])
  /\ UNCHANGED vars

Consumer(e) ==
  \/ \E p \in Partitions : Fetch(e, p)
  \/ Publish(e) \/ PublishFails(e) \/ Enqueue(e)

Writer(e) == WriteBegin(e) \/ WriteCommit(e) \/ WriteFails(e)

Next ==
  \/ \E e \in Engines :
       \/ Consumer(e) \/ AutoCommit(e) \/ Writer(e)
       \/ Crash(e) \/ Restart(e)
       \/ \E p \in Partitions : Assign(e, p)
  \/ \E c \in 1..Len(cases) : CloseCase(c) \/ ReopenCase(c)
  \/ \E y \in Players : OpenCase(y)
  \/ Drained

Spec == Init /\ [][Next]_vars

(* Both tasks of a process run, a dead replica is restarted and an orphan  *)
(* partition is given to a live one.                                       *)
Fairness ==
  /\ \A e \in Engines : WF_vars(Consumer(e)) /\ WF_vars(Writer(e)) /\ WF_vars(Restart(e))
  /\ \A p \in Partitions : WF_vars(owner[p] = None /\ \E e \in Engines : Assign(e, p))

FairSpec == Spec /\ Fairness

-----------------------------------------------------------------------------
Alert == [player : Players, backfill : BOOLEAN, match : Match, by : Engines]
Ids   == 1..Len(published)
Case  == [player : Players, active : BOOLEAN, source : Ids \cup {None}, byHand : BOOLEAN]

(* Type invariant of the engine's state and of the tables it writes.       *)
TypeOK ==
  /\ committed \in [Partitions -> Nat]
  /\ owner \in [Partitions -> Engines \cup {None}]
  /\ position \in [Engines -> [Partitions -> Nat]]
  /\ pc \in [Engines -> {"down", "idle", "publish", "enqueue"}]
  /\ \A e \in Engines :
       /\ pc[e] \in {"publish", "enqueue"} =>
            cur[e].event \in Event /\ cur[e].left \in Seq(Match)
       /\ pc[e] = "enqueue" => cur[e].alert \in Ids
       /\ pc[e] = "publish" => cur[e].left # <<>>
       /\ writing[e] # None => writing[e].alert \in Ids
  /\ published \in Seq(Alert)
  /\ queue \in [Engines -> Seq(Ids)]
  /\ rows \subseteq Ids
  /\ link \in [rows -> (1..Len(cases)) \cup {None}]
  /\ cases \in Seq(Case)
  /\ timeline \subseteq (1..Len(cases)) \X Ids
  /\ risk \in [Players -> Nat]
  /\ band \in [Players -> {"LOW", "MEDIUM", "HIGH"}]
  /\ faults \in [FaultKinds -> Nat]

(* An alert that wants a case and has a row is linked to a case of its own *)
(* player and stands on its timeline; nothing else is on a timeline, no    *)
(* backfill alert opens or joins a case, and every case of the engine has  *)
(* the row of the alert it came from, whatever crashes and failed writes   *)
(* happen and whatever analysts open, close and reopen.                    *)
CasesJustified ==
  /\ \A a \in rows :
       IF WantsCase(a)
       THEN link[a] # None /\ cases[link[a]].player = published[a].player
       ELSE link[a] = None
  /\ timeline = {<<link[a], a>> : a \in {b \in rows : link[b] # None}}
  /\ \A c \in 1..Len(cases) : cases[c].source # None => <<c, cases[c].source>> \in timeline

(* A player's risk is that of the worst alert on record and the band that  *)
(* of the risk, in whichever order the alerts of a player are written; a   *)
(* player with no alert on record keeps the band of a new one.             *)
RiskCoversAlerts ==
  /\ \A a \in rows : risk[published[a].player] >= published[a].match.score
  /\ \A y \in Players : band[y] = IF \E a \in rows : published[a].player = y
                                   THEN Band(risk[y]) ELSE "LOW"
  /\ \A y \in Players : risk[y] > 0 =>
       \E a \in rows : published[a].player = y /\ published[a].match.score = risk[y]

(* An automatic case never duplicates an active case of the player         *)
(* (rules_engine/main.py:937, "enriquecer caso existente em vez de criar   *)
(* duplicata"): of the active cases that no analyst opened or reopened     *)
(* there is one at most.                                                   *)
EngineCases(y) == {c \in ActiveCases(y) : ~cases[c].byHand}
OneActiveCase == \A y \in Players : Cardinality(EngineCases(y)) <= 1

(* Every alert that reached scoring.alerts gets its row in Postgres: once  *)
(* the stream is consumed, no published alert is left without one.         *)
EveryAlertPersisted == []<>(rows = Ids)

(* An alert that the database can hold, and the alerts that a process has  *)
(* on their way to it: in the consumer's hand, queued, with the writer.    *)
Storable == {a \in Ids : ~published[a].match.compound}
OnTheWay(e) ==
  {a \in Ids : \/ pc[e] = "enqueue" /\ cur[e].alert = a
               \/ \E i \in 1..Len(queue[e]) : queue[e][i] = a
               \/ writing[e] # None /\ writing[e].alert = a}
Lost == {a \in Storable \ rows : \A e \in Engines : a \notin OnTheWay(e)}

(* From scoring.alerts to Postgres: an alert is under way until it has its *)
(* row, and is lost for good with its process or by a failed transaction.  *)
(* A process has its queue in memory, an alert in the consumer's hand and  *)
(* one with the writer.                                                    *)
Delivery ==
  INSTANCE Handover
    WITH given <- Storable, kept <- rows, lost <- Lost,
         crashes <- faults["crash"], drops <- faults["write"], Room <- QueueSize + 2
ImplementsHandover == Delivery!Spec

(* The alerts without a row are few: one for each transaction that failed, *)
(* and the content of one full queue and two more for each crash.          *)
LossBounded == Delivery!LossBounded

(* The queue of the writer never exceeds its capacity and only holds       *)
(* alerts of this process that have no row yet, each once.                 *)
QueueFresh ==
  \A e \in Engines :
    /\ Len(queue[e]) <= QueueSize
    /\ \A i \in 1..Len(queue[e]) :
         /\ queue[e][i] \notin rows
         /\ published[queue[e][i]].by = e
         /\ \A j \in 1..Len(queue[e]) : queue[e][i] = queue[e][j] => i = j

(* The tables that two engines write agree with each other and with the    *)
(* queues of the writers, whatever crashes and failed writes happen, and   *)
(* the alerts that these leave without a row are few.                      *)
EngineSound == TypeOK /\ QueueFresh /\ CasesJustified /\ LossBounded
=============================================================================
