------------------------------ MODULE AlertStream ------------------------------
(***************************************************************************)
(* stream_alerts, services/api/routers/alerts.py: a client connected to    *)
(* /alerts/stream is sent the alerts that are OPEN, polled from the table. *)
(* created_at is the time of the transaction that inserts an alert, which  *)
(* may commit after that of a later one.                                   *)
(***************************************************************************)
EXTENDS Naturals, FiniteSets, FiniteSetsExt

CONSTANTS
  MaxFeed,    \* bound: alerts, numbered in the order of created_at
  Batch,      \* a poll takes that many (50)
  MaxPolls    \* bound: polls of the client

ASSUME FeedAssumption == MaxFeed \in Nat /\ Batch \in Nat \ {0}

Feed == 1..MaxFeed

VARIABLES
  started,    \* alerts whose insert has begun: 1..started
  visible,    \* alerts committed
  triaged,    \* alerts that are not OPEN any more
  client,     \* "away", "connecting" or "connected"
  cursor,     \* last_seen_at
  sent,       \* [Feed -> how often the client was sent it]
  polls,
  behind,     \* history: committed when the cursor had passed them
  dropped     \* history: beyond the batch of a poll

streamVars == <<started, visible, triaged, client, cursor, sent, polls, behind, dropped>>

StreamInit ==
  /\ started = 0
  /\ visible = {} /\ triaged = {}
  /\ client = "away" /\ cursor = 0
  /\ sent = [a \in Feed |-> 0]
  /\ polls = 0
  /\ behind = {} /\ dropped = {}

Newest(set, n) == {a \in set : Cardinality({b \in set : b > a}) < n}

InsertBegins ==
  /\ started + 1 \in Feed
  /\ started' = started + 1
  /\ UNCHANGED <<visible, triaged, client, cursor, sent, polls, behind, dropped>>

InsertCommits(a) ==
  /\ a <= started /\ a \notin visible
  /\ visible' = visible \cup {a}
  /\ behind' = IF client # "away" /\ a <= cursor THEN behind \cup {a} ELSE behind
  /\ UNCHANGED <<started, triaged, client, cursor, sent, polls, dropped>>

Triaged(a) ==
  /\ a \in visible \ triaged
  /\ triaged' = triaged \cup {a}
  /\ UNCHANGED <<started, visible, client, cursor, sent, polls, behind, dropped>>

Open == visible \ triaged
Sent(batch) == [a \in Feed |-> IF a \in batch THEN sent[a] + 1 ELSE sent[a]]

(* What comes after this moment is new; the latest alerts are sent first.  *)
Connect ==
  /\ client = "away"
  /\ client' = "connecting"
  /\ cursor' = started
  /\ behind' = 1..started
  /\ UNCHANGED <<started, visible, triaged, sent, polls, dropped>>

(* Mutant of FirstSent: the cursor is set when the first alerts are sent.  *)
FirstSentThenCursor ==
  /\ client = "connecting"
  /\ client' = "connected"
  /\ cursor' = started
  /\ sent' = Sent(Newest(Open, Batch))
  /\ UNCHANGED <<started, visible, triaged, polls, behind, dropped>>

FirstSent ==
  /\ client = "connecting"
  /\ client' = "connected"
  /\ sent' = Sent(Newest(Open, Batch))
  /\ UNCHANGED <<started, visible, triaged, cursor, polls, behind, dropped>>

Fresh == {a \in Open : a > cursor}

(* new_alerts[-1] of a descending order: the oldest of the batch.          *)
CursorAfter(batch) == Min(batch)

Poll ==
  /\ client = "connected" /\ polls < MaxPolls
  /\ polls' = polls + 1
  /\ LET batch == Newest(Fresh, Batch)
     IN IF batch = {} THEN UNCHANGED <<cursor, sent, dropped>>
        ELSE /\ cursor' = CursorAfter(batch)
             /\ sent' = Sent(batch)
             /\ dropped' = dropped \cup (Fresh \ batch)
  /\ UNCHANGED <<started, visible, triaged, client, behind>>

StreamNext ==
  \/ InsertBegins \/ Connect \/ FirstSent \/ Poll
  \/ \E a \in Feed : InsertCommits(a) \/ Triaged(a)

-----------------------------------------------------------------------------
StreamTypeOK ==
  /\ started \in 0..MaxFeed
  /\ visible \subseteq Feed /\ triaged \subseteq visible
  /\ client \in {"away", "connecting", "connected"} /\ cursor \in Feed \cup {0}
  /\ sent \in [Feed -> Nat] /\ polls \in Nat
  /\ behind \subseteq Feed /\ dropped \subseteq Feed

(* "envia novos alertas OPEN em tempo real": an open alert that the client *)
(* was not sent will be found by a later poll, unless more than a batch    *)
(* were new at once, it was committed behind the cursor, or its insert had *)
(* begun when the client connected.                                        *)
NothingSkipped ==
  client = "connected" =>
    \A a \in Open : sent[a] = 0 => a > cursor \/ a \in behind \cup dropped

(* The cursor moves to the oldest of a batch, so that the next poll sends  *)
(* the others again; an alert is repeated once per older one at most.      *)
RepeatsEnd ==
  \A a \in Feed : sent[a] <= 1 + a

(* A connected client is sent what opens after it connected, and not again *)
(* for ever.                                                               *)
FeedSound == StreamTypeOK /\ NothingSkipped /\ RepeatsEnd
=============================================================================
