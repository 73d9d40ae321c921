---------------------------- MODULE IngestChannels -----------------------------
(***************************************************************************)
(* The event channels of services/api/routers/ingest.py (POST              *)
(* /ingest/event, POST /ingest/batch and the websocket /ingest/ws) and the *)
(* quarantine: rows of ingest_errors are resolved by hand or replayed,     *)
(* with a Redis key against replaying an event twice.                      *)
(*                                                                         *)
(* An action ends where the handler awaits Redis, Kafka or the database    *)
(* with something at stake; a request that is refused changes nothing and  *)
(* is no action.                                                           *)
(***************************************************************************)
EXTENDS IngestStore

CONSTANTS
  QueueSize,  \* capacity of the websocket's queue (500 in the code)
  Fresh       \* the id of a replayed event that came without event_id

(* The requests of this module while they are in flight.                   *)
EventRequest   == [op : {"event", "batch"}, left : Seq(Records), sent : SUBSET Records]
ResolveRequest == [op : {"resolve"}, row : Nat, detail : Detail]
ReplayRequest  == [op : {"replay"}, row : Nat, detail : Detail, record : Records,
                   resolve : BOOLEAN, step : {"claim", "send", "commit"}]

ASSUME ChannelAssumption ==
  /\ QueueSize \in Nat \ {0} /\ Fresh \in Records
  /\ None \notin EventRequest \cup ResolveRequest \cup ReplayRequest

VARIABLES
  keys,      \* SUBSET Records: betaml:replay:dedupe keys in Redis
  replayed,  \* history, [Records -> Nat]: replays whose event was published
  socket     \* the websocket: open, its queue and what its worker sends

channelVars == <<keys, replayed, socket>>

Closed == [open |-> FALSE, queue |-> <<>>, sending |-> None]

ChannelInit ==
  /\ keys = {}
  /\ replayed = [r \in Records |-> 0]
  /\ socket = Closed

(* What a message may hold; no channel checks it against the canonical     *)
(* schema, so that one event stands for all that are not forbidden.        *)
Events == {r \in Records : Kind[r] \in {"good", "card"} /\ r # Fresh}

-----------------------------------------------------------------------------
(* POST /ingest/event and /ingest/batch.                                   *)

(* A forbidden payment method: the row is committed and the answer is      *)
(* "quarantined".                                                          *)
EventQuarantined(c, r) ==
  /\ Kind[r] = "card"
  /\ request[c] = None
  /\ accepted < MaxRequests
  /\ accepted' = accepted + 1
  /\ errors' = Append(errors, NewRow(r, None))
  /\ UNCHANGED <<topic, producer, request, acked, faults, channelVars>>

(* ingest_event up to the send.  Without a producer nothing is sent and    *)
(* the answer is "queued" all the same.                                    *)
EventBegin(c, r, got) ==
  /\ Kind[r] # "card"
  /\ Accept(c, IF got THEN [op |-> "event", left |-> <<r>>, sent |-> {}] ELSE None)
  /\ GetProducer(got)
  /\ UNCHANGED <<topic, errors, acked, channelVars>>

(* ingest_batch up to its loop.  An event with a forbidden payment method  *)
(* is answered "quarantined", but its row is never committed.              *)
BatchBegin(c, batch, got) ==
  /\ Accept(c, IF got THEN [op |-> "batch", sent |-> {},
                            left |-> Selected(batch, Kinds \ {"card"})]
                      ELSE None)
  /\ GetProducer(got)
  /\ UNCHANGED <<topic, errors, acked, channelVars>>

(* One send of either loop: "queued", or 503 (a batch goes on, with        *)
(* "failed_dlq" for this event).                                           *)
EventSend(c, sent) ==
  /\ request[c] # None
  /\ request[c].op \in {"event", "batch"}
  /\ request[c].left # <<>>
  /\ LET r == Head(request[c].left)
     IN  /\ Publish(r, sent)
         /\ Update(c, [request[c] EXCEPT !.left = Tail(@),
                                         !.sent = IF sent THEN @ \cup {r} ELSE @])
  /\ UNCHANGED <<errors, producer, acked, channelVars>>

(* The answer vouches for the events that were sent.                       *)
EventAnswer(c) ==
  /\ request[c] # None
  /\ request[c].op \in {"event", "batch"}
  /\ request[c].left = <<>>
  /\ acked' = [r \in Records |-> IF r \in request[c].sent THEN acked[r] + 1 ELSE acked[r]]
  /\ Answer(c)
  /\ UNCHANGED <<topic, errors, producer, faults, channelVars>>

-----------------------------------------------------------------------------
(* The websocket: a reader that fills a bounded queue and a worker that    *)
(* publishes from it and answers.                                          *)

(* Without a producer the socket is closed again.                          *)
SocketOpens ==
  /\ ~socket.open
  /\ accepted < MaxRequests
  /\ accepted' = accepted + 1
  /\ socket' = [Closed EXCEPT !.open = TRUE]
  /\ GetProducer(TRUE)
  /\ UNCHANGED <<topic, errors, request, acked, keys, replayed>>

(* Mutant of SocketReceives: the reader answers "queued".                  *)
SocketReceivesAcking(r) ==
  /\ socket.open
  /\ Len(socket.queue) < QueueSize
  /\ accepted < MaxRequests
  /\ accepted' = accepted + 1
  /\ socket' = [socket EXCEPT !.queue = Append(@, r)]
  /\ Ack(r)
  /\ UNCHANGED <<topic, errors, producer, request, faults, keys, replayed>>

(* put_nowait; a full queue answers "backpressure" and drops the message.  *)
SocketReceives(r) ==
  /\ socket.open
  /\ Len(socket.queue) < QueueSize
  /\ accepted < MaxRequests
  /\ accepted' = accepted + 1
  /\ socket' = [socket EXCEPT !.queue = Append(@, r)]
  /\ UNCHANGED <<topic, errors, producer, request, acked, faults, keys, replayed>>

SocketTakes ==
  /\ socket.queue # <<>>
  /\ socket.sending = None
  /\ socket' = [socket EXCEPT !.queue = Tail(@), !.sending = Head(socket.queue)]
  /\ UNCHANGED <<storeVars, keys, replayed>>

(* The worker publishes and answers "queued" or "failed_dlq".              *)
SocketSends(sent) ==
  /\ socket.sending # None
  /\ Publish(socket.sending, sent)
  /\ IF sent THEN Ack(socket.sending) ELSE UNCHANGED acked
  /\ socket' = [socket EXCEPT !.sending = None]
  /\ UNCHANGED <<errors, producer, request, accepted, keys, replayed>>

(* The client leaves: the worker is cancelled with what is in the queue; a *)
(* send in flight may have reached the broker.                             *)
SocketCloses ==
  /\ socket.open
  /\ IF socket.sending = None THEN UNCHANGED topic
     ELSE topic' \in {topic, [topic EXCEPT ![socket.sending] = @ + 1]}
  /\ socket' = Closed
  /\ UNCHANGED <<errors, producer, request, accepted, acked, faults, keys, replayed>>

-----------------------------------------------------------------------------
(* The quarantine.                                                         *)

(* resolve_ingest_error reads the row.                                     *)
ResolveBegin(c, i) ==
  /\ Accept(c, [op |-> "resolve", row |-> i, detail |-> errors[i].detail])
  /\ UNCHANGED <<topic, errors, producer, acked, faults, channelVars>>

(* error_detail is written whole, from what was read.                      *)
ResolveCommit(c) ==
  /\ request[c] # None
  /\ request[c].op = "resolve"
  /\ LET q == request[c]
     IN  errors' = [errors EXCEPT ![q.row].resolved = TRUE,
                                  ![q.row].detail = q.detail \cup {"note"}]
  /\ Answer(c)
  /\ UNCHANGED <<topic, producer, acked, faults, channelVars>>

(* replay_ingest_error reads the row; the corrected payload keeps the      *)
(* event's id or has none.                                                 *)
ReplayBegin(c, i, r, resolve) ==
  /\ r \in {errors[i].record, Fresh}
  /\ Accept(c, [op |-> "replay", row |-> i, detail |-> errors[i].detail,
                record |-> r, resolve |-> resolve, step |-> "claim"])
  /\ UNCHANGED <<topic, errors, producer, acked, faults, channelVars>>

Replaying(c, step) ==
  /\ request[c] # None
  /\ request[c].op = "replay"
  /\ request[c].step = step

(* Mutant of ReplayClaim: the key is looked up and not set.                *)
ReplayLookup(c, known) ==
  /\ Replaying(c, "claim")
  /\ known
  /\ request[c].record \notin keys
  /\ Update(c, [request[c] EXCEPT !.step = "send"])
  /\ UNCHANGED <<topic, errors, producer, acked, faults, channelVars>>

(* SET NX of the replay key, skipped while Redis is away.  The key stays   *)
(* whatever happens next; one that is there already ends the replay with   *)
(* "already_processed".                                                    *)
ReplayClaim(c, known) ==
  /\ Replaying(c, "claim")
  /\ LET r == request[c].record
         go == Update(c, [request[c] EXCEPT !.step = "send"])
     IN  IF ~known THEN Fault("redis") /\ go /\ UNCHANGED keys
         ELSE /\ UNCHANGED faults
              /\ IF r \in keys THEN Answer(c) /\ UNCHANGED keys
                 ELSE /\ keys' = IF r = Fresh THEN keys ELSE keys \cup {r}
                      /\ go
  /\ UNCHANGED <<topic, errors, producer, acked, replayed, socket>>

(* 503 without a producer.                                                 *)
ReplayWithoutKafka(c) ==
  /\ Replaying(c, "send")
  /\ GetProducer(FALSE)
  /\ Answer(c)
  /\ UNCHANGED <<topic, errors, acked, channelVars>>

(* The send; 503 when it fails.                                            *)
ReplaySend(c, sent) ==
  /\ Replaying(c, "send")
  /\ LET r == request[c].record
     IN  /\ Publish(r, sent)
         /\ replayed' = IF sent THEN [replayed EXCEPT ![r] = @ + 1] ELSE replayed
  /\ producer' = TRUE
  /\ IF sent THEN Update(c, [request[c] EXCEPT !.step = "commit"]) ELSE Answer(c)
  /\ UNCHANGED <<errors, acked, keys, socket>>

(* The row is marked, resolved if asked, and the answer is "queued".       *)
ReplayCommit(c) ==
  /\ Replaying(c, "commit")
  /\ LET q == request[c]
     IN  /\ errors' = [errors EXCEPT ![q.row].resolved = @ \/ q.resolve,
                                     ![q.row].detail = q.detail \cup {"replay"}]
         /\ Ack(q.record)
  /\ Answer(c)
  /\ UNCHANGED <<topic, producer, faults, channelVars>>

(* A key expires after seven days, or is evicted.                          *)
ExpireKey(r) ==
  /\ r \in keys
  /\ Fault("expiry")
  /\ keys' = keys \ {r}
  /\ UNCHANGED <<topic, errors, producer, request, accepted, acked, replayed, socket>>

ChannelNext ==
  \/ \E c \in Clients, r \in Events, ok \in BOOLEAN :
       EventQuarantined(c, r) \/ EventBegin(c, r, ok)
  \/ \E c \in Clients, r \in Events, ok \in BOOLEAN : \E s \in Events \ {r} : BatchBegin(c, <<r, s>>, ok)
  \/ \E c \in Clients, ok \in BOOLEAN : EventSend(c, ok) \/ ReplayClaim(c, ok) \/ ReplaySend(c, ok)
  \/ \E c \in Clients : \/ EventAnswer(c) \/ ResolveCommit(c)
                        \/ ReplayWithoutKafka(c) \/ ReplayCommit(c)
  \/ SocketOpens \/ SocketTakes \/ SocketCloses
  \/ \E r \in Events : SocketReceives(r)
  \/ \E ok \in BOOLEAN : SocketSends(ok)
  \/ \E c \in Clients, i \in DOMAIN errors :
       \/ ResolveBegin(c, i)
       \/ \E r \in Records, resolve \in BOOLEAN : ReplayBegin(c, i, r, resolve)
  \/ \E r \in Records : ExpireKey(r)
=============================================================================
