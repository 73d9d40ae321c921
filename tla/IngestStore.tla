------------------------------ MODULE IngestStore ------------------------------
(***************************************************************************)
(* What the endpoints of services/api/routers/ingest.py share: the         *)
(* canonical topics, the table ingest_errors, the lazy Kafka producer of   *)
(* the API process and the requests in flight.  An event is its            *)
(* source_event_id; all that ingestion asks of its content is its Kind.    *)
(***************************************************************************)
EXTENDS Naturals, Sequences, FiniteSets

CONSTANTS
  Records,      \* events, by source_event_id
  Kind,         \* [Records -> Kinds]
  Clients,      \* requests that can be in flight at once
  MaxRequests,  \* bound: requests accepted in a behaviour
  MaxFaults,    \* bound: faults in a behaviour, one of a kind at most
  None

(* What becomes of an event on its way in: its payment method is           *)
(* forbidden, the canonical schema rejects it, the mapping raises, the     *)
(* connector cannot parse it, the connector passes over it; or nothing.    *)
Kinds == {"good", "card", "invalid", "unmapped", "broken", "skipped"}

FaultKinds == {"publish", "outage", "crash", "expiry", "redis", "insert", "lake"}

ASSUME StoreAssumption ==
  /\ Kind \in [Records -> Kinds]
  /\ MaxRequests \in Nat /\ MaxFaults \in Nat
  /\ None \notin Records \cup Nat

VARIABLES
  topic,     \* [Records -> Nat]: envelopes on the canonical topics
  errors,    \* Seq(Row): ingest_errors
  producer,  \* BOOLEAN: the API process has a Kafka producer
  request,   \* [Clients -> the request in flight, or None]
  accepted,  \* Nat: requests so far
  acked,     \* history, [Records -> Nat]: answers that vouch for an envelope
  faults     \* SUBSET FaultKinds

(* The records of s that are of these kinds, in their order.               *)
Selected(s, kinds) ==
  LET I == {i \in DOMAIN s : Kind[s[i]] \in kinds}
      Nth(k) == CHOOSE i \in I : Cardinality({j \in I : j <= i}) = k
  IN  [k \in 1..Cardinality(I) |-> s[Nth(k)]]

storeVars == <<topic, errors, producer, request, accepted, acked, faults>>

(* Which handlers have left their note in error_detail.                    *)
Detail == SUBSET {"note", "replay"}

Row == [record : Records, job : Nat \cup {None}, resolved : BOOLEAN, detail : Detail]

NewRow(r, j) == [record |-> r, job |-> j, resolved |-> FALSE, detail |-> {}]

StoreInit ==
  /\ topic = [r \in Records |-> 0]
  /\ errors = <<>>
  /\ producer = FALSE
  /\ request = [c \in Clients |-> None]
  /\ accepted = 0
  /\ acked = [r \in Records |-> 0]
  /\ faults = {}

Fault(f) ==
  /\ f \notin faults
  /\ Cardinality(faults) < MaxFaults
  /\ faults' = faults \cup {f}

(* A request of a client whose last one was answered.                      *)
Accept(c, req) ==
  /\ request[c] = None
  /\ accepted < MaxRequests
  /\ accepted' = accepted + 1
  /\ request' = [request EXCEPT ![c] = req]

Update(c, req) == request' = [request EXCEPT ![c] = req] /\ UNCHANGED accepted
Answer(c) == Update(c, None)

(* utils.get_producer: the first success is kept; while Kafka cannot be    *)
(* reached there is none, and the next call tries again.                   *)
GetProducer(got) ==
  \/ got /\ producer' = TRUE /\ UNCHANGED faults
  \/ ~got /\ ~producer /\ Fault("outage") /\ UNCHANGED producer

(* _publish_with_retries: it answers TRUE, or every attempt raised.  One   *)
(* that raised may have reached the broker before its acknowledgement was  *)
(* lost.  The copy for the DLQ is left out: no code reads it back.         *)
Publish(r, sent) ==
  \/ /\ sent
     /\ topic' = [topic EXCEPT ![r] = @ + 1]
     /\ UNCHANGED faults
  \/ /\ ~sent
     /\ Fault("publish")
     /\ topic' \in {topic, [topic EXCEPT ![r] = @ + 1]}

Ack(r) == acked' = [acked EXCEPT ![r] = @ + 1]

StoreTypeOK ==
  /\ topic \in [Records -> Nat]
  /\ errors \in Seq(Row)
  /\ producer \in BOOLEAN
  /\ DOMAIN request = Clients
  /\ accepted \in 0..MaxRequests
  /\ acked \in [Records -> Nat]
  /\ faults \subseteq FaultKinds
=============================================================================
