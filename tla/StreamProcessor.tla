--------------------------- MODULE StreamProcessor ---------------------------
(***************************************************************************)
(* The consumer loop of services/stream_processor/main.py: a Kafka         *)
(* consumer group with manual commits, a Redis SETNX claim taken before    *)
(* the handler runs, handlers whose effects go to Redis, Kafka, ClickHouse *)
(* and Postgres one after the other, and a dead letter queue.              *)
(*                                                                         *)
(* One tenant; one partition per topic (producers key by source_event_id,  *)
(* so everything said of one event identity happens in one partition of a  *)
(* topic).  Payloads are abstracted to what the handlers branch on.        *)
(***************************************************************************)
EXTENDS Naturals, Sequences, FiniteSets

CONSTANTS
  Workers,      \* replicas of the stream processor (one consumer group)
  Systems,      \* source_system values
  Ids,          \* source_event_id values
  Topics,       \* the topics of TOPICS that are in use
  Inputs,       \* the <<topic, message>> pairs that the outside publishes
  MaxInputs,    \* bound: the outside publishes while the logs hold fewer messages
  Budget,       \* bound: how many faults of each kind a behaviour has
  None          \* no worker / no message

Raw       == {"raw.transactions", "raw.bets", "raw.device_events"}
Canonical == {"canonical.transactions", "canonical.bets", "canonical.device_events"}
Lifecycle == {"canonical.kyc_events", "canonical.responsible_gambling_events",
              "canonical.account_status_changes"}

(* process_raw_* publishes on the canonical topic of the same entity.      *)
CanonicalTopic(t) ==
  CASE t = "raw.transactions" -> "canonical.transactions"
    [] t = "raw.bets"         -> "canonical.bets"
    [] OTHER                  -> "canonical.device_events"

(* The identity that _claim_event_for_processing dedupes on. The topic is  *)
(* the stored value of the claim, not part of its key.                     *)
Keys == Systems \X Ids

(* "ok": passes _validate_event_envelope; "invalid": decodes to a dict     *)
(* that it rejects; "garbage": the deserializer of the consumer raises.    *)
Message == [key : Keys, form : {"ok", "invalid", "garbage"},
            player : BOOLEAN, backfill : BOOLEAN, status : BOOLEAN]

(* A message in the hand of a worker.                                      *)
InHand == [topic : Topics, offset : Nat \ {0}, msg : Message]

FaultKinds == {"crash", "step", "dlq", "commit", "rebalance", "expiry"}

Effects == {"canonical", "window", "links", "features", "publish",
            "ch", "status", "lookup", "oltp"}

(* The order in which every handler performs the effects that it has.      *)
Rank == [e \in Effects |->
          CASE e = "canonical" -> 0
            [] e = "window"    -> 1
            [] e = "links"     -> 2
            [] e = "features"  -> 3
            [] e = "publish"   -> 4
            [] e = "ch"        -> 5
            [] e = "status"    -> 6
            [] e = "lookup"    -> 7
            [] e = "oltp"      -> 8]

(* Effects whose failure the handler catches and logs.                     *)
BestEffort == {"ch", "status", "lookup", "oltp"}

ASSUME ConstantsAssumption ==
  /\ Topics \subseteq Raw \cup Canonical \cup Lifecycle
  /\ \A t \in Topics \cap Raw : CanonicalTopic(t) \in Topics
  /\ Inputs \subseteq Topics \X Message
  /\ MaxInputs \in Nat
  /\ Budget \in [FaultKinds -> Nat]
  /\ None \notin Workers \cup InHand

VARIABLES
  log,        \* [Topics -> Seq(Message)]: the topic partitions
  committed,  \* [Topics -> Nat]: offset committed by the group
  owner,      \* [Topics -> Workers \cup {None}]: partition assignment
  position,   \* [Workers -> [Topics -> Nat]]: messages already returned
  pc,         \* [Workers -> ...]: where in the loop body a worker is
  cur,        \* [Workers -> message in hand or None]
  todo,       \* [Workers -> SUBSET Effects]: effects the handler still has
  claims,     \* SUBSET Keys: dedupe keys present in Redis
  done,       \* [Topics -> [Keys -> [Effects -> Nat]]]: effects performed
  settled,    \* history: [Topics -> [how a message left the loop -> offsets]]
  expired,    \* history: keys whose claim has expired at least once
  faults      \* [FaultKinds -> Nat]: faults so far

vars == <<log, committed, owner, position, pc, cur, todo, claims, done,
          settled, expired, faults>>

-----------------------------------------------------------------------------
(* Handlers: the effects that a handler performs for a message.            *)

OltpEffects == {"lookup", "oltp"}

RawEffects(m) == IF m.player THEN {"canonical"} ELSE {}

TransactionEffects(m) ==
  IF m.player
  THEN {"window", "links", "features", "ch"} \cup OltpEffects
         \cup (IF m.backfill THEN {} ELSE {"publish"})
  ELSE {}

BetEffects(m) ==
  IF m.player
  THEN {"window", "ch"} \cup OltpEffects
         \cup (IF m.backfill THEN {} ELSE {"features"})
  ELSE {}

DeviceEffects(m) ==
  OltpEffects \cup (IF m.player THEN {"links", "features"} ELSE {})

KycEffects(m) == IF m.player THEN {"ch", "oltp"} ELSE {}

StatusEffects(m) ==
  KycEffects(m) \cup (IF m.player /\ m.status THEN {"status"} ELSE {})

HandlerEffects(t, m) ==
  CASE t \in Raw                          -> RawEffects(m)
    [] t = "canonical.transactions"       -> TransactionEffects(m)
    [] t = "canonical.bets"               -> BetEffects(m)
    [] t = "canonical.device_events"      -> DeviceEffects(m)
    [] t = "canonical.kyc_events"         -> KycEffects(m)
    [] OTHER                              -> StatusEffects(m)

(* What the raw handlers publish: same source_system and source_event_id,  *)
(* same ingest_metadata, always a complete envelope.                       *)
CanonicalEnvelope(m) ==
  [m EXCEPT !.form = "ok", !.player = TRUE, !.status = FALSE]

(* The SELECT of the three _persist_*_oltp helpers: it ignores the source  *)
(* system.                                                                 *)
RowExists(t, k) == \E s \in Systems : done[t][<<s, k[2]>>]["oltp"] > 0

-----------------------------------------------------------------------------
Ways == {"handled", "skipped", "dlq", "dropped"}

Holding(w) == pc[w] = "handle"

Init ==
  /\ log = [t \in Topics |-> <<>>]
  /\ committed = [t \in Topics |-> 0]
  /\ owner \in [Topics -> Workers]
  /\ position = [w \in Workers |-> [t \in Topics |-> 0]]
  /\ pc = [w \in Workers |-> "idle"]
  /\ cur = [w \in Workers |-> None]
  /\ todo = [w \in Workers |-> {}]
  /\ claims = {}
  /\ done = [t \in Topics |-> [k \in Keys |-> [e \in Effects |-> 0]]]
  /\ settled = [t \in Topics |-> [y \in Ways |-> {}]]
  /\ expired = {}
  /\ faults = [f \in FaultKinds |-> 0]

Fault(f) ==
  /\ faults[f] < Budget[f]
  /\ faults' = [faults EXCEPT ![f] = @ + 1]

Settle(w, y) ==
  settled' = [settled EXCEPT ![cur[w].topic][y] = @ \cup {cur[w].offset}]

Goto(w, l) == pc' = [pc EXCEPT ![w] = l]

(* The API, a connector or a replay publishes a message.                   *)
Produce(t, m) ==
  /\ Cardinality({p \in Topics \X (1..MaxInputs) : p[2] <= Len(log[p[1]])}) < MaxInputs
  /\ log' = [log EXCEPT ![t] = Append(@, m)]
  /\ UNCHANGED <<committed, owner, position, pc, cur, todo, claims, done,
                 settled, expired, faults>>

(* The iterator returns the next message of an owned partition.            *)
Fetch(w, t) ==
  /\ pc[w] = "idle"
  /\ owner[t] = w
  /\ position[w][t] < Len(log[t])
  /\ LET i == position[w][t] + 1
         m == log[t][i]
     IN  IF m.form = "garbage"
         THEN \* the deserializer raises outside the try: main() ends
              /\ Goto(w, "down")
              /\ owner' = [u \in Topics |-> IF owner[u] = w THEN None ELSE owner[u]]
              /\ UNCHANGED <<position, cur>>
         ELSE /\ position' = [position EXCEPT ![w][t] = i]
              /\ cur' = [cur EXCEPT ![w] = [topic |-> t, offset |-> i, msg |-> m]]
              /\ Goto(w, "claim")
              /\ UNCHANGED owner
  /\ UNCHANGED <<log, committed, todo, claims, done, settled, expired, faults>>

(* Mutant of Reject: an invalid envelope is ignored instead of raised.     *)
RejectSilently(w) ==
  /\ pc[w] = "claim"
  /\ cur[w].msg.form = "invalid"
  /\ Goto(w, "commit")
  /\ UNCHANGED <<log, committed, owner, position, cur, todo, claims, done,
                 settled, expired, faults>>

(* _validate_event_envelope raises before anything is claimed.             *)
Reject(w) ==
  /\ pc[w] = "claim"
  /\ cur[w].msg.form = "invalid"
  /\ Goto(w, "failed")
  /\ UNCHANGED <<log, committed, owner, position, cur, todo, claims, done,
                 settled, expired, faults>>

(* Mutant of Claim: SET without NX, every delivery wins.                   *)
ClaimAlways(w) ==
  /\ pc[w] = "claim"
  /\ cur[w].msg.form = "ok"
  /\ claims' = claims \cup {cur[w].msg.key}
  /\ todo' = [todo EXCEPT ![w] = HandlerEffects(cur[w].topic, cur[w].msg)]
  /\ Goto(w, "handle")
  /\ UNCHANGED <<log, committed, owner, position, cur, done, settled, expired, faults>>

(* _claim_event_for_processing: SETNX, then the handler or the early exit. *)
Claim(w) ==
  /\ pc[w] = "claim"
  /\ cur[w].msg.form = "ok"
  /\ cur[w].msg.key \notin claims
  /\ claims' = claims \cup {cur[w].msg.key}
  /\ todo' = [todo EXCEPT ![w] = HandlerEffects(cur[w].topic, cur[w].msg)]
  /\ Goto(w, "handle")
  /\ UNCHANGED <<log, committed, owner, position, cur, done, settled, expired, faults>>

Skip(w) ==
  /\ pc[w] = "claim"
  /\ cur[w].msg.form = "ok"
  /\ cur[w].msg.key \in claims
  /\ Settle(w, "skipped")
  /\ Goto(w, "commit")
  /\ UNCHANGED <<log, committed, owner, position, cur, todo, claims, done,
                 expired, faults>>

(* Mutant of ClaimFails: no answer from Redis is taken for a duplicate.    *)
ClaimFailsSkipping(w) ==
  /\ pc[w] = "claim"
  /\ cur[w].msg.form = "ok"
  /\ Fault("step")
  /\ claims' \in {claims, claims \cup {cur[w].msg.key}}
  /\ Settle(w, "skipped")
  /\ Goto(w, "commit")
  /\ UNCHANGED <<log, committed, owner, position, cur, todo, done, expired>>

(* Redis fails during the claim: the key may have been set all the same.   *)
ClaimFails(w) ==
  /\ pc[w] = "claim"
  /\ cur[w].msg.form = "ok"
  /\ Fault("step")
  /\ claims' \in {claims, claims \cup {cur[w].msg.key}}
  /\ Goto(w, "failed")
  /\ UNCHANGED <<log, committed, owner, position, cur, todo, done, settled, expired>>

(* The effect a handler performs next.                                     *)
NextEffect(w, e) ==
  /\ pc[w] = "handle"
  /\ e \in todo[w]
  /\ \A f \in todo[w] : Rank[e] <= Rank[f]

(* The effect e reaches its store.  The SELECT for an existing row changes *)
(* nothing; publishing the canonical event also appends to its topic.      *)
Perform(w, e) ==
  /\ done' = IF e = "lookup" THEN done
             ELSE [done EXCEPT ![cur[w].topic][cur[w].msg.key][e] = @ + 1]
  /\ IF e = "canonical"
     THEN log' = [log EXCEPT ![CanonicalTopic(cur[w].topic)] =
                               Append(@, CanonicalEnvelope(cur[w].msg))]
     ELSE UNCHANGED log

(* Finding the row ends _persist_*_oltp before the INSERT.                 *)
HandleStep(w) ==
  \E e \in Effects :
    /\ NextEffect(w, e)
    /\ Perform(w, e)
    /\ todo' = [todo EXCEPT ![w] =
                  IF e = "lookup" /\ RowExists(cur[w].topic, cur[w].msg.key)
                  THEN @ \ OltpEffects ELSE @ \ {e}]
    /\ UNCHANGED <<committed, owner, position, pc, cur, claims, settled,
                   expired, faults>>

(* Mutants of StepFails: a failed effect is retried; a failed row lookup   *)
(* is followed by the INSERT.                                              *)
StepFailsRetrying(w) ==
  \E e \in Effects :
    /\ NextEffect(w, e)
    /\ Fault("step")
    /\ Perform(w, e) \/ UNCHANGED <<done, log>>
    /\ UNCHANGED <<committed, owner, position, pc, cur, todo, claims, settled, expired>>

StepFailsInserting(w) ==
  /\ NextEffect(w, "lookup")
  /\ Fault("step")
  /\ todo' = [todo EXCEPT ![w] = @ \ {"lookup"}]
  /\ UNCHANGED <<log, done, committed, owner, position, pc, cur, claims, settled, expired>>

(* An effect raises, before or after it reached its store.  Best-effort    *)
(* effects are caught where they happen; the others end the handler.       *)
StepFails(w) ==
  \E e \in Effects :
    /\ NextEffect(w, e)
    /\ Fault("step")
    /\ \/ Perform(w, e)
       \/ UNCHANGED <<done, log>>
    /\ IF e \in BestEffort
       THEN /\ todo' = [todo EXCEPT ![w] =
                          IF e \in OltpEffects THEN @ \ OltpEffects ELSE @ \ {e}]
            /\ UNCHANGED pc
       ELSE /\ todo' = [todo EXCEPT ![w] = {}]
            /\ Goto(w, "failed")
    /\ UNCHANGED <<committed, owner, position, cur, claims, settled, expired>>

HandlerReturns(w) ==
  /\ pc[w] = "handle"
  /\ todo[w] = {}
  /\ Settle(w, "handled")
  /\ Goto(w, "commit")
  /\ UNCHANGED <<log, committed, owner, position, cur, todo, claims, done,
                 expired, faults>>

(* consumer.commit() without arguments commits the position of every       *)
(* partition that the worker still owns.                                   *)
Commit(w) ==
  /\ pc[w] \in {"commit", "commitDlq"}
  /\ committed' = [t \in Topics |->
                     IF owner[t] = w THEN position[w][t] ELSE committed[t]]
  /\ Goto(w, "idle")
  /\ cur' = [cur EXCEPT ![w] = None]
  /\ UNCHANGED <<log, owner, position, todo, claims, done, settled, expired, faults>>

(* The commit raises: on the main path that is a failure of the message,   *)
(* after a publication to the DLQ it is logged.                            *)
CommitFails(w) ==
  /\ pc[w] \in {"commit", "commitDlq"}
  /\ Fault("commit")
  /\ IF pc[w] = "commit"
     THEN Goto(w, "failed") /\ UNCHANGED cur
     ELSE Goto(w, "idle") /\ cur' = [cur EXCEPT ![w] = None]
  /\ UNCHANGED <<log, committed, owner, position, todo, claims, done, settled, expired>>

(* Mutant of PublishToDlq: the offset is not committed afterwards.         *)
PublishToDlqOnly(w) ==
  /\ pc[w] = "failed"
  /\ Settle(w, "dlq")
  /\ Goto(w, "idle")
  /\ cur' = [cur EXCEPT ![w] = None]
  /\ UNCHANGED <<log, committed, owner, position, todo, claims, done, expired, faults>>

PublishToDlq(w) ==
  /\ pc[w] = "failed"
  /\ Settle(w, "dlq")
  /\ Goto(w, "commitDlq")
  /\ UNCHANGED <<log, committed, owner, position, cur, todo, claims, done,
                 expired, faults>>

(* The DLQ cannot be written: no commit, and the loop goes on.             *)
DlqFails(w) ==
  /\ pc[w] = "failed"
  /\ Fault("dlq")
  /\ Settle(w, "dropped")
  /\ Goto(w, "idle")
  /\ cur' = [cur EXCEPT ![w] = None]
  /\ UNCHANGED <<log, committed, owner, position, todo, claims, done, expired>>

(* The process dies; everything it holds in memory is lost.                *)
Crash(w) ==
  /\ pc[w] # "down"
  /\ Fault("crash")
  /\ Goto(w, "down")
  /\ cur' = [cur EXCEPT ![w] = None]
  /\ todo' = [todo EXCEPT ![w] = {}]
  /\ owner' = [t \in Topics |-> IF owner[t] = w THEN None ELSE owner[t]]
  /\ UNCHANGED <<log, committed, position, claims, done, settled, expired>>

Restart(w) ==
  /\ pc[w] = "down"
  /\ Goto(w, "idle")
  /\ UNCHANGED <<log, committed, owner, position, cur, todo, claims, done,
                 settled, expired, faults>>

(* Partition t is assigned to a live worker, which starts at the committed *)
(* offset.  A partition that a live worker loses does not stop the handler *)
(* that is running there.                                                  *)
Assign(w, t) ==
  /\ pc[w] # "down"
  /\ IF owner[t] = None THEN UNCHANGED faults ELSE Fault("rebalance")
  /\ owner' = [owner EXCEPT ![t] = w]
  /\ position' = [position EXCEPT ![w][t] = committed[t]]
  /\ UNCHANGED <<log, committed, pc, cur, todo, claims, done, settled, expired>>

(* The claim reaches its TTL (DEDUPE_TTL_SECONDS), or Redis evicts it.     *)
ExpireClaim(k) ==
  /\ k \in claims
  /\ Fault("expiry")
  /\ claims' = claims \ {k}
  /\ expired' = expired \cup {k}
  /\ UNCHANGED <<log, committed, owner, position, pc, cur, todo, done, settled>>

(* The bounded inputs have all been consumed: the loop waits for more.     *)
Drained ==
  /\ \A w \in Workers : pc[w] = "idle"
  /\ \A t \in Topics : owner[t] # None /\ position[owner[t]][t] = Len(log[t])
  /\ UNCHANGED vars

Loop(w) ==
  \/ \E t \in Topics : Fetch(w, t)
  \/ Reject(w) \/ Claim(w) \/ Skip(w) \/ ClaimFails(w)
  \/ HandleStep(w) \/ StepFails(w) \/ HandlerReturns(w)
  \/ Commit(w) \/ CommitFails(w)
  \/ PublishToDlq(w) \/ DlqFails(w)

Next ==
  \/ \E p \in Inputs : Produce(p[1], p[2])
  \/ \E w \in Workers :
       \/ Loop(w)
       \/ Crash(w) \/ Restart(w)
       \/ \E t \in Topics : Assign(w, t)
  \/ \E k \in Keys : ExpireClaim(k)
  \/ Drained

Spec == Init /\ [][Next]_vars

(* The event loop keeps running, the orchestrator restarts a dead replica  *)
(* and the group coordinator gives an orphan partition to a live member.   *)
Fairness ==
  /\ \A w \in Workers : WF_vars(Loop(w)) /\ WF_vars(Restart(w))
  /\ \A t \in Topics :
       WF_vars(owner[t] = None /\ \E w \in Workers : Assign(w, t))

FairSpec == Spec /\ Fairness

-----------------------------------------------------------------------------
PcValues == {"down", "idle", "claim", "handle", "commit", "failed", "commitDlq"}

(* Type invariant of the consumer loop's state.                            *)
TypeOK ==
  /\ log \in [Topics -> Seq(Message)]
  /\ committed \in [Topics -> Nat]
  /\ owner \in [Topics -> Workers \cup {None}]
  /\ position \in [Workers -> [Topics -> Nat]]
  /\ pc \in [Workers -> PcValues]
  /\ cur \in [Workers -> InHand \cup {None}]
  /\ \A w \in Workers : pc[w] \in {"claim", "handle", "commit", "failed", "commitDlq"}
                          => cur[w] \in InHand
  /\ todo \in [Workers -> SUBSET Effects]
  /\ claims \in SUBSET Keys
  /\ done \in [Topics -> [Keys -> [Effects -> Nat]]]
  /\ settled \in [Topics -> [Ways -> SUBSET Nat]]
  /\ expired \in SUBSET Keys
  /\ faults \in [FaultKinds -> Nat]

(* No event has an effect twice while its claim lives, whatever crashes,   *)
(* rebalances, redeliveries and failed commits happen: no second           *)
(* features.player_daily message, ClickHouse row or Postgres row.          *)
AtMostOnce ==
  \A t \in Topics, k \in Keys, e \in Effects :
    k \notin expired => done[t][k][e] <= 1

(* Two replicas never run a handler for the same event identity.           *)
SingleHandler ==
  \A v, w \in Workers :
    (/\ Holding(v) /\ Holding(w)
     /\ cur[v].msg.key = cur[w].msg.key
     /\ cur[v].msg.key \notin expired) => v = w

(* What makes the claim protect an event: whoever handles an event whose   *)
(* claim never expired holds that claim, an event without claim has had no *)
(* effect, and what the handler still has to do was not done before.       *)
ClaimProtects ==
  /\ \A w \in Workers :
       (Holding(w) /\ cur[w].msg.key \notin expired) =>
         /\ cur[w].msg.key \in claims
         /\ \A t \in Topics, e \in Effects :
              done[t][cur[w].msg.key][e] > 0 => (t = cur[w].topic /\ e \notin todo[w])
  /\ \A k \in Keys \ (claims \cup expired) :
       \A t \in Topics, e \in Effects : done[t][k][e] = 0

(* The effects of the loop, seen without its workers, offsets and faults,  *)
(* are those of the ledger: claim first, each effect once, on one topic.   *)
Ledger ==
  INSTANCE DedupeLedger
    WITH Topics <- Topics, Keys <- Keys, Effects <- Effects,
         claims <- claims, expired <- expired, done <- done
ImplementsLedger == Ledger!Spec

(* Events by what became of them: sent at all; handled on some topic or    *)
(* written to the DLQ; in the hand of a worker that is doing either; and   *)
(* given up, because their next delivery meets a claim that nobody works   *)
(* for, or was skipped or dropped already.                                 *)
Sent == {k \in Keys : \E t \in Topics : \E i \in 1..Len(log[t]) : log[t][i].key = k}
Left(k, ways) == \E t \in Topics, y \in ways : \E i \in settled[t][y] : log[t][i].key = k
Processed == {k \in Keys : Left(k, {"handled", "dlq"})}
Treated == {k \in Keys : \E w \in Workers : pc[w] \in {"handle", "failed"} /\ cur[w].msg.key = k}
GivenUp == {k \in Keys \ (Processed \cup Treated) : k \in claims \/ Left(k, {"skipped", "dropped"})}

(* An event is given up by the crash of the worker that has it, one at     *)
(* most, or when the DLQ refuses it, and by nothing else; the claim's      *)
(* expiry or another failure of the same delivery may bring it back.       *)
Delivery ==
  INSTANCE Handover
    WITH given <- Sent, kept <- Processed, lost <- GivenUp,
         crashes <- faults["crash"], drops <- faults["dlq"], Room <- 1
ImplementsDelivery == Delivery!Spec

(* The group commits past no event that is not processed, in hand or given *)
(* up, and no more are given up than workers crashed and writes to the DLQ *)
(* failed, whatever else goes wrong and on however many topics an event    *)
(* identity is sent.                                                       *)
FewLost ==
  /\ Delivery!LossBounded
  /\ \A t \in Topics : \A i \in 1..committed[t] :
       log[t][i].key \in Processed \cup Treated \cup GivenUp

(* The event of message i of topic t is dealt with: some delivery of it on *)
(* that topic was handled or is in the DLQ, or a live worker has it.       *)
DealtWith(t, i) ==
  \E j \in 1..Len(log[t]) :
    /\ log[t][j].key = log[t][i].key
    /\ \/ j \in settled[t]["handled"] \cup settled[t]["dlq"]
       \/ \E w \in Workers : cur[w] # None /\ cur[w].topic = t /\ cur[w].offset = j

(* The offset commit is safe: the group never commits past a message whose *)
(* event was neither processed nor written to the DLQ                      *)
(* (docs/engineering/pipeline-dlq-replay.md, "Commit/offset safety").      *)
CommitSafe ==
  \A t \in Topics : \A i \in 1..committed[t] : DealtWith(t, i)

(* No event identity was published on two topics.  A raw.* handler does    *)
(* just that, and the claim does not know the topic.                       *)
OneTopicEach ==
  \A t, u \in Topics : \A i \in 1..Len(log[t]), j \in 1..Len(log[u]) :
    log[t][i].key = log[u][j].key => t = u

(* Without a crash, a DLQ outage or an identity on two topics nothing is   *)
(* lost: offsets are committed past, and deliveries are dropped as         *)
(* duplicates of, events that were processed, are in hand or wait in the   *)
(* DLQ.  Each of the three conditions is needed.                           *)
NothingLost ==
  (faults["crash"] = 0 /\ faults["dlq"] = 0 /\ OneTopicEach) =>
     /\ CommitSafe
     /\ \A t \in Topics : \A i \in settled[t]["skipped"] : DealtWith(t, i)

(* One Postgres row per source_event_id and table, even for an event that  *)
(* is sent by two systems or redelivered after its claim expired.  The     *)
(* table has no unique index; the SELECT before the INSERT is all there    *)
(* is, and a partition that moves during the handler lets another replica  *)
(* in between.                                                             *)
OneRowPerSourceEvent ==
  faults["rebalance"] = 0 =>
  \A t \in Topics \cap Canonical, s1, s2 \in Systems, i \in Ids :
    (done[t][<<s1, i>>]["oltp"] > 0 /\ done[t][<<s2, i>>]["oltp"] > 0) =>
      s1 = s2 /\ done[t][<<s1, i>>]["oltp"] = 1

(* An event identity takes effect on one topic only: the claim does not    *)
(* know the topic, so the canonical event that a raw.* handler publishes   *)
(* under the same identity is never applied while the claim lives.         *)
OneTopicPerKey ==
  \A k \in Keys \ expired, t, u \in Topics, e, f \in Effects :
    (done[t][k][e] > 0 /\ done[u][k][f] > 0) => t = u

(* No message blocks its partition: every published message is eventually  *)
(* behind the committed offset.                                            *)
EveryMessageCommitted ==
  \A t \in Topics : \A i \in 1..MaxInputs : (Len(log[t]) >= i) ~> (committed[t] >= i)

(* Redelivered, rebalanced, retried or sent again on another topic, an     *)
(* event is handled by one replica at a time, has each of its effects once *)
(* and has them on one topic, for as long as its claim lives, which those  *)
(* who handle it hold.                                                     *)
HandledOnce == TypeOK /\ ClaimProtects /\ AtMostOnce /\ SingleHandler /\ OneTopicPerKey
=============================================================================
