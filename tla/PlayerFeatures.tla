----------------------------- MODULE PlayerFeatures -----------------------------
(***************************************************************************)
(* The features of players in the stream processor: what its handlers keep *)
(* in Redis of transactions, bets and devices, what compute_features makes *)
(* of it, and the copy in feature_snapshots that a starting replica warms  *)
(* the online features from.  A worker is a replica with the message it    *)
(* handles; messages of a player come from several topics, so two replicas *)
(* may compute the same player's features.  One instant is longer than a   *)
(* handler and than the four hours that online features last.  Of the      *)
(* features there are the count and the amount of each kind and window,    *)
(* the sharing and the flag of a new device or instrument.                 *)
(***************************************************************************)
EXTENDS ApiRequests, FiniteSetsExt

CONSTANTS
  Holders,      \* players
  Things,       \* devices, and documents of account holders
  Inbox,        \* [messages -> [kind, player, at, amount, thing, backfill]]; a
                \* transaction without a document is of the instrument None
  Spans,        \* lengths of the windows
  WindowTtl,    \* WINDOW_TTL_SECONDS: the longest window
  SetTtl,       \* sadd_member's ttl
  LastInstant   \* bound: of the clock

Messages == DOMAIN Inbox
Movements == {"DEPOSIT", "WITHDRAWAL", "BET"}

FeatureMessage ==
  [kind : Movements \cup {"DEVICE"}, player : Holders, at : Nat, amount : Nat,
   thing : Things \cup {None}, backfill : BOOLEAN]
Features ==
  [tallies : [Movements -> [Spans -> [count : Nat, amount : Nat]]],
   devices : Int, banks : Int, new : BOOLEAN]

(* What the handler of a message goes on with.                             *)
FeatureRequest ==
  [op : {"enter", "share", "look", "read"}, message : Messages, new : BOOLEAN]
  \cup [op : {"write"}, message : Messages, features : Features]
  \cup [op : {"save"}, message : Messages, features : Features, number : Nat]

(* A device event names its device.                                        *)
ASSUME FeatureAssumption ==
  /\ WindowTtl \in Spans /\ Spans \subseteq 0..WindowTtl
  /\ SetTtl \in Nat \ {0} /\ SetTtl < WindowTtl
  /\ \A m \in Messages : /\ Inbox[m] \in FeatureMessage
                         /\ Inbox[m].kind = "DEVICE" => Inbox[m].thing \in Things
  /\ None \notin Things \cup FeatureRequest

VARIABLES
  instant,
  taken,       \* messages that a handler was started for
  entries,     \* [Windows -> set of Entry]: the sorted sets of transactions and of bets
  entriesEnd,  \* [Windows -> when it expires]
  users,       \* [Things -> Holders that used it]: device_members and bank_members
  usersEnd,
  owned,       \* [Belongings -> Things]: player_devices, player_banks, player_instruments
  ownedEnd,
  online,      \* [Holders -> features, or None]
  snapshots,   \* [Holders -> [day, features] of the newest day, or None]
  entered,     \* history: [message, at]: entries added
  uses,        \* history: [thing, holder, at]
  flagged,     \* history: messages whose features had the flag
  writes,      \* history: [Holders -> how often features were written]
  broken,      \* history: messages of which an attempt failed
  unsaved      \* history: Holders whose last features have no snapshot

windowVars == <<entries, entriesEnd, entered>>
sharingVars == <<users, usersEnd, owned, ownedEnd, uses>>
storeVars == <<online, snapshots, writes, flagged, unsaved>>
featureVars == <<instant, taken, windowVars, sharingVars, storeVars, broken>>

Windows == Holders \X {"txn", "bet"}
Belongings == Holders \X {"devices", "banks", "instruments"}
WindowOf(m) == <<Inbox[m].player, IF Inbox[m].kind = "BET" THEN "bet" ELSE "txn">>

FeaturesInit ==
  /\ instant = 0 /\ taken = {}
  /\ entries = [k \in Windows |-> {}] /\ entriesEnd = [k \in Windows |-> 0]
  /\ users = [t \in Things |-> {}] /\ usersEnd = [t \in Things |-> 0]
  /\ owned = [k \in Belongings |-> {}] /\ ownedEnd = [k \in Belongings |-> 0]
  /\ online = [p \in Holders |-> None] /\ snapshots = [p \in Holders |-> None]
  /\ entered = {} /\ uses = {} /\ flagged = {}
  /\ writes = [p \in Holders |-> 0]
  /\ broken = {} /\ unsaved = {}

-----------------------------------------------------------------------------
(* compute_features.                                                       *)
AmountOf(e) == e.amount

(* Count and amount of each kind and window, of entries or of messages.    *)
Tallied(S) ==
  [k \in Movements |-> [s \in Spans |->
     LET inside == {e \in S : e.kind = k /\ e.at > instant - s}
     IN [count |-> Cardinality(inside), amount |-> MapThenSumSet(AmountOf, inside)]]]

(* "exclude self": a thing whose members expired has none.                 *)
SharedCount(p, set) ==
  IF owned[<<p, set>>] = {} THEN 0 ELSE Max({Cardinality(users[t]) : t \in owned[<<p, set>>]}) - 1

Computed(p, new) ==
  [tallies |-> Tallied(entries[<<p, "txn">>] \cup entries[<<p, "bet">>]),
   devices |-> SharedCount(p, "devices"), banks |-> SharedCount(p, "banks"), new |-> new]

-----------------------------------------------------------------------------
(* The handlers, from process_transaction, process_bet and                 *)
(* process_device_event.  The two sets that a thing is added to, and the   *)
(* question for an instrument with its being remembered, are one step.     *)

Entry(m) == [kind |-> Inbox[m].kind, at |-> Inbox[m].at, amount |-> Inbox[m].amount]

(* What comes after a step: only devices have no entry, bets no thing, and *)
(* the features of bets that are backfilled are not computed.              *)
FirstStep(m) == IF Inbox[m].kind = "DEVICE" THEN "look" ELSE "enter"
NextStep(m, step) ==
  CASE step = "enter" -> IF Inbox[m].kind # "BET" THEN (IF Inbox[m].thing = None THEN "look" ELSE "share")
                         ELSE IF Inbox[m].backfill THEN "end" ELSE "read"
    [] step = "share" -> IF Inbox[m].kind = "DEVICE" THEN "read" ELSE "look"
    [] step = "look" -> IF Inbox[m].kind = "DEVICE" THEN "share" ELSE "read"

Handling(w, step) == Doing(w, step) /\ "message" \in DOMAIN request[w]
Proceeds(w, new) ==
  LET m == request[w].message
      step == NextStep(m, request[w].op)
  IN IF step = "end" THEN Ends(w) ELSE GoesOn(w, [op |-> step, message |-> m, new |-> new])

Takes(w, m) ==
  /\ m \notin taken
  /\ Begin(w, [op |-> FirstStep(m), message |-> m, new |-> FALSE])
  /\ taken' = taken \cup {m}
  /\ UNCHANGED <<instant, windowVars, sharingVars, storeVars, broken>>

EntriesLast == WindowTtl

(* _zadd_entry: entries that are the same are one.                         *)
Enters(w) ==
  /\ Handling(w, "enter")
  /\ LET m == request[w].message
     IN /\ entries' = [entries EXCEPT ![WindowOf(m)] = @ \cup {Entry(m)}]
        /\ entriesEnd' = [entriesEnd EXCEPT ![WindowOf(m)] = instant + EntriesLast]
        /\ entered' = entered \cup {[message |-> m, at |-> instant]}
  /\ Proceeds(w, FALSE)
  /\ UNCHANGED <<instant, taken, sharingVars, storeVars, broken>>

(* sadd_member of the player's set.                                        *)
Added(p, set, t) ==
  /\ owned' = [owned EXCEPT ![<<p, set>>] = @ \cup {t}]
  /\ ownedEnd' = [ownedEnd EXCEPT ![<<p, set>>] = instant + SetTtl]

SetOf(m) == IF Inbox[m].kind = "DEVICE" THEN "devices" ELSE "banks"
Used(m) == uses' = uses \cup {[thing |-> Inbox[m].thing, holder |-> Inbox[m].player, at |-> instant]}

Shares(w) ==
  /\ Handling(w, "share")
  /\ LET m == request[w].message
         p == Inbox[m].player
         t == Inbox[m].thing
     IN /\ users' = [users EXCEPT ![t] = @ \cup {p}]
        /\ usersEnd' = [usersEnd EXCEPT ![t] = instant + SetTtl]
        /\ Added(p, SetOf(m), t) /\ Used(m)
  /\ Proceeds(w, request[w].new)
  /\ UNCHANGED <<instant, taken, windowVars, storeVars, broken>>

(* Mutant of IsNew: an instrument is looked for among the accounts.        *)
IsNewAmongAccounts(m) == Inbox[m].thing \notin owned[<<Inbox[m].player, SetOf(m)>>]

(* "before recording it": a device among the player's devices, which it is *)
(* added to next; an instrument among its instruments.                     *)
IsNew(m) ==
  Inbox[m].thing \notin
    owned[<<Inbox[m].player, IF Inbox[m].kind = "DEVICE" THEN "devices" ELSE "instruments">>]

Looks(w) ==
  /\ Handling(w, "look")
  /\ LET m == request[w].message
     IN IF Inbox[m].kind = "DEVICE" THEN UNCHANGED <<owned, ownedEnd>>
        ELSE Added(Inbox[m].player, "instruments", Inbox[m].thing)
  /\ Proceeds(w, IsNew(request[w].message))
  /\ UNCHANGED <<instant, taken, windowVars, users, usersEnd, uses, storeVars, broken>>

ComputesFeatures(w) ==
  /\ Handling(w, "read")
  /\ LET m == request[w].message
     IN GoesOn(w, [op |-> "write", message |-> m, features |-> Computed(Inbox[m].player, request[w].new)])
  /\ UNCHANGED featureVars

(* hset_dict; the flag of the last message is gone.                        *)
WritesFeatures(w) ==
  /\ Handling(w, "write")
  /\ LET m == request[w].message
         p == Inbox[m].player
         f == request[w].features
     IN /\ writes' = [writes EXCEPT ![p] = @ + 1]
        /\ online' = [online EXCEPT ![p] = [features |-> f, number |-> writes[p] + 1]]
        /\ flagged' = IF f.new THEN flagged \cup {m} ELSE flagged
        /\ unsaved' = unsaved \cup {p}
        /\ GoesOn(w, [op |-> "save", message |-> m, features |-> f, number |-> writes[p] + 1])
  /\ UNCHANGED <<instant, taken, windowVars, sharingVars, snapshots, broken>>

(* ON CONFLICT (tenant_id, player_id, feature_date) DO UPDATE.             *)
Upserted(row, new) == new

(* _persist_feature_snapshot; a failure is logged.  What the handler does  *)
(* afterwards is in StreamProcessor.                                       *)
SavesSnapshot(w) ==
  /\ Handling(w, "save")
  /\ LET p == Inbox[request[w].message].player
     IN \/ /\ snapshots' = [snapshots EXCEPT ![p] =
                Upserted(@, [day |-> instant, features |-> request[w].features, number |-> request[w].number])]
           /\ unsaved' = unsaved \ {p}
        \/ UNCHANGED <<snapshots, unsaved>>
  /\ Ends(w)
  /\ UNCHANGED <<instant, taken, windowVars, sharingVars, online, writes, flagged, broken>>

(* Redis does not answer, once: the message goes to the DLQ, and may be    *)
(* handled from the start when it is replayed.  It counts as a call.       *)
AttemptBreaks(w) ==
  /\ \E step \in {"enter", "look", "share", "read", "write"} : Handling(w, step)
  /\ broken = {} /\ calls < MaxCalls
  /\ calls' = calls + 1
  /\ LET m == request[w].message
     IN /\ broken' = {m}
        /\ \E next \in {None, [op |-> FirstStep(m), message |-> m, new |-> FALSE]} :
             request' = [request EXCEPT ![w] = next]
  /\ UNCHANGED <<crossed, instant, taken, windowVars, sharingVars, storeVars>>

(* warm_feature_store_cache by a replica that starts, whatever the others  *)
(* wrote meanwhile; where it fails the rest is left.  Players are those    *)
(* that messages name by their id (the row of one named by an external id  *)
(* has the id, and is written where no handler looks).                     *)
WarmBegin(w) ==
  /\ \E p \in Holders : snapshots[p] # None
  /\ Begin(w, [op |-> "warm", rows |-> snapshots])
  /\ UNCHANGED featureVars

WarmEnds(w) ==
  /\ Doing(w, "warm")
  /\ \E warmed \in SUBSET {p \in Holders : request[w].rows[p] # None} :
       online' = [p \in Holders |->
         LET row == request[w].rows[p]
         IN IF p \in warmed THEN [features |-> row.features, number |-> row.number] ELSE online[p]]
  /\ Ends(w)
  /\ UNCHANGED <<instant, taken, windowVars, sharingVars, snapshots, writes, flagged, unsaved, broken>>

(* Online features, and sets that were not added to for long, expire.      *)
InstantPasses ==
  /\ instant < LastInstant /\ UnderWay = {}
  /\ instant' = instant + 1
  /\ entries' = [k \in Windows |-> IF entriesEnd[k] <= instant + 1 THEN {} ELSE entries[k]]
  /\ users' = [t \in Things |-> IF usersEnd[t] <= instant + 1 THEN {} ELSE users[t]]
  /\ owned' = [k \in Belongings |-> IF ownedEnd[k] <= instant + 1 THEN {} ELSE owned[k]]
  /\ online' = [p \in Holders |-> None]
  /\ UNCHANGED <<requestVars, taken, entriesEnd, entered, usersEnd, ownedEnd, uses,
                 snapshots, writes, flagged, unsaved, broken>>

FeaturesNext ==
  \/ \E w \in Workers :
       \/ \E m \in Messages : Takes(w, m)
       \/ Enters(w) \/ Shares(w) \/ Looks(w)
       \/ ComputesFeatures(w) \/ WritesFeatures(w) \/ SavesSnapshot(w) \/ AttemptBreaks(w)
       \/ WarmBegin(w) \/ WarmEnds(w)
  \/ InstantPasses

-----------------------------------------------------------------------------
FeaturesTypeOK ==
  /\ instant \in Nat /\ taken \subseteq Messages /\ broken \subseteq taken
  /\ \A k \in Windows : entries[k] \subseteq {Entry(m) : m \in Messages}
  /\ users \in [Things -> SUBSET Holders] /\ owned \in [Belongings -> SUBSET (Things \cup {None})]
  /\ \A p \in Holders : online[p] # None => online[p].number \in 1..writes[p]

(* The messages a player's history has, one of each content.               *)
History(p) ==
  {Entry(m) : m \in {e.message : e \in entered} \cap {n \in Messages : Inbox[n].player = p}}

(* compute_features_offline, which the unit tests run on a list of events, *)
(* is what compute_features makes of Redis: no event of a window is gone,  *)
(* however long the player was away, and none of another day is in it;     *)
(* but for events that are dated ahead, and for two with the same content, *)
(* which the sorted set has once and the list twice.                       *)
OnlineIsOffline ==
  \A p \in Holders :
    (\A e \in entered : Inbox[e.message].at <= e.at) =>
      Computed(p, FALSE).tallies = Tallied(History(p))

(* Who used a device or an account within its time is counted among those  *)
(* who share it, and oneself is: the count of the others is never negative.*)
SharingCounted ==
  \A p \in Holders :
    LET recent == {u \in uses : instant < u.at + SetTtl}
        others(t) == {u.holder : u \in {v \in recent : v.thing = t}} \ {p}
    IN /\ \A set \in {"devices", "banks"} : SharedCount(p, set) >= 0
       /\ \A u \in recent :
            u.holder = p =>
              Max({SharedCount(p, "devices"), SharedCount(p, "banks")}) >= Cardinality(others(u.thing))

(* A device or an instrument that is remembered was flagged as new by its  *)
(* first message, which may be under way: unless an attempt broke off      *)
(* after it was remembered, or two messages overlapped.                    *)
NewIsFlagged ==
  \A m \in {e.message : e \in entered} \cup taken :
    /\ Inbox[m].kind # "BET"
    /\ \A n \in taken \ {m} : Inbox[n].player = Inbox[m].player => Inbox[n].thing # Inbox[m].thing
    => \/ m \in flagged \cup broken
       \/ \E w \in Workers : request[w] # None /\ request[w].op # "warm" /\ request[w].message = m

(* What the rules engine reads is what was computed last, also after a     *)
(* replica started and warmed it: unless handlers or starts overlapped or  *)
(* a snapshot was not written.                                             *)
OnlineIsLatest ==
  crossed \/ \A p \in Holders :
    online[p] # None => online[p].number = writes[p] \/ p \in unsaved

(* The features that the rules read are those of the player's history.     *)
FeaturesSound == FeaturesTypeOK /\ OnlineIsOffline /\ SharingCounted /\ NewIsFlagged /\ OnlineIsLatest
=============================================================================
