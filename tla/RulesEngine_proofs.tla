-------------------------- MODULE RulesEngine_proofs ---------------------------
(***************************************************************************)
(* Proofs about the rules engine, for any number of replicas, partitions,  *)
(* players and faults and any capacity of the queue.  An alert on its way  *)
(* to Postgres is in one place: in the hand of the consumer that published *)
(* it, in the queue of that process or with its writer.                    *)
(***************************************************************************)
EXTENDS RulesEngine, SequenceTheorems, FiniteSetTheorems, WellFoundedInduction, TLAPS

(* An alert that e published and that has no row yet.                      *)
Own(e, a) == a \in Ids /\ a \notin rows /\ published[a].by = e

Queued(e, a) == \E i \in 1..Len(queue[e]) : queue[e][i] = a

HandSound(e) ==
  pc[e] = "enqueue" =>
    /\ cur[e] \in [event : Event, left : Seq(Match), alert : Ids]
    /\ Own(e, cur[e].alert) /\ ~Queued(e, cur[e].alert)

(* A case that was found was a case of the player, and still is.           *)
WriterSound(e) ==
  writing[e] # None =>
    LET a == writing[e].alert
        c == writing[e].found
    IN /\ Own(e, a) /\ ~Queued(e, a)
       /\ pc[e] = "enqueue" => cur[e].alert # a
       /\ c # None => c \in 1..Len(cases) /\ WantsCase(a) /\ cases[c].player = published[a].player

QueueSound(e) ==
  /\ Len(queue[e]) <= QueueSize
  /\ \A i \in 1..Len(queue[e]) :
       /\ Own(e, queue[e][i])
       /\ \A j \in 1..Len(queue[e]) : queue[e][i] = queue[e][j] => i = j

IInv ==
  /\ TypeOK
  /\ DOMAIN cur = Engines /\ DOMAIN writing = Engines
  /\ \A e \in Engines : HandSound(e) /\ QueueSound(e) /\ WriterSound(e)
  /\ CasesJustified
  /\ RiskCoversAlerts

(* With one writer: no case was found because there is none.               *)
FoundAll ==
  \A e \in Engines :
    writing[e] # None /\ writing[e].found = None /\ WantsCase(writing[e].alert) =>
      EngineCases(published[writing[e].alert].player) = {}

OneActive == \A y \in Players : \A c, d \in EngineCases(y) : c = d

-----------------------------------------------------------------------------
(* A set of numbers that has a bound has a greatest.                       *)
LEMMA GreatestExists ==
  ASSUME NEW S, S \subseteq Nat, S # {}, NEW b \in Nat, \A x \in S : x <= b
  PROVE  \E x \in S : \A y \in S : y <= x
<1> DEFINE T == {n \in Nat : \A x \in S : x <= n}
<1> DEFINE Less == {p \in Nat \X Nat : p[1] < p[2]}
<1>1. IsWellFoundedOn(Less, Nat)
  BY NatLessThanWellFounded DEF OpToRel
<1>2. T \subseteq Nat /\ T # {}
  OBVIOUS
<1> HIDE DEF T
<1>3. PICK m \in T : \A n \in T : ~ (<<n, m>> \in Less)
  <2> HIDE DEF Less
  <2> QED
    BY <1>1, <1>2, WFMin
<1>4. m \in Nat /\ \A n \in T : ~ (n < m)
  BY <1>3, <1>2
<1>5. ASSUME m \notin S PROVE FALSE
  <2>1. PICK x \in S : TRUE
    OBVIOUS
  <2>2. m # 0 /\ m - 1 \in Nat
    BY <2>1, <1>4, <1>5, <1>3 DEF T
  <2>3. m - 1 \in T
    BY <2>2, <1>3, <1>5 DEF T
  <2> QED
    BY <2>2, <2>3, <1>4
<1> QED
  BY <1>3, <1>5 DEF T

(* Bands are bands.                                                        *)
LEMMA BandType == \A n : Band(n) \in {"LOW", "MEDIUM", "HIGH"}
BY DEF Band

(* A sequence over a set is one over a larger set.                         *)
LEMMA SeqGrows == ASSUME NEW S, NEW T, S \subseteq T, NEW q \in Seq(S) PROVE q \in Seq(T)
OBVIOUS

(* A sequence with one element more.                                       *)
LEMMA AppendShape ==
  ASSUME NEW S, NEW q \in Seq(S), NEW x \in S
  PROVE  /\ Append(q, x) \in Seq(S) /\ Len(Append(q, x)) = Len(q) + 1
         /\ Len(q) \in Nat /\ 1..Len(Append(q, x)) = (1..Len(q)) \cup {Len(q) + 1}
         /\ \A i \in 1..Len(q) : Append(q, x)[i] = q[i]
         /\ Append(q, x)[Len(q) + 1] = x
<1>1. /\ Append(q, x) \in Seq(S) /\ Len(Append(q, x)) = Len(q) + 1
      /\ Len(q) \in Nat /\ \A i \in 1..Len(q) : Append(q, x)[i] = q[i]
      /\ Append(q, x)[Len(q) + 1] = x
  BY AppendProperties, LenProperties
<1> QED
  BY <1>1

(* The initial state satisfies the invariant.                              *)
LEMMA InitInv == Init => IInv /\ FoundAll /\ OneActive
<1> SUFFICES ASSUME Init PROVE IInv /\ FoundAll /\ OneActive
  OBVIOUS
<1> USE EngineAssumption DEF Init
<1>1. TypeOK
  <2>1. \A S : <<>> \in Seq(S)
    OBVIOUS
  <2>2. link \in [rows -> (1..Len(cases)) \cup {None}]
    OBVIOUS
  <2> QED
    BY <2>1, <2>2 DEF TypeOK, Ids
<1>2. \A e \in Engines : HandSound(e) /\ QueueSound(e) /\ WriterSound(e)
  BY DEF HandSound, QueueSound, WriterSound
<1>3. CasesJustified
  BY DEF CasesJustified
<1>4. RiskCoversAlerts
  BY DEF RiskCoversAlerts, Band
<1>5. FoundAll /\ OneActive
  BY DEF FoundAll, OneActive, EngineCases, ActiveCases
<1> QED
  BY <1>1, <1>2, <1>3, <1>4, <1>5 DEF IInv

-----------------------------------------------------------------------------
(* What the tables say stays true while they stay and alerts are published.*)
LEMMA TablesKept ==
  ASSUME IInv, UNCHANGED store, Ids \subseteq Ids', \A a \in Ids : published'[a] = published[a]
  PROVE  CasesJustified' /\ RiskCoversAlerts'
<1>1. /\ rows' = rows /\ link' = link /\ cases' = cases /\ timeline' = timeline
      /\ risk' = risk /\ band' = band /\ rows \subseteq Ids
  BY DEF store, IInv, TypeOK
<1>2. \A a \in Ids : WantsCase(a)' <=> WantsCase(a)
  BY DEF WantsCase
<1>3. CasesJustified'
  BY <1>1, <1>2 DEF IInv, CasesJustified
<1>4. RiskCoversAlerts'
  BY <1>1 DEF IInv, RiskCoversAlerts
<1> QED
  BY <1>3, <1>4

(* An engine that a step of another leaves alone.                          *)
LEMMA OtherKept ==
  ASSUME IInv, NEW d \in Engines, NEW e \in Engines, d # e,
         pc'[d] = pc[d], cur'[d] = cur[d], queue'[d] = queue[d], writing'[d] = writing[d],
         Ids \subseteq Ids', \A a \in Ids : published'[a] = published[a],
         \A a \in rows' : a \in rows \/ published[a].by = e,
         1..Len(cases) \subseteq 1..Len(cases'), \A c \in 1..Len(cases) : cases'[c].player = cases[c].player
  PROVE  HandSound(d)' /\ QueueSound(d)' /\ WriterSound(d)'
<1>1. ASSUME NEW a, Own(d, a) PROVE Own(d, a)'
  BY <1>1 DEF Own
<1>2. \A a : Queued(d, a)' <=> Queued(d, a)
  BY DEF Queued
<1>3. HandSound(d)'
  BY <1>1, <1>2 DEF IInv, HandSound
<1>4. QueueSound(d)'
  BY <1>1 DEF IInv, QueueSound
<1>5. WriterSound(d)'
  <2>1. \A a \in Ids : WantsCase(a)' <=> WantsCase(a)
    BY DEF WantsCase
  <2>2. WriterSound(d)
    BY DEF IInv
  <2> QED
    BY <1>1, <1>2, <2>1, <2>2 DEF WriterSound, Own
<1> QED
  BY <1>3, <1>4, <1>5

(* A step of the consumer's offsets alone.                                 *)
LEMMA OffsetsInv ==
  ASSUME IInv, UNCHANGED <<pc, cur, published, queue, writing, store>>, TypeOK'
  PROVE  IInv'
<1>1. Ids' = Ids /\ \A a \in Ids : published'[a] = published[a]
  BY DEF Ids
<1>2. CasesJustified' /\ RiskCoversAlerts'
  BY <1>1, TablesKept
<1>3. \A e \in Engines : HandSound(e)' /\ QueueSound(e)' /\ WriterSound(e)'
  BY DEF IInv, HandSound, QueueSound, WriterSound, Own, Queued, Ids, WantsCase, store
<1>4. cur' = cur /\ writing' = writing
  OBVIOUS
<1> QED
  BY <1>2, <1>3, <1>4 DEF IInv

(* A fault is counted.                                                     *)
LEMMA FaultType ==
  ASSUME faults \in [FaultKinds -> Nat], NEW f \in FaultKinds, Fault(f)
  PROVE  faults' \in [FaultKinds -> Nat]
BY DEF Fault

(* The loop takes a message.                                               *)
LEMMA FetchInv ==
  ASSUME IInv, NEW e \in Engines, NEW p \in Partitions, Fetch(e, p)
  PROVE  IInv'
<1> DEFINE i == position[e][p] + 1
           v == Stream[p][i]
           found == IF v.suppressed THEN <<>> ELSE v.matches
<1>1. v \in Event /\ found \in Seq(Match)
  <2>1. i \in 1..Len(Stream[p]) /\ Stream[p] \in Seq(Event)
    BY EngineAssumption DEF Fetch, IInv, TypeOK
  <2>2. v \in Event
    BY <2>1, ElementOfSeq
  <2> QED
    BY <2>2 DEF Event
<1>2. /\ pc[e] = "idle" /\ position' = [position EXCEPT ![e][p] = i]
      /\ IF found = <<>> THEN UNCHANGED <<pc, cur>>
         ELSE /\ pc' = [pc EXCEPT ![e] = "publish"]
              /\ cur' = [cur EXCEPT ![e] = [event |-> v, left |-> found]]
      /\ UNCHANGED <<committed, owner, published, queue, writing, store, faults>>
  BY DEF Fetch
<1> HIDE DEF v, found
<1>3. position' \in [Engines -> [Partitions -> Nat]]
  <2>1. position[e] \in [Partitions -> Nat] /\ i \in Nat
    BY DEF IInv, TypeOK
  <2>2. [position[e] EXCEPT ![p] = i] \in [Partitions -> Nat]
    BY <2>1
  <2> QED
    BY <1>2, <2>2 DEF IInv, TypeOK
<1>4. CASE found = <<>>
  <2>1. TypeOK'
    BY <1>2, <1>3, <1>4 DEF IInv, TypeOK, Ids, Case, store
  <2> QED
    BY <1>2, <1>4, <2>1, OffsetsInv
<1>5. CASE found # <<>>
  <2>1. /\ pc' = [pc EXCEPT ![e] = "publish"] /\ cur' = [cur EXCEPT ![e] = [event |-> v, left |-> found]]
        /\ pc'[e] = "publish" /\ cur'[e].event = v /\ cur'[e].left = found
        /\ DOMAIN cur' = Engines
        /\ \A d \in Engines \ {e} : pc'[d] = pc[d] /\ cur'[d] = cur[d]
    BY <1>2, <1>5 DEF IInv, TypeOK
  <2>2. TypeOK'
    <3>1. \A d \in Engines :
            /\ pc'[d] \in {"publish", "enqueue"} => cur'[d].event \in Event /\ cur'[d].left \in Seq(Match)
            /\ pc'[d] = "enqueue" => cur'[d].alert \in Ids
            /\ pc'[d] = "publish" => cur'[d].left # <<>>
            /\ writing[d] # None => writing[d].alert \in Ids
      BY <1>1, <1>5, <2>1 DEF IInv, TypeOK
    <3>2. pc' \in [Engines -> {"down", "idle", "publish", "enqueue"}]
      BY <2>1 DEF IInv, TypeOK
    <3> QED
      BY <1>2, <1>3, <3>1, <3>2 DEF IInv, TypeOK, Ids, Case, store
  <2>3. Ids' = Ids /\ \A a \in Ids : published'[a] = published[a]
    BY <1>2 DEF Ids
  <2>4. CasesJustified' /\ RiskCoversAlerts'
    BY <1>2, <2>3, TablesKept
  <2>5. HandSound(e)' /\ QueueSound(e)' /\ WriterSound(e)'
    BY <1>2, <2>1 DEF IInv, HandSound, QueueSound, WriterSound, Own, Queued, Ids, WantsCase, store
  <2>6. ASSUME NEW d \in Engines \ {e} PROVE HandSound(d)' /\ QueueSound(d)' /\ WriterSound(d)'
    BY <1>2, <2>1, <2>3, OtherKept DEF store
  <2> QED
    BY <1>2, <2>1, <2>2, <2>4, <2>5, <2>6 DEF IInv
<1> QED
  BY <1>4, <1>5

(* The consumer has more matches of the event in hand or none.             *)
LEMMA ContinueEffect ==
  ASSUME IInv, NEW e \in Engines, pc[e] = "enqueue",
         NEW left \in Seq(Match), Continue(e, left)
  PROVE  /\ pc' \in [Engines -> {"down", "idle", "publish", "enqueue"}] /\ DOMAIN cur' = Engines
         /\ \A d \in Engines \ {e} : pc'[d] = pc[d] /\ cur'[d] = cur[d]
         /\ pc'[e] \in {"idle", "publish"}
         /\ pc'[e] = "publish" => /\ left # <<>> /\ cur'[e].left = left
                                  /\ cur'[e].event = cur[e].event
<1>1. CASE left = <<>>
  BY <1>1 DEF Continue, IInv, TypeOK
<1>2. CASE left # <<>>
  <2>1. PICK g : g = [cur[e] EXCEPT !.left = left]
    OBVIOUS
  <2>2. g.left = left /\ g.event = cur[e].event
    BY <2>1 DEF IInv, HandSound
  <2>3. pc' = [pc EXCEPT ![e] = "publish"] /\ cur' = [cur EXCEPT ![e] = g]
    BY <1>2, <2>1 DEF Continue
  <2>4. DOMAIN cur = Engines
    BY DEF IInv
  <2>5. cur'[e] = g /\ DOMAIN cur' = Engines /\ \A d \in Engines \ {e} : cur'[d] = cur[d]
    BY <2>3, <2>4
  <2> QED
    BY <1>2, <2>2, <2>3, <2>5 DEF IInv, TypeOK
<1> QED
  BY <1>1, <1>2

(* publish_alert, first half: a fresh alert in the hand of the consumer.   *)
LEMMA PublishInv ==
  ASSUME IInv, NEW e \in Engines, Publish(e)
  PROVE  IInv'
<1> DEFINE n == Len(published) + 1
<1>1. PICK a : a = [player |-> cur[e].event.player, backfill |-> cur[e].event.backfill,
                    match |-> Head(cur[e].left), by |-> e]
  OBVIOUS
<1>2. PICK h : h = [event |-> cur[e].event, left |-> Tail(cur[e].left), alert |-> n]
  OBVIOUS
<1>3. /\ pc[e] = "publish" /\ published' = Append(published, a)
      /\ pc' = [pc EXCEPT ![e] = "enqueue"] /\ cur' = [cur EXCEPT ![e] = h]
      /\ UNCHANGED <<committed, owner, position, queue, writing, store, faults>>
  BY <1>1, <1>2 DEF Publish, consumer
<1>4. cur[e].event \in Event /\ cur[e].left \in Seq(Match) /\ cur[e].left # <<>>
  BY <1>3 DEF IInv, TypeOK
<1>5. Head(cur[e].left) \in Match /\ Tail(cur[e].left) \in Seq(Match)
  BY <1>4, HeadTailProperties
<1>6. a \in Alert /\ a.by = e
  BY <1>1, <1>4, <1>5 DEF Alert, Event
<1>7. /\ published' \in Seq(Alert) /\ Len(published) \in Nat /\ Ids' = Ids \cup {n}
      /\ n \notin Ids /\ published'[n] = a /\ \A i \in Ids : published'[i] = published[i]
  BY <1>3, <1>6, AppendShape DEF IInv, TypeOK, Ids
<1> HIDE DEF n
<1>8. /\ pc' \in [Engines -> {"down", "idle", "publish", "enqueue"}] /\ DOMAIN cur' = Engines
      /\ pc'[e] = "enqueue" /\ cur'[e] = h
      /\ \A d \in Engines \ {e} : pc'[d] = pc[d] /\ cur'[d] = cur[d]
  BY <1>3 DEF IInv, TypeOK
<1>9. h \in [event : Event, left : Seq(Match), alert : Ids'] /\ h.alert = n
  BY <1>2, <1>4, <1>5, <1>7
<1>10. TypeOK'
  <2>1. \A d \in Engines :
          /\ pc'[d] \in {"publish", "enqueue"} => cur'[d].event \in Event /\ cur'[d].left \in Seq(Match)
          /\ pc'[d] = "enqueue" => cur'[d].alert \in Ids'
          /\ pc'[d] = "publish" => cur'[d].left # <<>>
          /\ writing[d] # None => writing[d].alert \in Ids'
    BY <1>7, <1>8, <1>9 DEF IInv, TypeOK
  <2>2. queue \in [Engines -> Seq(Ids')]
    BY <1>7, SeqGrows DEF IInv, TypeOK
  <2>3. cases \in Seq(Case')
    <3>1. Case \subseteq Case'
      BY <1>7 DEF Case
    <3> QED
      BY <3>1, SeqGrows DEF IInv, TypeOK
  <2>4. Ids \subseteq Ids'
    BY <1>7
  <2> QED
    BY <1>3, <1>7, <1>8, <2>1, <2>2, <2>3, <2>4 DEF IInv, TypeOK, store
<1>11. CasesJustified' /\ RiskCoversAlerts'
  BY <1>3, <1>7, TablesKept
<1>12. n \notin rows /\ ~ Queued(e, n)
  BY <1>7 DEF IInv, TypeOK, QueueSound, Own, Queued
<1>13. HandSound(e)'
  BY <1>3, <1>6, <1>7, <1>8, <1>9, <1>12 DEF HandSound, Own, Queued, store
<1>14. QueueSound(e)'
  <2>1. ASSUME NEW i, Own(e, i) PROVE Own(e, i)'
    BY <1>3, <1>7, <2>1 DEF Own, store
  <2> QED
    BY <1>3, <2>1 DEF IInv, QueueSound
<1>15. WriterSound(e)'
  <2>1. WriterSound(e)
    BY DEF IInv
  <2>2. \A i \in Ids : WantsCase(i)' <=> WantsCase(i)
    BY <1>7 DEF WantsCase
  <2> QED
    BY <1>3, <1>7, <1>8, <1>9, <2>1, <2>2 DEF WriterSound, Own, Queued, store
<1>16. ASSUME NEW d \in Engines \ {e} PROVE HandSound(d)' /\ QueueSound(d)' /\ WriterSound(d)'
  BY <1>3, <1>7, <1>8, OtherKept DEF store
<1> QED
  BY <1>3, <1>8, <1>10, <1>11, <1>13, <1>14, <1>15, <1>16 DEF IInv

(* A step of a consumer or of the environment that gives the matches of    *)
(* the event up, and keeps the queue and the transaction or gives them up. *)
LEMMA GivesUpInv ==
  ASSUME IInv, NEW e \in Engines, UNCHANGED <<published, store>>,
         committed' \in [Partitions -> Nat], owner' \in [Partitions -> Engines \cup {None}],
         position' \in [Engines -> [Partitions -> Nat]], faults' \in [FaultKinds -> Nat],
         pc' \in [Engines -> {"down", "idle", "publish", "enqueue"}], pc'[e] \in {"down", "idle"},
         DOMAIN cur' = Engines, queue' \in [Engines -> Seq(Ids)], DOMAIN writing' = Engines,
         queue'[e] = queue[e] \/ queue'[e] = <<>>,
         writing'[e] = writing[e] \/ writing'[e] = None,
         \A d \in Engines \ {e} : /\ pc'[d] = pc[d] /\ cur'[d] = cur[d]
                                  /\ queue'[d] = queue[d] /\ writing'[d] = writing[d]
  PROVE  IInv'
<1>1. Ids' = Ids /\ \A a \in Ids : published'[a] = published[a]
  BY DEF Ids
<1>2. CasesJustified' /\ RiskCoversAlerts'
  BY <1>1, TablesKept
<1>3. TypeOK'
  <2>1. \A d \in Engines :
          /\ pc'[d] \in {"publish", "enqueue"} => cur'[d].event \in Event /\ cur'[d].left \in Seq(Match)
          /\ pc'[d] = "enqueue" => cur'[d].alert \in Ids
          /\ pc'[d] = "publish" => cur'[d].left # <<>>
          /\ writing'[d] # None => writing'[d].alert \in Ids
    BY DEF IInv, TypeOK
  <2> QED
    BY <1>1, <2>1 DEF IInv, TypeOK, store, Case
<1>4. HandSound(e)' /\ QueueSound(e)' /\ WriterSound(e)'
  <2>1. HandSound(e)'
    BY DEF HandSound
  <2>2. \A i : i \in 1..Len(queue'[e]) => i \in 1..Len(queue[e]) /\ queue'[e] = queue[e]
    BY EngineAssumption
  <2>3. QueueSound(e)'
    BY <1>1, <2>2, EngineAssumption DEF IInv, QueueSound, Own, store
  <2>4. WriterSound(e)
    BY DEF IInv
  <2>5. WriterSound(e)'
    BY <1>1, <2>2, <2>4 DEF WriterSound, Own, Queued, WantsCase, store
  <2> QED
    BY <2>1, <2>3, <2>5
<1>5. ASSUME NEW d \in Engines \ {e} PROVE HandSound(d)' /\ QueueSound(d)' /\ WriterSound(d)'
  BY <1>1, OtherKept DEF store
<1> QED
  BY <1>2, <1>3, <1>4, <1>5 DEF IInv

(* The send raises.                                                        *)
LEMMA PublishFailsInv ==
  ASSUME IInv, NEW e \in Engines, PublishFails(e)
  PROVE  IInv'
<1>1. /\ pc[e] = "publish" /\ Fault("publish")
      /\ pc' = [pc EXCEPT ![e] = "idle"] /\ cur' = [cur EXCEPT ![e] = None]
      /\ UNCHANGED <<committed, owner, position, published, queue, writing, store>>
  BY DEF PublishFails, Continue, consumer
<1>2. faults' \in [FaultKinds -> Nat]
  BY <1>1, FaultType DEF IInv, TypeOK, FaultKinds
<1> QED
  BY <1>1, <1>2, GivesUpInv DEF IInv, TypeOK

(* The process dies with its queue.                                        *)
LEMMA CrashInv ==
  ASSUME IInv, NEW e \in Engines, Crash(e)
  PROVE  IInv'
<1>1. faults' \in [FaultKinds -> Nat]
  BY FaultType DEF Crash, IInv, TypeOK, FaultKinds
<1>2. queue' \in [Engines -> Seq(Ids)] /\ queue'[e] = <<>>
  BY DEF Crash, IInv, TypeOK
<1> QED
  BY <1>1, <1>2, GivesUpInv DEF Crash, IInv, TypeOK

(* The process starts again.                                               *)
LEMMA RestartInv ==
  ASSUME IInv, NEW e \in Engines, Restart(e)
  PROVE  IInv'
BY GivesUpInv DEF Restart, IInv, TypeOK, consumer

(* publish_alert, second half: the alert goes from the hand to the queue.  *)
LEMMA EnqueueInv ==
  ASSUME IInv, NEW e \in Engines, Enqueue(e)
  PROVE  IInv'
<1> DEFINE a == cur[e].alert
<1>1. /\ pc[e] = "enqueue" /\ Len(queue[e]) < QueueSize
      /\ queue' = [queue EXCEPT ![e] = Append(queue[e], a)]
      /\ Continue(e, cur[e].left)
      /\ UNCHANGED <<committed, owner, position, published, writing, store, faults>>
  BY DEF Enqueue, consumer
<1>2. cur[e].left \in Seq(Match) /\ cur[e].event \in Event /\ a \in Ids
  BY <1>1 DEF IInv, TypeOK
<1>3. /\ pc' \in [Engines -> {"down", "idle", "publish", "enqueue"}] /\ DOMAIN cur' = Engines
      /\ \A d \in Engines \ {e} : pc'[d] = pc[d] /\ cur'[d] = cur[d]
      /\ pc'[e] \in {"idle", "publish"}
      /\ pc'[e] = "publish" => /\ cur[e].left # <<>> /\ cur'[e].left = cur[e].left
                               /\ cur'[e].event = cur[e].event
  BY <1>1, <1>2, ContinueEffect
<1> HIDE DEF a
<1>4. queue[e] \in Seq(Ids)
  BY DEF IInv, TypeOK
<1>5. PICK q : q = Append(queue[e], a)
  OBVIOUS
<1>6. /\ q \in Seq(Ids) /\ Len(q) = Len(queue[e]) + 1 /\ Len(queue[e]) \in Nat
      /\ 1..Len(q) = (1..Len(queue[e])) \cup {Len(queue[e]) + 1}
      /\ \A i \in 1..Len(queue[e]) : q[i] = queue[e][i]
      /\ q[Len(queue[e]) + 1] = a
  BY <1>2, <1>4, <1>5, AppendShape
<1>7. queue' \in [Engines -> Seq(Ids)] /\ queue'[e] = q /\ \A d \in Engines \ {e} : queue'[d] = queue[d]
  BY <1>1, <1>5, <1>6 DEF IInv, TypeOK
<1>8. Ids' = Ids /\ \A i \in Ids : published'[i] = published[i]
  BY <1>1 DEF Ids
<1>9. CasesJustified' /\ RiskCoversAlerts'
  BY <1>1, <1>8, TablesKept
<1>10. Own(e, a) /\ ~ Queued(e, a)
  BY <1>1 DEF IInv, HandSound, a
<1>11. TypeOK'
  <2>1. \A d \in Engines :
          /\ pc'[d] \in {"publish", "enqueue"} => cur'[d].event \in Event /\ cur'[d].left \in Seq(Match)
          /\ pc'[d] = "enqueue" => cur'[d].alert \in Ids
          /\ pc'[d] = "publish" => cur'[d].left # <<>>
          /\ writing[d] # None => writing[d].alert \in Ids
    BY <1>2, <1>3 DEF IInv, TypeOK
  <2> QED
    BY <1>1, <1>3, <1>7, <1>8, <2>1 DEF IInv, TypeOK, store, Case
<1>12. HandSound(e)'
  BY <1>3 DEF HandSound
<1>13. QueueSound(e)'
  <2>1. \A i \in 1..Len(q) : Own(e, q[i])'
    <3>1. ASSUME NEW x, Own(e, x) PROVE Own(e, x)'
      BY <1>1, <1>8, <3>1 DEF Own, store
    <3>2. \A i \in 1..Len(q) : Own(e, q[i])
      BY <1>6, <1>10 DEF IInv, QueueSound
    <3> QED
      BY <3>1, <3>2
  <2>2. \A i \in 1..Len(queue[e]) : queue[e][i] # a
    BY <1>10 DEF Queued
  <2>3. \A i, j \in 1..Len(q) : q[i] = q[j] => i = j
    BY <1>6, <2>2 DEF IInv, QueueSound
  <2>4. Len(q) <= QueueSize
    BY <1>1, <1>6, EngineAssumption
  <2> QED
    BY <1>7, <2>1, <2>3, <2>4 DEF QueueSound
<1>14. WriterSound(e)'
  <2>1. WriterSound(e)
    BY DEF IInv
  <2>2. writing[e] # None => writing[e].alert # a
    BY <1>1, <2>1 DEF WriterSound, a
  <2> QED
    BY <1>1, <1>3, <1>6, <1>7, <1>8, <2>1, <2>2 DEF WriterSound, Own, Queued, WantsCase, store
<1>15. ASSUME NEW d \in Engines \ {e} PROVE HandSound(d)' /\ QueueSound(d)' /\ WriterSound(d)'
  BY <1>1, <1>3, <1>7, <1>8, OtherKept DEF store
<1> QED
  BY <1>1, <1>3, <1>9, <1>11, <1>12, <1>13, <1>14, <1>15 DEF IInv
(* The offsets are committed, and a partition changes hands.               *)
LEMMA AutoCommitInv ==
  ASSUME IInv, NEW e \in Engines, AutoCommit(e)
  PROVE  IInv'
<1>1. committed' \in [Partitions -> Nat]
  BY DEF AutoCommit, IInv, TypeOK
<1>2. TypeOK'
  BY <1>1 DEF AutoCommit, IInv, TypeOK, Ids, Case, store
<1> QED
  BY <1>2, OffsetsInv DEF AutoCommit

(* A partition is given to a live engine.                                  *)
LEMMA AssignInv ==
  ASSUME IInv, NEW e \in Engines, NEW p \in Partitions, Assign(e, p)
  PROVE  IInv'
<1>1. faults' \in [FaultKinds -> Nat]
  BY FaultType DEF Assign, IInv, TypeOK, FaultKinds
<1>2. owner' \in [Partitions -> Engines \cup {None}]
  BY DEF Assign, IInv, TypeOK
<1>3. position' \in [Engines -> [Partitions -> Nat]]
  <2>1. [position[e] EXCEPT ![p] = committed[p]] \in [Partitions -> Nat]
    BY DEF IInv, TypeOK
  <2> QED
    BY <2>1 DEF Assign, IInv, TypeOK
<1>4. TypeOK'
  BY <1>1, <1>2, <1>3 DEF Assign, IInv, TypeOK, Ids, Case, store
<1> QED
  BY <1>4, OffsetsInv DEF Assign

-----------------------------------------------------------------------------
(* The case that is found is the greatest of the player's active cases.    *)
LEMMA FindCaseFinds ==
  ASSUME IInv, NEW a \in Ids
  PROVE  LET active == ActiveCases(published[a].player)
         IN  IF WantsCase(a) /\ active # {}
             THEN FindCase(a) \in active /\ FindCase(a) \in 1..Len(cases) /\ FindCase(a) # None
             ELSE FindCase(a) = None
<1> DEFINE active == ActiveCases(published[a].player)
<1>1. CASE WantsCase(a) /\ active # {}
  <2>1. active \subseteq Nat /\ active \subseteq 1..Len(cases) /\ Len(cases) \in Nat
    BY LenProperties DEF ActiveCases, IInv, TypeOK
  <2>2. \A x \in active : x <= Len(cases)
    BY <2>1
  <2> HIDE DEF active
  <2>3. \E c \in active : \A d \in active : d <= c
    BY <1>1, <2>1, <2>2, GreatestExists
  <2>4. Latest(active) \in active
    BY <2>3 DEF Latest
  <2>5. FindCase(a) = Latest(active)
    BY <1>1 DEF FindCase, active
  <2>6. FindCase(a) \in Nat
    BY <2>1, <2>4, <2>5
  <2> QED
    BY <1>1, <2>1, <2>4, <2>5, <2>6, EngineAssumption DEF active
<1>2. CASE ~ (WantsCase(a) /\ active # {})
  BY <1>2 DEF FindCase
<1> QED
  BY <1>1, <1>2

(* The transaction begins.                                                 *)
LEMMA WriteBeginInv ==
  ASSUME IInv, NEW e \in Engines, WriteBegin(e)
  PROVE  /\ IInv'
         /\ (\A d \in Engines : d = e) => FoundAll'
<1>0. PICK a : a = Head(queue[e])
  OBVIOUS
<1>1. queue[e] \in Seq(Ids) /\ queue[e] # <<>>
  BY DEF WriteBegin, IInv, TypeOK
<1>2. PICK w : w = [alert |-> a, found |-> FindCase(a)]
  OBVIOUS
<1>3. PICK q : q = Tail(queue[e])
  OBVIOUS
<1>4. /\ a \in Ids /\ a = queue[e][1] /\ q \in Seq(Ids) /\ Len(queue[e]) \in Nat \ {0}
      /\ Len(q) = Len(queue[e]) - 1 /\ \A i \in 1..Len(q) : q[i] = queue[e][i + 1]
  BY <1>0, <1>1, <1>3, HeadTailProperties, LenProperties
<1>5. /\ writing[e] = None /\ queue' = [queue EXCEPT ![e] = q] /\ writing' = [writing EXCEPT ![e] = w]
      /\ UNCHANGED <<committed, owner, position, pc, cur, published, store, faults>>
  BY <1>0, <1>2, <1>3 DEF WriteBegin, consumer
<1>6. /\ queue' \in [Engines -> Seq(Ids)] /\ queue'[e] = q /\ \A d \in Engines \ {e} : queue'[d] = queue[d]
      /\ DOMAIN writing' = Engines /\ writing'[e] = w /\ \A d \in Engines \ {e} : writing'[d] = writing[d]
  BY <1>4, <1>5 DEF IInv, TypeOK
<1>7. w.alert = a /\ w.found = FindCase(a)
  BY <1>2
<1>8. Ids' = Ids /\ \A i \in Ids : published'[i] = published[i]
  BY <1>5 DEF Ids
<1>9. CasesJustified' /\ RiskCoversAlerts'
  BY <1>5, <1>8, TablesKept
<1>10. Own(e, a) /\ \A i \in 1..Len(q) : Own(e, q[i]) /\ q[i] # a
  <2>1. 1 \in 1..Len(queue[e]) /\ \A i \in 1..Len(q) : i + 1 \in 1..Len(queue[e]) /\ i + 1 # 1
    BY <1>4
  <2>2. QueueSound(e)
    BY DEF IInv
  <2> QED
    BY <1>4, <2>1, <2>2 DEF QueueSound
<1>11. ASSUME NEW x, Own(e, x) PROVE Own(e, x)'
  BY <1>5, <1>8, <1>11 DEF Own, store
<1>12. TypeOK'
  <2>1. \A d \in Engines : writing'[d] # None => writing'[d].alert \in Ids
    BY <1>4, <1>6, <1>7 DEF IInv, TypeOK
  <2> QED
    BY <1>5, <1>6, <1>8, <2>1 DEF IInv, TypeOK, store, Case
<1>13. HandSound(e)'
  <2>1. HandSound(e)
    BY DEF IInv
  <2> QED
    BY <1>4, <1>5, <1>6, <1>8, <1>11, <2>1 DEF HandSound, Queued
<1>14. QueueSound(e)'
  <2>1. Len(q) <= QueueSize
    BY <1>4, EngineAssumption DEF IInv, QueueSound
  <2>2. \A i, j \in 1..Len(q) : q[i] = q[j] => i = j
    <3>1. \A i \in 1..Len(q) : i + 1 \in 1..Len(queue[e])
      BY <1>4
    <3>2. \A i, j \in 1..Len(q) : q[i] = q[j] => i + 1 = j + 1
      BY <1>4, <3>1 DEF IInv, QueueSound
    <3> QED
      BY <1>4, <3>2
  <2> QED
    BY <1>6, <1>10, <1>11, <2>1, <2>2 DEF QueueSound
<1>15. WriterSound(e)'
  <2>1. ~ Queued(e, a)'
    BY <1>6, <1>10 DEF Queued
  <2>2. pc[e] = "enqueue" => cur[e].alert # a
    BY <1>4 DEF IInv, HandSound, Queued
  <2>3. w.found # None => /\ w.found \in 1..Len(cases) /\ WantsCase(a)
                          /\ cases[w.found].player = published[a].player
    BY <1>4, <1>7, FindCaseFinds DEF ActiveCases
  <2>4. WantsCase(a)' <=> WantsCase(a)
    BY <1>5 DEF WantsCase
  <2> QED
    BY <1>5, <1>6, <1>7, <1>10, <1>11, <2>1, <2>2, <2>3, <2>4 DEF WriterSound, store
<1>16. ASSUME NEW d \in Engines \ {e} PROVE HandSound(d)' /\ QueueSound(d)' /\ WriterSound(d)'
  BY <1>5, <1>6, <1>8, OtherKept DEF store
<1>17. IInv'
  BY <1>5, <1>6, <1>9, <1>12, <1>13, <1>14, <1>15, <1>16 DEF IInv
<1>18. ASSUME \A d \in Engines : d = e PROVE FoundAll'
  <2>1. w.found = None /\ WantsCase(a) => ActiveCases(published[a].player) = {}
    BY <1>4, <1>7, FindCaseFinds
  <2>2. w.found = None /\ WantsCase(a)' => EngineCases(published[a].player)' = {}
    BY <1>5, <2>1 DEF WantsCase, EngineCases, ActiveCases, store
  <2> QED
    BY <1>5, <1>6, <1>7, <1>18, <2>2 DEF FoundAll
<1> QED
  BY <1>17, <1>18

(* The transaction ends and leaves no trace.                               *)
LEMMA WriteGivenUp ==
  ASSUME IInv, NEW e \in Engines, writing' = [writing EXCEPT ![e] = None],
         UNCHANGED <<committed, owner, position, pc, cur, published, queue, store>>,
         faults' \in [FaultKinds -> Nat]
  PROVE  IInv' /\ (FoundAll => FoundAll')
<1>1. DOMAIN writing' = Engines /\ writing'[e] = None /\ \A d \in Engines \ {e} : writing'[d] = writing[d]
  BY DEF IInv
<1>2. Ids' = Ids /\ \A i \in Ids : published'[i] = published[i]
  BY DEF Ids
<1>3. CasesJustified' /\ RiskCoversAlerts'
  BY <1>2, TablesKept
<1>4. TypeOK'
  <2>1. \A d \in Engines : writing'[d] # None => writing'[d].alert \in Ids
    BY <1>1 DEF IInv, TypeOK
  <2> QED
    BY <1>2, <2>1 DEF IInv, TypeOK, store, Case
<1>5. HandSound(e)' /\ QueueSound(e)' /\ WriterSound(e)'
  BY <1>1, <1>2 DEF IInv, HandSound, QueueSound, WriterSound, Own, Queued, store
<1>6. ASSUME NEW d \in Engines \ {e} PROVE HandSound(d)' /\ QueueSound(d)' /\ WriterSound(d)'
  BY <1>1, <1>2, OtherKept DEF store
<1>7. ASSUME FoundAll PROVE FoundAll'
  <2>1. ASSUME NEW d \in Engines, writing'[d] # None
        PROVE  writing[d] # None /\ writing'[d] = writing[d]
    BY <1>1, <2>1
  <2> QED
    BY <1>7, <2>1 DEF FoundAll, WantsCase, EngineCases, ActiveCases, store
<1> QED
  BY <1>1, <1>3, <1>4, <1>5, <1>6, <1>7 DEF IInv
(* Postgres fails.                                                         *)
LEMMA WriteFailsInv ==
  ASSUME IInv, NEW e \in Engines, WriteFails(e)
  PROVE  IInv' /\ (FoundAll => FoundAll')
<1>1. faults' \in [FaultKinds -> Nat]
  BY FaultType DEF WriteFails, IInv, TypeOK, FaultKinds
<1> QED
  BY <1>1, WriteGivenUp DEF WriteFails, consumer

(* The case part of a transaction: the new row has the case l, of its own  *)
(* player, if it wants one; a new case is the last one.                    *)
LEMMA LinkEffect ==
  ASSUME IInv, NEW a \in Ids, a \notin rows, NEW f,
         f # None => f \in 1..Len(cases) /\ cases[f].player = published[a].player,
         LinkCase(a, f)
  PROVE  \E l \in (1..Len(cases')) \cup {None} :
           /\ IF WantsCase(a) THEN l # None /\ cases'[l].player = published[a].player ELSE l = None
           /\ timeline' = timeline \cup {<<x, a>> : x \in {l} \ {None}}
           /\ link' = [b \in rows \cup {a} |-> IF b = a THEN l ELSE link[b]]
           /\ cases' \in Seq(Case) /\ 1..Len(cases) \subseteq 1..Len(cases')
           /\ \A x \in 1..Len(cases) : cases'[x] = cases[x]
           /\ \A x \in 1..Len(cases') :
                x \in 1..Len(cases) \/ (x = l /\ cases'[x].source = a /\ f = None)
<1>1. cases \in Seq(Case) /\ Len(cases) \in Nat
  BY LenProperties DEF IInv, TypeOK
<1>2. CASE ~ WantsCase(a)
  <2>1. /\ cases' = cases /\ timeline' = timeline
        /\ link' = [b \in rows \cup {a} |-> IF b = a THEN None ELSE link[b]]
    BY <1>2 DEF LinkCase
  <2>2. timeline = timeline \cup {<<x, a>> : x \in {None} \ {None}}
    OBVIOUS
  <2> QED
    BY <1>1, <1>2, <2>1, <2>2, Zenon
<1>3. CASE WantsCase(a) /\ f # None
  <2>1. /\ cases' = cases /\ timeline' = timeline \cup {<<f, a>>}
        /\ link' = [b \in rows \cup {a} |-> IF b = a THEN f ELSE link[b]]
    BY <1>3, Zenon DEF LinkCase
  <2>2. {<<f, a>>} = {<<x, a>> : x \in {f} \ {None}}
    BY <1>3
  <2> QED
    BY <1>1, <1>3, <2>1, <2>2, Zenon
<1>4. CASE WantsCase(a) /\ f = None
  <2>1. PICK k : k = [player |-> published[a].player, active |-> TRUE, source |-> a, byHand |-> FALSE]
    OBVIOUS
  <2>2. PICK l : l = Len(cases) + 1
    OBVIOUS
  <2>3. /\ cases' = Append(cases, k) /\ timeline' = timeline \cup {<<l, a>>}
        /\ link' = [b \in rows \cup {a} |-> IF b = a THEN l ELSE link[b]]
    BY <1>4, <2>1, <2>2 DEF LinkCase
  <2>4. k \in Case /\ k.player = published[a].player /\ k.source = a
    <3>1. published[a] \in Alert
      BY ElementOfSeq DEF IInv, TypeOK, Ids
    <3> QED
      BY <2>1, <3>1 DEF Case, Alert
  <2>5. /\ cases' \in Seq(Case) /\ 1..Len(cases') = (1..Len(cases)) \cup {l}
        /\ \A x \in 1..Len(cases) : cases'[x] = cases[x]
        /\ cases'[l] = k
    BY <1>1, <2>2, <2>3, <2>4, AppendShape
  <2>6. l \in Nat /\ l # None
    BY <1>1, <2>2, EngineAssumption
  <2>7. {<<l, a>>} = {<<x, a>> : x \in {l} \ {None}}
    BY <2>6
  <2>8. l \in (1..Len(cases')) \cup {None}
    BY <2>5
  <2> QED
    BY <1>4, <2>3, <2>4, <2>5, <2>6, <2>7, <2>8
<1> QED
  BY <1>2, <1>3, <1>4

(* The transaction of an alert that is not a compound one commits.         *)
LEMMA WriteRowInv ==
  ASSUME IInv, NEW e \in Engines, WriteCommit(e), ~ published[writing[e].alert].match.compound
  PROVE  /\ IInv'
         /\ (FoundAll /\ OneActive /\ \A d \in Engines : d = e) => FoundAll' /\ OneActive'
<1>1. PICK a, f : a = writing[e].alert /\ f = writing[e].found
  OBVIOUS
<1>2. /\ writing[e] # None /\ rows' = rows \cup {a} /\ LinkCase(a, f)
      /\ RaiseRisk(published[a].player, published[a].match.score)
      /\ writing' = [writing EXCEPT ![e] = None]
      /\ UNCHANGED <<committed, owner, position, pc, cur, published, queue, faults>>
  BY <1>1 DEF WriteCommit, consumer
<1>3. /\ Own(e, a) /\ ~ Queued(e, a) /\ (pc[e] = "enqueue" => cur[e].alert # a)
      /\ f # None => f \in 1..Len(cases) /\ cases[f].player = published[a].player
  BY <1>1, <1>2 DEF IInv, WriterSound
<1>4. a \in Ids /\ a \notin rows /\ published[a].by = e /\ rows \subseteq Ids
  BY <1>3 DEF Own, IInv, TypeOK
<1>5. PICK l \in (1..Len(cases')) \cup {None} :
           /\ IF WantsCase(a) THEN l # None /\ cases'[l].player = published[a].player ELSE l = None
           /\ timeline' = timeline \cup {<<x, a>> : x \in {l} \ {None}}
           /\ link' = [b \in rows \cup {a} |-> IF b = a THEN l ELSE link[b]]
           /\ cases' \in Seq(Case) /\ 1..Len(cases) \subseteq 1..Len(cases')
           /\ \A x \in 1..Len(cases) : cases'[x] = cases[x]
           /\ \A x \in 1..Len(cases') :
                x \in 1..Len(cases) \/ (x = l /\ cases'[x].source = a /\ f = None)
  BY <1>2, <1>3, <1>4, LinkEffect
<1>6. Ids' = Ids /\ \A i \in Ids : published'[i] = published[i]
  BY <1>2 DEF Ids
<1>7. /\ DOMAIN writing' = Engines /\ writing'[e] = None
      /\ \A d \in Engines \ {e} : writing'[d] = writing[d]
  BY <1>2 DEF IInv
<1>8. PICK y, s : y = published[a].player /\ s = published[a].match.score
  OBVIOUS
<1>9. y \in Players /\ s \in Nat
  <2>1. published[a] \in Alert
    BY <1>4, ElementOfSeq DEF IInv, TypeOK, Ids
  <2> QED
    BY <1>8, <2>1, EngineAssumption DEF Alert, Match
<1>10. /\ risk' \in [Players -> Nat] /\ risk'[y] >= s /\ risk'[y] >= risk[y]
       /\ risk'[y] = s \/ risk'[y] = risk[y]
       /\ \A x \in Players \ {y} : risk'[x] = risk[x]
  BY <1>2, <1>8, <1>9 DEF IInv, TypeOK, RaiseRisk, Greatest
<1>11. /\ band' \in [Players -> {"LOW", "MEDIUM", "HIGH"}] /\ band'[y] = Band(risk'[y])
       /\ \A x \in Players \ {y} : band'[x] = band[x]
  BY <1>2, <1>8, <1>9, BandType DEF IInv, TypeOK, RaiseRisk
<1>12. /\ link' \in [rows' -> (1..Len(cases')) \cup {None}]
       /\ link'[a] = l /\ \A b \in rows : link'[b] = link[b]
  BY <1>2, <1>4, <1>5 DEF IInv, TypeOK
<1>13. TypeOK'
  <2>1. \A d \in Engines : writing'[d] # None => writing'[d].alert \in Ids
    BY <1>7 DEF IInv, TypeOK
  <2>2. timeline' \subseteq (1..Len(cases')) \X Ids
    BY <1>4, <1>5 DEF IInv, TypeOK
  <2>3. rows' \subseteq Ids
    BY <1>2, <1>4
  <2>4. Case' = Case
    BY <1>6 DEF Case
  <2> QED
    BY <1>2, <1>5, <1>6, <1>10, <1>11, <1>12, <2>1, <2>2, <2>3, <2>4 DEF IInv, TypeOK
<1>14. \A b \in Ids : WantsCase(b)' <=> WantsCase(b)
  BY <1>2 DEF WantsCase
<1>15. CasesJustified'
  <2>1. \A b \in rows' : IF WantsCase(b)' THEN link'[b] # None /\ cases'[link'[b]].player = published'[b].player
                         ELSE link'[b] = None
    <3>1. ASSUME NEW b \in rows
          PROVE  IF WantsCase(b) THEN link'[b] # None /\ cases'[link'[b]].player = published[b].player
                 ELSE link'[b] = None
      BY <1>5, <1>12 DEF IInv, CasesJustified, TypeOK
    <3> QED
      BY <1>2, <1>4, <1>5, <1>6, <1>12, <1>14, <3>1
  <2>2. timeline' = {<<link'[b], b>> : b \in {x \in rows' : link'[x] # None}}
    <3>1. timeline = {<<link[b], b>> : b \in {x \in rows : link[x] # None}}
      BY DEF IInv, CasesJustified
    <3>2. {<<link[b], b>> : b \in {x \in rows : link[x] # None}}
            = {<<link'[b], b>> : b \in {x \in rows : link'[x] # None}}
      BY <1>12
    <3>3. {<<x, a>> : x \in {l} \ {None}} = {<<link'[b], b>> : b \in {x \in {a} : link'[x] # None}}
      BY <1>12
    <3> QED
      BY <1>2, <1>5, <3>1, <3>2, <3>3
  <2>3. \A c \in 1..Len(cases') : cases'[c].source # None => <<c, cases'[c].source>> \in timeline'
    <3>1. \A c \in 1..Len(cases) : cases[c].source # None => <<c, cases[c].source>> \in timeline
      BY DEF IInv, CasesJustified
    <3>2. ASSUME NEW c \in 1..Len(cases'), c = l PROVE c # None
      BY EngineAssumption
    <3> QED
      BY <1>5, <3>1, <3>2
  <2> QED
    BY <2>1, <2>2, <2>3 DEF CasesJustified
<1>16. RiskCoversAlerts'
  <2>1. \A b \in rows' : risk'[published[b].player] >= published[b].match.score
    <3>1. ASSUME NEW b \in rows
          PROVE  risk'[published[b].player] >= published[b].match.score
      <4>1. published[b] \in Alert
        BY <1>4, ElementOfSeq DEF IInv, TypeOK, Ids
      <4>2. published[b].player \in Players /\ published[b].match.score \in Nat
        BY <4>1, EngineAssumption DEF Alert, Match
      <4>3. /\ risk[published[b].player] >= published[b].match.score
            /\ risk'[published[b].player] \in Nat /\ risk[published[b].player] \in Nat
        BY <1>10, <4>2 DEF IInv, RiskCoversAlerts, TypeOK
      <4>4. risk'[published[b].player] >= risk[published[b].player]
        BY <1>9, <1>10, <4>2, <4>3
      <4> QED
        BY <4>2, <4>3, <4>4
    <3> QED
      BY <1>2, <1>8, <1>10, <3>1
  <2>2. \A x \in Players : band'[x] = IF \E b \in rows' : published[b].player = x
                                      THEN Band(risk'[x]) ELSE "LOW"
    <3>1. \A x \in Players \ {y} : (\E b \in rows' : published[b].player = x)
                                     <=> (\E b \in rows : published[b].player = x)
      BY <1>2, <1>8
    <3>2. \E b \in rows' : published[b].player = y
      BY <1>2, <1>8
    <3> QED
      BY <1>10, <1>11, <3>1, <3>2 DEF IInv, RiskCoversAlerts
  <2>3. \A x \in Players : risk'[x] > 0 =>
          \E b \in rows' : published[b].player = x /\ published[b].match.score = risk'[x]
    <3>1. ASSUME NEW x \in Players, risk[x] > 0
          PROVE  \E b \in rows' : published[b].player = x /\ published[b].match.score = risk[x]
      BY <1>2, <3>1 DEF IInv, RiskCoversAlerts
    <3> QED
      BY <1>2, <1>8, <1>10, <3>1
  <2> QED
    BY <1>2, <2>1, <2>2, <2>3 DEF RiskCoversAlerts, Band
<1>17. ASSUME NEW x, Own(e, x), x # a PROVE Own(e, x)'
  BY <1>2, <1>6, <1>17 DEF Own
<1>18. HandSound(e)'
  BY <1>2, <1>3, <1>6, <1>17 DEF IInv, HandSound, Queued
<1>19. QueueSound(e)'
  BY <1>2, <1>3, <1>17 DEF IInv, QueueSound, Queued
<1>20. WriterSound(e)'
  BY <1>7 DEF WriterSound
<1>21. ASSUME NEW d \in Engines \ {e} PROVE HandSound(d)' /\ QueueSound(d)' /\ WriterSound(d)'
  BY <1>2, <1>4, <1>5, <1>6, <1>7, OtherKept
<1>22. IInv'
  BY <1>2, <1>7, <1>13, <1>15, <1>16, <1>18, <1>19, <1>20, <1>21 DEF IInv
<1>23. ASSUME FoundAll, OneActive, \A d \in Engines : d = e
       PROVE  FoundAll' /\ OneActive'
  <2>1. FoundAll'
    BY <1>7, <1>23 DEF FoundAll
  <2>2. ASSUME NEW x \in Players, NEW c \in EngineCases(x)', NEW d \in EngineCases(x)' PROVE c = d
    <3>1. CASE c \in 1..Len(cases) /\ d \in 1..Len(cases)
      BY <1>5, <1>23, <2>2, <3>1 DEF OneActive, EngineCases, ActiveCases
    <3>2. ASSUME NEW i \in EngineCases(x)', NEW j \in EngineCases(x)',
                 i \notin 1..Len(cases), j \in 1..Len(cases)
          PROVE  FALSE
      <4>1. i \in 1..Len(cases') /\ cases'[i].player = x
        BY <3>2 DEF EngineCases, ActiveCases
      <4>2. i = l /\ f = None /\ l # None
        BY <1>5, <3>2, <4>1, EngineAssumption
      <4>3. WantsCase(a) /\ x = published[a].player
        BY <1>5, <4>1, <4>2
      <4>4. EngineCases(x) = {}
        BY <1>1, <1>2, <1>23, <4>2, <4>3 DEF FoundAll
      <4>5. cases'[j] = cases[j]
        BY <1>5, <3>2
      <4>6. j \in EngineCases(x)
        BY <3>2, <4>5 DEF EngineCases, ActiveCases
      <4> QED
        BY <4>4, <4>6
    <3>3. CASE c \notin 1..Len(cases) /\ d \notin 1..Len(cases)
      BY <1>5, <3>3 DEF EngineCases, ActiveCases
    <3> QED
      BY <3>1, <3>2, <3>3
  <2> QED
    BY <2>1, <2>2 DEF OneActive
<1> QED
  BY <1>22, <1>23
(* The writer ends its transaction: of a compound alert nothing remains.   *)
LEMMA WriteCommitInv ==
  ASSUME IInv, NEW e \in Engines, WriteCommit(e)
  PROVE  /\ IInv'
         /\ (FoundAll /\ OneActive /\ \A d \in Engines : d = e) => FoundAll' /\ OneActive'
<1>1. CASE published[writing[e].alert].match.compound
  <2>1. UNCHANGED store /\ faults' \in [FaultKinds -> Nat]
    BY <1>1 DEF WriteCommit, IInv, TypeOK
  <2>2. IInv' /\ (FoundAll => FoundAll')
    BY <2>1, WriteGivenUp DEF WriteCommit, consumer
  <2>3. OneActive => OneActive'
    BY <2>1 DEF OneActive, EngineCases, ActiveCases, store
  <2> QED
    BY <2>2, <2>3
<1> QED
  BY <1>1, WriteRowInv

(* An analyst touches cases: those on record keep player and source, and   *)
(* none of the engine becomes active.                                      *)
LEMMA AnalystInv ==
  ASSUME IInv, UNCHANGED <<consumer, pc, cur, published, queue, writing, rows, link, timeline, risk, band>>,
         faults' \in [FaultKinds -> Nat], cases' \in Seq(Case), 1..Len(cases) \subseteq 1..Len(cases'),
         \A x \in 1..Len(cases) : /\ cases'[x].player = cases[x].player
                                  /\ cases'[x].source = cases[x].source
                                  /\ cases'[x].active /\ ~cases'[x].byHand =>
                                       cases[x].active /\ ~cases[x].byHand,
         \A x \in 1..Len(cases') : x \notin 1..Len(cases) => cases'[x].source = None /\ cases'[x].byHand
  PROVE  /\ IInv' /\ (FoundAll => FoundAll') /\ (OneActive => OneActive')
<1>1. TypeOK'
  BY DEF IInv, TypeOK, Ids, Case, consumer
<1>2. CasesJustified'
  <2>1. \A a \in rows : link[a] # None => link[a] \in 1..Len(cases)
    BY DEF IInv, TypeOK
  <2> QED
    BY <2>1 DEF IInv, CasesJustified, WantsCase
<1>3. RiskCoversAlerts'
  BY DEF IInv, RiskCoversAlerts
<1>4. ASSUME NEW e \in Engines
      PROVE  HandSound(e)' /\ QueueSound(e)' /\ WriterSound(e)'
  <2>1. HandSound(e) /\ QueueSound(e) /\ WriterSound(e)
    BY DEF IInv
  <2>2. HandSound(e)' /\ QueueSound(e)'
    BY <2>1 DEF HandSound, QueueSound, Own, Queued, Ids
  <2>3. WriterSound(e)'
    BY <2>1 DEF WriterSound, Own, Queued, Ids, WantsCase
  <2> QED
    BY <2>2, <2>3
<1>5. \A y : EngineCases(y)' \subseteq EngineCases(y)
  BY DEF EngineCases, ActiveCases
<1>6. FoundAll => FoundAll'
  BY <1>5 DEF FoundAll, WantsCase
<1>7. OneActive => OneActive'
  BY <1>5 DEF OneActive
<1> QED
  BY <1>1, <1>2, <1>3, <1>4, <1>6, <1>7 DEF IInv

(* An analyst closes or reopens a case.                                    *)
LEMMA CloseCaseInv ==
  ASSUME IInv, NEW c \in 1..Len(cases), CloseCase(c) \/ ReopenCase(c)
  PROVE  /\ IInv' /\ (FoundAll => FoundAll') /\ (OneActive => OneActive')
<1>1. cases \in Seq(Case) /\ cases[c] \in Case
  BY ElementOfSeq DEF IInv, TypeOK
<1>2. PICK k \in Case : /\ cases' = [cases EXCEPT ![c] = k]
                        /\ k.player = cases[c].player /\ k.source = cases[c].source
                        /\ ~k.active \/ k.byHand
  <2>1. CASE CloseCase(c)
    <3>1. PICK k : k = [cases[c] EXCEPT !.active = FALSE]
      OBVIOUS
    <3>2. k \in Case /\ k.player = cases[c].player /\ k.source = cases[c].source /\ ~k.active
      BY <1>1, <3>1 DEF Case
    <3> QED
      BY <2>1, <3>1, <3>2 DEF CloseCase
  <2>2. CASE ReopenCase(c)
    <3>1. PICK k : k = [[cases[c] EXCEPT !.active = TRUE] EXCEPT !.byHand = TRUE]
      OBVIOUS
    <3>2. k \in Case /\ k.player = cases[c].player /\ k.source = cases[c].source /\ k.byHand
      BY <1>1, <3>1 DEF Case
    <3>3. cases' = [cases EXCEPT ![c] = k]
      BY <1>1, <2>2, <3>1 DEF ReopenCase, Case
    <3> QED
      BY <3>2, <3>3
  <2> QED
    BY <2>1, <2>2
<1>3. cases' \in Seq(Case) /\ Len(cases') = Len(cases)
  BY <1>1, <1>2, ExceptSeq
<1>4. \A x \in 1..Len(cases) : cases'[x] = IF x = c THEN k ELSE cases[x]
  BY <1>1, <1>2
<1>5. faults' \in [FaultKinds -> Nat]
  BY FaultType DEF CloseCase, ReopenCase, IInv, TypeOK, FaultKinds
<1>6. UNCHANGED <<consumer, pc, cur, published, queue, writing, rows, link, timeline, risk, band>>
  BY DEF CloseCase, ReopenCase
<1> QED
  BY <1>2, <1>3, <1>4, <1>5, <1>6, AnalystInv

(* An analyst opens a case.                                                *)
LEMMA OpenCaseInv ==
  ASSUME IInv, NEW y \in Players, OpenCase(y)
  PROVE  /\ IInv' /\ (FoundAll => FoundAll') /\ (OneActive => OneActive')
<1>1. PICK k : k = [player |-> y, active |-> TRUE, source |-> None, byHand |-> TRUE]
  OBVIOUS
<1>2. k \in Case /\ k.source = None /\ k.byHand
  BY <1>1 DEF Case
<1>3. cases' = Append(cases, k) /\ cases \in Seq(Case)
  BY <1>1 DEF OpenCase, IInv, TypeOK
<1>4. /\ cases' \in Seq(Case) /\ 1..Len(cases') = (1..Len(cases)) \cup {Len(cases) + 1}
      /\ \A x \in 1..Len(cases) : cases'[x] = cases[x]
      /\ cases'[Len(cases) + 1] = k
  BY <1>2, <1>3, AppendShape
<1>5. faults' \in [FaultKinds -> Nat]
  BY FaultType DEF OpenCase, IInv, TypeOK, FaultKinds
<1> QED
  BY <1>2, <1>4, <1>5, AnalystInv DEF OpenCase

(* Every step preserves the invariant.                                     *)
LEMMA NextInv == IInv /\ [Next]_vars => IInv'
<1> SUFFICES ASSUME IInv, [Next]_vars PROVE IInv'
  OBVIOUS
<1>1. ASSUME NEW e \in Engines, Consumer(e) PROVE IInv'
  BY <1>1, FetchInv, PublishInv, PublishFailsInv, EnqueueInv DEF Consumer
<1>2. ASSUME NEW e \in Engines, Writer(e) PROVE IInv'
  BY <1>2, WriteBeginInv, WriteCommitInv, WriteFailsInv DEF Writer
<1>3. CASE UNCHANGED vars
  <2>1. TypeOK'
    BY <1>3 DEF IInv, TypeOK, vars, consumer, store, Ids, Case
  <2> QED
    BY <1>3, <2>1, OffsetsInv DEF vars
<1> QED
  BY <1>1, <1>2, <1>3, AutoCommitInv, CrashInv, RestartInv, AssignInv, CloseCaseInv, OpenCaseInv DEF Next, Drained

(* With one engine, every step keeps a player to one active case.          *)
LEMMA NextOneActive ==
  ASSUME \A d, e \in Engines : d = e, IInv, FoundAll, OneActive, [Next]_vars
  PROVE  FoundAll' /\ OneActive'
<1>1. ASSUME UNCHANGED <<published, cases>>,
             \A e \in Engines : writing'[e] = writing[e] \/ writing'[e] = None
      PROVE  FoundAll' /\ OneActive'
  BY <1>1 DEF FoundAll, OneActive, EngineCases, ActiveCases, WantsCase
<1>2. ASSUME UNCHANGED cases PROVE OneActive'
  BY <1>2 DEF OneActive, EngineCases, ActiveCases
<1>3. ASSUME NEW e \in Engines, Publish(e) PROVE FoundAll' /\ OneActive'
  <2>1. cases' = cases /\ writing' = writing
    BY <1>3 DEF Publish, store
  <2>2. \A a \in Ids : published'[a] = published[a]
    BY <1>3, AppendProperties, LenProperties DEF Publish, IInv, TypeOK, Ids
  <2>3. \A d \in Engines : writing[d] # None => writing[d].alert \in Ids
    BY DEF IInv, TypeOK
  <2>4. FoundAll'
    BY <2>1, <2>2, <2>3 DEF FoundAll, EngineCases, ActiveCases, WantsCase
  <2> QED
    BY <1>2, <2>1, <2>4
<1>4. ASSUME NEW e \in Engines, WriteBegin(e) PROVE FoundAll' /\ OneActive'
  BY <1>2, <1>4, WriteBeginInv DEF WriteBegin, store
<1>5. ASSUME NEW e \in Engines, WriteCommit(e) PROVE FoundAll' /\ OneActive'
  BY <1>5, WriteCommitInv
<1>6. ASSUME NEW e \in Engines, WriteFails(e) PROVE FoundAll' /\ OneActive'
  BY <1>2, <1>6, WriteFailsInv DEF WriteFails, store
<1>7. ASSUME NEW e \in Engines, Crash(e) PROVE FoundAll' /\ OneActive'
  BY <1>1, <1>7 DEF Crash, store, IInv
<1>8. ASSUME NEW e \in Engines, NEW p \in Partitions,
             \/ Fetch(e, p) \/ PublishFails(e) \/ Enqueue(e) \/ AutoCommit(e) \/ Restart(e) \/ Assign(e, p)
      PROVE  FoundAll' /\ OneActive'
  BY <1>1, <1>8 DEF Fetch, PublishFails, Enqueue, AutoCommit, Restart, Assign, store
<1>9. ASSUME NEW e \in Engines, PublishFails(e) \/ Enqueue(e) \/ AutoCommit(e) \/ Restart(e)
      PROVE  FoundAll' /\ OneActive'
  BY <1>1, <1>9 DEF PublishFails, Enqueue, AutoCommit, Restart, store
<1>10. CASE UNCHANGED vars
  BY <1>1, <1>10 DEF vars, store
<1> QED
  BY <1>3, <1>4, <1>5, <1>6, <1>7, <1>8, <1>9, <1>10, CloseCaseInv, OpenCaseInv DEF Next, Drained, Consumer, Writer

-----------------------------------------------------------------------------
(* Whatever crashes, failed sends, failed transactions and rebalances      *)
(* happen, the tables that all replicas write agree with each other and    *)
(* with the queues: an alert waits in at most one queue, once, without a   *)
(* row, and an alert that wants a case has one of its player.              *)
THEOREM TablesAgree == Spec => [](TypeOK /\ QueueFresh /\ CasesJustified)
<1>1. IInv => TypeOK /\ QueueFresh /\ CasesJustified
  BY DEF IInv, QueueSound, QueueFresh, Own
<1>2. Init => IInv
  BY InitInv
<1> QED
  BY <1>1, <1>2, NextInv, PTL DEF Spec

(* A player's risk is that of the worst alert on record, and the band that *)
(* of the risk, in whichever order the replicas write the alerts.          *)
THEOREM RiskIsCovered == Spec => []RiskCoversAlerts
<1>1. IInv => RiskCoversAlerts
  BY DEF IInv
<1>2. Init => IInv
  BY InitInv
<1> QED
  BY <1>1, <1>2, NextInv, PTL DEF Spec

(* One engine is enough for a player never to have two active cases but    *)
(* for those that analysts opened or reopened: its writer makes one        *)
(* transaction at a time, so no other writer opens a case between its look *)
(* for one and its commit.  Two replicas may do just that.                 *)
THEOREM OneWriterOneCase ==
  ASSUME \A d, e \in Engines : d = e
  PROVE  Spec => []OneActiveCase
<1> DEFINE I == IInv /\ FoundAll /\ OneActive
<1>1. I => OneActiveCase
  <2> SUFFICES ASSUME I, NEW y \in Players PROVE Cardinality(EngineCases(y)) <= 1
    BY DEF OneActiveCase
  <2>1. \A c, d \in EngineCases(y) : c = d
    BY DEF OneActive
  <2>2. CASE EngineCases(y) = {}
    BY <2>2, FS_EmptySet
  <2>3. ASSUME NEW c \in EngineCases(y) PROVE Cardinality(EngineCases(y)) <= 1
    <3>1. EngineCases(y) = {c}
      BY <2>1
    <3> QED
      BY <3>1, FS_Singleton
  <2> QED
    BY <2>2, <2>3
<1>2. Init => I
  BY InitInv
<1>3. I /\ [Next]_vars => I'
  BY NextInv, NextOneActive
<1> HIDE DEF I
<1> QED
  BY <1>1, <1>2, <1>3, PTL DEF Spec

-----------------------------------------------------------------------------
(* The handover of alerts to Postgres.  A compound alert never has a row.  *)
RowsStorable == rows \subseteq Storable

HInv == IInv /\ RowsStorable

(* What a process has on the way is what its hand, its queue and its       *)
(* transaction hold.                                                       *)
LEMMA WayIs ==
  ASSUME IInv, NEW e \in Engines
  PROVE  OnTheWay(e) = {a \in {cur[e].alert} : pc[e] = "enqueue"}
                         \cup {queue[e][i] : i \in 1..Len(queue[e])}
                         \cup {a \in {writing[e].alert} : writing[e] # None}
<1>1. pc[e] = "enqueue" => cur[e].alert \in Ids
  BY DEF IInv, TypeOK
<1>2. \A i \in 1..Len(queue[e]) : queue[e][i] \in Ids
  BY DEF IInv, QueueSound, Own
<1>3. writing[e] # None => writing[e].alert \in Ids
  BY DEF IInv, TypeOK
<1> QED
  BY <1>1, <1>2, <1>3 DEF OnTheWay

(* Sets of one element at most, and of a sum of elements.                  *)
LEMMA SmallSet ==
  ASSUME NEW x, NEW T \in SUBSET {x}
  PROVE  IsFiniteSet(T) /\ Cardinality(T) <= 1
<1>1. IsFiniteSet({x}) /\ Cardinality({x}) = 1
  BY FS_Singleton
<1>2. IsFiniteSet(T) /\ Cardinality(T) <= Cardinality({x})
  BY <1>1, FS_Subset
<1> QED
  BY <1>1, <1>2

LEMMA UnionSize ==
  ASSUME NEW S, NEW T, IsFiniteSet(S), IsFiniteSet(T), NEW m \in Nat, NEW n \in Nat,
         Cardinality(S) <= m, Cardinality(T) <= n
  PROVE  IsFiniteSet(S \cup T) /\ Cardinality(S \cup T) <= m + n
<1>1. Cardinality(S) \in Nat /\ Cardinality(T) \in Nat
  BY FS_CardinalityType
<1>2. Cardinality(S \cap T) \in Nat
  <2>1. IsFiniteSet(S \cap T)
    BY FS_Intersection
  <2> QED
    BY <2>1, FS_CardinalityType
<1>3. /\ IsFiniteSet(S \cup T)
      /\ Cardinality(S \cup T) = Cardinality(S) + Cardinality(T) - Cardinality(S \cap T)
  BY FS_Union
<1> QED
  BY <1>1, <1>2, <1>3

(* The elements of a sequence are no more than its length.                 *)
LEMMA ElementsSize ==
  ASSUME NEW S, NEW q \in Seq(S), NEW n \in Nat, Len(q) <= n
  PROVE  /\ IsFiniteSet({q[i] : i \in 1..Len(q)})
         /\ Cardinality({q[i] : i \in 1..Len(q)}) <= n
<1> DEFINE D == 1..Len(q)
           Q == {q[i] : i \in 1..Len(q)}
           f == [i \in D |-> q[i]]
<1>1. Len(q) \in Nat
  BY LenProperties
<1>2. IsFiniteSet(D) /\ Cardinality(D) = Len(q)
  <2>1. ASSUME NEW m \in Nat PROVE IsFiniteSet(1..m) /\ Cardinality(1..m) = m
    <3>1. IsFiniteSet(1..m) /\ Cardinality(1..m) = IF 1 > m THEN 0 ELSE m - 1 + 1
      BY FS_Interval
    <3> QED
      BY <3>1
  <2> QED
    BY <1>1, <2>1
<1>3. f \in Surjection(D, Q)
  BY DEF Surjection
<1> HIDE DEF D, Q, f
<1>4. IsFiniteSet(Q) /\ Cardinality(Q) <= Cardinality(D)
  BY <1>2, <1>3, FS_Surjection
<1>5. Cardinality(Q) \in Nat
  BY <1>4, FS_CardinalityType
<1>6. IsFiniteSet(Q) /\ Cardinality(Q) <= n
  BY <1>1, <1>2, <1>4, <1>5
<1> QED
  BY <1>6 DEF Q

(* It is no more than there is room for.                                   *)
LEMMA WayFits ==
  ASSUME IInv, NEW e \in Engines
  PROVE  IsFiniteSet(OnTheWay(e)) /\ Cardinality(OnTheWay(e)) <= QueueSize + 2
<1> DEFINE H == {a \in {cur[e].alert} : pc[e] = "enqueue"}
           Q == {queue[e][i] : i \in 1..Len(queue[e])}
           W == {a \in {writing[e].alert} : writing[e] # None}
<1>1. IsFiniteSet(H) /\ Cardinality(H) <= 1
  <2>1. H \in SUBSET {cur[e].alert}
    OBVIOUS
  <2> HIDE DEF H
  <2> QED
    BY <2>1, SmallSet
<1>2. IsFiniteSet(W) /\ Cardinality(W) <= 1
  <2>1. W \in SUBSET {writing[e].alert}
    OBVIOUS
  <2> HIDE DEF W
  <2> QED
    BY <2>1, SmallSet
<1>3. IsFiniteSet(Q) /\ Cardinality(Q) <= QueueSize
  <2>1. queue[e] \in Seq(Ids) /\ Len(queue[e]) <= QueueSize /\ QueueSize \in Nat
    BY EngineAssumption DEF IInv, TypeOK, QueueSound
  <2> QED
    BY <2>1, ElementsSize
<1>4. OnTheWay(e) = H \cup Q \cup W
  BY WayIs
<1> HIDE DEF H, Q, W
<1>5. IsFiniteSet(H \cup Q) /\ Cardinality(H \cup Q) <= 1 + QueueSize
  BY <1>1, <1>3, UnionSize, EngineAssumption
<1>6. IsFiniteSet((H \cup Q) \cup W) /\ Cardinality((H \cup Q) \cup W) <= (1 + QueueSize) + 1
  <2>1. 1 + QueueSize \in Nat /\ 1 \in Nat
    BY EngineAssumption
  <2> HIDE DEF OnTheWay
  <2> QED
    BY <1>2, <1>5, <2>1, UnionSize
<1>7. Cardinality((H \cup Q) \cup W) \in Nat /\ (1 + QueueSize) + 1 = QueueSize + 2
  BY <1>6, FS_CardinalityType, EngineAssumption
<1> QED
  BY <1>4, <1>6, <1>7

(* A process that a step leaves alone has the same on its way.             *)
LEMMA WayKept ==
  ASSUME IInv, NEW d \in Engines, Ids \subseteq Ids',
         pc'[d] = pc[d], cur'[d] = cur[d], queue'[d] = queue[d], writing'[d] = writing[d]
  PROVE  OnTheWay(d)' = OnTheWay(d)
<1>1. pc[d] = "enqueue" => cur[d].alert \in Ids
  BY DEF IInv, TypeOK
<1>2. \A i \in 1..Len(queue[d]) : queue[d][i] \in Ids
  BY DEF IInv, QueueSound, Own
<1>3. writing[d] # None => writing[d].alert \in Ids
  BY DEF IInv, TypeOK
<1> QED
  BY <1>1, <1>2, <1>3 DEF OnTheWay

(* Finite sets are the same everywhere.                                    *)
LEMMA SameSize == \A S : /\ Delivery!IsFiniteSet(S) <=> IsFiniteSet(S)
                         /\ Delivery!Cardinality(S) = Cardinality(S)
BY DEF Delivery!IsFiniteSet, IsFiniteSet, Delivery!Cardinality, Cardinality

(* A step that keeps what may have a row, the rows and what is on the way  *)
(* is none of the handover.                                                *)
LEMMA HandoverRests ==
  ASSUME Storable' = Storable, rows' = rows, \A d \in Engines : OnTheWay(d)' = OnTheWay(d),
         faults'["crash"] = faults["crash"], faults'["write"] = faults["write"]
  PROVE  UNCHANGED Delivery!handover
<1>1. Lost' = Lost
  BY DEF Lost
<1> QED
  BY <1>1 DEF Delivery!handover

(* What a process had on the way and has no longer is lost, and no more.   *)
LEMMA WayLeft ==
  ASSUME Storable' = Storable, rows' = rows, NEW e \in Engines, NEW G,
         OnTheWay(e)' = OnTheWay(e) \ G, G \subseteq OnTheWay(e),
         \A d \in Engines \ {e} : OnTheWay(d)' = OnTheWay(d),
         NEW n \in Nat, IsFiniteSet(G), Cardinality(G) <= n
  PROVE  Delivery!Lose(n)
<1>1. Lost \subseteq Lost'
  BY DEF Lost
<1>2. Lost' \ Lost \subseteq Storable \ (rows \cup Lost)
  BY DEF Lost
<1>3. Lost' \ Lost \in SUBSET G
  BY DEF Lost
<1> DEFINE X == Lost' \ Lost
<1>4. X \in SUBSET G
  BY <1>3
<1> HIDE DEF X
<1>5. IsFiniteSet(X) /\ Cardinality(X) <= Cardinality(G)
  BY <1>4, FS_Subset
<1>6. Cardinality(X) \in Nat /\ Cardinality(G) \in Nat
  BY <1>5, FS_CardinalityType
<1>7. Cardinality(X) <= n
  BY <1>5, <1>6
<1> QED
  BY <1>1, <1>2, <1>5, <1>7, SameSize DEF Delivery!Lose, Delivery!UnderWay, X

(* A step of one process that publishes, writes and loses nothing.         *)
LEMMA HandoverKept ==
  ASSUME IInv, published' = published, rows' = rows,
         \A d \in Engines : OnTheWay(d)' = OnTheWay(d),
         faults'["crash"] = faults["crash"], faults'["write"] = faults["write"]
  PROVE  UNCHANGED Delivery!handover
<1>1. Storable' = Storable
  BY DEF Storable, Ids
<1> QED
  BY <1>1, HandoverRests

(* The steps that leave the way of the alerts alone.                       *)
LEMMA AsideHandover ==
  ASSUME IInv,
         \/ \E e \in Engines : \/ (\E p \in Partitions : Fetch(e, p) \/ Assign(e, p))
                               \/ PublishFails(e) \/ AutoCommit(e) \/ Restart(e)
         \/ \E c \in 1..Len(cases) : CloseCase(c) \/ ReopenCase(c)
         \/ \E y \in Players : OpenCase(y)
         \/ UNCHANGED vars
  PROVE  UNCHANGED Delivery!handover
<1>1. /\ published' = published /\ rows' = rows /\ queue' = queue /\ writing' = writing
      /\ \A d \in Engines : pc'[d] = "enqueue" <=> pc[d] = "enqueue"
      /\ \A d \in Engines : pc[d] = "enqueue" => cur'[d] = cur[d]
  <2>1. ASSUME NEW e \in Engines, NEW p \in Partitions, Fetch(e, p)
        PROVE  /\ \A d \in Engines : pc'[d] = "enqueue" <=> pc[d] = "enqueue"
               /\ \A d \in Engines : pc[d] = "enqueue" => cur'[d] = cur[d]
    <3>1. /\ pc[e] = "idle"
          /\ \/ UNCHANGED <<pc, cur>>
             \/ /\ pc' = [pc EXCEPT ![e] = "publish"]
                /\ \E x : cur' = [cur EXCEPT ![e] = x]
      BY <2>1 DEF Fetch
    <3>2. CASE UNCHANGED <<pc, cur>>
      BY <3>2
    <3>3. ASSUME NEW x, pc' = [pc EXCEPT ![e] = "publish"], cur' = [cur EXCEPT ![e] = x]
          PROVE  /\ \A d \in Engines : pc'[d] = "enqueue" <=> pc[d] = "enqueue"
                 /\ \A d \in Engines : pc[d] = "enqueue" => cur'[d] = cur[d]
      <4>1. pc \in [Engines -> {"down", "idle", "publish", "enqueue"}] /\ DOMAIN cur = Engines
        BY DEF IInv, TypeOK
      <4>2. /\ pc'[e] = "publish"
            /\ \A d \in Engines \ {e} : pc'[d] = pc[d] /\ cur'[d] = cur[d]
        BY <3>3, <4>1
      <4> QED
        BY <3>1, <4>2
    <3> QED
      BY <3>1, <3>2, <3>3
  <2>2. ASSUME NEW e \in Engines, PublishFails(e) \/ Restart(e)
        PROVE  /\ \A d \in Engines : pc'[d] = "enqueue" <=> pc[d] = "enqueue"
               /\ \A d \in Engines : pc[d] = "enqueue" => cur'[d] = cur[d]
    BY <2>2 DEF PublishFails, Continue, Restart, IInv, TypeOK
  <2>3. published' = published /\ rows' = rows /\ queue' = queue /\ writing' = writing
    BY DEF Fetch, Assign, PublishFails, AutoCommit, Restart, CloseCase, ReopenCase, OpenCase, vars, store
  <2> QED
    BY <2>1, <2>2, <2>3 DEF Assign, AutoCommit, CloseCase, ReopenCase, OpenCase, vars
<1>2. faults'["crash"] = faults["crash"] /\ faults'["write"] = faults["write"]
  BY DEF Fetch, Assign, PublishFails, AutoCommit, Restart, CloseCase, ReopenCase, OpenCase,
         vars, Fault, FaultKinds, IInv, TypeOK
<1>3. \A d \in Engines : OnTheWay(d)' = OnTheWay(d)
  BY <1>1 DEF OnTheWay, Ids
<1> QED
  BY <1>1, <1>2, <1>3, HandoverKept

(* publish_alert, first half: an alert is given, and is on its way.        *)
LEMMA PublishHandover ==
  ASSUME IInv, IInv', RowsStorable, NEW e \in Engines, Publish(e)
  PROVE  Delivery!Give
<1> DEFINE n == Len(published) + 1
<1>0. PICK h : h = [event |-> cur[e].event, left |-> Tail(cur[e].left), alert |-> n]
  OBVIOUS
<1>1. /\ pc[e] = "publish" /\ \E x : published' = Append(published, x)
      /\ pc' = [pc EXCEPT ![e] = "enqueue"] /\ cur' = [cur EXCEPT ![e] = h]
      /\ queue' = queue /\ writing' = writing /\ rows' = rows /\ faults' = faults
  BY <1>0 DEF Publish, store
<1>2. cur' = [cur EXCEPT ![e] = h] /\ h.alert = n
  BY <1>0, <1>1
<1>3. Ids' = Ids \cup {n} /\ n \notin Ids /\ \A a \in Ids : published'[a] = published[a]
  <2>1. PICK x : published' = Append(published, x)
    BY <1>1
  <2>2. published \in Seq(Alert) /\ Len(published) \in Nat
    BY LenProperties DEF IInv, TypeOK
  <2>3. Len(published') = n
    BY <2>1, <2>2
  <2> QED
    BY <2>1, <2>2, <2>3 DEF Ids
<1> HIDE DEF n
<1>4. Storable \subseteq Storable' /\ Storable' \subseteq Storable \cup {n}
  BY <1>3 DEF Storable
<1>5. pc'[e] = "enqueue" /\ cur'[e].alert = n
  BY <1>1, <1>2 DEF IInv, TypeOK
<1>6. n \in OnTheWay(e)'
  BY <1>3, <1>5 DEF OnTheWay
<1>7. ASSUME NEW a \in Ids, NEW d \in Engines
      PROVE  a \in OnTheWay(d)' <=> a \in OnTheWay(d)
  <2>1. CASE d = e
    BY <1>1, <1>3, <1>5, <1>7, <2>1 DEF OnTheWay
  <2>2. CASE d # e
    <3>1. OnTheWay(d)' = OnTheWay(d)
      <4>1. /\ pc'[d] = pc[d] /\ cur'[d] = cur[d] /\ queue'[d] = queue[d] /\ writing'[d] = writing[d]
        BY <1>1, <1>2, <2>2 DEF IInv, TypeOK
      <4> QED
        BY <1>3, <4>1, WayKept
    <3> QED
      BY <3>1
  <2> QED
    BY <2>1, <2>2
<1>8. Lost' = Lost
  <2>1. \A a \in Ids : a \in Storable' <=> a \in Storable
    BY <1>3 DEF Storable
  <2>2. Storable \subseteq Ids /\ Storable' \subseteq Ids \cup {n}
    BY <1>3 DEF Storable
  <2> QED
    BY <1>1, <1>6, <1>7, <2>1, <2>2 DEF Lost
<1> QED
  BY <1>1, <1>4, <1>8 DEF Delivery!Give

(* From the hand to the queue and from the queue to the writer an alert    *)
(* stays on its way.                                                       *)
LEMMA EnqueueHandover ==
  ASSUME IInv, NEW e \in Engines, Enqueue(e)
  PROVE  UNCHANGED Delivery!handover
<1> DEFINE a == cur[e].alert
           q == Append(queue[e], a)
<1>1. /\ pc[e] = "enqueue" /\ queue' = [queue EXCEPT ![e] = q]
      /\ Continue(e, cur[e].left) /\ published' = published /\ writing' = writing
      /\ rows' = rows /\ faults' = faults /\ Ids' = Ids
  BY DEF Enqueue, store, Ids
<1>2. cur[e].left \in Seq(Match) /\ a \in Ids /\ queue[e] \in Seq(Ids)
  BY <1>1 DEF IInv, TypeOK
<1>3. /\ \A d \in Engines \ {e} : pc'[d] = pc[d] /\ cur'[d] = cur[d]
      /\ pc'[e] \in {"idle", "publish"}
  BY <1>1, <1>2, ContinueEffect
<1>4. /\ 1..Len(q) = (1..Len(queue[e])) \cup {Len(queue[e]) + 1}
      /\ \A i \in 1..Len(queue[e]) : q[i] = queue[e][i]
      /\ q[Len(queue[e]) + 1] = a
  BY <1>2, AppendShape
<1> HIDE DEF a, q
<1>5. queue'[e] = q /\ \A d \in Engines \ {e} : queue'[d] = queue[d]
  BY <1>1 DEF IInv, TypeOK
<1>6. OnTheWay(e)' = OnTheWay(e)
  BY <1>1, <1>3, <1>4, <1>5 DEF OnTheWay, a
<1>7. \A d \in Engines \ {e} : OnTheWay(d)' = OnTheWay(d)
  BY <1>1, <1>3, <1>5, WayKept
<1> QED
  BY <1>1, <1>6, <1>7, HandoverKept

LEMMA WriteBeginHandover ==
  ASSUME IInv, NEW e \in Engines, WriteBegin(e)
  PROVE  UNCHANGED Delivery!handover
<1> DEFINE a == Head(queue[e])
           q == Tail(queue[e])
<1>1. PICK w : w = [alert |-> a, found |-> FindCase(a)]
  OBVIOUS
<1>2. /\ writing[e] = None /\ queue[e] # <<>> /\ queue' = [queue EXCEPT ![e] = q]
      /\ writing' = [writing EXCEPT ![e] = w] /\ pc' = pc /\ cur' = cur
      /\ published' = published /\ rows' = rows /\ faults' = faults /\ Ids' = Ids
  BY <1>1 DEF WriteBegin, store, Ids
<1>3. queue[e] \in Seq(Ids)
  BY DEF IInv, TypeOK
<1>4. /\ a \in Ids /\ a = queue[e][1] /\ Len(queue[e]) \in Nat \ {0}
      /\ Len(q) = Len(queue[e]) - 1 /\ \A i \in 1..Len(q) : q[i] = queue[e][i + 1]
  BY <1>2, <1>3, HeadTailProperties, LenProperties
<1> HIDE DEF a, q
<1>5. /\ queue'[e] = q /\ \A d \in Engines \ {e} : queue'[d] = queue[d]
      /\ writing'[e] = w /\ \A d \in Engines \ {e} : writing'[d] = writing[d]
  BY <1>2 DEF IInv, TypeOK
<1>6. w # None /\ w.alert = a
  <2>1. FindCase(a) \in Nat \cup {None} /\ a \in Nat
    <3>1. Len(cases) \in Nat /\ Len(published) \in Nat
      BY LenProperties DEF IInv, TypeOK
    <3>2. FindCase(a) \in 1..Len(cases) \/ FindCase(a) = None
      BY <1>4, FindCaseFinds
    <3> QED
      BY <1>4, <3>1, <3>2 DEF Ids
  <2> QED
    BY <1>1, <2>1, EngineAssumption DEF Transaction
<1>7. ASSUME NEW x
      PROVE  (\E i \in 1..Len(queue[e]) : queue[e][i] = x)
               <=> (x = a \/ \E i \in 1..Len(q) : q[i] = x)
  <2>1. \A i \in 1..Len(queue[e]) : i = 1 \/ (i - 1 \in 1..Len(q) /\ q[i - 1] = queue[e][i])
    BY <1>4
  <2>2. 1 \in 1..Len(queue[e]) /\ \A i \in 1..Len(q) : i + 1 \in 1..Len(queue[e])
    BY <1>4
  <2> QED
    BY <1>4, <2>1, <2>2
<1>8. OnTheWay(e)' = OnTheWay(e)
  <2>1. ASSUME NEW x \in Ids
        PROVE  /\ (\E i \in 1..Len(queue'[e]) : queue'[e][i] = x) <=> (\E i \in 1..Len(q) : q[i] = x)
               /\ writing'[e] # None /\ writing'[e].alert = x <=> x = a
    BY <1>5, <1>6
  <2>2. ASSUME NEW x \in Ids PROVE x \in OnTheWay(e)' <=> x \in OnTheWay(e)
    BY <1>2, <1>7, <2>1 DEF OnTheWay
  <2> QED
    BY <1>2, <2>2 DEF OnTheWay
<1>9. \A d \in Engines \ {e} : OnTheWay(d)' = OnTheWay(d)
  BY <1>2, <1>5, WayKept
<1> QED
  BY <1>2, <1>8, <1>9, HandoverKept

(* The transaction ends: the alert is kept, or a compound one is gone.     *)
LEMMA WriteEnds ==
  ASSUME IInv, NEW e \in Engines, writing[e] # None, writing' = [writing EXCEPT ![e] = None],
         pc' = pc, cur' = cur, queue' = queue, published' = published
  PROVE  /\ Ids' = Ids /\ Storable' = Storable
         /\ writing[e].alert \in OnTheWay(e) /\ writing[e].alert \notin rows
         /\ OnTheWay(e)' = OnTheWay(e) \ {writing[e].alert}
         /\ \A d \in Engines \ {e} : OnTheWay(d)' = OnTheWay(d)
<1> DEFINE a == writing[e].alert
<1>1. Ids' = Ids /\ Storable' = Storable
  BY DEF Ids, Storable
<1>2. /\ a \in Ids /\ a \notin rows /\ \A i \in 1..Len(queue[e]) : queue[e][i] # a
      /\ pc[e] = "enqueue" => cur[e].alert # a
  BY DEF IInv, WriterSound, Own, Queued
<1> HIDE DEF a
<1>3. writing'[e] = None /\ \A d \in Engines \ {e} : writing'[d] = writing[d]
  BY DEF IInv
<1>4. a \in OnTheWay(e)
  BY <1>2 DEF OnTheWay, a
<1>5. ASSUME NEW x \in Ids PROVE x \in OnTheWay(e)' <=> x \in OnTheWay(e) \ {a}
  BY <1>1, <1>2, <1>3 DEF OnTheWay, a
<1>6. OnTheWay(e)' = OnTheWay(e) \ {a}
  BY <1>1, <1>5 DEF OnTheWay
<1>7. \A d \in Engines \ {e} : OnTheWay(d)' = OnTheWay(d)
  BY <1>1, <1>3, WayKept
<1> QED
  BY <1>1, <1>2, <1>4, <1>6, <1>7 DEF a

LEMMA WriteCommitHandover ==
  ASSUME IInv, NEW e \in Engines, WriteCommit(e)
  PROVE  (\E i \in Storable : Delivery!Keep(i)) \/ UNCHANGED Delivery!handover
<1> DEFINE a == writing[e].alert
<1>1. /\ writing[e] # None /\ writing' = [writing EXCEPT ![e] = None]
      /\ pc' = pc /\ cur' = cur /\ queue' = queue /\ published' = published /\ faults' = faults
  BY DEF WriteCommit
<1>2. /\ Ids' = Ids /\ Storable' = Storable /\ a \in OnTheWay(e) /\ a \notin rows
      /\ OnTheWay(e)' = OnTheWay(e) \ {a}
      /\ \A d \in Engines \ {e} : OnTheWay(d)' = OnTheWay(d)
  BY <1>1, WriteEnds
<1>3. ASSUME NEW b \in Ids, b # a
      PROVE  (\E d \in Engines : b \in OnTheWay(d)') <=> (\E d \in Engines : b \in OnTheWay(d))
  <2>1. \A d \in Engines : b \in OnTheWay(d)' <=> b \in OnTheWay(d)
    BY <1>2, <1>3
  <2> QED
    BY <2>1
<1>4. a \notin Lost
  BY <1>2 DEF Lost
<1>5. CASE published[a].match.compound
  <2>1. rows' = rows
    BY <1>5 DEF WriteCommit, store
  <2>2. a \notin Storable
    BY <1>5 DEF Storable
  <2>3. Lost' = Lost
    BY <1>2, <1>3, <2>1, <2>2 DEF Lost, Storable
  <2> QED
    BY <1>1, <1>2, <2>1, <2>3 DEF Delivery!handover
<1>6. CASE ~ published[a].match.compound
  <2>1. rows' = rows \cup {a}
    BY <1>6 DEF WriteCommit
  <2>2. a \in Storable
    BY <1>2, <1>6 DEF Storable, OnTheWay
  <2>3. Lost' = Lost \ {a}
    BY <1>2, <1>3, <1>4, <2>1 DEF Lost, Storable
  <2>4. Delivery!Keep(a)
    BY <1>1, <1>2, <2>1, <2>2, <2>3 DEF Delivery!Keep
  <2> QED
    BY <2>2, <2>4
<1> QED
  BY <1>5, <1>6

(* The transaction fails: one alert is lost.                               *)
LEMMA WriteFailsHandover ==
  ASSUME IInv, NEW e \in Engines, WriteFails(e)
  PROVE  Delivery!Drop
<1> DEFINE a == writing[e].alert
<1>1. /\ writing[e] # None /\ writing' = [writing EXCEPT ![e] = None]
      /\ pc' = pc /\ cur' = cur /\ queue' = queue /\ published' = published /\ rows' = rows
  BY DEF WriteFails, store
<1>2. /\ Storable' = Storable /\ a \in OnTheWay(e)
      /\ OnTheWay(e)' = OnTheWay(e) \ {a}
      /\ \A d \in Engines \ {e} : OnTheWay(d)' = OnTheWay(d)
  BY <1>1, WriteEnds
<1>3. IsFiniteSet({a}) /\ Cardinality({a}) <= 1
  BY SmallSet
<1>4. {a} \subseteq OnTheWay(e)
  BY <1>2
<1> HIDE DEF a
<1>5. Delivery!Lose(1)
  BY <1>1, <1>2, <1>3, <1>4, WayLeft
<1>6. faults'["write"] = faults["write"] + 1 /\ faults'["crash"] = faults["crash"]
  BY DEF WriteFails, Fault, FaultKinds, IInv, TypeOK
<1> QED
  BY <1>5, <1>6 DEF Delivery!Drop

(* The process dies: what it had on the way is lost.                       *)
LEMMA CrashHandover ==
  ASSUME IInv, NEW e \in Engines, Crash(e)
  PROVE  Delivery!Crash
<1>1. /\ pc' = [pc EXCEPT ![e] = "down"] /\ cur' = [cur EXCEPT ![e] = None]
      /\ queue' = [queue EXCEPT ![e] = <<>>] /\ writing' = [writing EXCEPT ![e] = None]
      /\ published' = published /\ rows' = rows
  BY DEF Crash, store
<1>2. Storable' = Storable /\ Ids' = Ids
  BY <1>1 DEF Storable, Ids
<1>3. /\ pc'[e] = "down" /\ queue'[e] = <<>> /\ writing'[e] = None
      /\ \A d \in Engines \ {e} : /\ pc'[d] = pc[d] /\ cur'[d] = cur[d]
                                  /\ queue'[d] = queue[d] /\ writing'[d] = writing[d]
  BY <1>1 DEF IInv, TypeOK
<1>4. \A d \in Engines \ {e} : OnTheWay(d)' = OnTheWay(d)
  BY <1>2, <1>3, WayKept
<1>5. OnTheWay(e)' = {}
  BY <1>3 DEF OnTheWay
<1>6. IsFiniteSet(OnTheWay(e)) /\ Cardinality(OnTheWay(e)) <= QueueSize + 2 /\ QueueSize + 2 \in Nat
  BY WayFits, EngineAssumption
<1>7. OnTheWay(e)' = OnTheWay(e) \ OnTheWay(e)
  BY <1>5
<1>8. Delivery!Lose(QueueSize + 2)
  BY <1>1, <1>2, <1>4, <1>6, <1>7, WayLeft
<1>9. faults'["crash"] = faults["crash"] + 1 /\ faults'["write"] = faults["write"]
  BY DEF Crash, Fault, FaultKinds, IInv, TypeOK
<1> QED
  BY <1>8, <1>9 DEF Delivery!Crash

(* Every step keeps compound alerts without a row and is one of the        *)
(* handover, or none of it.                                                *)
LEMMA NextHandover ==
  ASSUME HInv, [Next]_vars
  PROVE  RowsStorable' /\ [Delivery!Next]_(Delivery!handover)
<1>1. IInv /\ RowsStorable /\ IInv'
  BY NextInv DEF HInv
<1>2. CASE \E e \in Engines : Publish(e)
  <2>1. PICK e \in Engines : Publish(e)
    BY <1>2
  <2>2. Delivery!Give
    BY <1>1, <2>1, PublishHandover
  <2>3. rows' = rows
    BY <2>1 DEF Publish, store
  <2> QED
    BY <1>1, <2>2, <2>3 DEF RowsStorable, Delivery!Give, Delivery!Next
<1>3. CASE \E e \in Engines : WriteCommit(e)
  <2>1. PICK e \in Engines : WriteCommit(e)
    BY <1>3
  <2>2. (\E i \in Storable : Delivery!Keep(i)) \/ UNCHANGED Delivery!handover
    BY <1>1, <2>1, WriteCommitHandover
  <2>3. RowsStorable'
    BY <1>1, <2>2 DEF RowsStorable, Delivery!Keep, Delivery!handover
  <2> QED
    BY <2>2, <2>3 DEF Delivery!Next
<1>4. CASE \E e \in Engines : WriteFails(e) \/ Crash(e)
  <2>1. Delivery!Drop \/ Delivery!Crash
    BY <1>1, <1>4, WriteFailsHandover, CrashHandover
  <2> QED
    BY <1>1, <2>1 DEF RowsStorable, Delivery!Drop, Delivery!Crash, Delivery!Lose, Delivery!Next
<1>5. CASE \/ \E e \in Engines : Enqueue(e) \/ WriteBegin(e)
           \/ \E e \in Engines : \/ (\E p \in Partitions : Fetch(e, p) \/ Assign(e, p))
                                 \/ PublishFails(e) \/ AutoCommit(e) \/ Restart(e)
           \/ \E c \in 1..Len(cases) : CloseCase(c) \/ ReopenCase(c)
           \/ \E y \in Players : OpenCase(y)
           \/ UNCHANGED vars
  <2>1. UNCHANGED Delivery!handover
    BY <1>1, <1>5, EnqueueHandover, WriteBeginHandover, AsideHandover
  <2> QED
    BY <1>1, <2>1 DEF RowsStorable, Delivery!handover
<1> QED
  BY <1>2, <1>3, <1>4, <1>5 DEF Next, Consumer, Writer, Drained

(* In the beginning nothing was given, kept or lost.                       *)
LEMMA InitHandover == Init => HInv /\ Delivery!Init
<1> SUFFICES ASSUME Init PROVE HInv /\ Delivery!Init
  OBVIOUS
<1>1. IInv
  BY InitInv
<1>2. rows = {} /\ published = <<>> /\ faults["crash"] = 0 /\ faults["write"] = 0
  BY DEF Init, FaultKinds
<1>3. Storable = {}
  BY <1>2 DEF Storable, Ids
<1>4. Lost = {}
  BY <1>3 DEF Lost
<1> QED
  BY <1>1, <1>2, <1>3, <1>4 DEF HInv, RowsStorable, Delivery!Init

(* Seen without queues, replicas and transactions the engine hands alerts  *)
(* over to Postgres: an alert gets its row once, for good, or is lost with *)
(* the process that had it in memory or with its failed transaction.       *)
THEOREM HandsAlertsOver == Spec => ImplementsHandover
<1>1. Init => HInv /\ Delivery!Init
  BY InitHandover
<1>2. HInv /\ [Next]_vars => HInv' /\ [Delivery!Next]_(Delivery!handover)
  BY NextInv, NextHandover DEF HInv
<1> QED
  BY <1>1, <1>2, PTL DEF Spec, ImplementsHandover, Delivery!Spec

(* The handover bounds what is lost by what went wrong.                    *)
BInv == /\ IsFiniteSet(Lost) /\ Cardinality(Lost) <= (QueueSize + 2) * faults["crash"] + faults["write"]
        /\ faults["crash"] \in Nat /\ faults["write"] \in Nat

LEMMA LoseBounded ==
  ASSUME IsFiniteSet(Lost), NEW m \in Nat, Cardinality(Lost) <= m, NEW n \in Nat, Delivery!Lose(n)
  PROVE  IsFiniteSet(Lost') /\ Cardinality(Lost') <= m + n
<1> DEFINE X == Lost' \ Lost
<1>1. IsFiniteSet(X) /\ Cardinality(X) <= n /\ Lost' = Lost \cup X
  BY SameSize DEF Delivery!Lose
<1> HIDE DEF X
<1>2. IsFiniteSet(Lost \cup X) /\ Cardinality(Lost \cup X) <= m + n
  BY <1>1, UnionSize
<1> QED
  BY <1>1, <1>2

LEMMA NextBounded == BInv /\ [Delivery!Next]_(Delivery!handover) => BInv'
<1> SUFFICES ASSUME BInv, [Delivery!Next]_(Delivery!handover) PROVE BInv'
  OBVIOUS
<1> DEFINE c == faults["crash"]
           w == faults["write"]
           r == QueueSize + 2
<1>1. c \in Nat /\ w \in Nat /\ r \in Nat /\ r * c \in Nat
  BY EngineAssumption DEF BInv
<1>2. IsFiniteSet(Lost) /\ Cardinality(Lost) \in Nat /\ Cardinality(Lost) <= r * c + w
  BY FS_CardinalityType DEF BInv
<1>3. CASE Delivery!Crash
  <2>1. Delivery!Lose(r) /\ c' = c + 1 /\ w' = w
    BY <1>3 DEF Delivery!Crash
  <2>2. IsFiniteSet(Lost') /\ Cardinality(Lost') <= (r * c + w) + r
    BY <1>1, <1>2, <2>1, LoseBounded
  <2>3. r * (c + 1) + w = (r * c + w) + r
    BY <1>1
  <2> QED
    <3>1. r * c' + w' = (r * c + w) + r
      BY <2>1, <2>3, Zenon
    <3>2. c' \in Nat /\ w' \in Nat
      BY <1>1, <2>1
    <3> QED
      BY <2>2, <3>1, <3>2, Zenon DEF BInv
<1>4. CASE Delivery!Drop
  <2>1. Delivery!Lose(1) /\ c' = c /\ w' = w + 1
    BY <1>4 DEF Delivery!Drop
  <2>2. IsFiniteSet(Lost') /\ Cardinality(Lost') <= (r * c + w) + 1
    BY <1>1, <1>2, <2>1, LoseBounded
  <2>3. r * c + (w + 1) = (r * c + w) + 1
    BY <1>1
  <2> QED
    <3>1. r * c' + w' = (r * c + w) + 1
      BY <2>1, <2>3, Zenon
    <3>2. c' \in Nat /\ w' \in Nat
      BY <1>1, <2>1
    <3> QED
      BY <2>2, <3>1, <3>2, Zenon DEF BInv
<1>5. ASSUME Lost' \subseteq Lost, c' = c, w' = w PROVE BInv'
  <2>1. IsFiniteSet(Lost') /\ Cardinality(Lost') <= Cardinality(Lost) /\ Cardinality(Lost') \in Nat
    BY <1>2, <1>5, FS_Subset, FS_CardinalityType
  <2>2. Cardinality(Lost') <= r * c + w
    BY <1>1, <1>2, <2>1
  <2> QED
    BY <1>1, <1>5, <2>1, <2>2, Zenon DEF BInv
<1>6. CASE Delivery!Give \/ (\E i \in Storable : Delivery!Keep(i)) \/ Delivery!ComeBack
           \/ UNCHANGED Delivery!handover
  BY <1>5, <1>6 DEF Delivery!Give, Delivery!Keep, Delivery!ComeBack, Delivery!handover
<1> QED
  BY <1>3, <1>4, <1>6 DEF Delivery!Next

(* Whatever happens, the alerts that never get their row are few: one for  *)
(* each failed transaction, and a full queue, the one in the consumer's    *)
(* hand and the writer's for each crash.  Without faults every alert that  *)
(* reached scoring.alerts is on its way or has its row.                    *)
THEOREM LossIsBounded == Spec => []LossBounded
<1>1. Delivery!Init => BInv
  <2> SUFFICES ASSUME Delivery!Init PROVE BInv
    OBVIOUS
  <2>1. Lost = {} /\ faults["crash"] = 0 /\ faults["write"] = 0
    BY DEF Delivery!Init
  <2>2. IsFiniteSet(Lost) /\ Cardinality(Lost) = 0
    BY <2>1, FS_EmptySet
  <2>3. (QueueSize + 2) * 0 + 0 = 0
    BY EngineAssumption
  <2> QED
    BY <2>1, <2>2, <2>3 DEF BInv
<1>2. BInv => LossBounded
  BY SameSize DEF BInv, LossBounded, Delivery!LossBounded
<1> QED
  BY <1>1, <1>2, NextBounded, HandsAlertsOver, PTL DEF ImplementsHandover, Delivery!Spec

(* The tables agree with each other and with the queues, and the alerts    *)
(* that are without a row for good are as few as the handover allows.      *)
THEOREM EngineIsSound == Spec => []EngineSound
<1>1. TypeOK /\ QueueFresh /\ CasesJustified /\ LossBounded => EngineSound
  BY DEF EngineSound
<1> QED
  BY <1>1, TablesAgree, LossIsBounded, PTL
=============================================================================
