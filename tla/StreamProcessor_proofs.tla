------------------------ MODULE StreamProcessor_proofs ------------------------
(***************************************************************************)
(* Proofs about the consumer loop for every number of workers, systems,    *)
(* events, topics and faults.  The inductive invariant is IInv: typing,    *)
(* and what the claim protects (StreamProcessor!ClaimProtects) together    *)
(* with the three facts that follow from it step by step.                  *)
(***************************************************************************)
EXTENDS StreamProcessor, SequenceTheorems, FiniteSetTheorems, TLAPS

IInv ==
  /\ TypeOK
  /\ ClaimProtects
  /\ SingleHandler
  /\ AtMostOnce
  /\ OneTopicPerKey

(* Every handler's effects are effects.                                    *)
LEMMA HandlerEffectsType ==
  ASSUME NEW t, NEW m PROVE HandlerEffects(t, m) \subseteq Effects
BY DEF HandlerEffects, RawEffects, TransactionEffects, BetEffects, DeviceEffects,
       KycEffects, StatusEffects, OltpEffects, Effects

(* What a raw handler publishes is a well-formed message.                  *)
LEMMA CanonicalEnvelopeType ==
  ASSUME NEW m \in Message PROVE CanonicalEnvelope(m) \in Message
BY DEF CanonicalEnvelope, Message

(* The initial state satisfies the invariant.                              *)
LEMMA InitInv == Init => IInv
<1> SUFFICES ASSUME Init PROVE IInv
  OBVIOUS
<1>1. TypeOK
  BY ConstantsAssumption DEF Init, TypeOK, PcValues, Message, Ways, FaultKinds
<1>2. ClaimProtects /\ SingleHandler
  BY DEF Init, ClaimProtects, SingleHandler, Holding
<1>3. AtMostOnce /\ OneTopicPerKey
  BY DEF Init, AtMostOnce, OneTopicPerKey
<1> QED
  BY <1>1, <1>2, <1>3 DEF IInv

(* A fault keeps the fault counters typed; all kinds used are counted.     *)
LEMMA FaultType ==
  ASSUME NEW f \in {"crash", "step", "dlq", "commit", "rebalance", "expiry"},
         faults \in [FaultKinds -> Nat], Fault(f)
  PROVE  faults' \in [FaultKinds -> Nat]
<1>1. f \in FaultKinds
  BY DEF FaultKinds
<1> QED
  BY <1>1 DEF Fault

(* Recording how a message left the loop keeps the history typed.          *)
LEMMA SettleType ==
  ASSUME NEW w \in Workers, NEW y \in Ways, cur[w] \in InHand,
         settled \in [Topics -> [Ways -> SUBSET Nat]], Settle(w, y)
  PROVE  settled' \in [Topics -> [Ways -> SUBSET Nat]]
BY DEF Settle, InHand

(* An effect reaches its store without breaking the types of the stores.   *)
LEMMA PerformType ==
  ASSUME TypeOK, NEW w \in Workers, NEW e \in Effects, Holding(w), Perform(w, e)
  PROVE  /\ done' \in [Topics -> [Keys -> [Effects -> Nat]]]
         /\ log' \in [Topics -> Seq(Message)]
<1>1. cur[w] \in InHand
  BY DEF Holding, TypeOK
<1> DEFINE t == cur[w].topic
           k == cur[w].msg.key
           c == CanonicalEnvelope(cur[w].msg)
<1>2. t \in Topics /\ k \in Keys /\ c \in Message
  BY <1>1, CanonicalEnvelopeType DEF InHand, Message
<1> HIDE DEF t, k, c
<1>3. done' \in [Topics -> [Keys -> [Effects -> Nat]]]
  <2>1. done[t] \in [Keys -> [Effects -> Nat]] /\ done[t][k] \in [Effects -> Nat]
    BY <1>2 DEF TypeOK
  <2>2. CASE e = "lookup"
    BY <2>2 DEF Perform, TypeOK
  <2>3. CASE e # "lookup"
    <3>1. done' = [done EXCEPT ![t][k][e] = @ + 1]
      BY <2>3 DEF Perform, t, k
    <3>2. [done[t][k] EXCEPT ![e] = @ + 1] \in [Effects -> Nat]
      BY <2>1
    <3>3. [done[t] EXCEPT ![k] = [done[t][k] EXCEPT ![e] = @ + 1]] \in [Keys -> [Effects -> Nat]]
      BY <2>1, <3>2
    <3> QED
      BY <1>2, <3>1, <3>3 DEF TypeOK
  <2> QED
    BY <2>2, <2>3
<1>4. log' \in [Topics -> Seq(Message)]
  <2>1. CASE e = "canonical"
    <3>1. log' = [log EXCEPT ![CanonicalTopic(t)] = Append(@, c)]
      BY <2>1 DEF Perform, t, c
    <3>2. \A u \in Topics : log[u] \in Seq(Message) /\ Append(log[u], c) \in Seq(Message)
      BY <1>2 DEF TypeOK
    <3> QED
      BY <3>1, <3>2 DEF TypeOK
  <2>2. CASE e # "canonical"
    BY <2>2 DEF Perform, TypeOK
  <2> QED
    BY <2>1, <2>2
<1> QED
  BY <1>3, <1>4

(* Typing is inductive on its own.                                         *)
LEMMA TypeStep == TypeOK /\ [Next]_vars => TypeOK'
<1> SUFFICES ASSUME TypeOK, [Next]_vars PROVE TypeOK'
  OBVIOUS
<1> USE ConstantsAssumption DEF TypeOK, PcValues, Goto
<1>1. ASSUME NEW p \in Inputs, Produce(p[1], p[2]) PROVE TypeOK'
  <2>1. p[1] \in Topics /\ p[2] \in Message
    OBVIOUS
  <2> QED
    BY <1>1, <2>1 DEF Produce
<1>2. ASSUME NEW w \in Workers, NEW t \in Topics, Fetch(w, t) PROVE TypeOK'
  <2> DEFINE i == position[w][t] + 1
             m == log[t][i]
  <2>1. i \in 1..Len(log[t]) /\ m \in Message
    BY <1>2 DEF Fetch
  <2>2. CASE m.form = "garbage"
    <3>1. owner' \in [Topics -> Workers \cup {None}]
      BY <1>2, <2>2 DEF Fetch
    <3> QED
      BY <1>2, <2>1, <2>2, <3>1 DEF Fetch
  <2>3. CASE m.form # "garbage"
    <3>1. [topic |-> t, offset |-> i, msg |-> m] \in InHand
      BY <2>1 DEF InHand
    <3>2. /\ position' = [position EXCEPT ![w][t] = i]
          /\ cur' = [cur EXCEPT ![w] = [topic |-> t, offset |-> i, msg |-> m]]
          /\ pc' = [pc EXCEPT ![w] = "claim"]
          /\ UNCHANGED <<log, committed, owner, todo, claims, done, settled, expired, faults>>
      BY <1>2, <2>3 DEF Fetch
    <3> HIDE DEF i, m
    <3>3. i \in Nat
      BY <2>1
    <3>4. position' \in [Workers -> [Topics -> Nat]]
      BY <3>2, <3>3
    <3> QED
      BY <3>1, <3>2, <3>4
  <2> QED
    BY <2>2, <2>3
<1>3. ASSUME NEW w \in Workers, Reject(w) PROVE TypeOK'
  BY <1>3 DEF Reject
<1>4. ASSUME NEW w \in Workers, Claim(w) PROVE TypeOK'
  BY ZenonT(60), <1>4, HandlerEffectsType DEF Claim, InHand, Message
<1>5. ASSUME NEW w \in Workers, Skip(w) PROVE TypeOK'
  BY SettleType, <1>5 DEF Skip, Ways
<1>6. ASSUME NEW w \in Workers, ClaimFails(w) PROVE TypeOK'
  BY ZenonT(60), FaultType, <1>6 DEF ClaimFails, InHand, Message
<1>8. ASSUME NEW w \in Workers, HandleStep(w) PROVE TypeOK'
  BY PerformType, <1>8 DEF HandleStep, NextEffect, Holding
<1>9. ASSUME NEW w \in Workers, StepFails(w) PROVE TypeOK'
  <2>1. PICK e \in Effects : StepFails(w)!(e)
    BY <1>9 DEF StepFails
  <2>2. /\ done' \in [Topics -> [Keys -> [Effects -> Nat]]]
        /\ log' \in [Topics -> Seq(Message)]
    BY <2>1, PerformType DEF NextEffect, Holding
  <2>3. faults' \in [FaultKinds -> Nat]
    BY <2>1, FaultType
  <2> QED
    <3>1. /\ pc[w] = "handle"
          /\ UNCHANGED <<committed, owner, position, cur, claims, settled, expired>>
      BY <2>1 DEF NextEffect
    <3>2. /\ todo' \in [Workers -> SUBSET Effects]
          /\ pc' = pc \/ pc' = [pc EXCEPT ![w] = "failed"]
      <4>1. CASE e \in BestEffort
        <5>1. todo[w] \ OltpEffects \in SUBSET Effects /\ todo[w] \ {e} \in SUBSET Effects
          OBVIOUS
        <5>2. \/ todo' = [todo EXCEPT ![w] = todo[w] \ OltpEffects]
              \/ todo' = [todo EXCEPT ![w] = todo[w] \ {e}]
          BY <2>1, <4>1
        <5> QED
          <6>1. pc' = pc
            BY <2>1, <4>1
          <6>2. todo' \in [Workers -> SUBSET Effects]
            BY <5>1, <5>2
          <6> QED
            BY <6>1, <6>2
      <4>2. CASE e \notin BestEffort
        BY <2>1, <4>2
      <4> QED
        BY <4>1, <4>2
    <3> QED
      BY <2>2, <2>3, <3>1, <3>2
<1>10. ASSUME NEW w \in Workers, HandlerReturns(w) PROVE TypeOK'
  BY SettleType, <1>10 DEF HandlerReturns, Ways
<1>11. ASSUME NEW w \in Workers, Commit(w) PROVE TypeOK'
  BY <1>11 DEF Commit
<1>12. ASSUME NEW w \in Workers, CommitFails(w) PROVE TypeOK'
  BY ZenonT(60), FaultType, <1>12 DEF CommitFails
<1>13. ASSUME NEW w \in Workers, PublishToDlq(w) PROVE TypeOK'
  BY SettleType, <1>13 DEF PublishToDlq, Ways
<1>14. ASSUME NEW w \in Workers, DlqFails(w) PROVE TypeOK'
  BY SettleType, FaultType, <1>14 DEF DlqFails, Ways
<1>15. ASSUME NEW w \in Workers, Crash(w) PROVE TypeOK'
  BY FaultType, <1>15 DEF Crash
<1>16. ASSUME NEW w \in Workers, Restart(w) PROVE TypeOK'
  BY <1>16 DEF Restart
<1>17. ASSUME NEW w \in Workers, NEW t \in Topics, Assign(w, t) PROVE TypeOK'
  BY FaultType, <1>17 DEF Assign
<1>18. ASSUME NEW k \in Keys, ExpireClaim(k) PROVE TypeOK'
  BY FaultType, <1>18 DEF ExpireClaim
<1>19. CASE UNCHANGED vars
  BY <1>19 DEF vars
<1> QED
  BY <1>1, <1>2, <1>3, <1>4, <1>5, <1>6, <1>8, <1>9, <1>10, <1>11, <1>12, <1>13,
     <1>14, <1>15, <1>16, <1>17, <1>18, <1>19 DEF Next, Loop, Drained

-----------------------------------------------------------------------------
(* As far as claims and effects go there are five kinds of step.           *)

(* No claim and no effect changes, and no handler starts.                  *)
Quiet ==
  /\ UNCHANGED <<claims, expired, done>>
  /\ \A w \in Workers : Holding(w)' =>
       Holding(w) /\ cur'[w] = cur[w] /\ todo'[w] = todo[w]

(* The handler of worker w is through with effect e, which may have        *)
(* reached its store.                                                      *)
EffectStep(w, e) ==
  /\ Holding(w)
  /\ e \in todo[w]
  /\ e \notin todo'[w]
  /\ \/ UNCHANGED done
     \/ done' = [done EXCEPT ![cur[w].topic][cur[w].msg.key][e] = @ + 1]
  /\ UNCHANGED <<claims, expired, cur>>
  /\ \A v \in Workers : (Holding(v)' => Holding(v)) /\ todo'[v] \subseteq todo[v]

Kind ==
  \/ Quiet
  \/ \E w \in Workers : Claim(w) \/ ClaimFails(w) \/ \E e \in Effects : EffectStep(w, e)
  \/ \E k \in Keys : ExpireClaim(k)

(* Every step of the loop is of one of these kinds.                        *)
LEMMA Kinds == TypeOK /\ [Next]_vars => Kind
<1> SUFFICES ASSUME TypeOK, [Next]_vars PROVE Kind
  OBVIOUS
<1> USE DEF Holding, Goto
<1>1. ASSUME NEW p \in Inputs, Produce(p[1], p[2]) PROVE Quiet
  BY <1>1 DEF Produce, Quiet
<1>2. ASSUME NEW w \in Workers, NEW t \in Topics, Fetch(w, t) PROVE Quiet
  <2>1. CASE log[t][position[w][t] + 1].form = "garbage"
    BY <1>2, <2>1 DEF Fetch, Quiet, TypeOK
  <2>2. CASE log[t][position[w][t] + 1].form # "garbage"
    <3>1. /\ pc' = [pc EXCEPT ![w] = "claim"]
          /\ \A v \in Workers \ {w} : cur'[v] = cur[v]
          /\ UNCHANGED <<todo, claims, expired, done>>
      BY <1>2, <2>2 DEF Fetch, TypeOK
    <3> QED
      BY <3>1 DEF Quiet, TypeOK
  <2> QED
    BY <2>1, <2>2
<1>3. ASSUME NEW w \in Workers,
             Reject(w) \/ Skip(w) \/ HandlerReturns(w) \/ PublishToDlq(w) \/ DlqFails(w)
      PROVE  Quiet
  BY <1>3 DEF Reject, Skip, HandlerReturns, PublishToDlq, DlqFails, Quiet, TypeOK
<1>4. ASSUME NEW w \in Workers, Commit(w) \/ CommitFails(w) PROVE Quiet
  BY <1>4 DEF Commit, CommitFails, Quiet, TypeOK
<1>5. ASSUME NEW w \in Workers, Crash(w) \/ Restart(w) PROVE Quiet
  BY <1>5 DEF Crash, Restart, Quiet, TypeOK
<1>6. ASSUME NEW w \in Workers, NEW t \in Topics, Assign(w, t) PROVE Quiet
  BY <1>6 DEF Assign, Quiet
<1>7. ASSUME NEW w \in Workers, HandleStep(w) PROVE \E e \in Effects : EffectStep(w, e)
  <2>1. PICK e \in Effects : HandleStep(w)!(e)
    BY <1>7 DEF HandleStep
  <2>2. \/ todo' = [todo EXCEPT ![w] = todo[w] \ {e}]
        \/ todo' = [todo EXCEPT ![w] = todo[w] \ OltpEffects] /\ e = "lookup"
    <3>1. CASE e = "lookup" /\ RowExists(cur[w].topic, cur[w].msg.key)
      BY <2>1, <3>1
    <3>2. CASE ~(e = "lookup" /\ RowExists(cur[w].topic, cur[w].msg.key))
      BY <2>1, <3>2
    <3> QED
      BY <3>1, <3>2
  <2>3. \E S \in SUBSET Effects : S \subseteq todo[w] \ {e} /\ todo' = [todo EXCEPT ![w] = S]
    <3>1. todo[w] \in SUBSET Effects
      BY DEF TypeOK
    <3>2. CASE todo' = [todo EXCEPT ![w] = todo[w] \ {e}]
      BY <3>1, <3>2
    <3>3. CASE todo' = [todo EXCEPT ![w] = todo[w] \ OltpEffects] /\ e = "lookup"
      BY <3>1, <3>3 DEF OltpEffects
    <3> QED
      BY <2>2, <3>2, <3>3
  <2>4. e \notin todo'[w] /\ \A v \in Workers : todo'[v] \subseteq todo[v]
    BY <2>3 DEF TypeOK
  <2> QED
    BY <2>1, <2>4 DEF EffectStep, NextEffect, Perform
<1>8. ASSUME NEW w \in Workers, StepFails(w) PROVE \E e \in Effects : EffectStep(w, e)
  <2>1. PICK e \in Effects : StepFails(w)!(e)
    BY <1>8 DEF StepFails
  <2>2. \/ todo' = [todo EXCEPT ![w] = {}]
        \/ todo' = [todo EXCEPT ![w] = todo[w] \ {e}]
        \/ todo' = [todo EXCEPT ![w] = todo[w] \ OltpEffects] /\ e \in OltpEffects
    BY <2>1
  <2>3. e \notin todo'[w] /\ \A v \in Workers : todo'[v] \subseteq todo[v]
    BY <2>2 DEF TypeOK
  <2>4. pc' = pc \/ pc' = [pc EXCEPT ![w] = "failed"]
    BY <2>1
  <2>5. \A v \in Workers : Holding(v)' => Holding(v)
    BY <2>4 DEF TypeOK
  <2>6. \/ UNCHANGED done
        \/ done' = [done EXCEPT ![cur[w].topic][cur[w].msg.key][e] = @ + 1]
    BY <2>1 DEF Perform
  <2> QED
    BY <2>1, <2>3, <2>5, <2>6 DEF EffectStep, NextEffect
<1>9. ASSUME UNCHANGED vars PROVE Quiet
  <2>1. UNCHANGED <<pc, cur, todo, claims, expired, done>>
    BY <1>9 DEF vars
  <2> QED
    BY <2>1 DEF Quiet
<1> QED
  BY <1>1, <1>2, <1>3, <1>4, <1>5, <1>6, <1>7, <1>8, <1>9 DEF Kind, Next, Loop, Drained

-----------------------------------------------------------------------------
(* Each kind of step preserves what the claim protects, and each is a step *)
(* of the ledger or leaves it alone.                                       *)

(* A quiet step preserves the invariant.                                  *)
LEMMA QuietStep == IInv /\ Quiet =>
  (ClaimProtects /\ SingleHandler /\ AtMostOnce /\ OneTopicPerKey)'
BY DEF IInv, Quiet, ClaimProtects, SingleHandler, AtMostOnce, OneTopicPerKey

(* The claim: its holder is the only one and starts from nothing.          *)
LEMMA ClaimStep ==
  ASSUME IInv, NEW w \in Workers, Claim(w)
  PROVE  (ClaimProtects /\ SingleHandler /\ AtMostOnce /\ OneTopicPerKey)'
<1> DEFINE k == cur[w].msg.key
<1>1. /\ k \in Keys
      /\ k \notin claims
      /\ claims' = claims \cup {k}
      /\ UNCHANGED <<expired, done, cur>>
      /\ \A v \in Workers \ {w} : (Holding(v)' <=> Holding(v)) /\ todo'[v] = todo[v]
  BY DEF IInv, TypeOK, Claim, Goto, Holding, InHand, Message
<1>2. \A v \in Workers \ {w} :
        Holding(v) /\ cur[v].msg.key \notin expired => cur[v].msg.key # k
  BY <1>1 DEF IInv, ClaimProtects
<1>3. k \notin expired => \A t \in Topics, e \in Effects : done[t][k][e] = 0
  BY <1>1 DEF IInv, ClaimProtects
<1>4. ClaimProtects'
  BY <1>1, <1>2, <1>3 DEF IInv, ClaimProtects
<1>5. SingleHandler'
  BY <1>1, <1>2 DEF IInv, SingleHandler
<1> QED
  BY <1>1, <1>4, <1>5 DEF IInv, AtMostOnce, OneTopicPerKey

(* A claim that fails only adds to the claims.                             *)
LEMMA ClaimFailsStep ==
  ASSUME IInv, NEW w \in Workers, ClaimFails(w)
  PROVE  (ClaimProtects /\ SingleHandler /\ AtMostOnce /\ OneTopicPerKey)'
<1>1. /\ claims \subseteq claims'
      /\ UNCHANGED <<expired, done, cur, todo>>
      /\ \A v \in Workers : Holding(v)' => Holding(v)
  BY DEF IInv, TypeOK, ClaimFails, Goto, Holding
<1> QED
  BY <1>1 DEF IInv, ClaimProtects, SingleHandler, AtMostOnce, OneTopicPerKey

(* An expired claim leaves the scope of the invariant.                     *)
LEMMA ExpireStep ==
  ASSUME IInv, NEW k \in Keys, ExpireClaim(k)
  PROVE  (ClaimProtects /\ SingleHandler /\ AtMostOnce /\ OneTopicPerKey)'
<1>1. /\ claims' = claims \ {k}
      /\ expired' = expired \cup {k}
      /\ UNCHANGED <<done, cur, todo, pc>>
  BY DEF ExpireClaim
<1> QED
  BY <1>1 DEF IInv, ClaimProtects, SingleHandler, AtMostOnce, OneTopicPerKey, Holding

(* An effect was still to be done, so it was not done before.              *)
LEMMA EffectStepSafe ==
  ASSUME IInv, NEW w \in Workers, NEW e \in Effects, EffectStep(w, e)
  PROVE  (ClaimProtects /\ SingleHandler /\ AtMostOnce /\ OneTopicPerKey)'
<1> DEFINE t == cur[w].topic
           k == cur[w].msg.key
<1>1. t \in Topics /\ k \in Keys
  BY DEF IInv, TypeOK, EffectStep, Holding, InHand, Message
<1>2. /\ UNCHANGED <<claims, expired, cur>>
      /\ \A v \in Workers : (Holding(v)' => Holding(v)) /\ todo'[v] \subseteq todo[v]
  BY DEF EffectStep
<1>3. SingleHandler'
  BY <1>2 DEF IInv, SingleHandler
<1>4. CASE UNCHANGED done
  BY <1>2, <1>3, <1>4 DEF IInv, ClaimProtects, AtMostOnce, OneTopicPerKey
<1>5. CASE done' = [done EXCEPT ![t][k][e] = @ + 1]
  <2>1. /\ \A u \in Topics, j \in Keys, f \in Effects :
             done[u][j][f] \in Nat /\
             done'[u][j][f] = IF u = t /\ j = k /\ f = e THEN done[u][j][f] + 1 ELSE done[u][j][f]
    <3>1. /\ done[t] \in [Keys -> [Effects -> Nat]] /\ done[t][k] \in [Effects -> Nat]
          /\ done \in [Topics -> [Keys -> [Effects -> Nat]]]
      BY <1>1 DEF IInv, TypeOK
    <3> HIDE DEF t, k
    <3>2. done'[t][k][e] = done[t][k][e] + 1
      BY <1>1, <1>5, <3>1
    <3>3. \A u \in Topics, j \in Keys, f \in Effects :
            ~(u = t /\ j = k /\ f = e) => done'[u][j][f] = done[u][j][f]
      BY <1>1, <1>5, <3>1
    <3> QED
      BY <3>1, <3>2, <3>3
  <2>2. k \notin expired =>
          /\ k \in claims
          /\ \A u \in Topics, f \in Effects : done[u][k][f] > 0 => u = t /\ f # e
    BY DEF IInv, ClaimProtects, EffectStep
  <2> HIDE DEF t, k
  <2>3. AtMostOnce'
    BY <1>1, <1>2, <2>1, <2>2 DEF IInv, AtMostOnce
  <2>4. OneTopicPerKey'
    BY <1>1, <1>2, <2>1, <2>2 DEF IInv, OneTopicPerKey
  <2>5. ClaimProtects'
    <3>1. ASSUME NEW v \in Workers, Holding(v)', cur'[v].msg.key \notin expired',
                 NEW u \in Topics, NEW f \in Effects, done'[u][cur'[v].msg.key][f] > 0
          PROVE  u = cur'[v].topic /\ f \notin todo'[v]
      <4>1. CASE cur[v].msg.key = k
        <5>1. v = w
          BY <1>2, <3>1, <4>1 DEF IInv, SingleHandler, EffectStep, k
        <5> QED
          <6>1. cur'[v].msg.key = k /\ cur'[v].topic = t /\ k \notin expired
            BY <1>2, <3>1, <4>1, <5>1 DEF t
          <6>2. done[u][k][f] > 0 \/ (u = t /\ f = e)
            BY <1>1, <2>1, <3>1, <6>1
          <6>3. (u = t /\ f \notin todo[w]) \/ f = e
            BY <6>1, <6>2 DEF IInv, ClaimProtects, EffectStep, t, k
          <6> QED
            BY <1>2, <2>2, <5>1, <6>1, <6>2, <6>3 DEF EffectStep
      <4>2. CASE cur[v].msg.key # k
        <5>1. cur[v].msg.key \in Keys
          BY <1>2, <3>1 DEF IInv, TypeOK, Holding, InHand, Message
        <5> QED
          BY <1>2, <2>1, <3>1, <4>2, <5>1 DEF IInv, ClaimProtects
      <4> QED
        BY <4>1, <4>2
    <3>2. ASSUME NEW v \in Workers, Holding(v)', cur'[v].msg.key \notin expired'
          PROVE  cur'[v].msg.key \in claims'
      BY <1>2, <3>2 DEF IInv, ClaimProtects
    <3>3. ASSUME NEW j \in Keys \ (claims' \cup expired'), NEW u \in Topics, NEW f \in Effects
          PROVE  done'[u][j][f] = 0
      BY <1>2, <2>1, <2>2, <3>3 DEF IInv, ClaimProtects
    <3> QED
      BY <3>1, <3>2, <3>3 DEF ClaimProtects
  <2> QED
    BY <1>3, <2>3, <2>4, <2>5
<1> QED
  BY <1>4, <1>5 DEF EffectStep

(* The invariant is inductive.                                             *)
LEMMA InvStep == IInv /\ [Next]_vars => IInv'
<1> SUFFICES ASSUME IInv, [Next]_vars PROVE IInv'
  OBVIOUS
<1>1. Kind /\ TypeOK'
  BY Kinds, TypeStep DEF IInv
<1>2. (ClaimProtects /\ SingleHandler /\ AtMostOnce /\ OneTopicPerKey)'
  BY <1>1, QuietStep, ClaimStep, ClaimFailsStep, ExpireStep, EffectStepSafe DEF Kind
<1> QED
  BY <1>1, <1>2 DEF IInv

(* IInv holds of every behaviour.                                          *)
THEOREM Invariance == Spec => []IInv
BY InitInv, InvStep, PTL DEF Spec

(* The state of the consumer loop is well typed: TypeOK.                   *)
THEOREM TypeCorrect == Spec => []TypeOK
<1>1. IInv => TypeOK
  BY DEF IInv
<1> QED
  BY <1>1, Invariance, PTL

(* A handler holds the live claim of its event, and nothing happened to an *)
(* event that nobody claimed: ClaimProtects.                               *)
THEOREM ClaimsProtect == Spec => []ClaimProtects
<1>1. IInv => ClaimProtects
  BY DEF IInv
<1> QED
  BY <1>1, Invariance, PTL

(* An event is handled by one replica at a time, has each effect once and  *)
(* on one topic while its claim lives, for any number of replicas and of   *)
(* faults: HandledOnce.                                                    *)
THEOREM EffectsOnce == Spec => []HandledOnce
<1>1. IInv => HandledOnce
  BY DEF IInv, HandledOnce
<1> QED
  BY <1>1, Invariance, PTL

-----------------------------------------------------------------------------
(* The effects of the loop are those of the ledger: ImplementsLedger.      *)
THEOREM LedgerRefinement == Spec => ImplementsLedger
<1>1. Init => Ledger!Init
  BY DEF Init, Ledger!Init
<1>2. IInv /\ [Next]_vars => [Ledger!Next]_(Ledger!ledger)
  <2> SUFFICES ASSUME IInv, [Next]_vars PROVE [Ledger!Next]_(Ledger!ledger)
    OBVIOUS
  <2>1. Kind
    BY Kinds DEF IInv
  <2>2. CASE Quiet
    BY <2>2 DEF Quiet, Ledger!ledger
  <2>3. ASSUME NEW w \in Workers, Claim(w) PROVE Ledger!Next
    <3>1. cur[w].msg.key \in Keys
      BY <2>3 DEF IInv, TypeOK, Claim, InHand, Message
    <3>2. Ledger!Claim(cur[w].msg.key)
      BY <2>3 DEF Claim, Ledger!Claim
    <3> QED
      BY <3>1, <3>2 DEF Ledger!Next
  <2>4. ASSUME NEW w \in Workers, ClaimFails(w) PROVE Ledger!Next \/ UNCHANGED Ledger!ledger
    <3>1. cur[w].msg.key \in Keys
      BY <2>4 DEF IInv, TypeOK, ClaimFails, InHand, Message
    <3>2. Ledger!Claim(cur[w].msg.key) \/ UNCHANGED Ledger!ledger
      BY <2>4 DEF ClaimFails, Ledger!Claim, Ledger!ledger
    <3> QED
      BY <3>1, <3>2 DEF Ledger!Next
  <2>5. ASSUME NEW w \in Workers, NEW e \in Effects, EffectStep(w, e)
        PROVE  Ledger!Next \/ UNCHANGED Ledger!ledger
    <3> DEFINE t == cur[w].topic
               k == cur[w].msg.key
    <3>1. t \in Topics /\ k \in Keys
      BY <2>5 DEF IInv, TypeOK, EffectStep, Holding, InHand, Message
    <3>2. k \notin expired => k \in claims /\ Ledger!Fresh(t, k, e)
      BY <2>5 DEF IInv, ClaimProtects, EffectStep, Ledger!Fresh
    <3>3. CASE UNCHANGED done
      BY <2>5, <3>3 DEF EffectStep, Ledger!ledger
    <3>4. CASE done' = [done EXCEPT ![t][k][e] = @ + 1]
      <4>1. Ledger!Apply(t, k, e)
        BY <2>5, <3>2, <3>4 DEF EffectStep, Ledger!Apply
      <4> QED
        BY <3>1, <4>1 DEF Ledger!Next
    <3> QED
      BY <2>5, <3>3, <3>4 DEF EffectStep
  <2>6. ASSUME NEW k \in Keys, ExpireClaim(k) PROVE Ledger!Next
    BY <2>6 DEF ExpireClaim, Ledger!Expire, Ledger!Next
  <2> QED
    BY <2>1, <2>2, <2>3, <2>4, <2>5, <2>6 DEF Kind
<1> QED
  BY <1>1, <1>2, Invariance, PTL DEF Spec, ImplementsLedger, Ledger!Spec

-----------------------------------------------------------------------------
(* Nothing is lost.                                                        *)

(* Message j of topic t was handled or is in the DLQ, or will be one of    *)
(* both before a worker lets go of it.                                     *)
Safe(t, j) ==
  \/ j \in settled[t]["handled"] \cup settled[t]["dlq"]
  \/ \E w \in Workers : pc[w] \in {"handle", "failed"} /\ cur[w].topic = t /\ cur[w].offset = j

SafeKey(t, k) == \E j \in 1..Len(log[t]) : log[t][j].key = k /\ Safe(t, j)

HandSound(w) ==
  IF pc[w] \in {"idle", "down"} THEN cur[w] = None
  ELSE /\ cur[w].offset \in 1..Len(log[cur[w].topic])
       /\ cur[w].msg = log[cur[w].topic][cur[w].offset]

OffsetsSound ==
  \A t \in Topics : /\ committed[t] <= Len(log[t])
                    /\ \A w \in Workers : position[w][t] <= Len(log[t])

Undisturbed == faults["crash"] = 0 /\ faults["dlq"] = 0 /\ OneTopicEach

Delivered ==
  /\ \A k \in claims : \E t \in Topics : SafeKey(t, k)
  /\ \A w \in Workers : pc[w] \in {"commit", "commitDlq"} => SafeKey(cur[w].topic, cur[w].msg.key)
  /\ \A t \in Topics : \A i \in settled[t]["skipped"] :
       i \in 1..Len(log[t]) /\ SafeKey(t, log[t][i].key)
  /\ \A t \in Topics : \A i \in 1..committed[t] : DealtWith(t, i)
  /\ \A w \in Workers, t \in Topics : owner[t] = w =>
       \A i \in 1..position[w][t] : DealtWith(t, i)

DeliveryInv ==
  /\ \A w \in Workers : HandSound(w)
  /\ OffsetsSound
  /\ Undisturbed => Delivered

(* The topics only grow.                                                   *)
LogGrows ==
  \A t \in Topics : /\ Len(log[t]) \in Nat /\ Len(log'[t]) \in Nat
                    /\ Len(log[t]) <= Len(log'[t])
                    /\ \A i \in 1..Len(log[t]) : log'[t][i] = log[t][i]

(* A topic grows by a message, or stays.                                   *)
LEMMA AppendGrows ==
  ASSUME log \in [Topics -> Seq(Message)], NEW t, NEW m \in Message,
         log' = [log EXCEPT ![t] = Append(@, m)]
  PROVE  LogGrows
<1> SUFFICES ASSUME NEW u \in Topics
             PROVE  /\ Len(log[u]) \in Nat /\ Len(log'[u]) \in Nat
                    /\ Len(log[u]) <= Len(log'[u])
                    /\ \A i \in 1..Len(log[u]) : log'[u][i] = log[u][i]
  BY DEF LogGrows
<1>1. log[u] \in Seq(Message) /\ Len(log[u]) \in Nat
  BY LenProperties
<1>2. CASE u = t
  <2>1. log'[u] = Append(log[u], m)
    BY <1>2
  <2> QED
    BY <1>1, <2>1, AppendProperties
<1>3. CASE u # t
  BY <1>1, <1>3
<1> QED
  BY <1>2, <1>3

(* The topics only grow.                                                   *)
LEMMA LogStep == TypeOK /\ [Next]_vars => LogGrows
<1> SUFFICES ASSUME TypeOK, [Next]_vars PROVE LogGrows
  OBVIOUS
<1>1. CASE UNCHANGED log
  <2>1. \A t \in Topics : Len(log[t]) \in Nat
    BY LenProperties DEF TypeOK
  <2> QED
    BY <1>1, <2>1 DEF LogGrows
<1>2. ASSUME NEW p \in Inputs, Produce(p[1], p[2]) PROVE LogGrows
  <2>1. p[2] \in Message
    BY ConstantsAssumption
  <2> QED
    BY <1>2, <2>1, AppendGrows DEF Produce, TypeOK
<1>3. ASSUME NEW w \in Workers, NEW e \in Effects, Perform(w, e), Holding(w) PROVE LogGrows
  <2>1. cur[w] \in InHand
    BY <1>3 DEF TypeOK, Holding
  <2>2. CanonicalEnvelope(cur[w].msg) \in Message
    BY <2>1, CanonicalEnvelopeType DEF InHand
  <2>3. PICK m \in Message : m = CanonicalEnvelope(cur[w].msg)
    BY <2>2
  <2>4. PICK t : t = CanonicalTopic(cur[w].topic)
    OBVIOUS
  <2>5. CASE e = "canonical"
    <3>1. log' = [log EXCEPT ![t] = Append(@, m)]
      BY <1>3, <2>3, <2>4, <2>5 DEF Perform
    <3> QED
      BY <3>1, AppendGrows DEF TypeOK
  <2>6. CASE e # "canonical"
    BY <1>1, <1>3, <2>6 DEF Perform
  <2> QED
    BY <2>5, <2>6
<1>4. ASSUME NEW w \in Workers, HandleStep(w) PROVE LogGrows
  BY <1>3, <1>4 DEF HandleStep, NextEffect, Holding
<1>5. ASSUME NEW w \in Workers, StepFails(w) PROVE LogGrows
  BY <1>1, <1>3, <1>5 DEF StepFails, NextEffect, Holding
<1> QED
  BY <1>1, <1>2, <1>4, <1>5
     DEF Next, Loop, Drained, vars, Fetch, Reject, Claim, Skip, ClaimFails, HandlerReturns, Commit,
         CommitFails, PublishToDlq, DlqFails, Crash, Restart, Assign, ExpireClaim

(* Faults are only added.                                                  *)
LEMMA FaultsStep ==
  ASSUME TypeOK, TypeOK', [Next]_vars, NEW f \in FaultKinds
  PROVE  faults[f] \in Nat /\ faults'[f] \in Nat /\ faults[f] <= faults'[f]
<1>1. faults \in [FaultKinds -> Nat] /\ faults' \in [FaultKinds -> Nat]
  BY DEF TypeOK
<1>2. ASSUME NEW g, Fault(g) PROVE faults[f] <= faults'[f]
  BY <1>1, <1>2 DEF Fault
<1>3. UNCHANGED faults \/ \E g : Fault(g)
  BY DEF Next, Loop, Drained, vars, Produce, Fetch, Reject, Claim, Skip, ClaimFails, HandleStep,
         StepFails, HandlerReturns, Commit,
         CommitFails, PublishToDlq, DlqFails, Crash, Restart, Assign, ExpireClaim
<1> QED
  BY <1>1, <1>2, <1>3

(* What is undisturbed was so before.                                      *)
LEMMA UndisturbedBefore ==
  ASSUME TypeOK, TypeOK', [Next]_vars, Undisturbed'
  PROVE  Undisturbed
<1>1. faults["crash"] = 0 /\ faults["dlq"] = 0
  BY FaultsStep DEF Undisturbed, FaultKinds
<1>2. LogGrows
  BY LogStep
<1>3. OneTopicEach
  <2> SUFFICES ASSUME NEW t \in Topics, NEW u \in Topics,
                      NEW i \in 1..Len(log[t]), NEW j \in 1..Len(log[u]),
                      log[t][i].key = log[u][j].key
               PROVE  t = u
    BY DEF OneTopicEach
  <2>1. /\ i \in 1..Len(log'[t]) /\ j \in 1..Len(log'[u])
        /\ log'[t][i] = log[t][i] /\ log'[u][j] = log[u][j]
    BY <1>2 DEF LogGrows
  <2> QED
    BY <2>1 DEF Undisturbed, OneTopicEach
<1> QED
  BY <1>1, <1>3 DEF Undisturbed

(* A step seen from what workers have in hand, when nothing disturbs.      *)
Settling(w) == cur[w].offset \in settled'[cur[w].topic]["handled"] \cup settled'[cur[w].topic]["dlq"]

SettledGrow ==
  \A t \in Topics : \A y \in Ways : settled[t][y] \subseteq settled'[t][y]

HandsMove ==
  \A w \in Workers :
    /\ pc[w] \in {"handle", "failed"} =>
         (pc'[w] \in {"handle", "failed"} /\ cur'[w] = cur[w]) \/ Settling(w)
    /\ cur[w] # None => cur'[w] = cur[w] \/ pc[w] \in {"commit", "commitDlq"}
    /\ pc'[w] \in {"commit", "commitDlq"} =>
         /\ cur'[w] = cur[w] /\ cur[w] \in InHand
         /\ \/ pc[w] = pc'[w]
            \/ pc[w] \in {"handle", "failed"} /\ Settling(w)
            \/ pc[w] = "claim" /\ cur[w].msg.key \in claims

ClaimsMove ==
  \A k \in claims' \ claims : \E w \in Workers :
    /\ pc[w] = "claim" /\ cur[w] \in InHand /\ cur[w].msg.key = k
    /\ pc'[w] \in {"handle", "failed"} /\ cur'[w] = cur[w]

SkipsMove ==
  \A t \in Topics : \A i \in settled'[t]["skipped"] \ settled[t]["skipped"] : \E w \in Workers :
    /\ pc[w] = "claim" /\ cur[w] \in InHand /\ cur[w].topic = t /\ cur[w].offset = i
    /\ cur[w].msg.key \in claims

OffsetsMove ==
  /\ \A t \in Topics : \/ committed'[t] = committed[t]
                       \/ \E w \in Workers : owner[t] = w /\ committed'[t] = position[w][t]
  /\ \A t \in Topics, w \in Workers : owner'[t] = w =>
       \/ owner[t] = w /\ position'[w][t] = position[w][t]
       \/ position'[w][t] = committed[t]
       \/ /\ owner[t] = w /\ position'[w][t] = position[w][t] + 1
          /\ position'[w][t] \in 1..Len(log[t])
          /\ cur'[w] # None /\ cur'[w].topic = t /\ cur'[w].offset = position'[w][t]

Moves == SettledGrow /\ HandsMove /\ ClaimsMove /\ SkipsMove /\ OffsetsMove

(* The history of a message only grows, by the message in hand.            *)
LEMMA SettleGrows ==
  ASSUME TypeOK, NEW w \in Workers, NEW y \in Ways, cur[w] \in InHand, Settle(w, y)
  PROVE  /\ SettledGrow
         /\ \A t \in Topics, x \in Ways : \A i \in settled'[t][x] :
              i \in settled[t][x] \/ (t = cur[w].topic /\ x = y /\ i = cur[w].offset)
         /\ cur[w].offset \in settled'[cur[w].topic][y]
<1>1. PICK t \in Topics : t = cur[w].topic
  BY DEF InHand
<1>2. PICK i : i = cur[w].offset
  OBVIOUS
<1>3. settled' = [settled EXCEPT ![t][y] = @ \cup {i}]
  BY <1>1, <1>2 DEF Settle
<1>4. settled \in [Topics -> [Ways -> SUBSET Nat]]
  BY DEF TypeOK
<1>5. /\ settled'[t][y] = settled[t][y] \cup {i}
      /\ \A u \in Topics, x \in Ways : ~(u = t /\ x = y) => settled'[u][x] = settled[u][x]
  BY <1>3, <1>4
<1> QED
  BY <1>1, <1>2, <1>5 DEF SettledGrow

(* Steps of others than the workers.                                       *)
LEMMA StillMoves ==
  ASSUME TypeOK, UNCHANGED <<settled, pc, cur, committed, owner, position>>, claims' \subseteq claims
  PROVE  Moves
<1>1. SettledGrow /\ ClaimsMove /\ SkipsMove /\ OffsetsMove
  BY DEF SettledGrow, ClaimsMove, SkipsMove, OffsetsMove
<1>2. \A w \in Workers : pc[w] \in {"commit", "commitDlq"} => cur[w] \in InHand
  BY DEF TypeOK
<1>3. HandsMove
  BY <1>2 DEF HandsMove
<1> QED
  BY <1>1, <1>3 DEF Moves

(* A worker goes on with the message in its hand.                          *)
LEMMA LocalMoves ==
  ASSUME TypeOK, NEW w \in Workers, pc[w] \notin {"idle", "down"},
         \A v \in Workers : v # w => pc'[v] = pc[v],
         UNCHANGED <<cur, committed, owner, position>>,
         SettledGrow, ClaimsMove, SkipsMove,
         pc[w] \in {"handle", "failed"} => pc'[w] \in {"handle", "failed"} \/ Settling(w),
         pc'[w] \in {"commit", "commitDlq"} =>
            \/ pc[w] = pc'[w]
            \/ pc[w] \in {"handle", "failed"} /\ Settling(w)
            \/ pc[w] = "claim" /\ cur[w].msg.key \in claims
  PROVE  Moves
<1>1. OffsetsMove
  BY DEF OffsetsMove
<1>2. \A v \in Workers : pc[v] \in {"claim", "handle", "commit", "failed", "commitDlq"} => cur[v] \in InHand
  BY DEF TypeOK
<1>3. pc[w] \in {"claim", "handle", "commit", "failed", "commitDlq"}
  BY DEF TypeOK, PcValues
<1>4. HandsMove
  BY <1>2, <1>3 DEF HandsMove
<1> QED
  BY <1>1, <1>4 DEF Moves

(* Nothing in hand is lost, unless a worker dies or the DLQ is away.       *)
LEMMA MovesStep ==
  ASSUME TypeOK, [Next]_vars, \A w \in Workers : HandSound(w),
         ~Fault("crash"), ~Fault("dlq")
  PROVE  Moves
<1> USE DEF Goto
<1>1. UNCHANGED vars => Moves
  BY StillMoves DEF vars
<1>2. ASSUME NEW p \in Inputs, Produce(p[1], p[2]) PROVE Moves
  BY <1>2, StillMoves DEF Produce
<1>3. ASSUME NEW k \in Keys, ExpireClaim(k) PROVE Moves
  BY <1>3, StillMoves DEF ExpireClaim
<1>4. ASSUME NEW w \in Workers, NEW t \in Topics, Fetch(w, t) PROVE Moves
  <2>1. SettledGrow /\ ClaimsMove /\ SkipsMove
    BY <1>4 DEF Fetch, SettledGrow, ClaimsMove, SkipsMove
  <2>2. pc[w] = "idle" /\ cur[w] = None /\ owner[t] = w /\ position[w][t] < Len(log[t])
    BY <1>4 DEF Fetch, HandSound
  <2>3. \A v \in Workers : pc[v] \in {"claim", "handle", "commit", "failed", "commitDlq"} => cur[v] \in InHand
    BY DEF TypeOK
  <2>4. pc'[w] \in {"down", "claim"}
        /\ \A v \in Workers : v # w => pc'[v] = pc[v] /\ cur'[v] = cur[v]
    BY <1>4 DEF Fetch, TypeOK
  <2>5. HandsMove
    BY <2>2, <2>3, <2>4 DEF HandsMove
  <2>6. PICK i : i = position[w][t] + 1
    OBVIOUS
  <2>7. PICK m : m = log[t][i]
    OBVIOUS
  <2>8. position \in [Workers -> [Topics -> Nat]] /\ log[t] \in Seq(Message)
        /\ Len(log[t]) \in Nat /\ position[w][t] \in Nat
    BY LenProperties DEF TypeOK
  <2>9. i \in Nat /\ i \in 1..Len(log[t])
    BY <2>2, <2>6, <2>8
  <2>10. CASE m.form = "garbage"
    <3>1. owner' = [u \in Topics |-> IF owner[u] = w THEN None ELSE owner[u]]
          /\ UNCHANGED <<position, committed>>
      BY <1>4, <2>6, <2>7, <2>10 DEF Fetch
    <3>2. OffsetsMove
      BY <3>1, ConstantsAssumption DEF OffsetsMove
    <3> QED
      BY <2>1, <2>5, <3>2 DEF Moves
  <2>11. CASE m.form # "garbage"
    <3>1. PICK new : new = [topic |-> t, offset |-> i, msg |-> m]
      OBVIOUS
    <3>2. position' = [position EXCEPT ![w][t] = i] /\ cur' = [cur EXCEPT ![w] = new]
          /\ UNCHANGED <<owner, committed>>
      BY <1>4, <2>6, <2>7, <2>11, <3>1 DEF Fetch
    <3>3. /\ position'[w][t] = i
          /\ \A v \in Workers, u \in Topics : ~(v = w /\ u = t) => position'[v][u] = position[v][u]
      BY <2>8, <3>2
    <3>4. cur'[w] = new
      BY <3>2 DEF TypeOK
    <3>5. new \in InHand /\ new.topic = t /\ new.offset = i /\ new # None
      <4>1. m \in Message
        BY <2>7, <2>8, <2>9, ElementOfSeq
      <4> QED
        BY <2>9, <3>1, <4>1, ConstantsAssumption DEF InHand
    <3>6. OffsetsMove
      BY <2>2, <2>6, <2>9, <3>2, <3>3, <3>4, <3>5 DEF OffsetsMove
    <3> QED
      BY <2>1, <2>5, <3>6 DEF Moves
  <2> QED
    BY <2>10, <2>11
<1>5. ASSUME NEW w \in Workers, Reject(w) PROVE Moves
  <2>1. SettledGrow /\ ClaimsMove /\ SkipsMove
    BY <1>5 DEF Reject, SettledGrow, ClaimsMove, SkipsMove
  <2>2. pc[w] = "claim" /\ pc'[w] = "failed" /\ \A v \in Workers : v # w => pc'[v] = pc[v]
    BY <1>5 DEF Reject, TypeOK
  <2> QED
    BY <1>5, <2>1, <2>2, LocalMoves DEF Reject
<1>6. ASSUME NEW w \in Workers, Claim(w) \/ ClaimFails(w) PROVE Moves
  <2>1. SettledGrow /\ SkipsMove
    BY <1>6 DEF Claim, ClaimFails, SettledGrow, SkipsMove
  <2>2. pc[w] = "claim" /\ pc'[w] \in {"handle", "failed"} /\ cur[w] \in InHand
        /\ \A v \in Workers : v # w => pc'[v] = pc[v]
    BY <1>6 DEF Claim, ClaimFails, TypeOK
  <2>3. UNCHANGED <<cur, committed, owner, position>> /\ claims' \subseteq claims \cup {cur[w].msg.key}
    BY <1>6 DEF Claim, ClaimFails
  <2>4. ClaimsMove
    BY <2>2, <2>3 DEF ClaimsMove
  <2> QED
    BY <2>1, <2>2, <2>3, <2>4, LocalMoves
<1>7. ASSUME NEW w \in Workers, Skip(w) PROVE Moves
  <2>1. pc[w] = "claim" /\ pc'[w] = "commit" /\ cur[w] \in InHand /\ cur[w].msg.key \in claims
        /\ \A v \in Workers : v # w => pc'[v] = pc[v]
    BY <1>7 DEF Skip, TypeOK
  <2>2. UNCHANGED <<cur, committed, owner, position, claims>> /\ Settle(w, "skipped")
    BY <1>7 DEF Skip
  <2>3. /\ SettledGrow
        /\ \A t \in Topics, x \in Ways : \A i \in settled'[t][x] :
             i \in settled[t][x] \/ (t = cur[w].topic /\ x = "skipped" /\ i = cur[w].offset)
    BY <2>1, <2>2, SettleGrows DEF Ways
  <2>4. ClaimsMove /\ SkipsMove
    BY <2>1, <2>2, <2>3 DEF ClaimsMove, SkipsMove, Ways
  <2> QED
    BY <2>1, <2>2, <2>3, <2>4, LocalMoves
<1>8. ASSUME NEW w \in Workers, HandleStep(w) \/ StepFails(w) PROVE Moves
  <2>1. /\ pc[w] = "handle" /\ UNCHANGED <<cur, committed, owner, position, claims, settled>>
        /\ pc' = pc \/ pc' = [pc EXCEPT ![w] = "failed"]
    BY <1>8 DEF HandleStep, StepFails, NextEffect
  <2>2. pc'[w] \in {"handle", "failed"} /\ \A v \in Workers : v # w => pc'[v] = pc[v]
    BY <2>1 DEF TypeOK
  <2>3. SettledGrow /\ ClaimsMove /\ SkipsMove
    BY <2>1 DEF SettledGrow, ClaimsMove, SkipsMove
  <2> QED
    BY <2>1, <2>2, <2>3, LocalMoves
<1>9. ASSUME NEW w \in Workers, HandlerReturns(w) PROVE Moves
  <2>1. pc[w] = "handle" /\ pc'[w] = "commit" /\ cur[w] \in InHand
        /\ \A v \in Workers : v # w => pc'[v] = pc[v]
    BY <1>9 DEF HandlerReturns, TypeOK
  <2>2. UNCHANGED <<cur, committed, owner, position, claims>> /\ Settle(w, "handled")
    BY <1>9 DEF HandlerReturns
  <2>3. /\ SettledGrow
        /\ \A t \in Topics, x \in Ways : \A i \in settled'[t][x] :
             i \in settled[t][x] \/ (t = cur[w].topic /\ x = "handled" /\ i = cur[w].offset)
        /\ Settling(w)
    BY <2>1, <2>2, SettleGrows DEF Ways, Settling
  <2>4. ClaimsMove /\ SkipsMove
    BY <2>1, <2>2, <2>3 DEF ClaimsMove, SkipsMove, Ways
  <2> QED
    BY <2>1, <2>2, <2>3, <2>4, LocalMoves
<1>10. ASSUME NEW w \in Workers, PublishToDlq(w) PROVE Moves
  <2>1. pc[w] = "failed" /\ pc'[w] = "commitDlq" /\ cur[w] \in InHand
        /\ \A v \in Workers : v # w => pc'[v] = pc[v]
    BY <1>10 DEF PublishToDlq, TypeOK
  <2>2. UNCHANGED <<cur, committed, owner, position, claims>> /\ Settle(w, "dlq")
    BY <1>10 DEF PublishToDlq
  <2>3. /\ SettledGrow
        /\ \A t \in Topics, x \in Ways : \A i \in settled'[t][x] :
             i \in settled[t][x] \/ (t = cur[w].topic /\ x = "dlq" /\ i = cur[w].offset)
        /\ Settling(w)
    BY <2>1, <2>2, SettleGrows DEF Ways, Settling
  <2>4. ClaimsMove /\ SkipsMove
    BY <2>1, <2>2, <2>3 DEF ClaimsMove, SkipsMove, Ways
  <2> QED
    BY <2>1, <2>2, <2>3, <2>4, LocalMoves
<1>11. ASSUME NEW w \in Workers, Commit(w) \/ CommitFails(w) PROVE Moves
  <2>1. SettledGrow /\ ClaimsMove /\ SkipsMove
    BY <1>11 DEF Commit, CommitFails, SettledGrow, ClaimsMove, SkipsMove
  <2>2. pc[w] \in {"commit", "commitDlq"} /\ pc'[w] \in {"idle", "failed"}
        /\ \A v \in Workers : v # w => pc'[v] = pc[v] /\ cur'[v] = cur[v]
    BY <1>11 DEF Commit, CommitFails, TypeOK
  <2>3. \A v \in Workers : pc[v] \in {"claim", "handle", "commit", "failed", "commitDlq"} => cur[v] \in InHand
    BY DEF TypeOK
  <2>4. HandsMove
    BY <2>2, <2>3 DEF HandsMove
  <2>5. OffsetsMove
    BY <1>11 DEF OffsetsMove, Commit, CommitFails
  <2> QED
    BY <2>1, <2>4, <2>5 DEF Moves
<1>12. ASSUME NEW w \in Workers, Restart(w) PROVE Moves
  <2>1. SettledGrow /\ ClaimsMove /\ SkipsMove /\ OffsetsMove
    BY <1>12 DEF Restart, SettledGrow, ClaimsMove, SkipsMove, OffsetsMove
  <2>2. pc[w] = "down" /\ pc'[w] = "idle" /\ (\A v \in Workers : v # w => pc'[v] = pc[v]) /\ cur' = cur
    BY <1>12 DEF Restart, TypeOK
  <2>3. \A v \in Workers : pc[v] \in {"claim", "handle", "commit", "failed", "commitDlq"} => cur[v] \in InHand
    BY DEF TypeOK
  <2>4. HandsMove
    BY <2>2, <2>3 DEF HandsMove
  <2> QED
    BY <2>1, <2>4 DEF Moves
<1>13. ASSUME NEW w \in Workers, NEW t \in Topics, Assign(w, t) PROVE Moves
  <2>1. SettledGrow /\ ClaimsMove /\ SkipsMove
    BY <1>13 DEF Assign, SettledGrow, ClaimsMove, SkipsMove
  <2>2. \A v \in Workers : pc[v] \in {"claim", "handle", "commit", "failed", "commitDlq"} => cur[v] \in InHand
    BY DEF TypeOK
  <2>3. HandsMove
    BY <1>13, <2>2 DEF HandsMove, Assign
  <2>4. PICK n : n = committed[t]
    OBVIOUS
  <2>5. owner' = [owner EXCEPT ![t] = w] /\ position' = [position EXCEPT ![w][t] = n]
        /\ UNCHANGED committed
    BY <1>13, <2>4 DEF Assign
  <2>6. owner \in [Topics -> Workers \cup {None}] /\ position \in [Workers -> [Topics -> Nat]]
    BY DEF TypeOK
  <2>7. /\ position'[w][t] = n
        /\ \A v \in Workers, u \in Topics : ~(v = w /\ u = t) => position'[v][u] = position[v][u]
        /\ owner'[t] = w /\ \A u \in Topics : u # t => owner'[u] = owner[u]
    BY <2>5, <2>6
  <2>8. OffsetsMove
    BY <2>4, <2>5, <2>7 DEF OffsetsMove
  <2> QED
    BY <2>1, <2>3, <2>8 DEF Moves
<1> QED
  BY <1>1, <1>2, <1>3, <1>4, <1>5, <1>6, <1>7, <1>8, <1>9, <1>10, <1>11, <1>12, <1>13
     DEF Next, Loop, Drained, DlqFails, Crash

(* What a worker has in its hand it keeps, drops or has just fetched.      *)
HandMoves(w) ==
  \/ pc'[w] \in {"idle", "down"} /\ cur'[w] = None
  \/ pc[w] \notin {"idle", "down"} /\ pc'[w] \notin {"idle", "down"} /\ cur'[w] = cur[w]
  \/ \E t \in Topics : \E i \in 1..Len(log[t]) :
       /\ pc'[w] \notin {"idle", "down"}
       /\ cur'[w].topic = t /\ cur'[w].offset = i /\ cur'[w].msg = log[t][i]

(* A worker that the step does not touch keeps it.                         *)
LEMMA HandStays ==
  ASSUME NEW w \in Workers, HandSound(w), pc'[w] = pc[w], cur'[w] = cur[w]
  PROVE  HandMoves(w)
BY DEF HandSound, HandMoves

(* Every step moves hands so.                                              *)
LEMMA HandMovesStep ==
  ASSUME TypeOK, [Next]_vars, NEW v \in Workers, \A w \in Workers : HandSound(w)
  PROVE  HandMoves(v)
<1> USE DEF Goto
<1>1. CASE UNCHANGED <<pc, cur>>
  BY <1>1, HandStays
<1>2. ASSUME NEW w \in Workers, w # v, \A u \in Workers : u # w => pc'[u] = pc[u] /\ cur'[u] = cur[u]
      PROVE  HandMoves(v)
  BY <1>2, HandStays
<1>3. ASSUME NEW w \in Workers, NEW t \in Topics, Fetch(w, t) PROVE HandMoves(v)
  <2>1. pc[w] = "idle" /\ cur[w] = None /\ position[w][t] < Len(log[t])
    BY <1>3 DEF Fetch, HandSound
  <2>2. pc'[w] \in {"down", "claim"}
        /\ \A u \in Workers : u # w => pc'[u] = pc[u] /\ cur'[u] = cur[u]
    BY <1>3 DEF Fetch, TypeOK
  <2>3. PICK i : i = position[w][t] + 1
    OBVIOUS
  <2>4. PICK m : m = log[t][i]
    OBVIOUS
  <2>5. i \in 1..Len(log[t])
    <3>1. log[t] \in Seq(Message) /\ Len(log[t]) \in Nat /\ position[w][t] \in Nat
      BY LenProperties DEF TypeOK
    <3> QED
      BY <2>1, <2>3, <3>1
  <2>6. CASE m.form = "garbage" /\ v = w
    BY <1>3, <2>1, <2>3, <2>4, <2>6 DEF Fetch, HandMoves, TypeOK
  <2>7. CASE m.form # "garbage" /\ v = w
    <3>1. PICK new : new = [topic |-> t, offset |-> i, msg |-> m]
      OBVIOUS
    <3>2. cur' = [cur EXCEPT ![w] = new] /\ pc' = [pc EXCEPT ![w] = "claim"]
      BY <1>3, <2>3, <2>4, <2>7, <3>1 DEF Fetch
    <3>3. cur'[w] = new /\ pc'[w] = "claim"
      BY <3>2 DEF TypeOK
    <3> QED
      BY <2>4, <2>5, <2>7, <3>1, <3>3 DEF HandMoves
  <2> QED
    BY <1>2, <2>2, <2>6, <2>7
<1>4. ASSUME NEW w \in Workers,
             Reject(w) \/ Claim(w) \/ Skip(w) \/ ClaimFails(w) \/ HandlerReturns(w) \/ PublishToDlq(w)
      PROVE  HandMoves(v)
  <2>1. /\ pc[w] \notin {"idle", "down"} /\ pc'[w] \notin {"idle", "down"} /\ cur' = cur
        /\ \A u \in Workers : u # w => pc'[u] = pc[u]
    BY <1>4 DEF Reject, Claim, Skip, ClaimFails, HandlerReturns, PublishToDlq, TypeOK
  <2> QED
    BY <1>2, <2>1 DEF HandMoves
<1>5. ASSUME NEW w \in Workers, HandleStep(w) \/ StepFails(w) PROVE HandMoves(v)
  <2>1. /\ pc[w] = "handle" /\ cur' = cur
        /\ pc' = pc \/ pc' = [pc EXCEPT ![w] = "failed"]
    BY <1>5 DEF HandleStep, StepFails, NextEffect
  <2>2. pc'[w] \in {"handle", "failed"} /\ \A u \in Workers : u # w => pc'[u] = pc[u]
    BY <2>1 DEF TypeOK
  <2> QED
    BY <1>2, <2>1, <2>2 DEF HandMoves
<1>6. ASSUME NEW w \in Workers, Commit(w) \/ CommitFails(w) \/ DlqFails(w) \/ Crash(w)
      PROVE  HandMoves(v)
  <2>1. \A u \in Workers : u # w => pc'[u] = pc[u] /\ cur'[u] = cur[u]
    BY <1>6 DEF Commit, CommitFails, DlqFails, Crash, TypeOK
  <2>2. CASE v = w
    BY <1>6, <2>2 DEF Commit, CommitFails, DlqFails, Crash, TypeOK, HandMoves
  <2> QED
    BY <1>2, <2>1, <2>2
<1>7. ASSUME NEW w \in Workers, Restart(w) PROVE HandMoves(v)
  <2>1. \A u \in Workers : u # w => pc'[u] = pc[u] /\ cur'[u] = cur[u]
    BY <1>7 DEF Restart, TypeOK
  <2>2. CASE v = w
    BY <1>7, <2>2 DEF Restart, TypeOK, HandMoves, HandSound
  <2> QED
    BY <1>2, <2>1, <2>2
<1> QED
  BY <1>1, <1>3, <1>4, <1>5, <1>6, <1>7
     DEF Next, Loop, Drained, vars, Produce, Assign, ExpireClaim

(* What is in hand is a message of the topic, and stays one.               *)
LEMMA HandStep ==
  ASSUME TypeOK, [Next]_vars, \A w \in Workers : HandSound(w)
  PROVE  \A w \in Workers : HandSound(w)'
<1> SUFFICES ASSUME NEW w \in Workers PROVE HandSound(w)'
  OBVIOUS
<1>1. LogGrows /\ HandMoves(w) /\ HandSound(w)
  BY LogStep, HandMovesStep
<1>2. CASE pc'[w] \in {"idle", "down"} /\ cur'[w] = None
  BY <1>2 DEF HandSound
<1>3. CASE pc[w] \notin {"idle", "down"} /\ pc'[w] \notin {"idle", "down"} /\ cur'[w] = cur[w]
  <2>1. cur[w] \in InHand
    BY <1>3 DEF TypeOK, PcValues
  <2>2. PICK t \in Topics : t = cur[w].topic
    BY <2>1 DEF InHand
  <2>3. PICK i \in 1..Len(log[t]) : i = cur[w].offset /\ cur[w].msg = log[t][i]
    BY <1>1, <1>3, <2>2 DEF HandSound
  <2>4. i \in 1..Len(log'[t]) /\ log'[t][i] = log[t][i]
    BY <1>1 DEF LogGrows
  <2> QED
    BY <1>3, <2>2, <2>3, <2>4 DEF HandSound
<1>4. ASSUME NEW t \in Topics, NEW i \in 1..Len(log[t]), pc'[w] \notin {"idle", "down"},
             cur'[w].topic = t, cur'[w].offset = i, cur'[w].msg = log[t][i]
      PROVE  HandSound(w)'
  <2>1. i \in 1..Len(log'[t]) /\ log'[t][i] = log[t][i]
    BY <1>1 DEF LogGrows
  <2> QED
    BY <1>4, <2>1 DEF HandSound
<1> QED
  BY <1>1, <1>2, <1>3, <1>4 DEF HandMoves

(* No offset is beyond the end of its topic.                               *)
LEMMA OffsetsStep ==
  ASSUME TypeOK, TypeOK', [Next]_vars, OffsetsSound
  PROVE  OffsetsSound'
<1>1. LogGrows
  BY LogStep
<1>2. \A t \in Topics : Len(log[t]) \in Nat /\ Len(log'[t]) \in Nat /\ Len(log[t]) <= Len(log'[t])
  BY <1>1 DEF LogGrows
<1>3. /\ committed \in [Topics -> Nat] /\ position \in [Workers -> [Topics -> Nat]]
      /\ committed' \in [Topics -> Nat] /\ position' \in [Workers -> [Topics -> Nat]]
  BY DEF TypeOK
<1>4. \A w \in Workers, t \in Topics : position[w][t] \in Nat /\ position'[w][t] \in Nat
  BY <1>3
<1>5. CASE UNCHANGED <<committed, position>>
  BY <1>2, <1>3, <1>4, <1>5 DEF OffsetsSound
<1>6. ASSUME NEW w \in Workers, NEW t \in Topics, NEW n, n <= Len(log[t]),
             position' = [position EXCEPT ![w][t] = n], UNCHANGED committed
      PROVE  OffsetsSound'
  <2>1. \A v \in Workers, u \in Topics : position'[v][u] = position[v][u] \/ (u = t /\ position'[v][u] = n)
    BY <1>3, <1>6
  <2>2. n \in Nat
    BY <1>3, <1>4, <1>6
  <2> QED
    BY <1>2, <1>3, <1>4, <1>6, <2>1, <2>2 DEF OffsetsSound
<1>7. ASSUME NEW w \in Workers, NEW t \in Topics, Fetch(w, t) PROVE OffsetsSound'
  <2>1. PICK n : n = position[w][t] + 1
    OBVIOUS
  <2>2. n <= Len(log[t])
    <3>1. position[w][t] < Len(log[t])
      BY <1>7 DEF Fetch
    <3>2. position[w][t] \in Nat /\ Len(log[t]) \in Nat
      BY <1>2, <1>4
    <3> QED
      BY <2>1, <3>1, <3>2
  <2>3. UNCHANGED committed /\ (UNCHANGED position \/ position' = [position EXCEPT ![w][t] = n])
    BY <1>7, <2>1 DEF Fetch
  <2> QED
    BY <1>5, <1>6, <2>2, <2>3
<1>8. ASSUME NEW w \in Workers, NEW t \in Topics, Assign(w, t) PROVE OffsetsSound'
  <2>1. PICK n : n = committed[t]
    OBVIOUS
  <2>2. n <= Len(log[t])
    BY <2>1 DEF OffsetsSound
  <2>3. UNCHANGED committed /\ position' = [position EXCEPT ![w][t] = n]
    BY <1>8, <2>1 DEF Assign
  <2> QED
    BY <1>6, <2>2, <2>3
<1>9. ASSUME NEW w \in Workers, Commit(w) PROVE OffsetsSound'
  <2>1. UNCHANGED position
        /\ \A t \in Topics : committed'[t] = committed[t] \/ committed'[t] = position[w][t]
    BY <1>9 DEF Commit
  <2>2. \A t \in Topics : committed'[t] <= Len(log[t])
    BY <2>1 DEF OffsetsSound
  <2>3. \A t \in Topics : committed'[t] <= Len(log'[t])
    <3> SUFFICES ASSUME NEW t \in Topics PROVE committed'[t] <= Len(log'[t])
      OBVIOUS
    <3>1. committed'[t] \in Nat
      BY <1>3
    <3> QED
      BY <1>2, <2>2, <3>1
  <2>4. \A v \in Workers, t \in Topics : position'[v][t] <= Len(log'[t])
    BY <1>2, <1>4, <2>1 DEF OffsetsSound
  <2> QED
    BY <2>3, <2>4 DEF OffsetsSound
<1> QED
  BY <1>5, <1>7, <1>8, <1>9
     DEF Next, Loop, Drained, vars, Produce, Reject, Claim, Skip, ClaimFails, HandleStep,
         StepFails, HandlerReturns, CommitFails, PublishToDlq, DlqFails, Crash, Restart, ExpireClaim

(* Whoever is responsible for a message stays so, or has settled it.       *)
LEMMA SafeStays ==
  ASSUME TypeOK, TypeOK', Moves, LogGrows, NEW t \in Topics, NEW k, SafeKey(t, k)
  PROVE  SafeKey(t, k)'
<1>1. PICK j \in 1..Len(log[t]) : log[t][j].key = k /\ Safe(t, j)
  BY DEF SafeKey
<1>2. j \in 1..Len(log'[t]) /\ log'[t][j] = log[t][j]
  BY DEF LogGrows
<1>3. Safe(t, j)'
  <2>1. CASE j \in settled[t]["handled"] \cup settled[t]["dlq"]
    BY <2>1 DEF Moves, SettledGrow, Safe, Ways
  <2>2. ASSUME NEW w \in Workers, pc[w] \in {"handle", "failed"}, cur[w].topic = t, cur[w].offset = j
        PROVE  Safe(t, j)'
    BY <2>2 DEF Moves, HandsMove, Settling, Safe
  <2> QED
    BY <1>1, <2>1, <2>2 DEF Safe
<1> QED
  BY <1>1, <1>2, <1>3 DEF SafeKey

(* A message that was dealt with stays so.                                 *)
LEMMA DealtStays ==
  ASSUME TypeOK, TypeOK', Moves, LogGrows, Delivered, \A w \in Workers : HandSound(w),
         NEW t \in Topics, NEW i \in 1..Len(log[t]), DealtWith(t, i)
  PROVE  DealtWith(t, i)'
<1>1. PICK k : k = log[t][i].key
  OBVIOUS
<1>2. i \in 1..Len(log'[t]) /\ log'[t][i].key = k
  BY <1>1 DEF LogGrows
<1>3. PICK j \in 1..Len(log[t]) :
        /\ log[t][j].key = k
        /\ \/ j \in settled[t]["handled"] \cup settled[t]["dlq"]
           \/ \E w \in Workers : cur[w] # None /\ cur[w].topic = t /\ cur[w].offset = j
  BY <1>1 DEF DealtWith
<1>4. j \in 1..Len(log'[t]) /\ log'[t][j].key = k
  BY <1>3 DEF LogGrows
<1>5. CASE j \in settled[t]["handled"] \cup settled[t]["dlq"]
  <2>1. j \in settled'[t]["handled"] \cup settled'[t]["dlq"]
    BY <1>5 DEF Moves, SettledGrow, Ways
  <2> QED
    BY <1>2, <1>4, <2>1 DEF DealtWith
<1>6. ASSUME NEW w \in Workers, cur[w] # None, cur[w].topic = t, cur[w].offset = j, cur'[w] = cur[w]
      PROVE  DealtWith(t, i)'
  BY <1>2, <1>4, <1>6 DEF DealtWith
<1>7. ASSUME NEW w \in Workers, cur[w].topic = t, cur[w].offset = j, pc[w] \in {"commit", "commitDlq"}
      PROVE  DealtWith(t, i)'
  <2>1. cur[w].msg = log[t][j]
    BY <1>7 DEF HandSound
  <2>2. SafeKey(t, k)
    BY <1>3, <1>7, <2>1 DEF Delivered
  <2>3. SafeKey(t, k)'
    BY <2>2, SafeStays
  <2>4. PICK n \in 1..Len(log'[t]) : log'[t][n].key = k /\ Safe(t, n)'
    BY <2>3 DEF SafeKey
  <2>5. \A v \in Workers : pc'[v] \in {"handle", "failed"} => cur'[v] # None
    BY ConstantsAssumption DEF TypeOK
  <2> QED
    BY <1>2, <2>4, <2>5 DEF DealtWith, Safe
<1> QED
  BY <1>3, <1>5, <1>6, <1>7 DEF Moves, HandsMove

(* What a worker has in hand is a message of a topic.                      *)
LEMMA HandIsLogged ==
  ASSUME TypeOK, NEW w \in Workers, HandSound(w), pc[w] \notin {"idle", "down"}, cur[w] \in InHand
  PROVE  \E t \in Topics : \E j \in 1..Len(log[t]) :
           cur[w].topic = t /\ cur[w].offset = j /\ cur[w].msg = log[t][j]
BY DEF HandSound, InHand

(* A claim that was just taken is that of a handler, or of a failure.      *)
LEMMA ClaimsStay ==
  ASSUME TypeOK, TypeOK', Moves, LogGrows, Delivered, \A w \in Workers : HandSound(w),
         NEW k \in claims'
  PROVE  \E t \in Topics : SafeKey(t, k)'
<1>1. CASE k \in claims
  <2>1. PICK t \in Topics : SafeKey(t, k)
    BY <1>1 DEF Delivered
  <2> QED
    BY <2>1, SafeStays
<1>2. CASE k \notin claims
  <2>1. PICK w \in Workers : /\ pc[w] = "claim" /\ cur[w] \in InHand /\ cur[w].msg.key = k
                             /\ pc'[w] \in {"handle", "failed"} /\ cur'[w] = cur[w]
    BY <1>2 DEF Moves, ClaimsMove
  <2>2. PICK t \in Topics : \E j \in 1..Len(log[t]) :
           cur[w].topic = t /\ cur[w].offset = j /\ cur[w].msg = log[t][j]
    BY <2>1, HandIsLogged
  <2>3. PICK j \in 1..Len(log[t]) : cur[w].topic = t /\ cur[w].offset = j /\ cur[w].msg = log[t][j]
    BY <2>2
  <2>4. j \in 1..Len(log'[t]) /\ log'[t][j].key = k
    BY <2>1, <2>3 DEF LogGrows
  <2>5. Safe(t, j)'
    BY <2>1, <2>3 DEF Safe
  <2> QED
    BY <2>4, <2>5 DEF SafeKey
<1> QED
  BY <1>1, <1>2

(* Where an event was claimed on one topic, it is safe on that topic.      *)
LEMMA SafeWhereItIs ==
  ASSUME TypeOK, TypeOK', Moves, LogGrows, Delivered, OneTopicEach',
         NEW t \in Topics, NEW j \in 1..Len(log[t]), log[t][j].key \in claims
  PROVE  SafeKey(t, log[t][j].key)
<1>1. PICK k : k = log[t][j].key
  OBVIOUS
<1>2. PICK u \in Topics : SafeKey(u, k)
  BY <1>1 DEF Delivered
<1>3. PICK i \in 1..Len(log[u]) : log[u][i].key = k
  BY <1>2 DEF SafeKey
<1>4. /\ i \in 1..Len(log'[u]) /\ log'[u][i].key = k
      /\ j \in 1..Len(log'[t]) /\ log'[t][j].key = k
  BY <1>1, <1>3 DEF LogGrows
<1>5. u = t
  BY <1>4 DEF OneTopicEach
<1> QED
  BY <1>1, <1>2, <1>5

(* Whoever is about to commit has an event that is safe.                   *)
LEMMA CommitsStay ==
  ASSUME TypeOK, TypeOK', Moves, LogGrows, Delivered, OneTopicEach', \A w \in Workers : HandSound(w),
         NEW w \in Workers, pc'[w] \in {"commit", "commitDlq"}
  PROVE  SafeKey(cur[w].topic, cur[w].msg.key)'
<1>1. /\ cur'[w] = cur[w] /\ cur[w] \in InHand
      /\ \/ pc[w] = pc'[w]
         \/ pc[w] \in {"handle", "failed"} /\ Settling(w)
         \/ pc[w] = "claim" /\ cur[w].msg.key \in claims
  BY DEF Moves, HandsMove
<1>2. pc[w] \notin {"idle", "down"}
  BY <1>1
<1>3. PICK t \in Topics : \E j \in 1..Len(log[t]) :
         cur[w].topic = t /\ cur[w].offset = j /\ cur[w].msg = log[t][j]
  BY <1>1, <1>2, HandIsLogged
<1>4. PICK j \in 1..Len(log[t]) : cur[w].topic = t /\ cur[w].offset = j /\ cur[w].msg = log[t][j]
  BY <1>3
<1>5. PICK k : k = log[t][j].key
  OBVIOUS
<1>6. cur'[w].topic = t /\ cur'[w].msg.key = k
  BY <1>1, <1>4, <1>5
<1>7. CASE pc[w] = pc'[w]
  <2>1. SafeKey(t, k)
    BY <1>4, <1>5, <1>7 DEF Delivered
  <2>2. SafeKey(t, k)'
    BY <2>1, SafeStays
  <2> QED
    BY <1>6, <2>2 DEF SafeKey, Safe
<1>8. CASE Settling(w)
  <2>1. Safe(t, j)'
    BY <1>4, <1>8 DEF Settling, Safe
  <2>2. j \in 1..Len(log'[t]) /\ log'[t][j].key = k
    BY <1>5 DEF LogGrows
  <2>3. SafeKey(t, k)'
    BY <2>1, <2>2 DEF SafeKey
  <2> QED
    BY <1>6, <2>3 DEF SafeKey, Safe
<1>9. CASE cur[w].msg.key \in claims
  <2>1. SafeKey(t, k)
    BY <1>4, <1>5, <1>9, SafeWhereItIs
  <2>2. SafeKey(t, k)'
    BY <2>1, SafeStays
  <2> QED
    BY <1>6, <2>2 DEF SafeKey, Safe
<1> QED
  BY <1>1, <1>7, <1>8, <1>9

(* A delivery is dropped as a duplicate of an event that is safe.          *)
LEMMA SkipsStay ==
  ASSUME TypeOK, TypeOK', Moves, LogGrows, Delivered, OneTopicEach', \A w \in Workers : HandSound(w),
         NEW t \in Topics, NEW i \in settled'[t]["skipped"]
  PROVE  (i \in 1..Len(log[t]) /\ SafeKey(t, log[t][i].key))'
<1>1. i \in 1..Len(log[t]) /\ SafeKey(t, log[t][i].key)
  <2>1. CASE i \in settled[t]["skipped"]
    BY <2>1 DEF Delivered
  <2>2. CASE i \notin settled[t]["skipped"]
    <3>1. PICK w \in Workers : /\ pc[w] = "claim" /\ cur[w] \in InHand /\ cur[w].topic = t
                               /\ cur[w].offset = i /\ cur[w].msg.key \in claims
      BY <2>2 DEF Moves, SkipsMove
    <3>2. i \in 1..Len(log[t]) /\ cur[w].msg = log[t][i]
      BY <3>1, HandIsLogged
    <3> QED
      BY <3>1, <3>2, SafeWhereItIs
  <2> QED
    BY <2>1, <2>2
<1>2. PICK k : k = log[t][i].key
  OBVIOUS
<1>3. SafeKey(t, k)'
  BY <1>1, <1>2, SafeStays
<1>4. i \in 1..Len(log'[t]) /\ log'[t][i].key = k
  BY <1>1, <1>2 DEF LogGrows
<1> QED
  BY <1>3, <1>4 DEF SafeKey, Safe

(* Offsets are committed past events that are dealt with, and no owner of  *)
(* a partition is past another.                                            *)
LEMMA PositionsStay ==
  ASSUME TypeOK, TypeOK', Moves, LogGrows, Delivered, OffsetsSound, OffsetsSound',
         \A w \in Workers : HandSound(w)
  PROVE  /\ \A t \in Topics : \A i \in 1..committed'[t] : DealtWith(t, i)'
         /\ \A w \in Workers, t \in Topics : owner'[t] = w =>
              \A i \in 1..position'[w][t] : DealtWith(t, i)'
<1>1. /\ committed \in [Topics -> Nat] /\ position \in [Workers -> [Topics -> Nat]]
      /\ committed' \in [Topics -> Nat] /\ position' \in [Workers -> [Topics -> Nat]]
  BY DEF TypeOK
<1>2. \A t \in Topics, w \in Workers : position[w][t] \in Nat /\ position'[w][t] \in Nat
  BY <1>1
<1>3. ASSUME NEW t \in Topics, NEW i \in 1..committed[t] PROVE DealtWith(t, i)'
  <2>1. i \in 1..Len(log[t])
    BY <1>1 DEF OffsetsSound, LogGrows
  <2> QED
    BY <2>1, DealtStays DEF Delivered
<1>4. ASSUME NEW t \in Topics, NEW w \in Workers, owner[t] = w, NEW i \in 1..position[w][t]
      PROVE  DealtWith(t, i)'
  <2>1. i \in 1..Len(log[t])
    BY <1>2 DEF OffsetsSound, LogGrows
  <2>2. DealtWith(t, i)
    BY <1>4 DEF Delivered
  <2> QED
    BY <2>1, <2>2, DealtStays
<1>5. ASSUME NEW t \in Topics, NEW i \in 1..committed'[t] PROVE DealtWith(t, i)'
  <2>1. \/ committed'[t] = committed[t]
        \/ \E w \in Workers : owner[t] = w /\ committed'[t] = position[w][t]
    BY DEF Moves, OffsetsMove
  <2> QED
    BY <1>3, <1>4, <2>1
<1>6. ASSUME NEW t \in Topics, NEW w \in Workers, owner'[t] = w, NEW i \in 1..position'[w][t]
      PROVE  DealtWith(t, i)'
  <2>1. \/ owner[t] = w /\ position'[w][t] = position[w][t]
        \/ position'[w][t] = committed[t]
        \/ /\ owner[t] = w /\ position'[w][t] = position[w][t] + 1
           /\ position'[w][t] \in 1..Len(log[t])
           /\ cur'[w] # None /\ cur'[w].topic = t /\ cur'[w].offset = position'[w][t]
    BY <1>6 DEF Moves, OffsetsMove
  <2>2. CASE \/ owner[t] = w /\ position'[w][t] = position[w][t]
             \/ position'[w][t] = committed[t]
    BY <1>3, <1>4, <2>2
  <2>3. CASE /\ owner[t] = w /\ position'[w][t] = position[w][t] + 1
             /\ position'[w][t] \in 1..Len(log[t])
             /\ cur'[w] # None /\ cur'[w].topic = t /\ cur'[w].offset = position'[w][t]
    <3>1. CASE i = position'[w][t]
      <4>1. i \in 1..Len(log'[t])
        BY <2>3, <3>1 DEF LogGrows
      <4> QED
        BY <2>3, <3>1, <4>1 DEF DealtWith
    <3>2. CASE i # position'[w][t]
      <4>1. i \in 1..position[w][t]
        BY <1>2, <2>3, <3>2
      <4> QED
        BY <1>4, <2>3, <4>1
    <3> QED
      BY <3>1, <3>2
  <2> QED
    BY <2>1, <2>2, <2>3
<1> QED
  BY <1>5, <1>6

(* Without faults of these kinds, none of these kinds happened.            *)
LEMMA NoFaults ==
  ASSUME TypeOK, TypeOK', Undisturbed'
  PROVE  ~Fault("crash") /\ ~Fault("dlq")
<1>1. faults \in [FaultKinds -> Nat]
  BY DEF TypeOK
<1>2. ASSUME NEW f \in {"crash", "dlq"}, Fault(f) PROVE FALSE
  <2>1. f \in FaultKinds /\ faults[f] \in Nat
    BY <1>1 DEF FaultKinds
  <2>2. faults'[f] = faults[f] + 1
    BY <1>1, <1>2, <2>1 DEF Fault
  <2>3. faults'[f] = 0
    BY DEF Undisturbed
  <2> QED
    BY <2>1, <2>2, <2>3
<1> QED
  BY <1>2

(* What is delivered stays delivered.                                      *)
LEMMA DeliveryStep == TypeOK /\ TypeOK' /\ [Next]_vars /\ DeliveryInv => DeliveryInv'
<1> SUFFICES ASSUME TypeOK, TypeOK', [Next]_vars, DeliveryInv PROVE DeliveryInv'
  OBVIOUS
<1>1. \A w \in Workers : HandSound(w)
  BY DEF DeliveryInv
<1>2. \A w \in Workers : HandSound(w)'
  BY <1>1, HandStep
<1>3. OffsetsSound /\ OffsetsSound'
  BY OffsetsStep DEF DeliveryInv
<1>4. ASSUME Undisturbed' PROVE Delivered'
  <2>1. ~Fault("crash") /\ ~Fault("dlq")
    BY <1>4, NoFaults
  <2>2. Moves /\ LogGrows /\ Delivered /\ OneTopicEach'
    BY <1>1, <1>4, <2>1, MovesStep, LogStep, UndisturbedBefore DEF DeliveryInv, Undisturbed
  <2>3. \A k \in claims' : \E t \in Topics : SafeKey(t, k)'
    BY <1>1, <2>2, ClaimsStay
  <2>4. \A w \in Workers : pc'[w] \in {"commit", "commitDlq"} => SafeKey(cur[w].topic, cur[w].msg.key)'
    BY <1>1, <2>2, CommitsStay
  <2>5. \A t \in Topics : \A i \in settled'[t]["skipped"] :
          (i \in 1..Len(log[t]) /\ SafeKey(t, log[t][i].key))'
    BY <1>1, <2>2, SkipsStay
  <2>6. /\ \A t \in Topics : \A i \in 1..committed'[t] : DealtWith(t, i)'
        /\ \A w \in Workers, t \in Topics : owner'[t] = w =>
             \A i \in 1..position'[w][t] : DealtWith(t, i)'
    BY <1>1, <1>3, <2>2, PositionsStay
  <2> QED
    BY <2>3, <2>4, <2>5, <2>6 DEF Delivered
<1> QED
  BY <1>2, <1>3, <1>4 DEF DeliveryInv

(* In the beginning nothing was delivered.                                 *)
LEMMA DeliveryInit == Init => DeliveryInv
<1> SUFFICES ASSUME Init PROVE DeliveryInv
  OBVIOUS
<1>1. \A t \in Topics : log[t] = <<>> /\ committed[t] = 0 /\ Len(log[t]) = 0
  BY DEF Init
<1>2. \A w \in Workers, t \in Topics : position[w][t] = 0 /\ pc[w] = "idle" /\ cur[w] = None
  BY DEF Init
<1>3. \A w \in Workers : pc[w] = "idle" /\ cur[w] = None
  BY DEF Init
<1>4. \A t \in Topics : settled[t]["skipped"] = {}
  BY DEF Init, Ways
<1>5. claims = {}
  BY DEF Init
<1>6. Delivered
  BY <1>1, <1>2, <1>3, <1>4, <1>5 DEF Delivered
<1> QED
  BY <1>1, <1>2, <1>3, <1>6 DEF DeliveryInv, HandSound, OffsetsSound

(* No event is lost, undisturbed: the group commits past events, and drops *)
(* deliveries as duplicates of events, that were handled, are in hand or   *)
(* are in the dead letter queue (StreamProcessor!NothingLost).             *)
THEOREM NoEventIsLost == Spec => []NothingLost
<1>1. Spec => []TypeOK
  BY TypeCorrect
<1>2. Spec => []DeliveryInv
  BY <1>1, DeliveryInit, DeliveryStep, PTL DEF Spec
<1>3. TypeOK /\ DeliveryInv => NothingLost
  <2> SUFFICES ASSUME TypeOK, DeliveryInv, Undisturbed
               PROVE  CommitSafe /\ \A t \in Topics : \A i \in settled[t]["skipped"] : DealtWith(t, i)
    BY DEF NothingLost, Undisturbed
  <2>1. Delivered
    BY DEF DeliveryInv
  <2>2. \A w \in Workers : pc[w] \in {"handle", "failed"} => cur[w] # None
    BY ConstantsAssumption DEF TypeOK
  <2>3. ASSUME NEW t \in Topics, NEW i \in settled[t]["skipped"] PROVE DealtWith(t, i)
    <3>1. SafeKey(t, log[t][i].key)
      BY <2>1 DEF Delivered
    <3>2. PICK j \in 1..Len(log[t]) : log[t][j].key = log[t][i].key /\ Safe(t, j)
      BY <3>1 DEF SafeKey
    <3> QED
      BY <2>2, <3>2 DEF DealtWith, Safe
  <2> QED
    BY <2>1, <2>3 DEF Delivered, CommitSafe
<1> QED
  BY <1>1, <1>2, <1>3, PTL

-----------------------------------------------------------------------------
(* One row per source event.                                               *)

Rows(t, k) == done[t][k]["oltp"]

(* A worker that is about to insert found no row.                          *)
Inserting(w) ==
  /\ pc[w] = "handle" /\ cur[w].topic \in Canonical
  /\ "oltp" \in todo[w] /\ "lookup" \notin todo[w]

OneRowEach ==
  \A t \in Topics \cap Canonical, s1, s2 \in Systems, i \in Ids :
    (Rows(t, <<s1, i>>) > 0 /\ Rows(t, <<s2, i>>) > 0) => s1 = s2 /\ Rows(t, <<s1, i>>) = 1

(* While no partition moves, a worker owns the partition of the message in *)
(* its hand, so nobody inserts between its SELECT and its INSERT.          *)
OwnsHand(w) == pc[w] \notin {"idle", "down"} => owner[cur[w].topic] = w

Absent(w) == Inserting(w) => ~RowExists(cur[w].topic, cur[w].msg.key)

RowInv ==
  faults["rebalance"] = 0 =>
    /\ \A w \in Workers : OwnsHand(w)
    /\ \A w \in Workers : Absent(w)
    /\ OneRowEach

(* A handler of a canonical topic looks for the row before it inserts it.  *)
LEMMA LookupFirst ==
  ASSUME NEW t \in Canonical, NEW m, "oltp" \in HandlerEffects(t, m)
  PROVE  "lookup" \in HandlerEffects(t, m)
BY DEF HandlerEffects, RawEffects, TransactionEffects, BetEffects, DeviceEffects,
       KycEffects, StatusEffects, OltpEffects, Raw, Canonical

(* Without rebalances no owner of a partition loses it to another.         *)
LEMMA OwnersStay ==
  ASSUME TypeOK, [Next]_vars, \A w \in Workers : HandSound(w),
         faults["rebalance"] = 0, faults'["rebalance"] = 0,
         \A w \in Workers : OwnsHand(w), NEW v \in Workers
  PROVE  OwnsHand(v)'
<1> USE DEF Goto
<1>1. CASE UNCHANGED <<owner, cur>> /\ (pc'[v] \notin {"idle", "down"} => pc[v] \notin {"idle", "down"})
  BY <1>1 DEF OwnsHand
<1>2. ASSUME NEW w \in Workers, NEW t \in Topics, Fetch(w, t) PROVE OwnsHand(v)'
  <2>1. pc[w] = "idle" /\ owner[t] = w
    BY <1>2 DEF Fetch
  <2>2. PICK i : i = position[w][t] + 1
    OBVIOUS
  <2>3. PICK m : m = log[t][i]
    OBVIOUS
  <2>4. CASE m.form = "garbage"
    <3>1. /\ owner' = [u \in Topics |-> IF owner[u] = w THEN None ELSE owner[u]]
          /\ pc' = [pc EXCEPT ![w] = "down"] /\ cur' = cur
      BY <1>2, <2>2, <2>3, <2>4 DEF Fetch
    <3>2. CASE v = w
      BY <3>1, <3>2 DEF OwnsHand, TypeOK
    <3>3. CASE v # w
      <4>1. pc'[v] = pc[v] /\ cur'[v] = cur[v]
        BY <3>1, <3>3 DEF TypeOK
      <4>2. pc[v] \notin {"idle", "down"} => cur[v].topic \in Topics
        BY DEF TypeOK, PcValues, InHand
      <4> QED
        BY <3>1, <3>3, <4>1, <4>2 DEF OwnsHand
    <3> QED
      BY <3>2, <3>3
  <2>5. CASE m.form # "garbage"
    <3>1. PICK new : new = [topic |-> t, offset |-> i, msg |-> m]
      OBVIOUS
    <3>2. owner' = owner /\ cur' = [cur EXCEPT ![w] = new] /\ pc' = [pc EXCEPT ![w] = "claim"]
      BY <1>2, <2>2, <2>3, <2>5, <3>1 DEF Fetch
    <3>3. cur'[w] = new /\ \A u \in Workers : u # w => pc'[u] = pc[u] /\ cur'[u] = cur[u]
      BY <3>2 DEF TypeOK
    <3> QED
      BY <2>1, <3>1, <3>2, <3>3 DEF OwnsHand
  <2> QED
    BY <2>4, <2>5
<1>3. ASSUME NEW w \in Workers,
             Reject(w) \/ Claim(w) \/ Skip(w) \/ ClaimFails(w) \/ HandleStep(w) \/ StepFails(w)
               \/ HandlerReturns(w) \/ PublishToDlq(w) PROVE OwnsHand(v)'
  <2>1. /\ pc[w] \notin {"idle", "down"} /\ UNCHANGED <<owner, cur>>
        /\ \A u \in Workers : u # w => pc'[u] = pc[u]
    BY <1>3 DEF Reject, Claim, Skip, ClaimFails, HandleStep, StepFails, NextEffect,
                HandlerReturns, PublishToDlq, TypeOK
  <2> QED
    BY <1>1, <2>1
<1>4. ASSUME NEW w \in Workers, Commit(w) \/ CommitFails(w) \/ DlqFails(w) PROVE OwnsHand(v)'
  <2>1. /\ pc[w] \notin {"idle", "down"} /\ UNCHANGED owner
        /\ \A u \in Workers : u # w => pc'[u] = pc[u] /\ cur'[u] = cur[u]
        /\ pc'[w] \in {"idle", "down"} \/ cur'[w] = cur[w]
    BY <1>4 DEF Commit, CommitFails, DlqFails, TypeOK
  <2> QED
    BY <2>1 DEF OwnsHand
<1>5. ASSUME NEW w \in Workers, Crash(w) PROVE OwnsHand(v)'
  <2>1. /\ owner' = [u \in Topics |-> IF owner[u] = w THEN None ELSE owner[u]]
        /\ pc'[w] = "down"
        /\ \A u \in Workers : u # w => pc'[u] = pc[u] /\ cur'[u] = cur[u]
    BY <1>5 DEF Crash, TypeOK
  <2>2. CASE v = w
    BY <2>1, <2>2 DEF OwnsHand
  <2>3. CASE v # w
    <3>1. pc[v] \notin {"idle", "down"} => cur[v].topic \in Topics
      BY DEF TypeOK, PcValues, InHand
    <3> QED
      BY <2>1, <2>3, <3>1 DEF OwnsHand
  <2> QED
    BY <2>2, <2>3
<1>6. ASSUME NEW w \in Workers, Restart(w) PROVE OwnsHand(v)'
  BY <1>6 DEF Restart, OwnsHand, TypeOK
<1>7. ASSUME NEW w \in Workers, NEW t \in Topics, Assign(w, t) PROVE OwnsHand(v)'
  <2>1. owner[t] = None
    <3>1. faults["rebalance"] \in Nat /\ faults \in [FaultKinds -> Nat] /\ "rebalance" \in FaultKinds
      BY DEF TypeOK, FaultKinds
    <3>2. ~Fault("rebalance")
      BY <3>1 DEF Fault
    <3> QED
      BY <1>7, <3>2 DEF Assign
  <2>2. UNCHANGED <<pc, cur>> /\ \A u \in Topics : u # t => owner'[u] = owner[u]
    BY <1>7 DEF Assign, TypeOK
  <2>3. pc[v] \notin {"idle", "down"} => cur[v].topic \in Topics /\ cur[v].topic # t
    BY <2>1, ConstantsAssumption DEF TypeOK, PcValues, InHand, OwnsHand
  <2> QED
    BY <2>2, <2>3 DEF OwnsHand
<1> QED
  BY <1>1, <1>2, <1>3, <1>4, <1>5, <1>6, <1>7
     DEF Next, Loop, Drained, vars, Produce, ExpireClaim

(* How the rows of one table change: one worker inserts one.               *)
RowsMove ==
  \/ \A t \in Topics, k \in Keys : Rows(t, k)' = Rows(t, k)
  \/ \E w \in Workers, u \in Topics, n \in Keys :
       /\ pc[w] = "handle" /\ cur[w] \in InHand /\ cur[w].topic = u /\ cur[w].msg.key = n
       /\ "oltp" \in todo[w] /\ "lookup" \notin todo[w]
       /\ "oltp" \notin todo'[w]
       /\ Rows(u, n)' = Rows(u, n) + 1
       /\ \A t \in Topics, k \in Keys : ~(t = u /\ k = n) => Rows(t, k)' = Rows(t, k)
       /\ \A v \in Workers : v # w => todo'[v] = todo[v] /\ pc'[v] = pc[v]
       /\ cur' = cur

(* An effect other than the INSERT leaves the rows alone.                  *)
LEMMA PerformRows ==
  ASSUME TypeOK, NEW w \in Workers, NEW e \in Effects, Holding(w), Perform(w, e)
  PROVE  \/ e # "oltp" /\ \A t \in Topics, k \in Keys : Rows(t, k)' = Rows(t, k)
         \/ /\ e = "oltp"
            /\ \E u \in Topics, n \in Keys :
                 /\ cur[w] \in InHand /\ cur[w].topic = u /\ cur[w].msg.key = n
                 /\ Rows(u, n)' = Rows(u, n) + 1
                 /\ \A t \in Topics, k \in Keys : ~(t = u /\ k = n) => Rows(t, k)' = Rows(t, k)
<1>1. done \in [Topics -> [Keys -> [Effects -> Nat]]] /\ cur[w] \in InHand
  BY DEF TypeOK, Holding
<1>2. PICK u \in Topics, n \in Keys : u = cur[w].topic /\ n = cur[w].msg.key
  BY <1>1 DEF InHand, Message
<1>3. CASE e = "lookup"
  BY <1>3 DEF Perform, Rows
<1>4. CASE e # "lookup"
  <2>1. PICK c : c = done[u][n][e]
    OBVIOUS
  <2>2. PICK d : d = c + 1
    OBVIOUS
  <2>3. done' = [done EXCEPT ![u][n][e] = d]
    BY <1>1, <1>2, <1>4, <2>1, <2>2 DEF Perform
  <2>4. /\ done'[u][n][e] = d
        /\ \A t \in Topics, k \in Keys, f \in Effects :
             ~(t = u /\ k = n /\ f = e) => done'[t][k][f] = done[t][k][f]
    BY <1>1, <2>3
  <2>5. "oltp" \in Effects
    BY DEF Effects
  <2>6. CASE e = "oltp"
    <3>1. Rows(u, n)' = Rows(u, n) + 1
      BY <2>1, <2>2, <2>4, <2>6 DEF Rows
    <3>2. \A t \in Topics, k \in Keys : ~(t = u /\ k = n) => Rows(t, k)' = Rows(t, k)
      BY <2>4, <2>5 DEF Rows
    <3> QED
      BY <1>1, <1>2, <2>6, <3>1, <3>2
  <2>7. CASE e # "oltp"
    BY <2>4, <2>5, <2>7 DEF Rows
  <2> QED
    BY <2>6, <2>7
<1> QED
  BY <1>3, <1>4

(* Every step moves the rows so.                                           *)
LEMMA RowsStep == TypeOK /\ [Next]_vars => RowsMove
<1> SUFFICES ASSUME TypeOK, [Next]_vars PROVE RowsMove
  OBVIOUS
<1>1. CASE UNCHANGED done
  BY <1>1 DEF RowsMove, Rows
<1>2. ASSUME NEW w \in Workers, NEW e \in Effects, NextEffect(w, e), Perform(w, e), UNCHANGED cur,
             e = "oltp" => UNCHANGED pc /\ \E x : "oltp" \notin x /\ todo' = [todo EXCEPT ![w] = x]
      PROVE  RowsMove
  <2>1. Holding(w) /\ e \in todo[w] /\ \A f \in todo[w] : Rank[e] <= Rank[f]
    BY <1>2 DEF NextEffect, Holding
  <2>2. CASE e # "oltp"
    BY <1>2, <2>1, <2>2, PerformRows DEF RowsMove
  <2>3. CASE e = "oltp"
    <3>1. "lookup" \notin todo[w]
      <4>1. Rank["oltp"] = 8 /\ Rank["lookup"] = 7
        BY DEF Rank, Effects
      <4> QED
        BY <2>1, <2>3, <4>1
    <3>2. "oltp" \notin todo'[w] /\ \A v \in Workers : v # w => todo'[v] = todo[v] /\ pc'[v] = pc[v]
      BY <1>2, <2>3 DEF TypeOK
    <3>3. PICK u \in Topics, n \in Keys :
             /\ cur[w] \in InHand /\ cur[w].topic = u /\ cur[w].msg.key = n
             /\ Rows(u, n)' = Rows(u, n) + 1
             /\ \A t \in Topics, k \in Keys : ~(t = u /\ k = n) => Rows(t, k)' = Rows(t, k)
      BY <1>2, <2>1, <2>3, PerformRows
    <3> QED
      BY <1>2, <2>1, <2>3, <3>1, <3>2, <3>3 DEF RowsMove, Holding
  <2> QED
    BY <2>2, <2>3
<1>3. ASSUME NEW w \in Workers, HandleStep(w) PROVE RowsMove
  <2>1. PICK e \in Effects :
          /\ NextEffect(w, e) /\ Perform(w, e) /\ UNCHANGED <<cur, pc>>
          /\ todo' = [todo EXCEPT ![w] =
                        IF e = "lookup" /\ RowExists(cur[w].topic, cur[w].msg.key)
                        THEN @ \ OltpEffects ELSE @ \ {e}]
    BY <1>3 DEF HandleStep
  <2>2. PICK x : /\ x = IF e = "lookup" /\ RowExists(cur[w].topic, cur[w].msg.key)
                        THEN todo[w] \ OltpEffects ELSE todo[w] \ {e}
                 /\ todo' = [todo EXCEPT ![w] = x]
    BY <2>1
  <2>3. e = "oltp" => "oltp" \notin x
    BY <2>2
  <2> QED
    BY <1>2, <2>1, <2>2, <2>3
<1>4. ASSUME NEW w \in Workers, StepFails(w) PROVE RowsMove
  <2>1. PICK e \in Effects :
          /\ NextEffect(w, e) /\ UNCHANGED cur
          /\ Perform(w, e) \/ UNCHANGED <<done, log>>
          /\ IF e \in BestEffort
             THEN /\ todo' = [todo EXCEPT ![w] =
                                IF e \in OltpEffects THEN @ \ OltpEffects ELSE @ \ {e}]
                  /\ UNCHANGED pc
             ELSE /\ todo' = [todo EXCEPT ![w] = {}]
                  /\ Goto(w, "failed")
    BY <1>4 DEF StepFails
  <2>2. PICK x : x = todo[w] \ OltpEffects
    OBVIOUS
  <2>3. e = "oltp" => UNCHANGED pc /\ "oltp" \notin x /\ todo' = [todo EXCEPT ![w] = x]
    BY <2>1, <2>2 DEF BestEffort, OltpEffects
  <2> QED
    BY <1>1, <1>2, <2>1, <2>3
<1> QED
  BY <1>1, <1>3, <1>4
     DEF Next, Loop, Drained, vars, Produce, Fetch, Reject, Claim, Skip, ClaimFails, HandlerReturns,
         Commit, CommitFails, PublishToDlq, DlqFails, Crash, Restart, Assign, ExpireClaim

(* A worker comes to insert by a SELECT that finds no row.                 *)
InsertMoves(v) ==
  Inserting(v)' =>
    /\ pc[v] = "handle" /\ cur'[v] = cur[v]
    /\ \/ Inserting(v)
       \/ /\ ~RowExists(cur[v].topic, cur[v].msg.key)
          /\ \A t \in Topics, k \in Keys : Rows(t, k)' = Rows(t, k)

(* Every step of a handler does.                                           *)
LEMMA InsertStep ==
  ASSUME TypeOK, [Next]_vars, NEW v \in Workers
  PROVE  InsertMoves(v)
<1> USE DEF Goto
<1>1. CASE pc'[v] = pc[v] /\ todo'[v] = todo[v] /\ (pc[v] = "handle" => cur'[v] = cur[v])
  BY <1>1 DEF InsertMoves, Inserting
<1>2. CASE pc'[v] # "handle"
  BY <1>2 DEF InsertMoves, Inserting
<1>3. ASSUME NEW w \in Workers,
             \/ \E t \in Topics : Fetch(w, t)
             \/ Reject(w) \/ Skip(w) \/ ClaimFails(w) \/ HandlerReturns(w) \/ PublishToDlq(w)
             \/ Commit(w) \/ CommitFails(w) \/ DlqFails(w) \/ Crash(w) \/ Restart(w)
             \/ \E t \in Topics : Assign(w, t) PROVE InsertMoves(v)
  <2>1. CASE v = w
    <3>1. pc'[w] # "handle" \/ (UNCHANGED pc /\ UNCHANGED todo /\ UNCHANGED cur)
      BY <1>3 DEF Fetch, Reject, Skip, ClaimFails, HandlerReturns, PublishToDlq, Commit,
                  CommitFails, DlqFails, Crash, Restart, Assign, TypeOK
    <3> QED
      BY <1>1, <1>2, <2>1, <3>1
  <2>2. CASE v # w
    <3>1. pc'[v] = pc[v] /\ todo'[v] = todo[v] /\ cur'[v] = cur[v]
      BY <1>3, <2>2 DEF Fetch, Reject, Skip, ClaimFails, HandlerReturns, PublishToDlq, Commit,
                  CommitFails, DlqFails, Crash, Restart, Assign, TypeOK
    <3> QED
      BY <1>1, <3>1
  <2> QED
    BY <2>1, <2>2
<1>4. ASSUME NEW w \in Workers, Claim(w) PROVE InsertMoves(v)
  <2>1. CASE v = w
    <3>1. cur' = cur /\ todo'[w] = HandlerEffects(cur[w].topic, cur[w].msg)
      BY <1>4 DEF Claim, TypeOK
    <3>2. PICK t : t = cur[w].topic
      OBVIOUS
    <3>3. PICK m : m = cur[w].msg
      OBVIOUS
    <3>4. t \in Canonical /\ "oltp" \in HandlerEffects(t, m) => "lookup" \in HandlerEffects(t, m)
      BY LookupFirst
    <3> QED
      BY <2>1, <3>1, <3>2, <3>3, <3>4 DEF InsertMoves, Inserting
  <2>2. CASE v # w
    <3>1. pc'[v] = pc[v] /\ todo'[v] = todo[v] /\ cur'[v] = cur[v]
      BY <1>4, <2>2 DEF Claim, TypeOK
    <3> QED
      BY <1>1, <3>1
  <2> QED
    BY <2>1, <2>2
<1>5. ASSUME NEW w \in Workers, HandleStep(w) PROVE InsertMoves(v)
  <2>1. PICK e \in Effects :
          /\ NextEffect(w, e) /\ Perform(w, e) /\ UNCHANGED <<cur, pc>>
          /\ todo' = [todo EXCEPT ![w] =
                        IF e = "lookup" /\ RowExists(cur[w].topic, cur[w].msg.key)
                        THEN @ \ OltpEffects ELSE @ \ {e}]
    BY <1>5 DEF HandleStep
  <2>2. pc[w] = "handle"
    BY <2>1 DEF NextEffect
  <2>3. CASE v # w
    <3>1. pc'[v] = pc[v] /\ todo'[v] = todo[v] /\ cur'[v] = cur[v]
      BY <2>1, <2>3 DEF TypeOK
    <3> QED
      BY <1>1, <3>1
  <2>4. CASE v = w
    <3>1. todo'[w] = IF e = "lookup" /\ RowExists(cur[w].topic, cur[w].msg.key)
                     THEN todo[w] \ OltpEffects ELSE todo[w] \ {e}
      BY <2>1 DEF TypeOK
    <3>2. CASE e = "lookup" /\ RowExists(cur[w].topic, cur[w].msg.key)
      <4>1. "oltp" \notin todo'[w]
        BY <3>1, <3>2 DEF OltpEffects
      <4> QED
        BY <2>4, <4>1 DEF InsertMoves, Inserting
    <3>3. CASE e = "lookup" /\ ~RowExists(cur[w].topic, cur[w].msg.key)
      <4>1. \A t \in Topics, k \in Keys : Rows(t, k)' = Rows(t, k)
        BY <2>1, <3>3 DEF Perform, Rows
      <4> QED
        BY <2>1, <2>2, <2>4, <3>3, <4>1 DEF InsertMoves
    <3>4. CASE e # "lookup"
      <4>1. todo'[w] = todo[w] \ {e}
        BY <3>1, <3>4
      <4>2. "lookup" \notin todo'[w] => "lookup" \notin todo[w]
        BY <3>4, <4>1
      <4>3. "oltp" \in todo'[w] => "oltp" \in todo[w]
        BY <4>1
      <4> QED
        BY <2>1, <2>2, <2>4, <4>2, <4>3 DEF InsertMoves, Inserting
    <3> QED
      BY <3>2, <3>3, <3>4
  <2> QED
    BY <2>3, <2>4
<1>6. ASSUME NEW w \in Workers, StepFails(w) PROVE InsertMoves(v)
  <2>1. PICK e \in Effects :
          /\ NextEffect(w, e) /\ UNCHANGED cur
          /\ IF e \in BestEffort
             THEN /\ todo' = [todo EXCEPT ![w] =
                                IF e \in OltpEffects THEN @ \ OltpEffects ELSE @ \ {e}]
                  /\ UNCHANGED pc
             ELSE /\ todo' = [todo EXCEPT ![w] = {}]
                  /\ pc' = [pc EXCEPT ![w] = "failed"]
    BY <1>6 DEF StepFails
  <2>2. pc[w] = "handle"
    BY <2>1 DEF NextEffect
  <2>3. CASE v # w
    <3>1. pc'[v] = pc[v] /\ todo'[v] = todo[v] /\ cur'[v] = cur[v]
      BY <2>1, <2>3 DEF TypeOK
    <3> QED
      BY <1>1, <3>1
  <2>4. CASE v = w
    <3>1. CASE e \in OltpEffects
      <4>1. todo' = [todo EXCEPT ![w] = @ \ OltpEffects]
        BY <2>1, <3>1 DEF BestEffort, OltpEffects
      <4>2. "oltp" \notin todo'[w]
        BY <4>1 DEF TypeOK, OltpEffects
      <4> QED
        BY <2>4, <4>2 DEF InsertMoves, Inserting
    <3>2. CASE e \in BestEffort \ OltpEffects
      <4>1. todo' = [todo EXCEPT ![w] = @ \ {e}] /\ UNCHANGED pc
        BY <2>1, <3>2
      <4>2. todo'[w] = todo[w] \ {e}
        BY <4>1 DEF TypeOK
      <4>3. "lookup" \notin todo'[w] => "lookup" \notin todo[w]
        BY <3>2, <4>2 DEF OltpEffects
      <4>4. "oltp" \in todo'[w] => "oltp" \in todo[w]
        BY <4>2
      <4> QED
        BY <2>1, <2>2, <2>4, <4>1, <4>3, <4>4 DEF InsertMoves, Inserting
    <3>3. CASE e \notin BestEffort
      <4>1. pc'[w] = "failed"
        BY <2>1, <3>3 DEF TypeOK
      <4> QED
        BY <1>2, <2>4, <4>1
    <3> QED
      BY <3>1, <3>2, <3>3
  <2> QED
    BY <2>3, <2>4
<1> QED
  BY <1>1, <1>3, <1>4, <1>5, <1>6
     DEF Next, Loop, Drained, vars, Produce, ExpireClaim

(* No worker inserts a row that is there.                                  *)
LEMMA AbsentStep ==
  ASSUME TypeOK, [Next]_vars, \A w \in Workers : OwnsHand(w),
         \A w \in Workers : Absent(w), NEW v \in Workers
  PROVE  Absent(v)'
<1> SUFFICES ASSUME Inserting(v)' PROVE ~RowExists(cur[v].topic, cur[v].msg.key)'
  BY DEF Absent
<1>1. /\ pc[v] = "handle" /\ cur'[v] = cur[v]
      /\ \/ Inserting(v)
         \/ /\ ~RowExists(cur[v].topic, cur[v].msg.key)
            /\ \A t \in Topics, k \in Keys : Rows(t, k)' = Rows(t, k)
  BY InsertStep DEF InsertMoves
<1>2. cur[v] \in InHand
  BY <1>1 DEF TypeOK
<1>3. PICK u \in Topics, n \in Keys : u = cur[v].topic /\ n = cur[v].msg.key
  BY <1>2 DEF InHand, Message
<1>4. \A s \in Systems : ~(Rows(u, <<s, n[2]>>) > 0)
  BY <1>1, <1>3 DEF Absent, RowExists, Rows
<1>5. \A s \in Systems : <<s, n[2]>> \in Keys
  BY DEF Keys
<1>6. \A s \in Systems : Rows(u, <<s, n[2]>>)' = Rows(u, <<s, n[2]>>)
  <2>1. CASE \A t \in Topics, k \in Keys : Rows(t, k)' = Rows(t, k)
    BY <1>5, <2>1
  <2>2. ASSUME NEW w \in Workers, NEW x \in Topics, NEW y \in Keys,
               /\ pc[w] = "handle" /\ cur[w] \in InHand /\ cur[w].topic = x /\ cur[w].msg.key = y
               /\ "oltp" \in todo[w] /\ "lookup" \notin todo[w]
               /\ "oltp" \notin todo'[w]
               /\ \A t \in Topics, k \in Keys : ~(t = x /\ k = y) => Rows(t, k)' = Rows(t, k)
        PROVE  \A s \in Systems : Rows(u, <<s, n[2]>>)' = Rows(u, <<s, n[2]>>)
    <3>1. w # v
      BY <2>2 DEF Inserting
    <3>2. x # u
      BY <1>1, <1>3, <2>2, <3>1 DEF OwnsHand
    <3> QED
      BY <1>5, <2>2, <3>2
  <2> QED
    BY <2>1, <2>2, RowsStep DEF RowsMove
<1>7. \A s \in Systems : ~(Rows(u, <<s, n[2]>>)' > 0)
  BY <1>4, <1>6
<1>8. cur'[v].topic = u /\ cur'[v].msg.key = n
  BY <1>1, <1>3
<1> QED
  BY <1>7, <1>8 DEF RowExists, Rows

(* A table has one row of a source event, or none.                         *)
LEMMA OneRowStep ==
  ASSUME TypeOK, TypeOK', [Next]_vars, \A w \in Workers : Absent(w), OneRowEach
  PROVE  OneRowEach'
<1>1. CASE \A t \in Topics, k \in Keys : Rows(t, k)' = Rows(t, k)
  BY <1>1 DEF OneRowEach, Keys
<1>2. ASSUME NEW w \in Workers, NEW u \in Topics, NEW n \in Keys,
             /\ pc[w] = "handle" /\ cur[w] \in InHand /\ cur[w].topic = u /\ cur[w].msg.key = n
             /\ "oltp" \in todo[w] /\ "lookup" \notin todo[w]
             /\ Rows(u, n)' = Rows(u, n) + 1
             /\ \A t \in Topics, k \in Keys : ~(t = u /\ k = n) => Rows(t, k)' = Rows(t, k)
      PROVE  OneRowEach'
  <2>1. PICK s \in Systems, j \in Ids : n = <<s, j>>
    BY DEF Keys
  <2> SUFFICES ASSUME NEW t \in Topics \cap Canonical, NEW s1 \in Systems, NEW s2 \in Systems,
                      NEW i \in Ids, Rows(t, <<s1, i>>)' > 0, Rows(t, <<s2, i>>)' > 0
               PROVE  s1 = s2 /\ Rows(t, <<s1, i>>)' = 1
    BY DEF OneRowEach
  <2>2. <<s1, i>> \in Keys /\ <<s2, i>> \in Keys
    BY DEF Keys
  <2>3. CASE t = u /\ i = j
    <3>1. ~RowExists(u, n)
      BY <1>2, <2>3 DEF Absent, Inserting
    <3>2. \A x \in Systems : ~(Rows(u, <<x, j>>) > 0)
      BY <2>1, <3>1 DEF RowExists, Rows
    <3>3. s1 = s /\ s2 = s
      BY <1>2, <2>1, <2>2, <2>3, <3>2
    <3>4. Rows(u, n) \in Nat /\ Rows(u, n) = 0
      <4>1. Rows(u, n) \in Nat
        BY DEF TypeOK, Rows, Effects
      <4> QED
        BY <2>1, <3>2, <4>1
    <3> QED
      BY <1>2, <2>1, <2>3, <3>3, <3>4
  <2>4. CASE ~(t = u /\ i = j)
    <3>1. Rows(t, <<s1, i>>)' = Rows(t, <<s1, i>>) /\ Rows(t, <<s2, i>>)' = Rows(t, <<s2, i>>)
      BY <1>2, <2>1, <2>2, <2>4
    <3> QED
      BY <3>1 DEF OneRowEach
  <2> QED
    BY <2>3, <2>4
<1> QED
  BY <1>1, <1>2, RowsStep DEF RowsMove

(* What protects the rows is kept.                                         *)
LEMMA RowInvStep ==
  TypeOK /\ TypeOK' /\ (\A w \in Workers : HandSound(w)) /\ [Next]_vars /\ RowInv => RowInv'
<1> SUFFICES ASSUME TypeOK, TypeOK', \A w \in Workers : HandSound(w), [Next]_vars, RowInv,
                    faults'["rebalance"] = 0
             PROVE  /\ \A w \in Workers : OwnsHand(w)'
                    /\ \A w \in Workers : Absent(w)'
                    /\ OneRowEach'
  BY DEF RowInv
<1>1. faults["rebalance"] = 0
  BY FaultsStep DEF FaultKinds
<1>2. /\ \A w \in Workers : OwnsHand(w)
      /\ \A w \in Workers : Absent(w)
      /\ OneRowEach
  BY <1>1 DEF RowInv
<1>3. \A w \in Workers : OwnsHand(w)'
  BY <1>1, <1>2, OwnersStay
<1>4. \A w \in Workers : Absent(w)'
  BY <1>2, AbsentStep
<1>5. OneRowEach'
  BY <1>2, OneRowStep
<1> QED
  BY <1>3, <1>4, <1>5

(* While no partition moves between replicas, a table has at most one row  *)
(* of a source event, whatever crashes, fails, expires or is sent again by *)
(* another system (StreamProcessor!OneRowPerSourceEvent).                  *)
THEOREM OneRow == Spec => []OneRowPerSourceEvent
<1>1. Spec => []TypeOK
  BY TypeCorrect
<1>2. Spec => []DeliveryInv
  BY <1>1, DeliveryInit, DeliveryStep, PTL DEF Spec
<1>3. Init => RowInv
  BY DEF Init, RowInv, OwnsHand, Absent, Inserting, OneRowEach, Rows, Keys, Effects
<1>4. DeliveryInv => \A w \in Workers : HandSound(w)
  BY DEF DeliveryInv
<1>5. TypeOK /\ TypeOK' /\ DeliveryInv /\ [Next]_vars /\ RowInv => RowInv'
  BY <1>4, RowInvStep
<1>6. Spec => []RowInv
  BY <1>1, <1>2, <1>3, <1>5, PTL DEF Spec
<1>7. RowInv => OneRowPerSourceEvent
  BY DEF RowInv, OneRowEach, OneRowPerSourceEvent, Rows
<1> QED
  BY <1>6, <1>7, PTL

-----------------------------------------------------------------------------
(* The handover of events.                                                 *)

(* Message i of topic t left the loop, one way or another.                 *)
Settled(t, i) == \E y \in Ways : i \in settled[t][y]

Working(w) == pc[w] \in {"handle", "failed"}

KeyOf(w) == cur[w].msg.key

(* Histories and claims are of messages that were sent, and whoever owns a *)
(* topic has settled all it was given there but what it has in hand.       *)
RecordInv ==
  /\ \A w \in Workers : HandSound(w)
  /\ OffsetsSound
  /\ \A t \in Topics, y \in Ways : settled[t][y] \subseteq 1..Len(log[t])
  /\ claims \subseteq Sent

PassedInv ==
  /\ \A w \in Workers : pc[w] \in {"commit", "commitDlq"} => Settled(cur[w].topic, cur[w].offset)
  /\ \A t \in Topics : \A i \in 1..committed[t] : Settled(t, i)
  /\ \A w \in Workers, t \in Topics : owner[t] = w =>
       \A i \in 1..position[w][t] :
         Settled(t, i) \/ (cur[w] # None /\ cur[w].topic = t /\ cur[w].offset = i)

(* Finite sets are the same everywhere.                                    *)
LEMMA SameSize == \A S : /\ Delivery!IsFiniteSet(S) <=> IsFiniteSet(S)
                         /\ Delivery!Cardinality(S) = Cardinality(S)
BY DEF Delivery!IsFiniteSet, IsFiniteSet, Delivery!Cardinality, Cardinality

(* What a worker has in hand was sent.                                     *)
LEMMA HandIsSent ==
  ASSUME TypeOK, RecordInv, NEW w \in Workers, pc[w] \notin {"idle", "down"}
  PROVE  /\ cur[w] \in InHand /\ KeyOf(w) \in Keys /\ KeyOf(w) \in Sent
         /\ cur[w].topic \in Topics /\ cur[w].offset \in 1..Len(log[cur[w].topic])
         /\ log[cur[w].topic][cur[w].offset].key = KeyOf(w)
<1>1. cur[w] \in InHand
  BY DEF TypeOK, PcValues
<1>2. HandSound(w)
  BY DEF RecordInv
<1>3. cur[w].topic \in Topics /\ KeyOf(w) \in Keys
  BY <1>1 DEF InHand, Message, KeyOf
<1>4. /\ cur[w].offset \in 1..Len(log[cur[w].topic])
      /\ log[cur[w].topic][cur[w].offset].key = KeyOf(w)
  BY <1>2 DEF HandSound, KeyOf
<1> QED
  BY <1>1, <1>3, <1>4 DEF Sent

(* Events sent stay sent, and what became of them is not forgotten when    *)
(* more are sent.                                                          *)
LEMMA SentStay == ASSUME LogGrows PROVE Sent \subseteq Sent'
<1> SUFFICES ASSUME NEW k \in Sent PROVE k \in Sent'
  OBVIOUS
<1>1. PICK t, i : t \in Topics /\ i \in 1..Len(log[t]) /\ log[t][i].key = k
  BY DEF Sent
<1>2. i \in 1..Len(log'[t]) /\ log'[t][i] = log[t][i]
  BY <1>1 DEF LogGrows
<1> QED
  BY <1>1, <1>2 DEF Sent

LEMMA LeftStay ==
  ASSUME LogGrows, RecordInv, settled' = settled, NEW k, NEW Y \in SUBSET Ways
  PROVE  Left(k, Y)' <=> Left(k, Y)
<1>1. ASSUME NEW t \in Topics, NEW y \in Y, NEW i \in settled[t][y]
      PROVE  log'[t][i] = log[t][i]
  <2>1. i \in 1..Len(log[t])
    BY DEF RecordInv
  <2> QED
    BY <2>1 DEF LogGrows
<1> QED
  BY <1>1 DEF Left

(* A message that leaves the loop leaves it one way.                       *)
LEMMA LeftGrows ==
  ASSUME TypeOK, RecordInv, NEW w \in Workers, pc[w] \notin {"idle", "down"}, NEW y \in Ways,
         Settle(w, y), log' = log, NEW k, NEW Y \in SUBSET Ways
  PROVE  Left(k, Y)' <=> Left(k, Y) \/ (y \in Y /\ k = KeyOf(w))
<1>1. /\ cur[w] \in InHand /\ cur[w].topic \in Topics
      /\ log[cur[w].topic][cur[w].offset].key = KeyOf(w)
  BY HandIsSent
<1>2. /\ SettledGrow
      /\ \A t \in Topics, x \in Ways : \A i \in settled'[t][x] :
           i \in settled[t][x] \/ (t = cur[w].topic /\ x = y /\ i = cur[w].offset)
      /\ cur[w].offset \in settled'[cur[w].topic][y]
  BY <1>1, SettleGrows
<1>3. ASSUME Left(k, Y) PROVE Left(k, Y)'
  BY <1>2, <1>3 DEF Left, SettledGrow
<1>4. ASSUME y \in Y, k = KeyOf(w) PROVE Left(k, Y)'
  BY <1>1, <1>2, <1>4 DEF Left
<1>5. ASSUME Left(k, Y)', ~Left(k, Y) PROVE y \in Y /\ k = KeyOf(w)
  <2>1. PICK t, x, i : t \in Topics /\ x \in Y /\ i \in settled'[t][x] /\ log[t][i].key = k
    BY <1>5 DEF Left
  <2>2. i \notin settled[t][x]
    BY <1>5, <2>1 DEF Left
  <2> QED
    BY <1>1, <1>2, <2>1, <2>2
<1> QED
  BY <1>3, <1>4, <1>5

(* Who works on what: unchanged, one more, one less.                       *)
LEMMA TreatedStay ==
  ASSUME \A v \in Workers : Working(v)' <=> Working(v),
         \A v \in Workers : Working(v) => cur'[v] = cur[v]
  PROVE  Treated' = Treated
BY DEF Treated, Working

LEMMA TreatedMore ==
  ASSUME NEW w \in Workers, Working(w)', cur' = cur, KeyOf(w) \in Keys,
         \A v \in Workers \ {w} : Working(v)' <=> Working(v)
  PROVE  Treated' = Treated \cup {KeyOf(w)}
BY DEF Treated, Working, KeyOf

LEMMA TreatedLess ==
  ASSUME NEW w \in Workers, Working(w),
         \A v \in Workers \ {w} : pc'[v] = pc[v] /\ cur'[v] = cur[v], ~Working(w)'
  PROVE  Treated' \subseteq Treated /\ Treated \subseteq Treated' \cup {KeyOf(w)}
BY DEF Treated, Working, KeyOf

(* Nothing but the topics changes.                                         *)
LEMMA StillDelivers ==
  ASSUME RecordInv, LogGrows, settled' = settled, claims' = claims, Treated' = Treated,
         faults'["crash"] = faults["crash"], faults'["dlq"] = faults["dlq"]
  PROVE  Delivery!Give
<1>1. Sent \subseteq Sent'
  BY SentStay
<1>2. \A k : /\ Left(k, {"handled", "dlq"})' <=> Left(k, {"handled", "dlq"})
             /\ Left(k, {"skipped", "dropped"})' <=> Left(k, {"skipped", "dropped"})
  BY LeftStay DEF Ways
<1>3. Processed' = Processed
  BY <1>2 DEF Processed
<1>4. GivenUp' = GivenUp
  BY <1>2, <1>3 DEF GivenUp
<1> QED
  BY <1>1, <1>3, <1>4 DEF Delivery!Give

(* A worker works on an event, which may have been given up.               *)
LEMMA WorkerTakes ==
  ASSUME TypeOK, RecordInv, NEW w \in Workers, pc[w] \notin {"idle", "down"}, Working(w)',
         \A v \in Workers \ {w} : pc'[v] = pc[v],
         UNCHANGED <<log, cur, settled>>, claims \subseteq claims', claims' \subseteq claims \cup {KeyOf(w)},
         faults'["crash"] = faults["crash"], faults'["dlq"] = faults["dlq"]
  PROVE  Delivery!ComeBack
<1>1. Treated' = Treated \cup {KeyOf(w)}
  BY HandIsSent, TreatedMore DEF Working
<1>2. Sent' = Sent /\ Processed' = Processed
  BY DEF Sent, Processed, Left
<1>3. GivenUp' \subseteq GivenUp
  BY <1>1, <1>2 DEF GivenUp, Left
<1> QED
  BY <1>2, <1>3 DEF Delivery!ComeBack

(* A worker lets go of an event and has not settled it well: it may be     *)
(* given up, and no other.                                                 *)
LEMMA WorkerDrops ==
  ASSUME TypeOK, RecordInv, NEW w \in Workers,
         Processed' = Processed, Sent' = Sent, claims' = claims,
         \A k \in Keys : k # KeyOf(w) => (Left(k, {"skipped", "dropped"})' <=> Left(k, {"skipped", "dropped"})),
         \A k \in Keys : Left(k, {"skipped", "dropped"}) => Left(k, {"skipped", "dropped"})',
         \/ Treated' = Treated /\ \A k \in Keys : Left(k, {"skipped", "dropped"})' <=> Left(k, {"skipped", "dropped"})
         \/ Working(w) /\ Treated' \subseteq Treated /\ Treated \subseteq Treated' \cup {KeyOf(w)}
  PROVE  Delivery!Lose(1)
<1> DEFINE X == GivenUp' \ GivenUp
<1>1. CASE Treated' = Treated /\ \A k \in Keys : Left(k, {"skipped", "dropped"})' <=> Left(k, {"skipped", "dropped"})
  <2>1. GivenUp' = GivenUp
    BY <1>1 DEF GivenUp
  <2>2. X = {} /\ IsFiniteSet({}) /\ Cardinality({}) = 0
    BY <2>1, FS_EmptySet
  <2> HIDE DEF X
  <2>3. IsFiniteSet(X) /\ Cardinality(X) <= 1
    BY <2>2
  <2> QED
    BY <2>1, <2>2, <2>3, SameSize DEF Delivery!Lose, Delivery!UnderWay, X
<1>2. CASE Working(w) /\ Treated' \subseteq Treated /\ Treated \subseteq Treated' \cup {KeyOf(w)}
  <2>1. KeyOf(w) \in Keys /\ KeyOf(w) \in Sent /\ KeyOf(w) \in Treated
    <3>1. pc[w] \notin {"idle", "down"}
      BY <1>2 DEF Working
    <3>2. KeyOf(w) \in Keys /\ KeyOf(w) \in Sent
      BY <3>1, HandIsSent
    <3> QED
      BY <1>2, <3>2 DEF Treated, Working, KeyOf
  <2>2. KeyOf(w) \notin GivenUp
    BY <2>1 DEF GivenUp
  <2>3. GivenUp \subseteq GivenUp'
    BY <1>2 DEF GivenUp
  <2>4. X \subseteq {KeyOf(w)}
    BY <1>2 DEF GivenUp
  <2>5. X \subseteq Sent \ (Processed \cup GivenUp)
    BY <2>1, <2>2, <2>4 DEF GivenUp
  <2> HIDE DEF X
  <2>6. IsFiniteSet(X) /\ Cardinality(X) <= 1
    <3>1. IsFiniteSet({KeyOf(w)}) /\ Cardinality({KeyOf(w)}) = 1
      BY FS_Singleton
    <3>2. X \in SUBSET {KeyOf(w)}
      BY <2>4
    <3>3. IsFiniteSet(X) /\ Cardinality(X) <= Cardinality({KeyOf(w)})
      BY <3>1, <3>2, FS_Subset
    <3> QED
      BY <3>1, <3>3
  <2> QED
    BY <2>3, <2>5, <2>6, SameSize DEF Delivery!Lose, Delivery!UnderWay, X
<1> QED
  BY <1>1, <1>2

(* The event in hand is handled, or goes to the DLQ.                       *)
LEMMA WorkerSettles ==
  ASSUME TypeOK, RecordInv, NEW w \in Workers, HandlerReturns(w) \/ PublishToDlq(w)
  PROVE  Delivery!Give \/ Delivery!Keep(KeyOf(w))
<1>1. PICK y \in {"handled", "dlq"} : Settle(w, y)
  BY DEF HandlerReturns, PublishToDlq
<1>2. /\ Working(w) /\ pc[w] \notin {"idle", "down"} /\ log' = log /\ cur' = cur /\ claims' = claims
      /\ faults' = faults /\ ~Working(w)' /\ \A v \in Workers \ {w} : pc'[v] = pc[v]
  BY DEF HandlerReturns, PublishToDlq, Goto, Working, TypeOK
<1>3. KeyOf(w) \in Keys /\ KeyOf(w) \in Sent
  BY <1>2, HandIsSent
<1>4. \A k : /\ Left(k, {"handled", "dlq"})' <=> Left(k, {"handled", "dlq"}) \/ k = KeyOf(w)
             /\ Left(k, {"skipped", "dropped"})' <=> Left(k, {"skipped", "dropped"})
  BY <1>1, <1>2, LeftGrows DEF Ways
<1>5. Processed' = Processed \cup {KeyOf(w)} /\ Sent' = Sent
  BY <1>2, <1>3, <1>4 DEF Processed, Sent
<1>6. Treated' \subseteq Treated /\ Treated \subseteq Treated' \cup {KeyOf(w)} /\ KeyOf(w) \in Treated
  <2>1. Treated' \subseteq Treated /\ Treated \subseteq Treated' \cup {KeyOf(w)}
    BY <1>2, TreatedLess
  <2> QED
    BY <1>2, <1>3, <2>1 DEF Treated, Working, KeyOf
<1>7. GivenUp' = GivenUp /\ GivenUp' = GivenUp \ {KeyOf(w)}
  <2>1. KeyOf(w) \notin GivenUp
    BY <1>6 DEF GivenUp
  <2>2. GivenUp' = GivenUp
    BY <1>2, <1>4, <1>5, <1>6 DEF GivenUp
  <2> QED
    BY <2>1, <2>2
<1>8. CASE KeyOf(w) \in Processed
  BY <1>2, <1>5, <1>7, <1>8 DEF Delivery!Give
<1>9. CASE KeyOf(w) \notin Processed
  BY <1>2, <1>3, <1>5, <1>7, <1>9 DEF Delivery!Keep
<1> QED
  BY <1>8, <1>9

(* A duplicate is skipped: its claim is there already.                     *)
LEMMA SkipDelivers ==
  ASSUME TypeOK, RecordInv, NEW w \in Workers, Skip(w)
  PROVE  Delivery!Give
<1>1. /\ pc[w] \notin {"idle", "down"} /\ Settle(w, "skipped") /\ KeyOf(w) \in claims
      /\ log' = log /\ claims' = claims /\ faults' = faults
  BY DEF Skip, KeyOf
<1>2. \A k : /\ Left(k, {"handled", "dlq"})' <=> Left(k, {"handled", "dlq"})
             /\ Left(k, {"skipped", "dropped"})' <=> Left(k, {"skipped", "dropped"}) \/ k = KeyOf(w)
  BY <1>1, LeftGrows DEF Ways
<1>3. Treated' = Treated
  <2>1. \A v \in Workers : Working(v)' <=> Working(v)
    BY DEF Skip, Goto, Working, TypeOK
  <2>2. cur' = cur
    BY DEF Skip
  <2> QED
    BY <2>1, <2>2, TreatedStay
<1>4. Processed' = Processed /\ Sent' = Sent
  BY <1>1, <1>2 DEF Processed, Sent
<1>5. GivenUp' = GivenUp
  BY <1>1, <1>2, <1>3, <1>4 DEF GivenUp
<1> QED
  BY <1>1, <1>4, <1>5 DEF Delivery!Give

(* The DLQ refuses the event: it is given up.                              *)
LEMMA DlqFailsDelivers ==
  ASSUME TypeOK, RecordInv, NEW w \in Workers, DlqFails(w)
  PROVE  Delivery!Drop
<1>1. /\ Working(w) /\ pc[w] \notin {"idle", "down"} /\ Settle(w, "dropped")
      /\ log' = log /\ claims' = claims /\ Fault("dlq")
      /\ ~Working(w)' /\ \A v \in Workers \ {w} : pc'[v] = pc[v] /\ cur'[v] = cur[v]
  BY DEF DlqFails, Goto, Working, TypeOK
<1>2. \A k : /\ Left(k, {"handled", "dlq"})' <=> Left(k, {"handled", "dlq"})
             /\ Left(k, {"skipped", "dropped"})' <=> Left(k, {"skipped", "dropped"}) \/ k = KeyOf(w)
  BY <1>1, LeftGrows DEF Ways
<1>3. Processed' = Processed /\ Sent' = Sent
  BY <1>1, <1>2 DEF Processed, Sent
<1>4. Treated' \subseteq Treated /\ Treated \subseteq Treated' \cup {KeyOf(w)}
  BY <1>1, TreatedLess
<1>5. Delivery!Lose(1)
  BY <1>1, <1>2, <1>3, <1>4, WorkerDrops
<1>6. faults'["dlq"] = faults["dlq"] + 1 /\ faults'["crash"] = faults["crash"]
  BY <1>1 DEF Fault, FaultKinds, TypeOK
<1> QED
  BY <1>5, <1>6 DEF Delivery!Drop

(* The worker dies: the event in its hand is given up.                     *)
LEMMA CrashDelivers ==
  ASSUME TypeOK, RecordInv, NEW w \in Workers, Crash(w)
  PROVE  Delivery!Crash
<1>1. /\ log' = log /\ claims' = claims /\ settled' = settled /\ Fault("crash")
      /\ ~Working(w)' /\ \A v \in Workers \ {w} : pc'[v] = pc[v] /\ cur'[v] = cur[v]
  BY DEF Crash, Goto, Working, TypeOK
<1>2. \A k : /\ Left(k, {"handled", "dlq"})' <=> Left(k, {"handled", "dlq"})
             /\ Left(k, {"skipped", "dropped"})' <=> Left(k, {"skipped", "dropped"})
  BY <1>1 DEF Left
<1>3. Processed' = Processed /\ Sent' = Sent
  BY <1>1, <1>2 DEF Processed, Sent
<1>4. \/ Treated' = Treated
      \/ Working(w) /\ Treated' \subseteq Treated /\ Treated \subseteq Treated' \cup {KeyOf(w)}
  <2>1. CASE Working(w)
    BY <1>1, <2>1, TreatedLess
  <2>2. CASE ~Working(w)
    <3>1. \A v \in Workers : Working(v)' <=> Working(v)
      BY <1>1, <2>2 DEF Working
    <3>2. \A v \in Workers : Working(v) => cur'[v] = cur[v]
      BY <1>1, <2>2
    <3> QED
      BY <3>1, <3>2, TreatedStay
  <2> QED
    BY <2>1, <2>2
<1>5. Delivery!Lose(1)
  BY <1>1, <1>2, <1>3, <1>4, WorkerDrops
<1>6. faults'["crash"] = faults["crash"] + 1 /\ faults'["dlq"] = faults["dlq"]
  BY <1>1 DEF Fault, FaultKinds, TypeOK
<1> QED
  BY <1>5, <1>6 DEF Delivery!Crash

(* The claim expires: the next delivery is dealt with again.               *)
LEMMA ExpireDelivers ==
  ASSUME TypeOK, NEW k \in Keys, ExpireClaim(k)
  PROVE  Delivery!ComeBack
<1>1. claims' \subseteq claims /\ UNCHANGED <<log, settled, pc, cur>>
  BY DEF ExpireClaim
<1>2. Sent' = Sent /\ Processed' = Processed /\ Treated' = Treated
  BY <1>1 DEF Sent, Processed, Left, Treated
<1>3. GivenUp' \subseteq GivenUp
  BY <1>1, <1>2 DEF GivenUp, Left
<1>4. faults'["crash"] = faults["crash"] /\ faults'["dlq"] = faults["dlq"]
  BY DEF ExpireClaim, Fault, FaultKinds, TypeOK
<1> QED
  BY <1>2, <1>3, <1>4 DEF Delivery!ComeBack

(* A worker takes an event up, to handle it or to write it to the DLQ.     *)
LEMMA TakesDelivers ==
  ASSUME TypeOK, RecordInv, NEW w \in Workers,
         Reject(w) \/ Claim(w) \/ ClaimFails(w) \/ (CommitFails(w) /\ pc[w] = "commit")
  PROVE  Delivery!ComeBack
<1>1. /\ pc[w] \notin {"idle", "down"} /\ Working(w)' /\ UNCHANGED <<log, cur, settled>>
      /\ \A v \in Workers \ {w} : pc'[v] = pc[v]
  BY DEF Reject, Claim, ClaimFails, CommitFails, Goto, Working, TypeOK
<1>2. claims \subseteq claims' /\ claims' \subseteq claims \cup {KeyOf(w)}
  BY DEF Reject, Claim, ClaimFails, CommitFails, KeyOf
<1>3. faults'["crash"] = faults["crash"] /\ faults'["dlq"] = faults["dlq"]
  BY DEF Reject, Claim, ClaimFails, CommitFails, Fault, FaultKinds, TypeOK
<1> QED
  BY <1>1, <1>2, <1>3, WorkerTakes

(* The steps that settle nothing and leave everybody at work.              *)
LEMMA StillStep ==
  ASSUME TypeOK, RecordInv, LogGrows,
         \/ \E p \in Inputs : Produce(p[1], p[2])
         \/ \E w \in Workers : \/ \E t \in Topics : Fetch(w, t) \/ Assign(w, t)
                               \/ HandleStep(w) \/ StepFails(w) \/ Commit(w) \/ Restart(w)
                               \/ CommitFails(w) /\ pc[w] # "commit"
         \/ UNCHANGED vars
  PROVE  Delivery!Give
<1>1. settled' = settled /\ claims' = claims
  BY DEF Produce, Fetch, Assign, HandleStep, StepFails, Commit, Restart, CommitFails, vars
<1>2. faults'["crash"] = faults["crash"] /\ faults'["dlq"] = faults["dlq"]
  BY DEF Produce, Fetch, Assign, HandleStep, StepFails, Commit, Restart, CommitFails, vars,
         Fault, FaultKinds, TypeOK
<1>3. Treated' = Treated
  <2>1. CASE UNCHANGED <<pc, cur>>
    BY <2>1 DEF Treated
  <2>2. ASSUME NEW w \in Workers, pc[w] \notin {"handle", "failed"}, ~Working(w)',
               \A v \in Workers \ {w} : pc'[v] = pc[v] /\ cur'[v] = cur[v]
        PROVE  Treated' = Treated
    <3>1. \A v \in Workers : Working(v)' <=> Working(v)
      BY <2>2 DEF Working
    <3>2. \A v \in Workers : Working(v) => cur'[v] = cur[v]
      BY <2>2 DEF Working
    <3> QED
      BY <3>1, <3>2, TreatedStay
  <2>3. ASSUME NEW w \in Workers, NEW t \in Topics, Fetch(w, t) PROVE Treated' = Treated
    <3>1. /\ pc[w] = "idle"
          /\ pc' = [pc EXCEPT ![w] = "down"] \/ pc' = [pc EXCEPT ![w] = "claim"]
      BY <2>3 DEF Fetch, Goto
    <3>2. \A v \in Workers \ {w} : pc'[v] = pc[v] /\ cur'[v] = cur[v]
      BY <2>3 DEF Fetch, Goto, TypeOK
    <3> QED
      BY <2>2, <3>1, <3>2 DEF Working, TypeOK
  <2>4. ASSUME NEW w \in Workers, Commit(w) \/ Restart(w) \/ (CommitFails(w) /\ pc[w] # "commit")
        PROVE  Treated' = Treated
    <3>1. /\ pc[w] \notin {"handle", "failed"} /\ ~Working(w)'
          /\ \A v \in Workers \ {w} : pc'[v] = pc[v] /\ cur'[v] = cur[v]
      BY <2>4 DEF Commit, Restart, CommitFails, Goto, Working, TypeOK
    <3> QED
      BY <2>2, <3>1
  <2>5. ASSUME NEW w \in Workers, HandleStep(w) \/ StepFails(w) PROVE Treated' = Treated
    <3>1. /\ pc[w] = "handle" /\ cur' = cur
          /\ pc' = pc \/ pc' = [pc EXCEPT ![w] = "failed"]
      BY <2>5 DEF HandleStep, StepFails, NextEffect, Goto
    <3>2. \A v \in Workers : Working(v)' <=> Working(v)
      BY <3>1 DEF Working, TypeOK
    <3> QED
      BY <3>1, <3>2, TreatedStay
  <2> QED
    BY <2>1, <2>3, <2>4, <2>5 DEF Produce, Assign, vars
<1> QED
  BY <1>1, <1>2, <1>3, StillDelivers

(* Every step of the loop is one of the handover.                          *)
LEMMA NextDelivers ==
  ASSUME TypeOK, RecordInv, [Next]_vars
  PROVE  Delivery!Next
<1>1. LogGrows
  BY LogStep
<1>2. ASSUME NEW w \in Workers, HandlerReturns(w) \/ PublishToDlq(w) PROVE Delivery!Next
  <2>1. KeyOf(w) \in Sent
    BY <1>2, HandIsSent DEF HandlerReturns, PublishToDlq
  <2> QED
    BY <1>2, <2>1, WorkerSettles DEF Delivery!Next
<1>3. ASSUME NEW w \in Workers, Skip(w) \/ DlqFails(w) \/ Crash(w) PROVE Delivery!Next
  BY <1>3, SkipDelivers, DlqFailsDelivers, CrashDelivers DEF Delivery!Next
<1>4. ASSUME NEW w \in Workers,
             Reject(w) \/ Claim(w) \/ ClaimFails(w) \/ (CommitFails(w) /\ pc[w] = "commit")
      PROVE  Delivery!Next
  BY <1>4, TakesDelivers DEF Delivery!Next
<1>5. ASSUME NEW k \in Keys, ExpireClaim(k) PROVE Delivery!Next
  BY <1>5, ExpireDelivers DEF Delivery!Next
<1>6. CASE \/ \E p \in Inputs : Produce(p[1], p[2])
           \/ \E w \in Workers : \/ \E t \in Topics : Fetch(w, t) \/ Assign(w, t)
                                 \/ HandleStep(w) \/ StepFails(w) \/ Commit(w) \/ Restart(w)
                                 \/ CommitFails(w) /\ pc[w] # "commit"
           \/ UNCHANGED vars
  BY <1>1, <1>6, StillStep DEF Delivery!Next
<1> QED
  BY <1>2, <1>3, <1>4, <1>5, <1>6 DEF Next, Loop, Drained

(* The history grows by messages that were sent.                           *)
LEMMA HistoryStep ==
  ASSUME TypeOK, RecordInv, [Next]_vars
  PROVE  /\ SettledGrow
         /\ \A t \in Topics, y \in Ways : settled'[t][y] \subseteq settled[t][y] \cup 1..Len(log[t])
<1>1. CASE settled' = settled
  BY <1>1 DEF SettledGrow
<1>2. ASSUME NEW w \in Workers, pc[w] \notin {"idle", "down"}, NEW y \in Ways, Settle(w, y)
      PROVE  /\ SettledGrow
             /\ \A t \in Topics, x \in Ways : settled'[t][x] \subseteq settled[t][x] \cup 1..Len(log[t])
  <2>1. cur[w] \in InHand /\ cur[w].offset \in 1..Len(log[cur[w].topic])
    BY <1>2, HandIsSent
  <2>2. /\ SettledGrow
        /\ \A t \in Topics, x \in Ways : \A i \in settled'[t][x] :
             i \in settled[t][x] \/ (t = cur[w].topic /\ x = y /\ i = cur[w].offset)
    BY <1>2, <2>1, SettleGrows
  <2> QED
    BY <2>1, <2>2
<1>3. ASSUME NEW w \in Workers, Skip(w) \/ HandlerReturns(w) \/ PublishToDlq(w) \/ DlqFails(w)
      PROVE  /\ SettledGrow
             /\ \A t \in Topics, x \in Ways : settled'[t][x] \subseteq settled[t][x] \cup 1..Len(log[t])
  <2>1. pc[w] \notin {"idle", "down"} /\ \E y \in Ways : Settle(w, y)
    BY <1>3 DEF Skip, HandlerReturns, PublishToDlq, DlqFails, Ways
  <2> QED
    BY <1>2, <2>1
<1> QED
  BY <1>1, <1>3 DEF Next, Loop, Drained, vars, Produce, Fetch, Reject, Claim, ClaimFails, HandleStep,
     StepFails, Commit, CommitFails, Crash, Restart, Assign, ExpireClaim

(* The claims and the history are of messages that were sent.              *)
LEMMA RecordStep ==
  ASSUME TypeOK, TypeOK', RecordInv, [Next]_vars
  PROVE  RecordInv'
<1>1. LogGrows
  BY LogStep
<1>2. \A w \in Workers : HandSound(w)'
  BY HandStep DEF RecordInv
<1>3. OffsetsSound'
  BY OffsetsStep DEF RecordInv
<1>4. \A t \in Topics, y \in Ways : settled'[t][y] \subseteq 1..Len(log'[t])
  <2>1. \A t \in Topics, y \in Ways : settled'[t][y] \subseteq 1..Len(log[t])
    BY HistoryStep DEF RecordInv
  <2>2. \A t \in Topics : 1..Len(log[t]) \subseteq 1..Len(log'[t])
    BY <1>1 DEF LogGrows
  <2> QED
    BY <2>1, <2>2
<1>5. claims' \subseteq Sent'
  <2>1. Sent \subseteq Sent'
    BY <1>1, SentStay
  <2>2. ASSUME NEW w \in Workers, Claim(w) \/ ClaimFails(w) PROVE claims' \subseteq Sent
    <3>1. KeyOf(w) \in Sent
      BY <2>2, HandIsSent DEF Claim, ClaimFails
    <3>2. claims' \subseteq claims \cup {KeyOf(w)}
      BY <2>2 DEF Claim, ClaimFails, KeyOf
    <3> QED
      BY <3>1, <3>2 DEF RecordInv
  <2>3. claims' \subseteq claims \/ \E w \in Workers : Claim(w) \/ ClaimFails(w)
    BY DEF Next, Loop, Drained, vars, Produce, Fetch, Reject, Skip, HandleStep, StepFails,
       HandlerReturns, Commit, CommitFails, PublishToDlq, DlqFails, Crash, Restart, Assign, ExpireClaim
  <2> QED
    BY <2>1, <2>2, <2>3 DEF RecordInv
<1> QED
  BY <1>2, <1>3, <1>4, <1>5 DEF RecordInv

(* A worker settles what it has in hand.                                   *)
Settles(w) == \E y \in Ways : cur[w].offset \in settled'[cur[w].topic][y]

(* Only a worker with nothing unsettled commits, and nobody lets go of a   *)
(* message that is not settled, unless it dies and owns nothing.           *)
HandsSettle ==
  \A w \in Workers :
    /\ cur[w] # None => \/ cur'[w] = cur[w] \/ pc[w] \in {"commit", "commitDlq"}
                        \/ Settles(w)
                        \/ \A t \in Topics : owner'[t] # w
    /\ pc'[w] \in {"commit", "commitDlq"} =>
         cur'[w] = cur[w] /\ (pc[w] = pc'[w] \/ Settles(w))

CommitsMove ==
  \A t \in Topics : \/ committed'[t] = committed[t]
                    \/ \E w \in Workers : /\ owner[t] = w /\ committed'[t] = position[w][t]
                                          /\ pc[w] \in {"commit", "commitDlq"}

PositionsMove ==
  \A t \in Topics, w \in Workers : owner'[t] = w =>
    \/ owner[t] = w /\ position'[w][t] = position[w][t]
    \/ position'[w][t] = committed[t]
    \/ /\ owner[t] = w /\ position'[w][t] = position[w][t] + 1 /\ cur[w] = None
       /\ cur'[w] # None /\ cur'[w].topic = t /\ cur'[w].offset = position'[w][t]

LEMMA CommitsMoveStep == ASSUME TypeOK, [Next]_vars PROVE CommitsMove
BY DEF CommitsMove, TypeOK, Next, Loop, Drained, vars, Produce, Fetch, Reject, Claim, Skip, ClaimFails,
   HandleStep, StepFails, HandlerReturns, Commit, CommitFails, PublishToDlq, DlqFails, Crash, Restart,
   Assign, ExpireClaim

LEMMA PositionsMoveStep ==
  ASSUME TypeOK, RecordInv, [Next]_vars PROVE PositionsMove
<1>1. ASSUME UNCHANGED position, \A t \in Topics : owner'[t] = owner[t] \/ owner'[t] \notin Workers
      PROVE  PositionsMove
  BY <1>1 DEF PositionsMove
<1>2. ASSUME NEW w \in Workers, NEW t \in Topics, Fetch(w, t) PROVE PositionsMove
  <2>1. PICK i : i = position[w][t] + 1
    OBVIOUS
  <2>2. PICK m : m = log[t][i]
    OBVIOUS
  <2>3. PICK h : h = [topic |-> t, offset |-> i, msg |-> m]
    OBVIOUS
  <2>4. pc[w] = "idle" /\ owner[t] = w /\ cur[w] = None
    BY <1>2 DEF Fetch, RecordInv, HandSound
  <2>5. CASE m.form = "garbage"
    <3>1. owner' = [u \in Topics |-> IF owner[u] = w THEN None ELSE owner[u]] /\ UNCHANGED position
      BY <1>2, <2>1, <2>2, <2>5 DEF Fetch
    <3>2. \A u \in Topics : owner'[u] = owner[u] \/ owner'[u] \notin Workers
      BY <3>1, ConstantsAssumption
    <3> QED
      BY <1>1, <3>1, <3>2
  <2>6. CASE m.form # "garbage"
    <3>1. /\ position' = [position EXCEPT ![w][t] = i] /\ owner' = owner
          /\ cur' = [cur EXCEPT ![w] = h]
      BY <1>2, <2>1, <2>2, <2>3, <2>6 DEF Fetch
    <3>2. /\ position'[w][t] = i /\ cur'[w] = h /\ h.topic = t /\ h.offset = i
          /\ \A v \in Workers, u \in Topics : v # w \/ u # t => position'[v][u] = position[v][u]
      BY <2>3, <3>1 DEF TypeOK
    <3>3. h # None
      <4>1. HandSound(w)' /\ pc'[w] = "claim"
        <5>1. pc' = [pc EXCEPT ![w] = "claim"]
          BY <1>2, <2>1, <2>2, <2>6 DEF Fetch, Goto
        <5>2. HandSound(w)'
          BY HandStep DEF RecordInv
        <5> QED
          BY <5>1, <5>2 DEF TypeOK
      <4>2. TypeOK'
        BY TypeStep
      <4>3. cur'[w] \in InHand
        BY <4>1, <4>2 DEF TypeOK
      <4> QED
        BY <3>2, <4>3, ConstantsAssumption
    <3> QED
      BY <2>1, <2>4, <3>1, <3>2, <3>3 DEF PositionsMove
  <2> QED
    BY <2>5, <2>6
<1>3. ASSUME NEW w \in Workers, NEW t \in Topics, Assign(w, t) PROVE PositionsMove
  <2>1. owner' = [owner EXCEPT ![t] = w] /\ position' = [position EXCEPT ![w][t] = committed[t]]
    BY <1>3 DEF Assign
  <2>2. /\ position'[w][t] = committed[t]
        /\ \A v \in Workers, u \in Topics : v # w \/ u # t => position'[v][u] = position[v][u]
        /\ owner'[t] = w /\ \A u \in Topics \ {t} : owner'[u] = owner[u]
    BY <2>1 DEF TypeOK
  <2> QED
    BY <2>2 DEF PositionsMove
<1>4. ASSUME NEW w \in Workers, Crash(w) PROVE PositionsMove
  <2>1. UNCHANGED position /\ \A u \in Topics : owner'[u] = owner[u] \/ owner'[u] \notin Workers
    BY <1>4, ConstantsAssumption DEF Crash
  <2> QED
    BY <1>1, <2>1
<1>5. CASE UNCHANGED <<position, owner>>
  BY <1>1, <1>5
<1> QED
  BY <1>2, <1>3, <1>4, <1>5
     DEF Next, Loop, Drained, vars, Produce, Reject, Claim, Skip, ClaimFails, HandleStep,
         StepFails, HandlerReturns, Commit, CommitFails, PublishToDlq, DlqFails, Restart, ExpireClaim

LEMMA HandsSettleStep ==
  ASSUME TypeOK, RecordInv, [Next]_vars PROVE HandsSettle
<1>1. CASE UNCHANGED <<pc, cur>>
  BY <1>1 DEF HandsSettle
<1>2. ASSUME NEW w \in Workers,
             \A v \in Workers \ {w} : pc'[v] = pc[v] /\ cur'[v] = cur[v],
             pc'[w] \notin {"commit", "commitDlq"},
             cur[w] = None \/ cur'[w] = cur[w] \/ pc[w] \in {"commit", "commitDlq"}
               \/ Settles(w) \/ (\A t \in Topics : owner'[t] # w)
      PROVE  HandsSettle
  BY <1>2 DEF HandsSettle
<1>3. ASSUME NEW w \in Workers, NEW y \in Ways, Settle(w, y), pc[w] \notin {"idle", "down"}
      PROVE  \E x \in Ways : cur[w].offset \in settled'[cur[w].topic][x]
  <2>1. cur[w] \in InHand
    BY <1>3, HandIsSent
  <2> QED
    BY <1>3, <2>1, SettleGrows
<1>4. ASSUME NEW w \in Workers, Skip(w) \/ HandlerReturns(w) \/ PublishToDlq(w) PROVE HandsSettle
  <2>1. /\ pc[w] \notin {"idle", "down"} /\ cur' = cur /\ \E y \in Ways : Settle(w, y)
        /\ \A v \in Workers \ {w} : pc'[v] = pc[v]
    BY <1>4 DEF Skip, HandlerReturns, PublishToDlq, Ways, Goto, TypeOK
  <2>2. \E x \in Ways : cur[w].offset \in settled'[cur[w].topic][x]
    BY <1>3, <2>1
  <2>3. Settles(w)
    BY <2>2 DEF Settles
  <2> QED
    BY <2>1, <2>3 DEF HandsSettle
<1>5. ASSUME NEW w \in Workers, NEW t \in Topics, Fetch(w, t) PROVE HandsSettle
  <2>1. pc[w] = "idle" /\ cur[w] = None
    BY <1>5 DEF Fetch, RecordInv, HandSound
  <2>2. pc'[w] \notin {"commit", "commitDlq"} /\ \A v \in Workers \ {w} : pc'[v] = pc[v] /\ cur'[v] = cur[v]
    BY <1>5 DEF Fetch, Goto, TypeOK
  <2> QED
    BY <1>2, <2>1, <2>2
<1>6. ASSUME NEW w \in Workers, Commit(w) \/ CommitFails(w) PROVE HandsSettle
  <2>1. /\ pc[w] \in {"commit", "commitDlq"} /\ pc'[w] \notin {"commit", "commitDlq"}
        /\ \A v \in Workers \ {w} : pc'[v] = pc[v] /\ cur'[v] = cur[v]
    BY <1>6 DEF Commit, CommitFails, Goto, TypeOK
  <2> QED
    BY <1>2, <2>1
<1>7. ASSUME NEW w \in Workers, DlqFails(w) PROVE HandsSettle
  <2>1. /\ pc[w] \notin {"idle", "down"} /\ Settle(w, "dropped") /\ "dropped" \in Ways
        /\ pc'[w] \notin {"commit", "commitDlq"}
        /\ \A v \in Workers \ {w} : pc'[v] = pc[v] /\ cur'[v] = cur[v]
    BY <1>7 DEF DlqFails, Goto, TypeOK, Ways
  <2>2. \A v \in Workers \ {w} : cur'[v] = cur[v]
    BY <2>1
  <2>3. \E x \in Ways : cur[w].offset \in settled'[cur[w].topic][x]
    BY <1>3, <2>1
  <2>4. Settles(w)
    BY <2>3 DEF Settles
  <2> QED
    BY <2>1, <2>4 DEF HandsSettle
<1>8. ASSUME NEW w \in Workers, Crash(w) PROVE HandsSettle
  <2>1. /\ pc'[w] \notin {"commit", "commitDlq"}
        /\ \A v \in Workers \ {w} : pc'[v] = pc[v] /\ cur'[v] = cur[v]
    BY <1>8 DEF Crash, Goto, TypeOK
  <2>2. \A t \in Topics : owner'[t] # w
    BY <1>8, ConstantsAssumption DEF Crash
  <2> QED
    BY <1>2, <2>1, <2>2
<1>9. ASSUME NEW w \in Workers, pc' = [pc EXCEPT ![w] = "failed"] \/ pc' = [pc EXCEPT ![w] = "handle"]
               \/ pc' = [pc EXCEPT ![w] = "idle"], cur' = cur
      PROVE  HandsSettle
  <2>1. pc'[w] \notin {"commit", "commitDlq"} /\ \A v \in Workers \ {w} : pc'[v] = pc[v] /\ cur'[v] = cur[v]
    BY <1>9 DEF TypeOK
  <2> QED
    BY <1>2, <1>9, <2>1
<1>10. ASSUME NEW w \in Workers,
              Reject(w) \/ Claim(w) \/ ClaimFails(w) \/ HandleStep(w) \/ StepFails(w) \/ Restart(w)
       PROVE  HandsSettle
  BY <1>1, <1>9, <1>10 DEF Reject, Claim, ClaimFails, HandleStep, StepFails, Restart, Goto
<1> QED
  BY <1>1, <1>4, <1>5, <1>6, <1>7, <1>8, <1>10
     DEF Next, Loop, Drained, vars, Produce, Assign, ExpireClaim

(* Whoever owns a topic has settled what it was given there, but its hand. *)
LEMMA PassedStep ==
  ASSUME TypeOK, TypeOK', RecordInv, PassedInv, [Next]_vars
  PROVE  PassedInv'
<1>1. HandsSettle /\ CommitsMove /\ PositionsMove
  BY HandsSettleStep, CommitsMoveStep, PositionsMoveStep
<1>2. ASSUME NEW t \in Topics, NEW i, Settled(t, i) PROVE Settled(t, i)'
  BY <1>2, HistoryStep DEF Settled, SettledGrow
<1>3. \A w \in Workers, t \in Topics : position[w][t] \in Nat /\ committed[t] \in Nat
  BY DEF TypeOK
<1>4. ASSUME NEW w \in Workers, pc'[w] \in {"commit", "commitDlq"}
      PROVE  Settles(w) /\ cur'[w] = cur[w]
  <2>1. cur'[w] = cur[w] /\ (pc[w] = pc'[w] \/ Settles(w))
    BY <1>1, <1>4 DEF HandsSettle
  <2>2. CASE pc[w] = pc'[w]
    <3>1. cur[w].topic \in Topics
      BY <1>4, <2>2, HandIsSent
    <3>2. Settled(cur[w].topic, cur[w].offset)
      BY <1>4, <2>2 DEF PassedInv
    <3>3. Settled(cur[w].topic, cur[w].offset) => Settles(w)
      BY <3>1, HistoryStep DEF Settled, Settles, SettledGrow
    <3> QED
      BY <2>1, <3>2, <3>3
  <2> QED
    BY <2>1, <2>2
<1>5. ASSUME NEW t \in Topics, NEW i \in 1..committed'[t] PROVE Settled(t, i)'
  <2>1. CASE committed'[t] = committed[t]
    BY <1>2, <1>5, <2>1 DEF PassedInv
  <2>2. ASSUME NEW w \in Workers, owner[t] = w, committed'[t] = position[w][t],
               pc[w] \in {"commit", "commitDlq"}
        PROVE  Settled(t, i)'
    <3>1. Settled(t, i) \/ (cur[w].topic = t /\ cur[w].offset = i)
      BY <1>5, <2>2 DEF PassedInv
    <3>2. Settled(cur[w].topic, cur[w].offset)
      BY <2>2 DEF PassedInv
    <3> QED
      BY <1>2, <3>1, <3>2
  <2> QED
    BY <1>1, <2>1, <2>2 DEF CommitsMove
<1>6. ASSUME NEW w \in Workers, NEW t \in Topics, owner'[t] = w, NEW i \in 1..position'[w][t]
      PROVE  Settled(t, i)' \/ (cur'[w] # None /\ cur'[w].topic = t /\ cur'[w].offset = i)
  <2>1. CASE owner[t] = w /\ position'[w][t] = position[w][t]
    <3>1. Settled(t, i) \/ (cur[w] # None /\ cur[w].topic = t /\ cur[w].offset = i)
      BY <1>6, <2>1 DEF PassedInv
    <3>2. CASE cur[w] # None /\ cur[w].topic = t /\ cur[w].offset = i
      <4>1. \/ cur'[w] = cur[w] \/ pc[w] \in {"commit", "commitDlq"}
            \/ Settles(w)
        BY <1>1, <1>6, <3>2 DEF HandsSettle
      <4>2. CASE cur'[w] = cur[w]
        BY <3>2, <4>2
      <4>3. CASE pc[w] \in {"commit", "commitDlq"}
        <5>1. Settled(cur[w].topic, cur[w].offset)
          BY <4>3 DEF PassedInv
        <5>2. Settled(t, i)
          BY <3>2, <5>1
        <5> QED
          BY <1>2, <5>2
      <4>4. CASE Settles(w)
        BY <3>2, <4>4 DEF Settled, Settles
      <4> QED
        BY <4>1, <4>2, <4>3, <4>4
    <3> QED
      BY <1>2, <3>1, <3>2
  <2>2. CASE position'[w][t] = committed[t]
    BY <1>2, <1>6, <2>2 DEF PassedInv
  <2>3. CASE /\ owner[t] = w /\ position'[w][t] = position[w][t] + 1 /\ cur[w] = None
             /\ cur'[w] # None /\ cur'[w].topic = t /\ cur'[w].offset = position'[w][t]
    <3>1. CASE i = position'[w][t]
      BY <2>3, <3>1
    <3>2. CASE i # position'[w][t]
      <4>1. i \in 1..position[w][t]
        BY <1>3, <2>3, <3>2
      <4>2. Settled(t, i)
        BY <2>3, <4>1 DEF PassedInv
      <4> QED
        BY <1>2, <4>2
    <3> QED
      BY <3>1, <3>2
  <2> QED
    BY <1>1, <1>6, <2>1, <2>2, <2>3 DEF PositionsMove
<1>7. ASSUME NEW w \in Workers, pc'[w] \in {"commit", "commitDlq"}
      PROVE  Settled(cur[w].topic, cur[w].offset)'
  BY <1>4, <1>7 DEF Settled, Settles
<1> QED
  BY <1>5, <1>6, <1>7 DEF PassedInv

(* In the beginning nothing was sent, settled or claimed.                  *)
LEMMA HandoverInit == Init => RecordInv /\ PassedInv /\ Delivery!Init
<1> SUFFICES ASSUME Init PROVE RecordInv /\ PassedInv /\ Delivery!Init
  OBVIOUS
<1>1. \A t \in Topics : log[t] = <<>> /\ committed[t] = 0 /\ Len(log[t]) = 0
  BY DEF Init
<1>2. \A w \in Workers : pc[w] = "idle" /\ cur[w] = None /\ \A t \in Topics : position[w][t] = 0
  BY DEF Init
<1>3. claims = {} /\ \A t \in Topics, y \in Ways : settled[t][y] = {}
  BY DEF Init
<1>4. RecordInv
  BY DeliveryInit, <1>3 DEF DeliveryInv, RecordInv
<1>5. PassedInv
  BY <1>1, <1>2 DEF PassedInv
<1>6. Sent = {} /\ Processed = {} /\ GivenUp = {}
  BY <1>1, <1>3 DEF Sent, Processed, GivenUp, Left, Ways
<1>7. faults["crash"] = 0 /\ faults["dlq"] = 0
  BY DEF Init, FaultKinds
<1> QED
  BY <1>4, <1>5, <1>6, <1>7 DEF Delivery!Init

(* Seen without topics, offsets and replicas the loop hands events over to *)
(* its handlers and the DLQ: an event is settled for good, or given up by  *)
(* a crash or a failed write to the DLQ, one event for each, and a given   *)
(* up event comes back only by a delivery that works on it or an expiry.   *)
THEOREM HandsEventsOver == Spec => ImplementsDelivery
<1>1. Spec => []TypeOK
  BY TypeCorrect
<1>2. Spec => []RecordInv
  BY <1>1, HandoverInit, RecordStep, PTL DEF Spec
<1> QED
  BY <1>1, <1>2, HandoverInit, NextDelivers, PTL DEF Spec, ImplementsDelivery, Delivery!Spec

(* The handover bounds what is given up by what went wrong.                *)
BoundInv == /\ IsFiniteSet(GivenUp) /\ Cardinality(GivenUp) <= faults["crash"] + faults["dlq"]
            /\ faults["crash"] \in Nat /\ faults["dlq"] \in Nat

LEMMA LoseOne ==
  ASSUME IsFiniteSet(GivenUp), NEW m \in Nat, Cardinality(GivenUp) <= m, Delivery!Lose(1)
  PROVE  IsFiniteSet(GivenUp') /\ Cardinality(GivenUp') <= m + 1
<1> DEFINE X == GivenUp' \ GivenUp
<1>1. IsFiniteSet(X) /\ Cardinality(X) <= 1 /\ GivenUp' = GivenUp \cup X
  BY SameSize DEF Delivery!Lose
<1> HIDE DEF X
<1>2. Cardinality(GivenUp) \in Nat /\ Cardinality(X) \in Nat /\ Cardinality(GivenUp \cap X) \in Nat
  <2>1. IsFiniteSet(GivenUp \cap X)
    BY FS_Intersection
  <2> QED
    BY <1>1, <2>1, FS_CardinalityType
<1>3. /\ IsFiniteSet(GivenUp \cup X)
      /\ Cardinality(GivenUp \cup X) = Cardinality(GivenUp) + Cardinality(X) - Cardinality(GivenUp \cap X)
  BY <1>1, FS_Union
<1> QED
  BY <1>1, <1>2, <1>3

LEMMA BoundStep == BoundInv /\ [Delivery!Next]_(Delivery!handover) => BoundInv'
<1> SUFFICES ASSUME BoundInv, [Delivery!Next]_(Delivery!handover) PROVE BoundInv'
  OBVIOUS
<1> DEFINE c == faults["crash"]
           d == faults["dlq"]
<1>1. /\ IsFiniteSet(GivenUp) /\ Cardinality(GivenUp) \in Nat /\ Cardinality(GivenUp) <= c + d
      /\ c \in Nat /\ d \in Nat
  BY FS_CardinalityType DEF BoundInv
<1>2. CASE Delivery!Crash \/ Delivery!Drop
  <2>1. Delivery!Lose(1) /\ ((c' = c + 1 /\ d' = d) \/ (c' = c /\ d' = d + 1))
    BY <1>2 DEF Delivery!Crash, Delivery!Drop
  <2>2. c + d \in Nat
    BY <1>1
  <2>3. IsFiniteSet(GivenUp') /\ Cardinality(GivenUp') <= (c + d) + 1
    BY <1>1, <2>1, <2>2, LoseOne
  <2>4. c' \in Nat /\ d' \in Nat /\ c' + d' = (c + d) + 1
    BY <1>1, <2>1
  <2> QED
    BY <2>3, <2>4, Zenon DEF BoundInv
<1>3. ASSUME GivenUp' \subseteq GivenUp, c' = c, d' = d PROVE BoundInv'
  <2>1. IsFiniteSet(GivenUp') /\ Cardinality(GivenUp') <= Cardinality(GivenUp) /\ Cardinality(GivenUp') \in Nat
    BY <1>1, <1>3, FS_Subset, FS_CardinalityType
  <2>2. Cardinality(GivenUp') <= c + d
    BY <1>1, <2>1
  <2> QED
    BY <1>1, <1>3, <2>1, <2>2, Zenon DEF BoundInv
<1>4. CASE Delivery!Give \/ (\E k \in Sent : Delivery!Keep(k)) \/ Delivery!ComeBack
           \/ UNCHANGED Delivery!handover
  BY <1>3, <1>4 DEF Delivery!Give, Delivery!Keep, Delivery!ComeBack, Delivery!handover
<1> QED
  BY <1>2, <1>4 DEF Delivery!Next

(* What is settled is processed, in hand or given up.                      *)
LEMMA SettledIsKnown ==
  ASSUME TypeOK, RecordInv, NEW t \in Topics, NEW i, Settled(t, i)
  PROVE  log[t][i].key \in Processed \cup Treated \cup GivenUp
<1>1. i \in 1..Len(log[t])
  BY DEF RecordInv, Settled
<1>2. log[t][i].key \in Keys
  <2>1. log[t] \in Seq(Message)
    BY DEF TypeOK
  <2>2. log[t][i] \in Message
    BY <1>1, <2>1
  <2> QED
    BY <2>2 DEF Message
<1>3. Left(log[t][i].key, {"handled", "dlq"}) \/ Left(log[t][i].key, {"skipped", "dropped"})
  BY DEF Settled, Left, Ways
<1> QED
  BY <1>2, <1>3 DEF Processed, GivenUp

(* Whatever goes wrong, few events are given up: one for each crash and    *)
(* one for each failed write to the DLQ.  The group commits past no event  *)
(* that is not processed, in hand or one of these.                         *)
THEOREM FewEventsLost == Spec => []FewLost
<1>1. Spec => []TypeOK
  BY TypeCorrect
<1>2. Spec => []RecordInv
  BY <1>1, HandoverInit, RecordStep, PTL DEF Spec
<1>3. Spec => []PassedInv
  BY <1>1, <1>2, HandoverInit, PassedStep, PTL DEF Spec
<1>4. Delivery!Init => BoundInv
  <2> SUFFICES ASSUME Delivery!Init PROVE BoundInv
    OBVIOUS
  <2>1. GivenUp = {} /\ faults["crash"] = 0 /\ faults["dlq"] = 0
    BY DEF Delivery!Init
  <2>2. IsFiniteSet(GivenUp) /\ Cardinality(GivenUp) = 0
    BY <2>1, FS_EmptySet
  <2> QED
    BY <2>1, <2>2 DEF BoundInv
<1>5. Spec => []BoundInv
  BY <1>4, BoundStep, HandsEventsOver, PTL DEF ImplementsDelivery, Delivery!Spec
<1>6. BoundInv => Delivery!LossBounded
  <2> SUFFICES ASSUME BoundInv PROVE Delivery!LossBounded
    OBVIOUS
  <2>1. Cardinality(GivenUp) <= faults["crash"] + faults["dlq"] /\ 1 * faults["crash"] = faults["crash"]
    BY DEF BoundInv
  <2> QED
    BY <2>1, SameSize DEF Delivery!LossBounded
<1>7. TypeOK /\ RecordInv /\ PassedInv =>
        \A t \in Topics : \A i \in 1..committed[t] : log[t][i].key \in Processed \cup Treated \cup GivenUp
  BY SettledIsKnown DEF PassedInv
<1> QED
  BY <1>1, <1>2, <1>3, <1>5, <1>6, <1>7, PTL DEF FewLost
===============================================================================
