---------------------------- MODULE RuleEvaluation -----------------------------
(***************************************************************************)
(* evaluate_rules and the scoring of publish_alert, services/rules_engine/ *)
(* main.py: which simple and compound rules fire on an event, and the      *)
(* score, the severity and the case eligibility of their alerts.           *)
(*                                                                         *)
(* Fractions are hundredths (a weight of 0.5 is 50) and a product of two   *)
(* of them ten thousandths.  Whether a rule's expression holds on an event *)
(* is part of the event; an expression that fails to evaluate does not.    *)
(***************************************************************************)
EXTENDS Integers, Sequences, FiniteSets, FiniteSetsExt

CONSTANTS
  RuleIds,
  Scope,      \* [RuleIds -> {"TRANSACTION", "BET", "PLAYER"}]
  Severity,   \* [RuleIds -> 1..4]: LOW, MEDIUM, HIGH, CRITICAL
  Weight,     \* [RuleIds -> Nat]: rule_definitions.weight
  Compounds,  \* [ids -> compound rule]
  Config,     \* the tenant's scoring_configs row
  Levels      \* bound: the anomaly and network scores that occur, 0..100

CompoundIds == DOMAIN Compounds

Compound ==
  [logic : STRING, n : Nat, components : Seq(RuleIds), weights : [RuleIds -> Nat],
   threshold : Nat, mode : {"MAX", "FIXED"}, fixed : 0..4]

ASSUME EvaluationAssumption ==
  /\ Scope \in [RuleIds -> {"TRANSACTION", "BET", "PLAYER"}]
  /\ Severity \in [RuleIds -> 1..4]
  /\ Weight \in [RuleIds -> Nat]
  /\ Compounds \in [CompoundIds -> Compound]
  /\ CompoundIds \cap RuleIds = {}
  /\ Config \in [{"rule", "ml", "network", "medium", "high", "critical", "auto"} -> 0..100]
  /\ Levels \subseteq 0..100 /\ 0 \in Levels

VARIABLES
  event,   \* the last event: its type, the rules that hold, its two scores
  alerts   \* the alerts of that event

vars == <<event, alerts>>

EventTypes == {"TRANSACTION", "BET", "DEVICE_EVENT"}
Event == [type : EventTypes, holds : SUBSET RuleIds, anomaly : Levels, network : Levels]

Worse(a, b) == IF a >= b THEN a ELSE b

-----------------------------------------------------------------------------
(* evaluate_rules.                                                         *)

(* A weight of zero counts as one (`or 1.0`).                              *)
EffectiveWeight(r) == IF Weight[r] = 0 THEN 100 ELSE Weight[r]

(* The simple rules that match: those of the event's type and of players.  *)
MatchedRules(ev) ==
  IF ev.type = "DEVICE_EVENT" THEN {}
  ELSE {r \in ev.holds : Scope[r] \in {ev.type, "PLAYER"}}

(* The positions of component_rule_ids whose rule matched.                 *)
MatchedAt(c, matched) == {i \in DOMAIN c.components : c.components[i] \in matched}

WeightAt(c, i) == c.weights[c.components[i]]
TotalWeight(c) == MapThenSumSet(LAMBDA i : WeightAt(c, i), DOMAIN c.components)
WeightedScore(c, matched) ==
  MapThenSumSet(LAMBDA i : EffectiveWeight(c.components[i]) * WeightAt(c, i), MatchedAt(c, matched))

Threshold(c) == IF c.threshold = 0 THEN 50 ELSE c.threshold

(* Mutant of Reaches: the average is that of the components that matched.  *)
ReachesAmongMatched(c, matched) ==
  LET total == MapThenSumSet(LAMBDA i : WeightAt(c, i), MatchedAt(c, matched))
  IN  total > 0 /\ WeightedScore(c, matched) >= Threshold(c) * total

(* composite >= min_threshold, with composite the weighted average.        *)
Reaches(c, matched) ==
  TotalWeight(c) > 0 /\ WeightedScore(c, matched) >= Threshold(c) * TotalWeight(c)

(* Mutant of Selected: one component short of n.                           *)
SelectedShort(c, matched) ==
  LET count == Cardinality(MatchedAt(c, matched))
  IN  CASE c.logic = "AND"    -> count = Len(c.components) /\ count > 0
        [] c.logic = "OR"     -> count >= 1
        [] c.logic = "N_OF_M" -> count >= Worse(c.n - 1, 1)
        [] OTHER              -> TRUE

Selected(c, matched) ==
  LET count == Cardinality(MatchedAt(c, matched))
  IN  CASE c.logic = "AND"    -> count = Len(c.components) /\ count > 0
        [] c.logic = "OR"     -> count >= 1
        [] c.logic = "N_OF_M" -> count >= Worse(c.n, 1)
        [] OTHER              -> TRUE

Fires(c, matched) == Selected(c, matched) /\ Reaches(c, matched)

(* The fixed severity, or the worst of the components that matched.        *)
CompoundSeverity(c, matched) ==
  IF c.mode = "FIXED" /\ c.fixed # 0 THEN c.fixed
  ELSE Max({1} \cup {Severity[c.components[i]] : i \in MatchedAt(c, matched)})

-----------------------------------------------------------------------------
(* publish_alert.                                                          *)

(* The rule's share is clamped to 0..1 and so is the sum.                  *)
Score(rule, anomaly, network) ==
  Min({10000, Min({rule, 100}) * Config["rule"] + anomaly * Config["ml"] + network * Config["network"]})

SeverityOfScore(score) ==
  IF score >= 100 * Config["critical"] THEN 4
  ELSE IF score >= 100 * Config["high"] THEN 3
  ELSE IF score >= 100 * Config["medium"] THEN 2
  ELSE 1

(* The alert of a match: its severity is raised by the score, never        *)
(* lowered; it asks for a case when CRITICAL or over the threshold.        *)
AlertOf(source, weight, base, anomaly, network) ==
  LET score == Score(weight, anomaly, network)
      severity == Worse(SeverityOfScore(score), base)
  IN  [source |-> source, score |-> score, severity |-> severity,
       auto |-> severity = 4 \/ score >= 100 * Config["auto"]]

(* A compound match has weight one and no features, so no network score.   *)
AlertsOf(ev) ==
  LET matched == MatchedRules(ev)
      fired == {k \in CompoundIds : ev.type # "DEVICE_EVENT" /\ Fires(Compounds[k], matched)}
  IN  {AlertOf(r, EffectiveWeight(r), Severity[r], ev.anomaly, ev.network) : r \in matched}
      \cup {AlertOf(k, 100, CompoundSeverity(Compounds[k], matched), ev.anomaly, 0) : k \in fired}

Evaluate(ev) ==
  /\ event' = ev
  /\ alerts' = AlertsOf(ev)

Init ==
  /\ event = [type |-> "DEVICE_EVENT", holds |-> {}, anomaly |-> 0, network |-> 0]
  /\ alerts = {}

Next == \E ev \in Event : Evaluate(ev)

Spec == Init /\ [][Next]_vars

-----------------------------------------------------------------------------
Alert == [source : RuleIds \cup CompoundIds, score : 0..10000, severity : 1..4, auto : BOOLEAN]

(* Type invariant; an event has at most one alert of a rule.               *)
TypeOK ==
  /\ event \in Event
  /\ alerts \subseteq Alert
  /\ \A a, b \in alerts : a.source = b.source => a = b

Sources == {a.source : a \in alerts}

(* A compound alert is explained by the alerts of simple rules next to it: *)
(* all its components for AND, one for OR, n for N_OF_M; and with severity *)
(* mode MAX it is at least as severe as each of those rules.               *)
CompoundExplained ==
  \A k \in Sources \cap CompoundIds :
    LET c == Compounds[k]
        explained == {i \in DOMAIN c.components : c.components[i] \in Sources}
        needed == [AND |-> Len(c.components), OR |-> 1, N_OF_M |-> c.n]
    IN  /\ c.logic \in DOMAIN needed => Cardinality(explained) >= needed[c.logic]
        /\ explained # {}

CompoundCoversComponents ==
  \A a \in {b \in alerts : b.source \in CompoundIds /\ Compounds[b.source].mode = "MAX"} :
    \A i \in DOMAIN Compounds[a.source].components :
      LET r == Compounds[a.source].components[i]
      IN  r \in Sources => a.severity >= Severity[r]

(* Of two events of the same type, the one with more evidence (more rules  *)
(* that hold, no lower scores) has every alert of the other, at least as   *)
(* severe, as high and as eligible for a case.                             *)
MoreEvidence ==
  /\ event'.type = event.type
  /\ event.holds \subseteq event'.holds
  /\ event.anomaly <= event'.anomaly
  /\ event.network <= event'.network

Dominated ==
  \A a \in alerts : \E b \in alerts' :
    /\ b.source = a.source
    /\ b.severity >= a.severity
    /\ b.score >= a.score
    /\ a.auto => b.auto

NeverLessOnMoreEvidence == [][MoreEvidence => Dominated]_vars

(* What an analyst reads of a compound alert is what made it fire.         *)
CompoundSound == TypeOK /\ CompoundExplained /\ CompoundCoversComponents
=============================================================================
