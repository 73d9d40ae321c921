------------------------------ MODULE MCBackoffice ------------------------------
(* Instances for TLC of what runs beside the pipeline, mostly handlers and *)
(* jobs of services/api.  Every component starts; one of them, the focus,  *)
(* goes on, so that a run looks at each on its own and at none together.   *)
EXTENDS PlayerRecord, Answers, SlaMonitor, AlertStream, AlertDesk, ReportCustody,
        RuleBook, RuleLanguage, RuleEvaluation, Accounts, TenantSettings,
        MappingVersions, FieldMapping, ExternalValidation, CaseDesk, PlayerFeatures

VARIABLE focus

WorkerSymmetry == Permutations(Workers)

(* Deadlines of two cases, an hour and two hours ahead.                    *)
DeadlineOf == [d \in Dossiers |-> IF d = "A" THEN 1 ELSE 2]

(* The limits of the risk bands at first.                                  *)
FirstLimits == [low |-> 0, high |-> 2]

(* Every sharing of the three kinds.                                       *)
Sharings == [Kinds -> SUBSET People]

(* Up to three packages of two cases, from new to overdue.                 *)
Ages == {22, 23, 30}
SomePackage ==
  {q \in [case : {1, 2}, sar : BOOLEAN, filed : BOOLEAN, registered : BOOLEAN, age : Ages] :
     q.registered => q.filed}
Piles ==
  UNION {{s \in [1..n -> SomePackage] : \A i \in 1..(n - 1) : s[i].age <= s[i + 1].age} : n \in 0..3}

(* Texts of up to five lexemes.                                            *)
Upto(n, S) == UNION {[1..k -> S] : k \in 0..n}
SomeTexts ==
  Upto(5, {"x", "not", "in", ">", "%m%"}) \cup Upto(5, {"x", "or", "and", "+", ">", "0"})
    \cup Upto(5, {"f", "(", ")", ",", "y"}) \cup Upto(4, {"x", "(", ")", "not", "?", "%m%"})
SomeBodies == {<<"x", "or", "y">>}

(* Rules of every scope, with weights at the default, at one, over one and *)
(* zero, and compound rules of every logic and severity mode.              *)
DefaultConfig ==
  [rule |-> 40, ml |-> 40, network |-> 20, medium |-> 60, high |-> 80, critical |-> 95, auto |-> 75]
MixedRules == {"spike", "structuring", "stake", "pep"}
MixedScope == [r \in MixedRules |-> CASE r = "stake" -> "BET" [] r = "pep" -> "PLAYER" [] OTHER -> "TRANSACTION"]
MixedSeverity == [r \in MixedRules |-> CASE r = "spike" -> 2 [] r = "structuring" -> 3 [] r = "pep" -> 4 [] OTHER -> 1]
MixedWeight == [r \in MixedRules |-> CASE r = "spike" -> 50 [] r = "structuring" -> 130 [] r = "stake" -> 0 [] OTHER -> 100]
Even == [r \in MixedRules |-> 100]
Rule(logic, n, components, weights, threshold, mode, fixed) ==
  [logic |-> logic, n |-> n, components |-> components, weights |-> weights,
   threshold |-> threshold, mode |-> mode, fixed |-> fixed]
MixedCompounds ==
  [k \in {"all", "any", "two", "fixed", "weighted", "empty"} |->
    CASE k = "all" -> Rule("AND", 0, <<"spike", "structuring">>, Even, 0, "MAX", 0)
      [] k = "any" -> Rule("OR", 0, <<"spike", "pep">>, [Even EXCEPT !["spike"] = 10], 20, "MAX", 0)
      [] k = "two" -> Rule("N_OF_M", 2, <<"spike", "structuring", "stake", "pep">>, Even, 20, "MAX", 0)
      [] k = "fixed" -> Rule("OR", 0, <<"stake", "pep">>, Even, 40, "FIXED", 2)
      [] k = "weighted" -> Rule("WEIGHTED", 0, <<"spike", "structuring", "pep">>, Even, 80, "FIXED", 0)
      [] k = "empty" -> Rule("AND", 0, <<>>, Even, 0, "MAX", 0)]

(* Names of up to three words, one of them of two letters.                 *)
SomeNames ==
  {<<>>, <<"ana">>, <<"da">>, <<"maria">>, <<"ana", "silva">>, <<"silva", "ana">>,
   <<"ana", "da", "silva">>, <<"ana", "maria", "silva">>}

(* Alerts of two players, and one of an unknown player.                    *)
OwnerOf == [e \in Evidence |-> CASE e = "x1" -> "p1" [] e = "x2" -> "p2" [] e = "x3" -> None]

(* A deposit with an instrument, a bet of the next instant, one device of  *)
(* two players, twice of one of them.                                      *)
Message(kind, p, at, amount, thing) ==
  [kind |-> kind, player |-> p, at |-> at, amount |-> amount, thing |-> thing, backfill |-> FALSE]
SomeInbox ==
  [m \in {"deposit", "bet", "login", "again", "other"} |->
    CASE m = "deposit" -> Message("DEPOSIT", "h1", 0, 1, "account")
      [] m = "bet" -> Message("BET", "h1", 1, 1, None)
      [] m = "other" -> Message("DEVICE", "h2", 0, 0, "device")
      [] OTHER -> Message("DEVICE", "h1", 0, 0, "device")]

-----------------------------------------------------------------------------
(* A component that draws its initial state or its input from a set does   *)
(* so when it is the focus, and is of no interest when it is not.          *)
Components ==
  {"player", "network", "sla", "stream", "desk", "custody", "filing", "book", "language",
   "evaluation", "accounts", "settings", "mappings", "fields",
   "validation", "sanctions", "cases", "features"}

Inputs ==
  /\ IF focus = "player" THEN PlayerInit ELSE PlayerInit /\ players = [p \in Players |-> Absent]
  /\ IF focus = "network" THEN NetworkInit ELSE sharing = [k \in Kinds |-> {}]
  /\ IF focus = "filing" THEN FilingInit ELSE pile = <<>>
  /\ IF focus = "language" THEN LanguageInit ELSE text = <<>> /\ body = <<>>
  /\ IF focus = "fields" THEN FieldMappingInit
     ELSE template = "X_BET" /\ raw = [missing |-> {}, unreadable |-> {}, positive |-> FALSE]
  /\ IF focus = "sanctions" THEN SanctionsInit
     ELSE listed = <<>> /\ subject = [name |-> NoName, cpf |-> NoCpf]

OfficeInit ==
  /\ focus \in Components
  /\ Inputs
  /\ RequestInit /\ SlaInit /\ StreamInit /\ DeskInit /\ CustodyInit /\ BookInit /\ Init
  /\ AccountsInit /\ SettingsInit /\ MappingInit /\ ValidationInit /\ CaseDeskInit /\ FeaturesInit

pure == <<sharing, pile, text, body, template, raw, listed, subject>>

OfficeNext ==
  /\ UNCHANGED <<focus, pure>>
  /\ \/ focus = "player" /\ PlayerNext
     \/ focus = "sla" /\ SlaNext
     \/ focus = "stream" /\ StreamNext
     \/ focus = "desk" /\ DeskNext
     \/ focus = "custody" /\ CustodyNext
     \/ focus = "book" /\ BookNext
     \/ focus = "evaluation" /\ Next
     \/ focus = "accounts" /\ AccountsNext
     \/ focus = "settings" /\ SettingsNext
     \/ focus = "mappings" /\ MappingNext
     \/ focus = "validation" /\ ValidationNext
     \/ focus = "cases" /\ CaseDeskNext
     \/ focus = "features" /\ FeaturesNext
  /\ focus # "player" => UNCHANGED playerVars
  /\ focus # "sla" => UNCHANGED slaVars
  /\ focus # "stream" => UNCHANGED streamVars
  /\ focus # "desk" => UNCHANGED deskVars
  /\ focus # "custody" => UNCHANGED custodyVars
  /\ focus # "book" => UNCHANGED bookVars
  /\ focus # "evaluation" => UNCHANGED vars
  /\ focus # "accounts" => UNCHANGED accountVars
  /\ focus # "settings" => UNCHANGED settingsVars
  /\ focus # "mappings" => UNCHANGED mappings
  /\ focus # "validation" => UNCHANGED validationVars
  /\ focus # "cases" => UNCHANGED caseDeskVars
  /\ focus # "features" => UNCHANGED featureVars
  /\ focus \in {"stream", "evaluation"} => UNCHANGED requestVars

OfficeSpec ==
  OfficeInit /\ [][OfficeNext]_<<focus, pure, requestVars, playerVars, slaVars, streamVars, deskVars,
                                 custodyVars, bookVars, vars, accountVars, settingsVars, mappings,
                                 validationVars, caseDeskVars, featureVars>>
=============================================================================
