-------------------------------- MODULE RuleBook --------------------------------
(***************************************************************************)
(* How an edit of rules, macros, player lists, compound rules or scoring   *)
(* reaches the alerts.  The API edits rows (routers/rules.py,              *)
(* compound_rules.py, player_lists.py); an engine keeps what it loaded for *)
(* RULE_CACHE_TTL and loads each kind by itself, one after the other, in   *)
(* the middle of an event (services/rules_engine/main.py).  One rule is    *)
(* followed closely; of the other kinds only how often they were edited.   *)
(* Engines share nothing but the tables: one of them is modelled.          *)
(***************************************************************************)
EXTENDS ApiRequests, Sequences

CONSTANTS
  Ttl,         \* RULE_CACHE_TTL
  MaxEdits,    \* bound: edits
  LastTick     \* bound: the clock of a run

ASSUME BookAssumption == Ttl \in Nat \ {0} /\ MaxEdits <= MaxCalls

VARIABLES
  rule,        \* [active, dsl, version]: the row of the rule
  book,        \* Seq of row: what "rules" was from each edit on
  since,       \* [Loaded -> Seq(now)]: when each edit was committed
  now,         \* the clock
  cache,       \* [Loaded -> None or [edit, at]]
  handled,     \* the event under way, [start, got], or None
  fired        \* history: [dsl, version] of the alerts of the rule

bookVars == <<rule, book, since, now, cache, handled, fired>>

(* An event loads rules, macros, player lists, compounds and scoring. What *)
(* is loaded beside the rules is loaded in one way: one kind stands for it.*)
LoadOrder == <<"rules", "beside">>
Loaded == {"rules", "beside"}

(* A rule is created ACTIVE, with version 1.                               *)
FirstRow == [active |-> TRUE, dsl |-> 1, version |-> 1]

BookInit ==
  /\ rule = FirstRow
  /\ book = <<FirstRow>>
  /\ since = [k \in Loaded |-> <<0>>]
  /\ now = 0
  /\ cache = [k \in Loaded |-> None]
  /\ handled = None
  /\ fired = {}

-----------------------------------------------------------------------------
(* Edits.                                                                  *)

Edited(k) == since' = [since EXCEPT ![k] = Append(@, now)]

(* A new expression takes the next version.                                *)
Revised(row, n) == [row EXCEPT !.dsl = n, !.version = @ + 1]

(* update_rule: another expression or another status; no other field is    *)
(* told apart.                                                             *)
UpdateRule(w, what) ==
  /\ calls < MaxEdits
  /\ Begin(w, [op |-> "rule", row |-> rule, new |->
       IF what = "dsl" THEN Revised(rule, calls + 2) ELSE [rule EXCEPT !.active = ~@]])
  /\ UNCHANGED bookVars

(* delete_rule leaves the row, inactive.                                   *)
DeleteRule(w) ==
  /\ calls < MaxEdits
  /\ Begin(w, [op |-> "rule", row |-> rule, new |-> [rule EXCEPT !.active = FALSE]])
  /\ UNCHANGED bookVars

RuleCommit(w) ==
  /\ Doing(w, "rule")
  /\ LET row == Flushed(rule, request[w].row, request[w].new)
     IN  rule' = row /\ book' = Append(book, row)
  /\ Edited("rules")
  /\ Ends(w)
  /\ UNCHANGED <<now, cache, handled, fired>>

(* Rows of the other kinds that the loads select.                          *)
EditMacros == Edited("beside")
EditPlayerLists == Edited("beside")
EditCompounds == Edited("beside")
EditScoring == Edited("beside")

Edit ==
  /\ calls < MaxEdits
  /\ Statement
  /\ EditMacros \/ EditPlayerLists \/ EditCompounds \/ EditScoring
  /\ UNCHANGED <<rule, book, now, cache, handled, fired>>

-----------------------------------------------------------------------------
(* The engine.                                                             *)

Tick ==
  /\ now < LastTick
  /\ now' = now + 1
  /\ UNCHANGED <<requestVars, rule, book, since, cache, handled, fired>>

EventStart ==
  /\ handled = None
  /\ handled' = [start |-> now, got |-> <<>>]
  /\ UNCHANGED <<requestVars, rule, book, since, now, cache, fired>>

Kind == LoadOrder[Len(handled.got) + 1]
Loading == handled # None /\ Len(handled.got) < Len(LoadOrder)
Got(edit, fresh) == handled' = [handled EXCEPT !.got = Append(@, [edit |-> edit, fresh |-> fresh])]

Cached(k) == cache[k] # None /\ now - cache[k].at < Ttl

FromCache ==
  /\ Loading /\ Cached(Kind)
  /\ Got(cache[Kind].edit, TRUE)
  /\ UNCHANGED <<requestVars, rule, book, since, now, cache, fired>>

Load ==
  /\ Loading /\ ~Cached(Kind)
  /\ cache' = [cache EXCEPT ![Kind] = [edit |-> Len(since[Kind]), at |-> now]]
  /\ Got(Len(since[Kind]), TRUE)
  /\ UNCHANGED <<requestVars, rule, book, since, now, fired>>

(* Mutant of LoadFails: what the event goes on with is kept for the next.  *)
LoadFailsCached ==
  /\ Loading /\ ~Cached(Kind)
  /\ LET edit == IF Kind = "rules" /\ cache[Kind] # None THEN cache[Kind].edit ELSE 0
     IN  /\ Got(edit, FALSE)
         /\ cache' = [cache EXCEPT ![Kind] = [edit |-> edit, at |-> now]]
  /\ UNCHANGED <<requestVars, rule, book, since, now, fired>>

(* The database does not answer: rules as loaded last, of anything else    *)
(* nothing (the defaults of the scoring); the next event tries again.      *)
LoadFails ==
  /\ Loading /\ ~Cached(Kind)
  /\ Got(IF Kind = "rules" /\ cache[Kind] # None THEN cache[Kind].edit ELSE 0, FALSE)
  /\ UNCHANGED <<requestVars, rule, book, since, now, cache, fired>>

(* Whether the rule matches is open; an alert keeps the rule's version.    *)
EvaluateEvent ==
  /\ handled # None /\ ~Loading
  /\ handled' = None
  /\ LET edit == handled.got[1].edit
     IN  fired' \in {fired} \cup
           (IF edit > 0 /\ book[edit].active
            THEN {fired \cup {[dsl |-> book[edit].dsl, version |-> book[edit].version]}} ELSE {})
  /\ UNCHANGED <<requestVars, rule, book, since, now, cache>>

BookNext ==
  \/ \E w \in Workers :
       \/ \E what \in {"dsl", "status"} : UpdateRule(w, what)
       \/ DeleteRule(w) \/ RuleCommit(w)
  \/ Edit \/ Tick \/ EventStart \/ FromCache \/ Load \/ LoadFails \/ EvaluateEvent

-----------------------------------------------------------------------------
RuleRows == [active : BOOLEAN, dsl : Nat, version : Nat]

BookTypeOK ==
  /\ rule \in RuleRows /\ book \in Seq(RuleRows) /\ rule = book[Len(book)]
  /\ since \in [Loaded -> Seq(Nat)] /\ now \in Nat
  /\ \A k \in Loaded : \A j \in 1..Len(since[k]) : since[k][j] <= now
  /\ \A k \in Loaded : cache[k] = None \/ cache[k] \in [edit : 1..Len(since[k]), at : 0..now]
  /\ \/ handled = None
     \/ handled \in [start : 0..now, got : Seq([edit : Nat, fresh : BOOLEAN])]
  /\ fired \subseteq [dsl : Nat, version : Nat]

(* "Rule cache", 300 s: an event is evaluated with what the tables held    *)
(* less than a cache life before it began, or later; where the database    *)
(* did not answer, that is over with the event.                              *)
EditsArrive ==
  handled # None =>
    \A i \in 1..Len(handled.got) :
      LET k == LoadOrder[i]
          g == handled.got[i]
      IN  g.fresh => /\ g.edit > 0
                     /\ g.edit < Len(since[k]) => since[k][g.edit + 1] > handled.start - Ttl

(* An alert tells the version of its rule: alerts of one version come from *)
(* one expression, unless two edits of the rule overlapped, which both     *)
(* take the same number.                                                   *)
VersionNamesExpression ==
  ~crossed => \A x, y \in fired : x.version = y.version => x.dsl = y.dsl

(* The engine evaluates what was edited, within the life of its cache, and *)
(* an alert tells which edit that was.                                     *)
BookSound == BookTypeOK /\ EditsArrive /\ VersionNamesExpression
=============================================================================
