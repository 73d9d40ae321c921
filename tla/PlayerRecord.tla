----------------------------- MODULE PlayerRecord ------------------------------
(***************************************************************************)
(* The row of a player and those who write it: the analysts' requests      *)
(* (routers/players.py), the nightly jobs (jobs.py), the events of the     *)
(* operator that the stream processor applies and the scores of the rules  *)
(* engine.  Requests and jobs write back what they assigned; the other two *)
(* are single UPDATE statements.                                           *)
(***************************************************************************)
EXTENDS ApiRequests

CONSTANTS
  Players,
  Accepted,    \* statuses that the CHECK constraints of the table accept
  Reported,    \* statuses that the operator reports (_ALLOWED of the consumer)
  MaxRisk      \* bound: risk scores are 0..MaxRisk

ASSUME PlayerAssumption ==
  /\ {"ACTIVE", "ERASED"} \subseteq Accepted /\ None \notin Accepted \cup {"SELF_EXCLUDED"}
  /\ Reported \cap {"ERASED", "SELF_EXCLUDED", None} = {}
  /\ MaxRisk \in Nat

VARIABLES
  players,     \* [Players -> Row]; a status of None is a row not there
  unseen,      \* history: highest score of an alert no decay has read
  late,        \* history: players scored while a decay was under way
  expired,     \* history: players the retention job erased
  revived,     \* history: anonymised players whose status was overwritten
  reopened     \* history: excluded players whose status was overwritten

playerVars == <<players, unseen, late, expired, revived, reopened>>

Risks == 0..MaxRisk

Row ==
  [status : Accepted \cup {None}, excluded : BOOLEAN, personal : {"real", "anonymous"},
   named : BOOLEAN, cpfIndexed : BOOLEAN, profile : BOOLEAN, limited : BOOLEAN, risk : Risks, idle : BOOLEAN]

Seeded ==
  [status |-> "ACTIVE", excluded |-> FALSE, personal |-> "real", named |-> TRUE,
   cpfIndexed |-> TRUE, profile |-> TRUE, limited |-> FALSE, risk |-> 0, idle |-> TRUE]
Absent == [Seeded EXCEPT !.status = None]
Placeholder ==
  [Seeded EXCEPT !.status = "ERASED", !.personal = "anonymous", !.named = FALSE,
                    !.cpfIndexed = FALSE, !.profile = FALSE]

PlayerInit ==
  /\ players \in [Players -> {Seeded, Absent}]
  /\ unseen = [p \in Players |-> 0]
  /\ late = {} /\ expired = {} /\ revived = {} /\ reopened = {}

Known(p) == players[p].status # None
Erasable(p) == Known(p) /\ players[p].status # "ERASED"

-----------------------------------------------------------------------------
(* Requests: what each assigns, given the row it read.                     *)

Requests == {"erase", "exclude", "clear", "limit", "approve", "reject", "note"}

(* erase_player_data anonymises; the index of the CPF keeps its value.     *)
Erased(row) ==
  [row EXCEPT !.personal = "anonymous", !.named = FALSE, !.profile = FALSE, !.status = "ERASED"]

(* set_self_exclusion and clear_self_exclusion.                            *)
SelfExcluded(row) == [row EXCEPT !.excluded = TRUE, !.status = "SELF_EXCLUDED"]

Cleared(row) == [row EXCEPT !.excluded = FALSE, !.status = "ACTIVE"]

(* Mutant of Checked: an approval activates whoever it is about.           *)
CheckedUnasked(row, result) ==
  CASE result = "approve" -> [row EXCEPT !.status = "ACTIVE"]
    [] result = "reject" -> [row EXCEPT !.status = "PENDING_KYC"]
    [] OTHER -> row

(* create_kyc_event.                                                       *)
Checked(row, result) ==
  CASE result = "approve" /\ row.status = "PENDING_KYC" -> [row EXCEPT !.status = "ACTIVE"]
    [] result = "reject" -> [row EXCEPT !.status = "PENDING_KYC"]
    [] OTHER -> row

Assigned(what, row) ==
  CASE what = "erase"   -> Erased(row)
    [] what = "exclude" -> SelfExcluded(row)
    [] what = "clear"   -> Cleared(row)
    [] what = "limit"   -> [row EXCEPT !.limited = TRUE]
    [] OTHER            -> Checked(row, what)

(* A request reads the player; erasing one that is erased ends there, and  *)
(* so does clearing an exclusion that is not.  Of the requests only an     *)
(* erasure goes on when there is no such player.                           *)
PlayerRequest(w, p, what) ==
  /\ what = "erase" => players[p].status # "ERASED"
  /\ what # "erase" => Known(p)
  /\ what = "clear" => players[p].excluded
  /\ Begin(w, [op |-> "player", what |-> what, player |-> p, row |-> players[p]])
  /\ UNCHANGED playerVars

(* The histories of a write of row p by somebody who does not ask whether  *)
(* the player is erased, or excluded.                                      *)
Revives(p, new) ==
  revived' = IF new.personal = "anonymous" /\ new.status # "ERASED" /\ new.status # players[p].status
             THEN revived \cup {p} ELSE revived
Reopens(p, new) ==
  reopened' = IF new.excluded /\ new.status # "SELF_EXCLUDED" /\ new.status # players[p].status
              THEN reopened \cup {p} ELSE reopened

(* The commit; a status that the table does not accept rolls it back.      *)
PlayerCommit(w) ==
  /\ Doing(w, "player")
  /\ request[w].row.status # None
  /\ LET r == request[w]
         new == Flushed(players[r.player], r.row, Assigned(r.what, r.row))
     IN  IF new.status \in Accepted
         THEN /\ players' = [players EXCEPT ![r.player] = new]
              /\ IF r.what \in {"exclude", "clear", "reject"} THEN Revives(r.player, new)
                 ELSE UNCHANGED revived
              /\ IF r.what = "reject" THEN Reopens(r.player, new) ELSE UNCHANGED reopened
         ELSE UNCHANGED <<players, revived, reopened>>
  /\ Ends(w)
  /\ UNCHANGED <<unseen, late, expired>>

(* A player the erasure did not find is inserted erased.  Where somebody   *)
(* inserted it meanwhile (UNIQUE (tenant_id, external_player_id)), the     *)
(* request goes on with that row.                                          *)
InsertErased(w) ==
  /\ Doing(w, "player")
  /\ request[w].row.status = None
  /\ LET p == request[w].player
     IN  CASE ~Known(p) -> /\ players' = [players EXCEPT ![p] = Placeholder]
                           /\ Ends(w)
           [] Erasable(p) -> /\ GoesOn(w, [request[w] EXCEPT !.row = players[p]])
                             /\ UNCHANGED players
           [] OTHER -> Ends(w) /\ UNCHANGED players
  /\ UNCHANGED <<unseen, late, expired, revived, reopened>>

-----------------------------------------------------------------------------
(* Jobs: every player that is not erased is read at the start; one commit  *)
(* for all of them.                                                        *)

Expirable == {p \in Players : Erasable(p) /\ players[p].idle}

ExpirationBegin(w) ==
  /\ Expirable # {}
  /\ Begin(w, [op |-> "expire", rows |-> [p \in Expirable |-> players[p]]])
  /\ UNCHANGED playerVars

(* cleanup_expired_player_data: the name for display (full_name) stays, and *)
(* so do birth date, income and profession.                                *)
Expired(row) ==
  [row EXCEPT !.personal = "anonymous", !.cpfIndexed = FALSE, !.status = "ERASED"]

ExpirationCommit(w) ==
  /\ Doing(w, "expire")
  /\ LET rows == request[w].rows
     IN  players' = [p \in Players |->
           IF p \in DOMAIN rows THEN Flushed(players[p], rows[p], Expired(rows[p])) ELSE players[p]]
  /\ expired' = expired \cup DOMAIN request[w].rows
  /\ Ends(w)
  /\ UNCHANGED <<unseen, late, revived, reopened>>

(* calculate_risk_score_decay: a share of the old score where the player   *)
(* had no alert for 30 days, else an average of the alerts' scores.        *)
DecayBegin(w) ==
  /\ \E p \in Players : Erasable(p)
  /\ \E scores \in [{p \in Players : Erasable(p)} -> Risks] :
       Begin(w, [op |-> "decay", scores |-> scores,
                 rows |-> [p \in DOMAIN scores |-> players[p]]])
  /\ unseen' = [p \in Players |-> IF Erasable(p) THEN 0 ELSE unseen[p]]
  /\ UNCHANGED <<players, late, expired, revived, reopened>>

DecayCommit(w) ==
  /\ Doing(w, "decay")
  /\ LET r == request[w]
     IN  players' = [p \in Players |->
           IF p \in DOMAIN r.rows
           THEN Flushed(players[p], r.rows[p], [r.rows[p] EXCEPT !.risk = r.scores[p]])
           ELSE players[p]]
  /\ Ends(w)
  /\ UNCHANGED <<unseen, late, expired, revived, reopened>>

-----------------------------------------------------------------------------
(* Statements of the other services.                                       *)

(* Mutant of RiskRaised: the score of the last alert.                      *)
RiskOfLast(p, s) == s

(* The rules engine's db_writer: the score is raised, never lowered.       *)
RiskRaised(p, s) == IF s > players[p].risk THEN s ELSE players[p].risk

ScoreAlert(p, s) ==
  /\ Known(p)
  /\ Statement
  /\ players' = [players EXCEPT ![p].risk = RiskRaised(p, s), ![p].idle = FALSE]
  /\ unseen' = [unseen EXCEPT ![p] = IF s > @ THEN s ELSE @]
  /\ late' = IF \E w \in Workers : Doing(w, "decay") THEN late \cup {p} ELSE late
  /\ UNCHANGED <<expired, revived, reopened>>

(* A status by one UPDATE; the consumer only logs that it was refused.     *)
SetStatus(p, s) ==
  /\ Known(p)
  /\ Statement
  /\ LET new == [players[p] EXCEPT !.status = s]
     IN  IF s \in Accepted
         THEN players' = [players EXCEPT ![p] = new] /\ Revives(p, new) /\ Reopens(p, new)
         ELSE UNCHANGED <<players, revived, reopened>>
  /\ UNCHANGED <<unseen, late, expired>>

(* A responsible-gambling event suspends, whoever reported the exclusion.  *)
Suspend(p) ==
  /\ players[p].status \notin {"SUSPENDED", "CLOSED_BY_OPERATOR"}
  /\ SetStatus(p, "SUSPENDED")

(* An account_status_change: an older one that comes later overwrites too. *)
ReportStatus(p, s) == s \in Reported /\ SetStatus(p, s)

(* A month without an alert.                                               *)
Idle(p) ==
  /\ Known(p) /\ ~players[p].idle
  /\ Statement
  /\ players' = [players EXCEPT ![p].idle = TRUE]
  /\ UNCHANGED <<unseen, late, expired, revived, reopened>>

PlayerNext ==
  \/ \E w \in Workers :
       \/ \E p \in Players, what \in Requests : PlayerRequest(w, p, what)
       \/ PlayerCommit(w) \/ InsertErased(w)
       \/ ExpirationBegin(w) \/ ExpirationCommit(w)
       \/ DecayBegin(w) \/ DecayCommit(w)
  \/ \E p \in Players :
       \/ \E s \in Risks : ScoreAlert(p, s)
       \/ \E s \in Reported : ReportStatus(p, s)
       \/ Suspend(p) \/ Idle(p)

PlayerSpec == RequestInit /\ PlayerInit /\ [][PlayerNext]_<<requestVars, playerVars>>

-----------------------------------------------------------------------------
PlayerTypeOK ==
  /\ players \in [Players -> Row]
  /\ unseen \in [Players -> Risks]
  /\ late \subseteq Players /\ expired \subseteq Players /\ revived \subseteq Players /\ reopened \subseteq Players

(* The CPF search finds the rows that are not erased by the index.         *)
FoundByCpf(p) == Erasable(p) /\ players[p].cpfIndexed

(* export_player_data: the name as it is, the CPF unless erased.           *)
Exported(p) ==
  [named |-> players[p].named, cpf |-> IF players[p].status = "ERASED" THEN "anonymous" ELSE players[p].personal]

(* "Para players anonimizados, retorna apenas os dados anonimizados": what *)
(* is exported of an erased player names nobody, unless it was the         *)
(* retention job that erased it, or requests overlapped.                   *)
ErasedExportsNothing ==
  \A p \in Players :
    players[p].status = "ERASED" /\ Exported(p).named => p \in expired \/ crossed

(* "Esta operação é IRREVERSÍVEL": an anonymised player stays erased and   *)
(* is not found by its CPF, unless a status was written over it by an      *)
(* exclusion, its removal, a rejected KYC event or the operator's events,  *)
(* none of which ask, or a request had read the row before the erasure.    *)
ErasedForgotten ==
  \A p \in Players :
    players[p].personal = "anonymous" =>
      \/ players[p].status = "ERASED" /\ ~FoundByCpf(p)
      \/ p \in revived \/ crossed

(* An excluded player is not ACTIVE, unless a status was written over the  *)
(* exclusion by a KYC rejection or an event of the operator, or requests   *)
(* overlapped.                                                             *)
ExclusionVisible ==
  \A p \in Players :
    players[p].excluded /\ players[p].status = "ACTIVE" => p \in reopened \/ crossed

(* A player's score covers each of its alerts until a decay has read them: *)
(* only an alert that comes while a decay is under way can be lost.        *)
RiskKept ==
  \A p \in Players \ late : players[p].risk >= unseen[p]

(* An erasure and a self-exclusion hold against the requests, the jobs and *)
(* the operator's events that write the same row, but for the named ways.  *)
StatusHonoured == PlayerTypeOK /\ ErasedForgotten /\ ErasedExportsNothing /\ ExclusionVisible
=============================================================================
