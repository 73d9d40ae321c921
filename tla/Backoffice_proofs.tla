--------------------------- MODULE Backoffice_proofs ---------------------------
(***************************************************************************)
(* Proofs about what the API's replicas keep at the desks of its back      *)
(* office, one part for each component.  Most have one argument: what a    *)
(* request has read is still what the table holds, as long as the request  *)
(* is alone or its columns are of no concern, so that the commit writes    *)
(* what it would have written at once.  The last two parts are about the   *)
(* rules the office writes, with what fires of them on an event, and about *)
(* the features of the players these rules read.                           *)
(***************************************************************************)
EXTENDS PlayerRecord, CaseDesk, RuleBook, AlertStream, ReportCustody, SlaMonitor,
        AlertDesk, RuleEvaluation, PlayerFeatures, ApiRequests_proofs,
        SequenceTheorems, FiniteSetTheorems

-----------------------------------------------------------------------------
(* PlayerRecord: erasure, self-exclusion and score.                        *)

Typed ==
  /\ players \in [Players -> Row]
  /\ unseen \in [Players -> Risks]

(* What a request or a job under way holds.                                *)
HoldsTyped(w) ==
  LET r == request[w]
  IN /\ Doing(w, "player") =>
          r.what \in Requests /\ r.player \in Players /\ r.row \in Row /\ (r.row.status = None => r.what = "erase")
     /\ Doing(w, "expire") =>
          DOMAIN r.rows \subseteq Players /\ \A p \in DOMAIN r.rows : r.rows[p] \in Row /\ r.rows[p].status # "ERASED"
     /\ Doing(w, "decay") =>
          DOMAIN r.rows \subseteq Players /\ \A p \in DOMAIN r.rows : r.rows[p] \in Row /\ r.scores[p] \in Risks

(* No decay under way has an alert to lose but those that are late.        *)
DecaySound(w) ==
  Doing(w, "decay") => \A p \in DOMAIN request[w].rows : p \notin late => unseen[p] = 0

(* A row that is as its history tells.                                     *)
Honoured(row, isRevived, isReopened) ==
  /\ row.personal = "anonymous" /\ row.status # "ERASED" => isRevived
  /\ row.status = "SELF_EXCLUDED" => row.excluded
  /\ row.excluded /\ row.status \notin {"SELF_EXCLUDED", "ERASED"} => isReopened

PlayerSound(p) ==
  /\ Honoured(players[p], p \in revived, p \in reopened)
  /\ players[p].status = "ERASED" /\ players[p].named => p \in expired

(* A request alone has read the columns that only requests write.          *)
ReadSound(w) ==
  Doing(w, "player") /\ request[w].row.status # None =>
    LET r == request[w]
    IN /\ players[r.player].personal = r.row.personal
       /\ players[r.player].named = r.row.named
       /\ players[r.player].excluded = r.row.excluded
       /\ players[r.player].status = "SELF_EXCLUDED" => r.row.status = "SELF_EXCLUDED"
       /\ Honoured(r.row, r.player \in revived, r.player \in reopened)
       /\ r.what = "erase" => r.row.status # "ERASED"
       /\ r.what = "clear" => r.row.excluded

Scored(p) == (p \notin late => players[p].risk >= unseen[p]) /\ (~Known(p) => unseen[p] = 0)

IInv ==
  /\ RequestInv
  /\ Typed
  /\ \A w \in Workers : HoldsTyped(w)
  /\ \A w \in Workers : DecaySound(w)
  /\ \A p \in Players : Scored(p)
  /\ ~crossed => \A p \in Players : PlayerSound(p)
  /\ ~crossed => \A w \in Workers : ReadSound(w)

(* The initial state satisfies the invariant.                              *)
LEMMA InitInv == RequestInit /\ PlayerInit => IInv
<1> SUFFICES ASSUME RequestInit, PlayerInit PROVE IInv
  OBVIOUS
<1> USE PlayerAssumption DEF PlayerInit
<1>1. RequestInv /\ \A w \in Workers : request[w] = None
  BY RequestsInit
<1>2. /\ Seeded \in Row /\ Absent \in Row
      /\ \A r \in {Seeded, Absent} : r.status # "ERASED" /\ r.status # "SELF_EXCLUDED" /\ r.personal = "real" /\ ~r.excluded /\ r.risk = 0
  <2>1. 0 \in Risks
    BY DEF Risks
  <2>2. Seeded \in Row
    BY <2>1 DEF Seeded, Row
  <2>3. Absent \in Row /\ Absent.status = None /\ \A c \in {"personal", "excluded", "risk"} : Absent[c] = Seeded[c]
    BY <2>2 DEF Absent, Row
  <2>4. Seeded.status = "ACTIVE" /\ Seeded.personal = "real" /\ Seeded.excluded = FALSE /\ Seeded.risk = 0
    BY DEF Seeded
  <2>5. None \notin {"ERASED", "SELF_EXCLUDED"}
    BY PlayerAssumption
  <2> QED
    BY <2>2, <2>3, <2>4, <2>5
<1>3. Typed
  <2>1. players \in [Players -> Row]
    BY <1>2
  <2>2. 0 \in Risks
    BY DEF Risks
  <2> QED
    BY <2>1, <2>2 DEF Typed
<1>4. \A w \in Workers : HoldsTyped(w) /\ DecaySound(w) /\ ReadSound(w)
  BY <1>1 DEF HoldsTyped, DecaySound, ReadSound, Doing
<1>5. \A p \in Players : Scored(p) /\ PlayerSound(p)
  BY <1>2 DEF Scored, PlayerSound, Honoured
<1> QED
  BY <1>1, <1>3, <1>4, <1>5 DEF IInv

-----------------------------------------------------------------------------
(* What is written to a row.                                               *)

(* The columns after a commit.                                             *)
Typical(after) ==
  /\ after.excluded \in BOOLEAN /\ after.personal \in {"real", "anonymous"} /\ after.named \in BOOLEAN
  /\ after.cpfIndexed \in BOOLEAN /\ after.profile \in BOOLEAN /\ after.limited \in BOOLEAN
  /\ after.risk \in Risks /\ after.idle \in BOOLEAN

FlushedColumns(row, before, after, new) ==
  /\ new.status = IF after.status # before.status THEN after.status ELSE row.status
  /\ new.excluded = IF after.excluded # before.excluded THEN after.excluded ELSE row.excluded
  /\ new.personal = IF after.personal # before.personal THEN after.personal ELSE row.personal
  /\ new.named = IF after.named # before.named THEN after.named ELSE row.named
  /\ new.risk = IF after.risk # before.risk THEN after.risk ELSE row.risk
  /\ new.status \in Accepted \cup {None} => new \in Row

(* Those are the columns of what is flushed.                               *)
LEMMA FlushedRow ==
  ASSUME NEW row \in Row, NEW before \in Row, NEW after, Typical(after)
  PROVE  FlushedColumns(row, before, after, Flushed(row, before, after))
<1> DEFINE new == Flushed(row, before, after)
<1> DEFINE At(c) == IF after[c] # before[c] THEN after[c] ELSE row[c]
<1>1. new = [c \in {"status", "excluded", "personal", "named", "cpfIndexed", "profile", "limited", "risk", "idle"} |-> At(c)]
  BY DEF Flushed, Row
<1>2. /\ At("excluded") \in BOOLEAN /\ At("personal") \in {"real", "anonymous"} /\ At("named") \in BOOLEAN
      /\ At("cpfIndexed") \in BOOLEAN /\ At("profile") \in BOOLEAN /\ At("limited") \in BOOLEAN
      /\ At("risk") \in Risks /\ At("idle") \in BOOLEAN
  BY DEF Row, Typical
<1> HIDE DEF At, new
<1>3. /\ new.status = At("status") /\ new.excluded = At("excluded") /\ new.personal = At("personal")
      /\ new.named = At("named") /\ new.risk = At("risk")
  BY <1>1
<1>4. new = [status |-> At("status"), excluded |-> At("excluded"), personal |-> At("personal"),
             named |-> At("named"), cpfIndexed |-> At("cpfIndexed"), profile |-> At("profile"),
             limited |-> At("limited"), risk |-> At("risk"), idle |-> At("idle")]
  BY <1>1
<1>5. At("status") \in Accepted \cup {None} => new \in Row
  BY <1>2, <1>4 DEF Row
<1> QED
  BY <1>3, <1>5 DEF At, new, FlushedColumns

(* The columns that a request assigns.                                     *)
AssignedColumns(row, what, a) ==
  /\ a.excluded \in BOOLEAN /\ a.personal \in {"real", "anonymous"} /\ a.named \in BOOLEAN
  /\ a.cpfIndexed \in BOOLEAN /\ a.profile \in BOOLEAN /\ a.limited \in BOOLEAN
  /\ a.risk = row.risk /\ a.risk \in Risks /\ a.idle \in BOOLEAN
  /\ a.personal = IF what = "erase" THEN "anonymous" ELSE row.personal
  /\ a.named = IF what = "erase" THEN FALSE ELSE row.named
  /\ a.excluded = IF what = "exclude" THEN TRUE ELSE IF what = "clear" THEN FALSE ELSE row.excluded
  /\ what = "erase" => a.status = "ERASED"
  /\ what = "exclude" => a.status = "SELF_EXCLUDED"
  /\ what = "clear" => a.status = "ACTIVE"
  /\ what = "reject" => a.status = "PENDING_KYC"
  /\ what = "approve" => a.status = IF row.status = "PENDING_KYC" THEN "ACTIVE" ELSE row.status
  /\ what \in {"limit", "note"} => a.status = row.status

(* Those are the columns of what is assigned.                              *)
LEMMA AssignedRow ==
  ASSUME NEW row \in Row, NEW what \in Requests
  PROVE  AssignedColumns(row, what, Assigned(what, row))
BY DEF AssignedColumns, Assigned, Requests, Erased, SelfExcluded, Cleared, Checked, Row

(* A player that is there stays there.                                     *)
LEMMA RowFacts ==
  ASSUME Typed, NEW p \in Players
  PROVE  /\ players[p] \in Row /\ players[p].risk \in Nat /\ players[p].risk \in Risks
         /\ players[p].named \in BOOLEAN /\ players[p].excluded \in BOOLEAN
         /\ players[p].status \in Accepted \cup {None}
         /\ unseen[p] \in Nat
BY PlayerAssumption DEF Typed, Row, Risks

-----------------------------------------------------------------------------
(* Every action preserves the invariant.                                   *)

(* A request that only read.                                               *)
LEMMA BeginInv ==
  ASSUME IInv, NEW w \in Workers, NEW r, Begin(w, r), UNCHANGED <<players, late, expired, revived, reopened>>,
         \A p \in Players : unseen'[p] = unseen[p] \/ unseen'[p] = 0, unseen' \in [Players -> Risks],
         HoldsTyped(w)', DecaySound(w)', ~crossed' => ReadSound(w)'
  PROVE  IInv'
<1>1. /\ RequestInv'
      /\ \A v \in Workers \ {w} : request'[v] = request[v]
      /\ ~crossed' => ~crossed /\ \A v \in Workers \ {w} : request'[v] = None
  BY BeginStep DEF IInv
<1>2. Typed'
  BY DEF IInv, Typed
<1>3. \A v \in Workers : HoldsTyped(v)'
  BY <1>1 DEF IInv, HoldsTyped, Doing
<1>4. ASSUME NEW v \in Workers \ {w} PROVE DecaySound(v)'
  <2> SUFFICES ASSUME Doing(v, "decay"), NEW p \in DOMAIN request[v].rows, p \notin late PROVE unseen'[p] = 0
    BY <1>1 DEF DecaySound, Doing
  <2>1. p \in Players /\ unseen[p] = 0
    BY DEF IInv, HoldsTyped, DecaySound
  <2> QED
    BY <2>1
<1>5. ASSUME NEW p \in Players PROVE Scored(p)'
  <2>1. Scored(p) /\ players[p].risk \in Nat /\ unseen[p] \in Nat
    BY RowFacts DEF IInv
  <2> QED
    BY <2>1 DEF Scored, Known
<1>6. ~crossed' => \A p \in Players : PlayerSound(p)'
  BY <1>1 DEF IInv, PlayerSound
<1>7. ~crossed' => \A v \in Workers : ReadSound(v)'
  BY <1>1 DEF ReadSound, Doing
<1> QED
  BY <1>1, <1>2, <1>3, <1>4, <1>5, <1>6, <1>7 DEF IInv

(* A request that read the row.                                            *)
LEMMA PlayerRequestInv ==
  ASSUME IInv, NEW w \in Workers, NEW p \in Players, NEW what \in Requests, PlayerRequest(w, p, what)
  PROVE  IInv'
<1> DEFINE r == [op |-> "player", what |-> what, player |-> p, row |-> players[p]]
<1>1. Begin(w, r) /\ UNCHANGED <<players, unseen, late, expired, revived, reopened>>
  BY DEF PlayerRequest, playerVars
<1>2. request'[w] = r /\ (~crossed' => ~crossed)
  BY <1>1, BeginStep DEF IInv
<1>3. HoldsTyped(w)' /\ DecaySound(w)'
  <2>1. players[p].status = None => what = "erase"
    BY DEF PlayerRequest, Known
  <2> QED
    BY <1>1, <1>2, <2>1, RowFacts DEF HoldsTyped, DecaySound, Doing, IInv
<1>4. ~crossed' => ReadSound(w)'
  <2> SUFFICES ASSUME ~crossed', players[p].status # None PROVE ReadSound(w)'
    BY <1>1, <1>2 DEF ReadSound
  <2>1. Honoured(players[p], p \in revived, p \in reopened)
    BY <1>2 DEF IInv, PlayerSound
  <2>2. (what = "erase" => players[p].status # "ERASED") /\ (what = "clear" => players[p].excluded)
    BY DEF PlayerRequest
  <2> QED
    BY <1>1, <1>2, <2>1, <2>2 DEF ReadSound
<1>5. unseen' = unseen /\ unseen \in [Players -> Risks]
  BY <1>1 DEF IInv, Typed
<1> HIDE DEF r
<1> QED
  BY <1>1, <1>3, <1>4, <1>5, BeginInv

(* A job that read the players.                                            *)
LEMMA JobBeginInv ==
  ASSUME IInv, NEW w \in Workers, ExpirationBegin(w) \/ DecayBegin(w)
  PROVE  IInv'
<1>1. CASE ExpirationBegin(w)
  <2> DEFINE r == [op |-> "expire", rows |-> [p \in Expirable |-> players[p]]]
  <2>1. Begin(w, r) /\ UNCHANGED <<players, unseen, late, expired, revived, reopened>>
    BY <1>1 DEF ExpirationBegin, playerVars
  <2>2. request'[w] = r
    BY <2>1, BeginStep DEF IInv
  <2>3. HoldsTyped(w)' /\ DecaySound(w)' /\ ReadSound(w)'
    BY <2>2, RowFacts DEF HoldsTyped, DecaySound, ReadSound, Doing, IInv, Expirable, Erasable
  <2>4. unseen' = unseen /\ unseen \in [Players -> Risks]
    BY <2>1 DEF IInv, Typed
  <2> HIDE DEF r
  <2> QED
    BY <2>1, <2>3, <2>4, BeginInv
<1>2. CASE DecayBegin(w)
  <2> DEFINE R(scores) == [op |-> "decay", scores |-> scores, rows |-> [p \in DOMAIN scores |-> players[p]]]
  <2>1. PICK scores \in [{p \in Players : Erasable(p)} -> Risks] : Begin(w, R(scores))
    BY <1>2 DEF DecayBegin
  <2> DEFINE r == R(scores)
  <2>2. /\ unseen' = [p \in Players |-> IF Erasable(p) THEN 0 ELSE unseen[p]]
        /\ UNCHANGED <<players, late, expired, revived, reopened>>
    BY <1>2 DEF DecayBegin
  <2>3. request'[w] = r
    BY <2>1, BeginStep DEF IInv
  <2>4. 0 \in Risks
    BY PlayerAssumption DEF Risks
  <2>5. /\ unseen' \in [Players -> Risks]
        /\ \A p \in Players : unseen'[p] = unseen[p] \/ unseen'[p] = 0
        /\ \A p \in {q \in Players : Erasable(q)} : unseen'[p] = 0
    BY <2>2, <2>4 DEF IInv, Typed
  <2>6. /\ DOMAIN r.rows = {p \in Players : Erasable(p)} /\ r.op = "decay"
        /\ \A p \in DOMAIN r.rows : r.rows[p] = players[p] /\ r.scores[p] \in Risks
    OBVIOUS
  <2> HIDE DEF r
  <2>7. HoldsTyped(w)' /\ DecaySound(w)' /\ ReadSound(w)'
    BY <2>3, <2>5, <2>6, RowFacts DEF HoldsTyped, DecaySound, ReadSound, Doing, IInv
  <2>8. Begin(w, r)
    BY <2>1 DEF r
  <2> QED
    BY <2>2, <2>5, <2>7, <2>8, BeginInv
<1> QED
  BY <1>1, <1>2

(* A request or a job ends.                                                *)
LEMMA EndsInv ==
  ASSUME IInv, NEW w \in Workers, request[w] # None, Ends(w), UNCHANGED <<unseen, late>>,
         players' \in [Players -> Row], \A p \in Players : Scored(p)',
         ~crossed => \A p \in Players : PlayerSound(p)'
  PROVE  IInv'
<1>1. /\ RequestInv' /\ UNCHANGED crossed
      /\ request'[w] = None /\ \A v \in Workers \ {w} : request'[v] = request[v]
      /\ ~crossed => \A v \in Workers \ {w} : request'[v] = None
  BY GoesOnStep DEF Ends, IInv
<1>2. Typed'
  BY DEF IInv, Typed
<1>3. \A v \in Workers : HoldsTyped(v)' /\ DecaySound(v)'
  BY <1>1 DEF IInv, HoldsTyped, DecaySound, Doing
<1>4. ~crossed => \A v \in Workers : ReadSound(v)'
  BY <1>1 DEF ReadSound, Doing
<1> QED
  BY <1>1, <1>2, <1>3, <1>4 DEF IInv

(* The row that a request writes.                                          *)
CommittedColumns(cur, row, what, new) ==
  /\ new.personal = IF what = "erase" /\ row.personal # "anonymous" THEN "anonymous" ELSE cur.personal
  /\ new.named = IF what = "erase" /\ row.named THEN FALSE ELSE cur.named
  /\ new.excluded = IF what = "exclude" /\ ~row.excluded THEN TRUE
                    ELSE IF what = "clear" /\ row.excluded THEN FALSE ELSE cur.excluded
  /\ what = "erase" => new.status = IF row.status # "ERASED" THEN "ERASED" ELSE cur.status
  /\ what = "exclude" => new.status = IF row.status # "SELF_EXCLUDED" THEN "SELF_EXCLUDED" ELSE cur.status
  /\ what = "clear" => new.status = IF row.status # "ACTIVE" THEN "ACTIVE" ELSE cur.status
  /\ what = "reject" => new.status \in {"PENDING_KYC", cur.status}
  /\ what = "approve" => new.status = IF row.status = "PENDING_KYC" THEN "ACTIVE" ELSE cur.status
  /\ what \in {"limit", "note"} => new.status = cur.status

(* Those are the columns of what is committed, and no more.                *)
LEMMA RowCommitted ==
  ASSUME NEW cur \in Row, NEW row \in Row, NEW what \in Requests,
         NEW new, new = Flushed(cur, row, Assigned(what, row)), new.status \in Accepted
  PROVE  new \in Row /\ new.risk = cur.risk /\ CommittedColumns(cur, row, what, new)
<1>1. PICK a : a = Assigned(what, row)
  OBVIOUS
<1>2. AssignedColumns(row, what, a)
  BY <1>1, AssignedRow
<1>3. Typical(a)
  BY <1>2 DEF AssignedColumns, Typical
<1>4. FlushedColumns(cur, row, a, new)
  BY <1>1, <1>3, FlushedRow
<1>5. new.risk = cur.risk /\ new \in Row
  BY <1>2, <1>4 DEF AssignedColumns, FlushedColumns
<1>6. row.excluded \in BOOLEAN /\ row.named \in BOOLEAN /\ row.personal \in {"real", "anonymous"}
  BY DEF Row
<1>7. CommittedColumns(cur, row, what, new)
  BY <1>2, <1>4, <1>6 DEF AssignedColumns, FlushedColumns, CommittedColumns
<1> QED
  BY <1>5, <1>7

(* It is as its history tells, when the request was alone.                 *)
LEMMA CommitHonours ==
  ASSUME NEW cur \in Row, NEW row \in Row, NEW what \in Requests,
         NEW new, new = Flushed(cur, row, Assigned(what, row)), new.status \in Accepted,
         NEW rv \in BOOLEAN, NEW ro \in BOOLEAN, NEW rv2 \in BOOLEAN, NEW ro2 \in BOOLEAN, rv => rv2, ro => ro2,
         Honoured(cur, rv, ro), Honoured(row, rv, ro),
         cur.personal = row.personal, cur.named = row.named, cur.excluded = row.excluded,
         cur.status = "SELF_EXCLUDED" => row.status = "SELF_EXCLUDED",
         what = "erase" => row.status # "ERASED", what = "clear" => row.excluded,
         what \in {"exclude", "clear", "reject"} =>
           (new.personal = "anonymous" /\ new.status # "ERASED" /\ new.status # cur.status => rv2),
         what = "reject" =>
           (new.excluded /\ new.status # "SELF_EXCLUDED" /\ new.status # cur.status => ro2)
  PROVE  Honoured(new, rv2, ro2) /\ (new.status = "ERASED" /\ new.named => cur.status = "ERASED" /\ cur.named)
<1>1. CommittedColumns(cur, row, what, new)
  BY RowCommitted
<1>3. what \in {"erase", "exclude", "clear", "limit", "approve", "reject", "note"}
  BY DEF Requests
<1>4. row.excluded \in BOOLEAN /\ row.named \in BOOLEAN /\ cur.excluded \in BOOLEAN /\ cur.named \in BOOLEAN
  BY DEF Row
<1>6. CASE what = "erase"
  BY <1>6, <1>1, <1>4 DEF Honoured, CommittedColumns
<1>7. CASE what = "exclude"
  BY <1>7, <1>1, <1>4 DEF Honoured, CommittedColumns
<1>8. CASE what = "clear"
  BY <1>8, <1>1, <1>4 DEF Honoured, CommittedColumns
<1>9. CASE what = "reject"
  BY <1>9, <1>1, <1>4 DEF Honoured, CommittedColumns
<1>10. CASE what = "approve"
  BY <1>10, <1>1, <1>4 DEF Honoured, CommittedColumns
<1>11. CASE what \in {"limit", "note"}
  BY <1>11, <1>1, <1>4 DEF Honoured, CommittedColumns
<1> QED
  BY <1>3, <1>6, <1>7, <1>8, <1>9, <1>10, <1>11

(* The commit of a request.                                                *)
LEMMA PlayerCommitInv ==
  ASSUME IInv, NEW w \in Workers, PlayerCommit(w)
  PROVE  IInv'
<1>1. PICK p \in Players, what \in Requests, row \in Row :
        p = request[w].player /\ what = request[w].what /\ row = request[w].row
  <2>1. request[w].player \in Players /\ request[w].what \in Requests /\ request[w].row \in Row
    <3>1. HoldsTyped(w) /\ Doing(w, "player")
      BY DEF PlayerCommit, IInv
    <3> QED
      BY <3>1 DEF HoldsTyped
  <2> QED
    BY <2>1
<1>2. PICK new : new = Flushed(players[p], row, Assigned(what, row))
  OBVIOUS
<1>3. /\ request[w] # None /\ Ends(w) /\ UNCHANGED <<unseen, late, expired>>
      /\ Doing(w, "player") /\ row.status # None
  BY <1>1 DEF PlayerCommit, Doing
<1>4. \/ UNCHANGED <<players, revived, reopened>>
      \/ /\ new.status \in Accepted
         /\ players' = [players EXCEPT ![p] = new]
         /\ IF what \in {"exclude", "clear", "reject"} THEN Revives(p, new) ELSE UNCHANGED revived
         /\ IF what = "reject" THEN Reopens(p, new) ELSE UNCHANGED reopened
  BY <1>1, <1>2 DEF PlayerCommit
<1>5. CASE UNCHANGED <<players, revived, reopened>>
  <2>1. players' \in [Players -> Row] /\ \A q \in Players : Scored(q)'
    BY <1>3, <1>5 DEF IInv, Typed, Scored, Known
  <2>2. ~crossed => \A q \in Players : PlayerSound(q)'
    BY <1>3, <1>5 DEF IInv, PlayerSound
  <2> QED
    BY <1>3, <2>1, <2>2, EndsInv
<1>6. CASE /\ new.status \in Accepted
           /\ players' = [players EXCEPT ![p] = new]
           /\ IF what \in {"exclude", "clear", "reject"} THEN Revives(p, new) ELSE UNCHANGED revived
           /\ IF what = "reject" THEN Reopens(p, new) ELSE UNCHANGED reopened
  <2>1. players[p] \in Row /\ players[p].risk \in Nat /\ unseen[p] \in Nat /\ players \in [Players -> Row]
    BY RowFacts DEF IInv, Typed
  <2>2. new \in Row /\ new.risk = players[p].risk
    BY <1>2, <1>6, <2>1, RowCommitted
  <2>3. /\ players' \in [Players -> Row] /\ players'[p] = new
        /\ \A q \in Players : q # p => players'[q] = players[q]
    BY <1>6, <2>1, <2>2
  <2>4. Scored(p)'
    BY <1>3, <1>6, <2>1, <2>2, <2>3, PlayerAssumption DEF IInv, Scored, Known
  <2>5. \A q \in Players : Scored(q)'
    BY <1>3, <2>3, <2>4 DEF IInv, Scored, Known
  <2>6. ASSUME ~crossed PROVE PlayerSound(p)'
    <3>1. ReadSound(w) /\ PlayerSound(p)
      BY <2>6 DEF IInv
    <3>2. /\ players[p].personal = row.personal
          /\ players[p].named = row.named
          /\ players[p].excluded = row.excluded
          /\ players[p].status = "SELF_EXCLUDED" => row.status = "SELF_EXCLUDED"
          /\ Honoured(row, p \in revived, p \in reopened)
          /\ what = "erase" => row.status # "ERASED"
          /\ what = "clear" => row.excluded
      BY <1>1, <1>3, <3>1 DEF ReadSound
    <3>3. /\ p \in revived => p \in revived'
          /\ p \in reopened => p \in reopened'
          /\ what \in {"exclude", "clear", "reject"} =>
               (new.personal = "anonymous" /\ new.status # "ERASED" /\ new.status # players[p].status => p \in revived')
          /\ what = "reject" =>
               (new.excluded /\ new.status # "SELF_EXCLUDED" /\ new.status # players[p].status => p \in reopened')
      BY <1>6 DEF Revives, Reopens
    <3>4. Honoured(players[p], p \in revived, p \in reopened)
      BY <3>1 DEF PlayerSound
    <3>5. /\ Honoured(new, p \in revived', p \in reopened')
          /\ new.status = "ERASED" /\ new.named => players[p].status = "ERASED" /\ players[p].named
      <4>1. /\ \E b \in BOOLEAN : b <=> p \in revived
            /\ \E b \in BOOLEAN : b <=> p \in reopened
            /\ \E b \in BOOLEAN : b <=> p \in revived'
            /\ \E b \in BOOLEAN : b <=> p \in reopened'
        BY Zenon
      <4>a. PICK rv \in BOOLEAN : rv <=> p \in revived
        BY <4>1
      <4>b. PICK ro \in BOOLEAN : ro <=> p \in reopened
        BY <4>1
      <4>c. PICK rv2 \in BOOLEAN : rv2 <=> p \in revived'
        BY <4>1
      <4>d. PICK ro2 \in BOOLEAN : ro2 <=> p \in reopened'
        BY <4>1
      <4>2. PICK cur \in Row : cur = players[p]
        BY <2>1
      <4>3. /\ rv => rv2
            /\ ro => ro2
            /\ Honoured(cur, rv, ro) /\ Honoured(row, rv, ro)
            /\ what \in {"exclude", "clear", "reject"} =>
                 (new.personal = "anonymous" /\ new.status # "ERASED" /\ new.status # cur.status => rv2)
            /\ what = "reject" =>
                 (new.excluded /\ new.status # "SELF_EXCLUDED" /\ new.status # cur.status => ro2)
        BY <3>2, <3>3, <3>4, <4>a, <4>b, <4>c, <4>d, <4>2 DEF Honoured
      <4>4. Honoured(new, rv2, ro2) /\ (new.status = "ERASED" /\ new.named => cur.status = "ERASED" /\ cur.named)
        BY <1>2, <1>6, <3>2, <4>2, <4>3, CommitHonours
      <4> QED
        BY <4>c, <4>d, <4>2, <4>4 DEF Honoured
    <3> QED
      BY <1>3, <2>3, <3>1, <3>5 DEF PlayerSound
  <2>7. ASSUME ~crossed, NEW q \in Players, q # p PROVE PlayerSound(q)'
    <3>1. (q \in revived' <=> q \in revived) /\ (q \in reopened' <=> q \in reopened) /\ expired' = expired
      BY <1>3, <1>6, <2>7 DEF Revives, Reopens
    <3>2. PlayerSound(q) /\ players'[q] = players[q]
      BY <2>3, <2>7 DEF IInv
    <3> QED
      BY <3>1, <3>2 DEF PlayerSound, Honoured
  <2> QED
    BY <1>3, <2>3, <2>5, <2>6, <2>7, EndsInv
<1> QED
  BY <1>4, <1>5, <1>6

(* An erasure of a player that it did not find.                            *)
LEMMA InsertErasedInv ==
  ASSUME IInv, NEW w \in Workers, InsertErased(w)
  PROVE  IInv'
<1>1. PICK p \in Players : p = request[w].player /\ request[w].what = "erase"
  <2>1. HoldsTyped(w) /\ Doing(w, "player") /\ request[w].row.status = None
    BY DEF InsertErased, IInv
  <2> QED
    BY <2>1 DEF HoldsTyped
<1>2. request[w] # None /\ Doing(w, "player") /\ UNCHANGED <<unseen, late, expired, revived, reopened>>
  BY DEF InsertErased, Doing
<1>3. players[p] \in Row /\ players[p].risk \in Nat /\ unseen[p] \in Nat /\ players \in [Players -> Row]
  BY RowFacts DEF IInv, Typed
<1>4. CASE ~Known(p)
  <2>1. players' = [players EXCEPT ![p] = Placeholder] /\ Ends(w)
    BY <1>1, <1>4 DEF InsertErased, Erasable
  <2>2. /\ Placeholder \in Row /\ Placeholder.status = "ERASED" /\ ~Placeholder.named
        /\ ~Placeholder.excluded /\ Placeholder.risk = 0
    <3>1. 0 \in Risks /\ "ERASED" \in Accepted
      BY PlayerAssumption DEF Risks
    <3>2. Seeded \in Row
      BY <3>1, PlayerAssumption DEF Seeded, Row
    <3>3. Seeded.risk = 0 /\ ~Seeded.excluded
      BY DEF Seeded
    <3> QED
      BY <3>1, <3>2, <3>3 DEF Placeholder, Row
  <2>3. /\ players' \in [Players -> Row] /\ players'[p] = Placeholder
        /\ \A q \in Players : q # p => players'[q] = players[q]
    BY <1>3, <2>1, <2>2
  <2>4. \A q \in Players : Scored(q)'
    <3>1. unseen[p] = 0
      BY <1>4 DEF IInv, Scored
    <3> QED
      BY <3>1, <1>2, <2>2, <2>3 DEF IInv, Scored, Known
  <2>5. ~crossed => \A q \in Players : PlayerSound(q)'
    BY <1>2, <2>2, <2>3 DEF IInv, PlayerSound, Honoured
  <2> QED
    BY <1>2, <2>1, <2>3, <2>4, <2>5, EndsInv
<1>5. CASE Known(p) /\ Erasable(p)
  <2> DEFINE r == [request[w] EXCEPT !.row = players[p]]
  <2>1. GoesOn(w, r) /\ UNCHANGED players
    BY <1>1, <1>5 DEF InsertErased
  <2>2. r.op = "player" /\ r.what = "erase" /\ r.player = p /\ r.row = players[p]
    BY <1>1, <1>2 DEF Doing, InsertErased
  <2> HIDE DEF r
  <2>3. /\ RequestInv' /\ UNCHANGED crossed
        /\ request'[w] = r /\ \A v \in Workers \ {w} : request'[v] = request[v]
        /\ ~crossed => \A v \in Workers \ {w} : request'[v] = None
    BY <1>2, <2>1, GoesOnStep DEF IInv
  <2>4. Typed' /\ \A q \in Players : Scored(q)'
    BY <1>2, <2>1 DEF IInv, Typed, Scored, Known
  <2>5. HoldsTyped(w)' /\ DecaySound(w)'
    <3>1. players[p].status # None
      BY <1>5 DEF Known
    <3> QED
      BY <3>1, <1>3, <2>2, <2>3 DEF HoldsTyped, DecaySound, Doing, Requests
  <2>6. \A v \in Workers \ {w} : HoldsTyped(v)' /\ DecaySound(v)'
    BY <1>2, <2>3 DEF IInv, HoldsTyped, DecaySound, Doing
  <2>7. ~crossed => ReadSound(w)'
    <3> SUFFICES ASSUME ~crossed PROVE ReadSound(w)'
      OBVIOUS
    <3>1. Honoured(players[p], p \in revived, p \in reopened) /\ players[p].status # "ERASED"
      BY <1>5 DEF IInv, PlayerSound, Erasable
    <3> QED
      BY <3>1, <1>2, <2>1, <2>2, <2>3 DEF ReadSound
  <2>8. ~crossed => \A v \in Workers \ {w} : ReadSound(v)'
    BY <2>3 DEF ReadSound, Doing
  <2>9. ~crossed => \A q \in Players : PlayerSound(q)'
    BY <1>2, <2>1 DEF IInv, PlayerSound
  <2> QED
    BY <2>3, <2>4, <2>5, <2>6, <2>7, <2>8, <2>9 DEF IInv
<1>6. CASE Known(p) /\ ~Erasable(p)
  <2>1. Ends(w) /\ UNCHANGED players
    BY <1>1, <1>6 DEF InsertErased
  <2>2. players' \in [Players -> Row] /\ \A q \in Players : Scored(q)'
    BY <1>2, <1>3, <2>1 DEF IInv, Scored, Known
  <2>3. ~crossed => \A q \in Players : PlayerSound(q)'
    BY <1>2, <2>1 DEF IInv, PlayerSound
  <2> QED
    BY <1>2, <2>1, <2>2, <2>3, EndsInv
<1> QED
  BY <1>4, <1>5, <1>6

(* The commit of the retention job.                                        *)
LEMMA ExpirationCommitInv ==
  ASSUME IInv, NEW w \in Workers, ExpirationCommit(w)
  PROVE  IInv'
<1>1. PICK rows : rows = request[w].rows
  OBVIOUS
<1>2. /\ request[w] # None /\ Ends(w) /\ UNCHANGED <<unseen, late, revived, reopened>>
      /\ expired' = expired \cup DOMAIN rows
      /\ players' = [p \in Players |->
           IF p \in DOMAIN rows THEN Flushed(players[p], rows[p], Expired(rows[p])) ELSE players[p]]
  BY <1>1 DEF ExpirationCommit, Doing
<1>3. DOMAIN rows \subseteq Players /\ \A p \in DOMAIN rows : rows[p] \in Row /\ rows[p].status # "ERASED"
  <2>1. HoldsTyped(w) /\ Doing(w, "expire")
    BY DEF ExpirationCommit, IInv
  <2> QED
    BY <1>1, <2>1 DEF HoldsTyped
<1>4. ASSUME NEW p \in DOMAIN rows
      PROVE  /\ players'[p] \in Row /\ players'[p].status = "ERASED"
             /\ players'[p].excluded = players[p].excluded /\ players'[p].risk = players[p].risk
  <2>1. PICK a : a = Expired(rows[p])
    OBVIOUS
  <2>2. rows[p] \in Row /\ players[p] \in Row /\ rows[p].status # "ERASED"
    BY <1>3, RowFacts DEF IInv
  <2>3. Typical(a) /\ a.status = "ERASED" /\ a.excluded = rows[p].excluded /\ a.risk = rows[p].risk
    BY <2>1, <2>2 DEF Expired, Typical, Row
  <2>4. FlushedColumns(players[p], rows[p], a, players'[p])
    BY <1>2, <1>3, <2>1, <2>2, <2>3, FlushedRow
  <2> QED
    BY <2>2, <2>3, <2>4, PlayerAssumption DEF FlushedColumns
<1>5. \A p \in Players \ DOMAIN rows : players'[p] = players[p]
  BY <1>2
<1>6. players' \in [Players -> Row]
  <2>1. \A p \in Players : players'[p] \in Row
    BY <1>4, <1>5, RowFacts DEF IInv
  <2>2. players' = [p \in Players |-> players'[p]]
    BY <1>2
  <2> QED
    BY <2>1, <2>2
<1>7. ASSUME NEW p \in Players PROVE Scored(p)'
  <2>1. players'[p].risk = players[p].risk /\ (~Known(p)' => ~Known(p))
    BY <1>4, <1>5, PlayerAssumption DEF Known
  <2> QED
    BY <2>1, <1>2 DEF IInv, Scored
<1>8. ASSUME ~crossed, NEW p \in Players PROVE PlayerSound(p)'
  <2>1. CASE p \in DOMAIN rows
    BY <2>1, <1>2, <1>4 DEF PlayerSound, Honoured
  <2>2. CASE p \notin DOMAIN rows
    BY <2>2, <1>2, <1>5, <1>8 DEF IInv, PlayerSound
  <2> QED
    BY <2>1, <2>2
<1> QED
  BY <1>2, <1>6, <1>7, <1>8, EndsInv

(* The commit of the decay job.                                            *)
LEMMA DecayCommitInv ==
  ASSUME IInv, NEW w \in Workers, DecayCommit(w)
  PROVE  IInv'
<1>1. PICK rows : rows = request[w].rows
  OBVIOUS
<1>2. PICK scores : scores = request[w].scores
  OBVIOUS
<1>3. /\ request[w] # None /\ Ends(w) /\ UNCHANGED <<unseen, late, expired, revived, reopened>>
      /\ players' = [p \in Players |->
           IF p \in DOMAIN rows THEN Flushed(players[p], rows[p], [rows[p] EXCEPT !.risk = scores[p]]) ELSE players[p]]
  BY <1>1, <1>2 DEF DecayCommit, Doing
<1>4. /\ DOMAIN rows \subseteq Players /\ \A p \in DOMAIN rows : rows[p] \in Row /\ scores[p] \in Risks
      /\ \A p \in DOMAIN rows : p \notin late => unseen[p] = 0
  <2>1. HoldsTyped(w) /\ DecaySound(w) /\ Doing(w, "decay")
    BY DEF DecayCommit, IInv
  <2> QED
    BY <1>1, <1>2, <2>1 DEF HoldsTyped, DecaySound
<1>5. ASSUME NEW p \in DOMAIN rows
      PROVE  /\ players'[p] \in Row /\ players'[p].status = players[p].status
             /\ players'[p].excluded = players[p].excluded /\ players'[p].personal = players[p].personal
             /\ players'[p].named = players[p].named
  <2>1. PICK a : a = [rows[p] EXCEPT !.risk = scores[p]]
    OBVIOUS
  <2>2. rows[p] \in Row /\ players[p] \in Row /\ scores[p] \in Risks
    BY <1>4, RowFacts DEF IInv
  <2>3. /\ Typical(a) /\ a.status = rows[p].status /\ a.excluded = rows[p].excluded
        /\ a.personal = rows[p].personal /\ a.named = rows[p].named
    BY <2>1, <2>2 DEF Typical, Row
  <2>4. FlushedColumns(players[p], rows[p], a, players'[p])
    BY <1>3, <1>4, <2>1, <2>2, <2>3, FlushedRow
  <2>5. players[p].status \in Accepted \cup {None}
    BY <2>2 DEF Row
  <2> QED
    BY <2>3, <2>4, <2>5 DEF FlushedColumns
<1>6. \A p \in Players \ DOMAIN rows : players'[p] = players[p]
  BY <1>3
<1>7. players' \in [Players -> Row]
  <2>1. \A p \in Players : players'[p] \in Row
    BY <1>5, <1>6, RowFacts DEF IInv
  <2>2. players' = [p \in Players |-> players'[p]]
    BY <1>3
  <2> QED
    BY <2>1, <2>2
<1>8. ASSUME NEW p \in Players PROVE Scored(p)'
  <2>1. CASE p \in DOMAIN rows
    <3>1. p \notin late => unseen[p] = 0
      BY <1>4, <2>1
    <3>2. players'[p].risk \in Nat /\ (Known(p)' <=> Known(p))
      BY <1>5, <2>1 DEF Known, Row, Risks
    <3> QED
      BY <3>1, <3>2, <1>3 DEF IInv, Scored
  <2>2. CASE p \notin DOMAIN rows
    BY <2>2, <1>3, <1>6 DEF IInv, Scored, Known
  <2> QED
    BY <2>1, <2>2
<1>9. ASSUME ~crossed, NEW p \in Players PROVE PlayerSound(p)'
  <2>1. /\ players'[p].status = players[p].status /\ players'[p].excluded = players[p].excluded
        /\ players'[p].personal = players[p].personal /\ players'[p].named = players[p].named
    BY <1>5, <1>6
  <2> QED
    BY <2>1, <1>3, <1>9 DEF IInv, PlayerSound, Honoured
<1> QED
  BY <1>3, <1>7, <1>8, <1>9, EndsInv

(* A statement of another service: it leaves the columns that a request    *)
(* relies on.                                                              *)
LEMMA StatementInv ==
  ASSUME IInv, NEW p \in Players, NEW new \in Row, Statement,
         players' = [players EXCEPT ![p] = new],
         new.personal = players[p].personal, new.named = players[p].named, new.excluded = players[p].excluded,
         new.status = "SELF_EXCLUDED" => players[p].status = "SELF_EXCLUDED",
         new.status = "ERASED" => players[p].status = "ERASED",
         new.personal = "anonymous" /\ new.status \notin {"ERASED", players[p].status} => p \in revived',
         new.excluded /\ new.status \notin {"SELF_EXCLUDED", players[p].status} => p \in reopened',
         expired' = expired, revived \subseteq revived', reopened \subseteq reopened', late \subseteq late',
         unseen' \in [Players -> Risks], \A q \in Players : q # p => unseen'[q] = unseen[q],
         unseen'[p] = unseen[p] \/ \A w \in Workers : Doing(w, "decay") => p \in late',
         Scored(p)'
  PROVE  IInv'
<1>1. RequestInv' /\ UNCHANGED <<request, crossed>>
  BY StatementStep DEF IInv
<1>2. players' \in [Players -> Row] /\ players'[p] = new /\ \A q \in Players : q # p => players'[q] = players[q]
  BY DEF IInv, Typed
<1>3. Typed'
  BY <1>2 DEF Typed
<1>4. \A w \in Workers : HoldsTyped(w)'
  BY <1>1 DEF IInv, HoldsTyped, Doing
<1>5. ASSUME NEW w \in Workers PROVE DecaySound(w)'
  <2> SUFFICES ASSUME Doing(w, "decay"), NEW q \in DOMAIN request[w].rows, q \notin late' PROVE unseen'[q] = 0
    BY <1>1 DEF DecaySound, Doing
  <2>1. q \in Players /\ unseen[q] = 0
    BY DEF IInv, HoldsTyped, DecaySound
  <2> QED
    BY <2>1
<1>6. \A q \in Players : q # p => Scored(q)'
  BY <1>2 DEF IInv, Scored, Known
<1>7. ASSUME ~crossed, NEW q \in Players PROVE PlayerSound(q)'
  <2>1. PlayerSound(q)
    BY <1>7 DEF IInv
  <2>2. CASE q = p
    BY <2>1, <2>2, <1>2 DEF PlayerSound, Honoured
  <2>3. CASE q # p
    BY <2>1, <2>3, <1>2 DEF PlayerSound, Honoured
  <2> QED
    BY <2>2, <2>3
<1>8. ASSUME ~crossed, NEW w \in Workers PROVE ReadSound(w)'
  <2> SUFFICES ASSUME Doing(w, "player"), request[w].row.status # None PROVE ReadSound(w)'
    BY <1>1 DEF ReadSound, Doing
  <2>1. ReadSound(w) /\ request[w].player \in Players
    BY <1>8 DEF IInv, HoldsTyped
  <2>2. PICK q \in Players : q = request[w].player
    BY <2>1
  <2>3. /\ players'[q].personal = players[q].personal /\ players'[q].named = players[q].named
        /\ players'[q].excluded = players[q].excluded
        /\ players'[q].status = "SELF_EXCLUDED" => players[q].status = "SELF_EXCLUDED"
    BY <1>2
  <2>4. Honoured(request[w].row, q \in revived, q \in reopened) => Honoured(request[w].row, q \in revived', q \in reopened')
    BY DEF Honoured
  <2> QED
    BY <2>1, <2>2, <2>3, <2>4, <1>1 DEF ReadSound
<1> QED
  BY <1>1, <1>3, <1>4, <1>5, <1>6, <1>7, <1>8 DEF IInv

(* The statements.                                                         *)
LEMMA StatementsInv ==
  ASSUME IInv, NEW p \in Players,
         \/ \E s \in Risks : ScoreAlert(p, s)
         \/ \E s \in Reported : ReportStatus(p, s)
         \/ Suspend(p) \/ Idle(p)
  PROVE  IInv'
<1>1. players[p] \in Row /\ players[p].risk \in Nat /\ unseen[p] \in Nat /\ Scored(p) /\ unseen \in [Players -> Risks]
  BY RowFacts DEF IInv, Typed
<1>2. ASSUME NEW s \in Risks, ScoreAlert(p, s) PROVE IInv'
  <2>1. PICK risk : risk = RiskRaised(p, s)
    OBVIOUS
  <2>2. PICK new : new = [players[p] EXCEPT !.risk = risk, !.idle = FALSE]
    OBVIOUS
  <2>3. risk \in Risks /\ risk \in Nat /\ risk >= s /\ risk >= players[p].risk /\ s \in Nat
    BY <1>1, <2>1 DEF RiskRaised, Row, Risks
  <2>4. /\ new \in Row /\ new.status = players[p].status /\ new.personal = players[p].personal
        /\ new.named = players[p].named /\ new.excluded = players[p].excluded /\ new.risk = risk
    BY <1>1, <2>2, <2>3 DEF Row
  <2>5. /\ players' = [players EXCEPT ![p] = new]
        /\ unseen' = [unseen EXCEPT ![p] = IF s > unseen[p] THEN s ELSE unseen[p]]
        /\ late' = IF \E w \in Workers : Doing(w, "decay") THEN late \cup {p} ELSE late
        /\ Statement /\ UNCHANGED <<expired, revived, reopened>> /\ Known(p)
    BY <1>2, <2>1, <2>2 DEF ScoreAlert
  <2>6. /\ unseen' \in [Players -> Risks] /\ unseen'[p] = (IF s > unseen[p] THEN s ELSE unseen[p])
        /\ \A q \in Players : q # p => unseen'[q] = unseen[q]
    BY <1>1, <2>5
  <2>7. players'[p] = new
    BY <2>5 DEF IInv, Typed
  <2>8. Scored(p)'
    BY <1>1, <2>3, <2>4, <2>5, <2>6, <2>7 DEF Scored, Known
  <2>9. \A w \in Workers : Doing(w, "decay") => p \in late'
    BY <2>5
  <2>10. late \subseteq late'
    BY <2>5
  <2>11. /\ ~(new.status \notin {"ERASED", players[p].status})
         /\ ~(new.status \notin {"SELF_EXCLUDED", players[p].status})
    BY <2>4
  <2> QED
    BY <2>4, <2>5, <2>6, <2>8, <2>9, <2>10, <2>11, StatementInv
<1>3. ASSUME NEW s, s \notin {"ERASED", "SELF_EXCLUDED", None}, SetStatus(p, s) PROVE IInv'
  <2>1. PICK new : new = [players[p] EXCEPT !.status = s]
    OBVIOUS
  <2>2. Statement /\ UNCHANGED <<unseen, late, expired>> /\ Known(p)
    BY <1>3 DEF SetStatus
  <2>3. CASE s \in Accepted
    <3>1. players' = [players EXCEPT ![p] = new] /\ Revives(p, new) /\ Reopens(p, new)
      BY <1>3, <2>1, <2>3 DEF SetStatus
    <3>2. /\ new \in Row /\ new.status = s /\ new.personal = players[p].personal
          /\ new.named = players[p].named /\ new.excluded = players[p].excluded /\ new.risk = players[p].risk
      BY <1>1, <2>1, <2>3 DEF Row
    <3>3. players'[p] = new
      BY <3>1 DEF IInv, Typed
    <3>4. Scored(p)'
      BY <1>1, <1>3, <2>2, <3>2, <3>3 DEF Scored, Known
    <3>5. /\ revived \subseteq revived' /\ reopened \subseteq reopened'
          /\ new.personal = "anonymous" /\ new.status \notin {"ERASED", players[p].status} => p \in revived'
          /\ new.excluded /\ new.status \notin {"SELF_EXCLUDED", players[p].status} => p \in reopened'
      BY <3>1 DEF Revives, Reopens
    <3>6. unseen' \in [Players -> Risks] /\ unseen' = unseen /\ late \subseteq late' /\ expired' = expired
      BY <1>1, <2>2
    <3> QED
      BY <1>3, <2>2, <3>1, <3>2, <3>4, <3>5, <3>6, StatementInv
  <2>4. CASE s \notin Accepted
    <3>1. UNCHANGED <<players, revived, reopened>>
      BY <1>3, <2>4 DEF SetStatus
    <3>2. players' = [players EXCEPT ![p] = players[p]]
      BY <3>1 DEF IInv, Typed
    <3>3. Scored(p)' /\ unseen' \in [Players -> Risks] /\ unseen' = unseen
      BY <1>1, <2>2, <3>1 DEF Scored, Known
    <3> QED
      BY <1>1, <2>2, <3>1, <3>2, <3>3, StatementInv
  <2> QED
    BY <2>3, <2>4
<1>4. ASSUME NEW s \in Reported, ReportStatus(p, s) PROVE IInv'
  BY <1>3, <1>4, PlayerAssumption DEF ReportStatus
<1>5. ASSUME Suspend(p) PROVE IInv'
  <2>1. CASE None # "SUSPENDED"
    BY <1>3, <1>5, <2>1 DEF Suspend
  <2>2. CASE None = "SUSPENDED"
    <3>1. Statement /\ UNCHANGED <<players, unseen, late, expired, revived, reopened>>
      BY <1>5, <2>2, PlayerAssumption DEF Suspend, SetStatus
    <3>2. players' = [players EXCEPT ![p] = players[p]]
      BY <3>1 DEF IInv, Typed
    <3>3. Scored(p)' /\ unseen' \in [Players -> Risks] /\ unseen' = unseen
      BY <1>1, <3>1 DEF Scored, Known
    <3> QED
      BY <1>1, <3>1, <3>2, <3>3, StatementInv
  <2> QED
    BY <2>1, <2>2
<1>6. ASSUME Idle(p) PROVE IInv'
  <2>1. PICK new : new = [players[p] EXCEPT !.idle = TRUE]
    OBVIOUS
  <2>2. /\ new \in Row /\ new.status = players[p].status /\ new.personal = players[p].personal
        /\ new.named = players[p].named /\ new.excluded = players[p].excluded /\ new.risk = players[p].risk
    BY <1>1, <2>1 DEF Row
  <2>3. Statement /\ UNCHANGED <<unseen, late, expired, revived, reopened>> /\ players' = [players EXCEPT ![p] = new]
    BY <1>6, <2>1 DEF Idle
  <2>4. players'[p] = new
    BY <2>3 DEF IInv, Typed
  <2>5. Scored(p)' /\ unseen' \in [Players -> Risks] /\ unseen' = unseen
    BY <1>1, <2>2, <2>3, <2>4 DEF Scored, Known
  <2>6. /\ ~(new.status \notin {"ERASED", players[p].status})
        /\ ~(new.status \notin {"SELF_EXCLUDED", players[p].status})
    BY <2>2
  <2> QED
    BY <2>2, <2>3, <2>5, <2>6, StatementInv
<1> QED
  BY <1>2, <1>4, <1>5, <1>6

(* Every step preserves the invariant.                                     *)
LEMMA NextInv == IInv /\ [PlayerNext]_<<requestVars, playerVars>> => IInv'
<1> SUFFICES ASSUME IInv, [PlayerNext]_<<requestVars, playerVars>> PROVE IInv'
  OBVIOUS
<1>1. ASSUME UNCHANGED <<requestVars, playerVars>> PROVE IInv'
  <2>1. RequestInv' /\ UNCHANGED <<request, crossed>>
    BY <1>1, StatementStep DEF IInv
  <2>2. UNCHANGED <<players, unseen, late, expired, revived, reopened>>
    BY <1>1 DEF playerVars
  <2>3. \A w \in Workers : HoldsTyped(w)' /\ DecaySound(w)'
    BY <2>1, <2>2 DEF IInv, HoldsTyped, DecaySound, Doing
  <2>4. ~crossed => \A w \in Workers : ReadSound(w)'
    BY <2>1, <2>2 DEF IInv, ReadSound, Doing
  <2> QED
    BY <2>1, <2>2, <2>3, <2>4 DEF IInv, Typed, Scored, Known, PlayerSound
<1>2. ASSUME NEW w \in Workers, NEW p \in Players, NEW what \in Requests, PlayerRequest(w, p, what) PROVE IInv'
  BY <1>2, PlayerRequestInv
<1>3. ASSUME NEW w \in Workers, PlayerCommit(w) \/ InsertErased(w) PROVE IInv'
  BY <1>3, PlayerCommitInv, InsertErasedInv
<1>4. ASSUME NEW w \in Workers, ExpirationBegin(w) \/ DecayBegin(w) PROVE IInv'
  BY <1>4, JobBeginInv
<1>5. ASSUME NEW w \in Workers, ExpirationCommit(w) \/ DecayCommit(w) PROVE IInv'
  BY <1>5, ExpirationCommitInv, DecayCommitInv
<1>6. ASSUME NEW p \in Players,
             \/ \E s \in Risks : ScoreAlert(p, s)
             \/ \E s \in Reported : ReportStatus(p, s)
             \/ Suspend(p) \/ Idle(p)
      PROVE  IInv'
  BY <1>6, StatementsInv
<1> QED
  BY <1>1, <1>2, <1>3, <1>4, <1>5, <1>6 DEF PlayerNext

(* The histories are about players.                                        *)
HistoriesTyped ==
  late \subseteq Players /\ expired \subseteq Players /\ revived \subseteq Players /\ reopened \subseteq Players

LEMMA HistoriesKept ==
  ASSUME IInv, HistoriesTyped, [PlayerNext]_<<requestVars, playerVars>>
  PROVE  HistoriesTyped'
<1>1. CASE UNCHANGED <<requestVars, playerVars>>
  BY <1>1 DEF playerVars, HistoriesTyped
<1>2. ASSUME NEW w \in Workers,
             \/ \E p \in Players, what \in Requests : PlayerRequest(w, p, what)
             \/ ExpirationBegin(w) \/ DecayBegin(w) \/ DecayCommit(w) \/ InsertErased(w)
      PROVE  HistoriesTyped'
  BY <1>2 DEF PlayerRequest, ExpirationBegin, DecayBegin, DecayCommit, InsertErased, playerVars, HistoriesTyped
<1>3. ASSUME NEW w \in Workers, PlayerCommit(w) PROVE HistoriesTyped'
  <2>1. request[w].player \in Players
    BY <1>3 DEF PlayerCommit, IInv, HoldsTyped
  <2> QED
    BY <1>3, <2>1 DEF PlayerCommit, Revives, Reopens, HistoriesTyped
<1>4. ASSUME NEW w \in Workers, ExpirationCommit(w) PROVE HistoriesTyped'
  <2>1. DOMAIN request[w].rows \subseteq Players
    BY <1>4 DEF ExpirationCommit, IInv, HoldsTyped
  <2> QED
    BY <1>4, <2>1 DEF ExpirationCommit, HistoriesTyped
<1>5. ASSUME NEW p \in Players,
             \/ \E s \in Risks : ScoreAlert(p, s)
             \/ \E s \in Reported : ReportStatus(p, s)
             \/ Suspend(p) \/ Idle(p)
      PROVE  HistoriesTyped'
  BY <1>5 DEF ScoreAlert, ReportStatus, Suspend, Idle, SetStatus, Revives, Reopens, HistoriesTyped
<1> QED
  BY <1>1, <1>2, <1>3, <1>4, <1>5 DEF PlayerNext

(* The invariant says what the runs check.                                 *)
LEMMA InvSound ==
  ASSUME IInv, HistoriesTyped
  PROVE  StatusHonoured /\ RiskKept
<1>1. ASSUME ~crossed, NEW p \in Players
      PROVE  /\ players[p].personal = "anonymous" => (players[p].status = "ERASED" /\ ~FoundByCpf(p)) \/ p \in revived
             /\ players[p].status = "ERASED" /\ Exported(p).named => p \in expired
             /\ players[p].excluded /\ players[p].status = "ACTIVE" => p \in reopened
  <2>1. PlayerSound(p)
    BY <1>1 DEF IInv
  <2> QED
    BY <2>1 DEF PlayerSound, Honoured, FoundByCpf, Erasable, Exported
<1>2. StatusHonoured
  <2>1. PlayerTypeOK
    BY DEF PlayerTypeOK, HistoriesTyped, IInv, Typed
  <2> QED
    BY <1>1, <2>1 DEF StatusHonoured, ErasedForgotten, ErasedExportsNothing, ExclusionVisible
<1>3. RiskKept
  BY DEF IInv, Scored, RiskKept
<1> QED
  BY <1>2, <1>3

(* An erasure and a self-exclusion hold against every other writer of the  *)
(* row, but for the statuses that are written without asking.              *)
THEOREM StatusIsHonoured == PlayerSpec => []StatusHonoured
<1> DEFINE AnInv == IInv /\ HistoriesTyped
<1>1. RequestInit /\ PlayerInit => AnInv
  BY InitInv DEF PlayerInit, HistoriesTyped
<1>2. AnInv /\ [PlayerNext]_<<requestVars, playerVars>> => AnInv'
  BY NextInv, HistoriesKept
<1>3. AnInv => StatusHonoured
  BY InvSound
<1> QED
  BY <1>1, <1>2, <1>3, PTL DEF PlayerSpec

(* A player's risk score covers each of its alerts until a decay has read  *)
(* them.                                                                   *)
THEOREM RiskIsKept == PlayerSpec => []RiskKept
<1> DEFINE AnInv == IInv /\ HistoriesTyped
<1>1. RequestInit /\ PlayerInit => AnInv
  BY InitInv DEF PlayerInit, HistoriesTyped
<1>2. AnInv /\ [PlayerNext]_<<requestVars, playerVars>> => AnInv'
  BY NextInv, HistoriesKept
<1>3. AnInv => RiskKept
  BY InvSound
<1> QED
  BY <1>1, <1>2, <1>3, PTL DEF PlayerSpec

-----------------------------------------------------------------------------
(* CaseDesk: the trail of a case.                                          *)

Owners == {PlayerOf[a] : a \in Evidence} \cup {None}

CaseRow == [player : Owners, source : Evidence \cup {None}, assignee : Users \cup {None}]

EntryTypes == {"ALERT_LINKED", "ALERT_UNLINKED", "ASSIGNMENT", "NOTE"}

TrailEntry == [type : EntryTypes, of : Evidence \cup Users \cup {None}]

(* What a trail tells: an alert is in, ever was, was linked first; someone *)
(* was assigned last.                                                      *)
IsLinkOf(e, a) == e.type = "ALERT_LINKED" /\ e.of = a
IsAbout(e, a) == e.type \in {"ALERT_LINKED", "ALERT_UNLINKED"} /\ e.of = a

EverIn(s, a) == \E i \in 1..Len(s) : IsLinkOf(s[i], a)
TellsIn(s, a) ==
  \E i \in 1..Len(s) : IsLinkOf(s[i], a) /\ \A j \in 1..Len(s) : j > i => ~IsAbout(s[j], a)
AnyLink(s) == \E i \in 1..Len(s) : s[i].type = "ALERT_LINKED"
FirstIn(s, a) ==
  \E i \in 1..Len(s) : IsLinkOf(s[i], a) /\ \A j \in 1..Len(s) : s[j].type = "ALERT_LINKED" => i <= j
AnyAssigned(s) == \E i \in 1..Len(s) : s[i].type = "ASSIGNMENT"
LastAssigned(s, u) ==
  \E i \in 1..Len(s) : /\ s[i].type = "ASSIGNMENT" /\ s[i].of = u
                       /\ \A j \in 1..Len(s) : s[j].type = "ASSIGNMENT" => j <= i

(* One more entry, of an alert or of someone.                              *)
LEMMA TrailGrows ==
  ASSUME NEW s \in Seq(TrailEntry), NEW e \in TrailEntry, NEW z, z = Append(s, e)
  PROVE  /\ z \in Seq(TrailEntry)
         /\ AnyLink(z) <=> AnyLink(s) \/ e.type = "ALERT_LINKED"
         /\ AnyAssigned(z) <=> AnyAssigned(s) \/ e.type = "ASSIGNMENT"
         /\ \A a : EverIn(z, a) <=> EverIn(s, a) \/ IsLinkOf(e, a)
         /\ \A a : TellsIn(z, a) <=> IsLinkOf(e, a) \/ (TellsIn(s, a) /\ ~IsAbout(e, a))
         /\ \A a : FirstIn(z, a) <=> FirstIn(s, a) \/ (~AnyLink(s) /\ IsLinkOf(e, a))
         /\ \A u : LastAssigned(z, u) <=>
              \/ e.type = "ASSIGNMENT" /\ e.of = u
              \/ LastAssigned(s, u) /\ e.type # "ASSIGNMENT"
<1>1. PICK n \in Nat : n = Len(s)
  BY LenProperties
<1>2. /\ z \in Seq(TrailEntry) /\ Len(z) = n + 1 /\ z[n + 1] = e
      /\ \A i \in 1..n : z[i] = s[i]
  BY <1>1, AppendProperties
<1>3. \A i : i \in 1..(n + 1) <=> i \in 1..n \/ i = n + 1
  BY <1>1
<1>4. n + 1 \in 1..(n + 1) /\ \A i \in 1..n : i < n + 1 /\ ~(n + 1 <= i) /\ i <= n + 1
  BY <1>1
<1>5. AnyLink(z) <=> AnyLink(s) \/ e.type = "ALERT_LINKED"
  BY <1>1, <1>2, <1>3 DEF AnyLink
<1>6. AnyAssigned(z) <=> AnyAssigned(s) \/ e.type = "ASSIGNMENT"
  BY <1>1, <1>2, <1>3 DEF AnyAssigned
<1>7. ASSUME NEW a PROVE EverIn(z, a) <=> EverIn(s, a) \/ IsLinkOf(e, a)
  BY <1>1, <1>2, <1>3 DEF EverIn
<1>8. ASSUME NEW a PROVE TellsIn(z, a) <=> IsLinkOf(e, a) \/ (TellsIn(s, a) /\ ~IsAbout(e, a))
  <2>1. CASE IsLinkOf(e, a)
    <3>1. \A j \in 1..(n + 1) : ~(j > n + 1)
      BY <1>1
    <3> QED
      BY <1>2, <1>4, <2>1, <3>1 DEF TellsIn
  <2>2. ASSUME TellsIn(z, a), ~IsLinkOf(e, a) PROVE TellsIn(s, a) /\ ~IsAbout(e, a)
    <3>1. PICK i \in 1..(n + 1) : IsLinkOf(z[i], a) /\ \A j \in 1..(n + 1) : j > i => ~IsAbout(z[j], a)
      BY <1>2, <2>2 DEF TellsIn
    <3>2. i \in 1..n /\ n + 1 > i
      BY <1>1, <1>2, <2>2, <3>1
    <3>3. ~IsAbout(e, a)
      BY <1>2, <1>4, <3>1, <3>2
    <3>4. \A j \in 1..n : j > i => ~IsAbout(s[j], a)
      BY <1>2, <1>3, <3>1
    <3> QED
      BY <1>1, <1>2, <3>1, <3>2, <3>3, <3>4 DEF TellsIn
  <2>3. ASSUME TellsIn(s, a), ~IsAbout(e, a) PROVE TellsIn(z, a)
    <3>1. PICK i \in 1..n : IsLinkOf(s[i], a) /\ \A j \in 1..n : j > i => ~IsAbout(s[j], a)
      BY <1>1, <2>3 DEF TellsIn
    <3> QED
      BY <1>2, <1>3, <2>3, <3>1 DEF TellsIn
  <2> QED
    BY <2>1, <2>2, <2>3
<1>9. ASSUME NEW a PROVE FirstIn(z, a) <=> FirstIn(s, a) \/ (~AnyLink(s) /\ IsLinkOf(e, a))
  <2>1. ASSUME FirstIn(z, a) PROVE FirstIn(s, a) \/ (~AnyLink(s) /\ IsLinkOf(e, a))
    <3>1. PICK i \in 1..(n + 1) : IsLinkOf(z[i], a) /\ \A j \in 1..(n + 1) : z[j].type = "ALERT_LINKED" => i <= j
      BY <1>2, <2>1 DEF FirstIn
    <3>2. CASE i \in 1..n
      BY <1>1, <1>2, <1>3, <3>1, <3>2 DEF FirstIn
    <3>3. CASE i = n + 1
      BY <1>1, <1>2, <1>3, <1>4, <3>1, <3>3 DEF AnyLink
    <3> QED
      BY <1>3, <3>2, <3>3
  <2>2. ASSUME FirstIn(s, a) PROVE FirstIn(z, a)
    <3>1. PICK i \in 1..n : IsLinkOf(s[i], a) /\ \A j \in 1..n : s[j].type = "ALERT_LINKED" => i <= j
      BY <1>1, <2>2 DEF FirstIn
    <3> QED
      BY <1>2, <1>3, <1>4, <3>1 DEF FirstIn
  <2>3. ASSUME ~AnyLink(s), IsLinkOf(e, a) PROVE FirstIn(z, a)
    <3>1. \A j \in 1..(n + 1) : z[j].type = "ALERT_LINKED" => j = n + 1
      BY <1>1, <1>2, <1>3, <2>3 DEF AnyLink
    <3> QED
      BY <1>1, <1>2, <1>4, <2>3, <3>1 DEF FirstIn
  <2> QED
    BY <2>1, <2>2, <2>3
<1>10. ASSUME NEW u
       PROVE  LastAssigned(z, u) <=> \/ e.type = "ASSIGNMENT" /\ e.of = u
                                     \/ LastAssigned(s, u) /\ e.type # "ASSIGNMENT"
  <2>1. CASE e.type = "ASSIGNMENT"
    <3>1. ASSUME e.of = u PROVE LastAssigned(z, u)
      BY <1>1, <1>2, <1>3, <1>4, <2>1, <3>1 DEF LastAssigned
    <3>2. ASSUME LastAssigned(z, u) PROVE e.of = u
      <4>1. PICK i \in 1..(n + 1) : z[i].of = u /\ \A j \in 1..(n + 1) : z[j].type = "ASSIGNMENT" => j <= i
        BY <1>2, <3>2 DEF LastAssigned
      <4>2. n + 1 <= i
        BY <1>2, <1>4, <2>1, <4>1
      <4> QED
        BY <1>2, <1>3, <1>4, <4>1, <4>2
    <3> QED
      BY <2>1, <3>1, <3>2
  <2>2. CASE e.type # "ASSIGNMENT"
    <3>1. ASSUME LastAssigned(s, u) PROVE LastAssigned(z, u)
      <4>1. PICK i \in 1..n : /\ s[i].type = "ASSIGNMENT" /\ s[i].of = u
                              /\ \A j \in 1..n : s[j].type = "ASSIGNMENT" => j <= i
        BY <1>1, <3>1 DEF LastAssigned
      <4> QED
        BY <1>2, <1>3, <2>2, <4>1 DEF LastAssigned
    <3>2. ASSUME LastAssigned(z, u) PROVE LastAssigned(s, u)
      <4>1. PICK i \in 1..(n + 1) : /\ z[i].type = "ASSIGNMENT" /\ z[i].of = u
                                    /\ \A j \in 1..(n + 1) : z[j].type = "ASSIGNMENT" => j <= i
        BY <1>2, <3>2 DEF LastAssigned
      <4>2. i \in 1..n
        BY <1>2, <1>3, <2>2, <4>1
      <4> QED
        BY <1>1, <1>2, <1>3, <4>1, <4>2 DEF LastAssigned
    <3> QED
      BY <2>2, <3>1, <3>2
  <2> QED
    BY <2>1, <2>2
<1> QED
  BY <1>2, <1>5, <1>6, <1>7, <1>8, <1>9, <1>10

CaseDeskTyped ==
  /\ opened \subseteq CaseIds
  /\ caseRow \in [CaseIds -> CaseRow]
  /\ linkedTo \in [Evidence -> CaseIds \cup {None}]
  /\ trail \in [CaseIds -> Seq(TrailEntry)]

AssigneeNotice(c) == [case |-> c, user |-> caseRow[c].assignee, kind |-> "CASE_ASSIGNED"]

(* What a request under way on a case has read.                            *)
CallSound(w) ==
  LET r == request[w]
  IN /\ Doing(w, "link") => /\ r.case \in opened /\ r.alert \in Evidence /\ r.from \in CaseIds \cup {None}
                            /\ r.before \in CaseRow /\ r.after = LinkedRow(r.before, r.alert)
     /\ Doing(w, "unlink") => r.case \in opened /\ r.alert \in Evidence
     /\ Doing(w, "assign") => /\ r.case \in opened /\ r.before \in CaseRow
                              /\ \E u \in Users : r.after = [r.before EXCEPT !.assignee = u]
                              /\ r.before.assignee # None => AnyAssigned(trail[r.case])

(* A request that is alone has read what still holds.                      *)
StillTrue(w) ==
  ~crossed =>
    LET r == request[w]
    IN /\ Doing(w, "link") => linkedTo[r.alert] = r.from /\ caseRow[r.case] = r.before
       /\ Doing(w, "unlink") => linkedTo[r.alert] = r.case
       /\ Doing(w, "assign") => caseRow[r.case] = r.before

(* What the trail of a case tells of its row and of the alerts.            *)
RowTold(c) ==
  /\ caseRow[c].assignee # None => AssigneeNotice(c) \in informed
  /\ AnyAssigned(trail[c]) <=> caseRow[c].assignee # None
  /\ ~crossed =>
       /\ caseRow[c].source = None <=> ~AnyLink(trail[c])
       /\ caseRow[c].source # None => FirstIn(trail[c], caseRow[c].source)
       /\ AnyAssigned(trail[c]) => LastAssigned(trail[c], caseRow[c].assignee)

AlertTold(c, a) ==
  ~crossed =>
    /\ linkedTo[a] = c => TellsIn(trail[c], a)
    /\ TellsIn(trail[c], a) => linkedTo[a] = c \/ \E d \in CaseIds \ {c} : EverIn(trail[d], a)

CaseDeskInv ==
  /\ RequestInv
  /\ CaseDeskTyped
  /\ \A w \in Workers : CallSound(w)
  /\ \A w \in Workers : StillTrue(w)
  /\ \A c \in CaseIds \ opened : trail[c] = <<>>
  /\ \A c \in CaseIds : RowTold(c)
  /\ \A c \in CaseIds, a \in Evidence : AlertTold(c, a)

(* A trail of nothing tells nothing.                                       *)
LEMMA EmptyTrail ==
  /\ ~AnyLink(<<>>) /\ ~AnyAssigned(<<>>)
  /\ \A a : ~TellsIn(<<>>, a) /\ ~EverIn(<<>>, a)
BY DEF AnyLink, AnyAssigned, TellsIn, EverIn

(* In the beginning the trails are empty.                                  *)
LEMMA CaseDeskInitInv == RequestInit /\ CaseDeskInit => CaseDeskInv
<1> SUFFICES ASSUME RequestInit, CaseDeskInit PROVE CaseDeskInv
  OBVIOUS
<1> USE CaseDeskAssumption
<1>1. RequestInv /\ \A w \in Workers : request[w] = None
  BY RequestsInit
<1>2. CaseDeskTyped
  BY DEF CaseDeskInit, CaseDeskTyped, CaseRow, NewCase, Owners
<1>3. (\A w \in Workers : CallSound(w)) /\ \A w \in Workers : StillTrue(w)
  BY <1>1 DEF CallSound, StillTrue, Doing
<1>4. \A c \in CaseIds : trail[c] = <<>> /\ caseRow[c] = NewCase(None)
  BY DEF CaseDeskInit
<1>5. \A c \in CaseIds : RowTold(c)
  BY <1>4, EmptyTrail DEF RowTold, NewCase
<1>6. \A c \in CaseIds, a \in Evidence : AlertTold(c, a)
  BY <1>4, EmptyTrail DEF AlertTold, CaseDeskInit
<1> QED
  BY <1>1, <1>2, <1>3, <1>4, <1>5, <1>6 DEF CaseDeskInv

(* The columns of a case after a commit.                                   *)
LEMMA FlushedCase ==
  ASSUME NEW row \in CaseRow, NEW before \in CaseRow, NEW after \in CaseRow
  PROVE  /\ Flushed(row, before, after) \in CaseRow
         /\ row = before => Flushed(row, before, after) = after
         /\ Flushed(row, before, after).assignee =
              IF after.assignee # before.assignee THEN after.assignee ELSE row.assignee
<1> DEFINE f == Flushed(row, before, after)
<1>1. DOMAIN row = {"player", "source", "assignee"}
  BY DEF CaseRow
<1>2. /\ f.player \in Owners /\ f.source \in Evidence \cup {None} /\ f.assignee \in Users \cup {None}
      /\ f = [x \in {"player", "source", "assignee"} |-> f[x]]
  BY <1>1 DEF Flushed, CaseRow
<1>3. f = [player |-> f.player, source |-> f.source, assignee |-> f.assignee]
  BY <1>2
<1>4. f \in CaseRow
  BY <1>2, <1>3 DEF CaseRow
<1>5. ASSUME row = before PROVE f = after
  <2>1. f.player = after.player /\ f.source = after.source /\ f.assignee = after.assignee
    BY <1>1, <1>5 DEF Flushed
  <2>2. after = [player |-> after.player, source |-> after.source, assignee |-> after.assignee]
    BY DEF CaseRow
  <2> QED
    BY <1>3, <2>1, <2>2
<1>6. f.assignee = IF after.assignee # before.assignee THEN after.assignee ELSE row.assignee
  BY <1>1 DEF Flushed
<1> QED
  BY <1>4, <1>5, <1>6

(* The row of a case that an alert is linked to.                           *)
LEMMA LinkedCase ==
  ASSUME NEW row \in CaseRow, NEW a \in Evidence
  PROVE  /\ LinkedRow(row, a) \in CaseRow
         /\ LinkedRow(row, a).assignee = row.assignee
         /\ LinkedRow(row, a).source = IF row.source = None THEN a ELSE row.source
BY DEF LinkedRow, CaseRow, Owners

(* A request begins on a case.                                             *)
LEMMA CaseBeginInv ==
  ASSUME CaseDeskInv, NEW w \in Workers, NEW r, Begin(w, r), UNCHANGED caseDeskVars,
         CallSound(w)', StillTrue(w)'
  PROVE  CaseDeskInv'
<1>1. /\ RequestInv' /\ \A v \in Workers \ {w} : request'[v] = request[v]
      /\ ~crossed' => ~crossed /\ \A v \in Workers \ {w} : request'[v] = None
  BY BeginStep DEF CaseDeskInv
<1>2. ASSUME NEW v \in Workers \ {w} PROVE CallSound(v)' /\ StillTrue(v)'
  <2>1. StillTrue(v)'
    BY <1>1 DEF StillTrue, Doing
  <2>2. PICK r0 : r0 = request[v]
    OBVIOUS
  <2>3. request'[v] = r0
    BY <1>1, <2>2
  <2>4. CallSound(v)'
    <3>1. CallSound(v) /\ UNCHANGED <<opened, trail>>
      BY DEF CaseDeskInv, caseDeskVars
    <3> QED
      BY <2>2, <2>3, <3>1 DEF CallSound, Doing
  <2> QED
    BY <2>1, <2>4
<1>3. \A c \in CaseIds : RowTold(c)'
  BY <1>1 DEF CaseDeskInv, RowTold, AssigneeNotice, caseDeskVars
<1>4. \A c \in CaseIds, a \in Evidence : AlertTold(c, a)'
  BY <1>1 DEF CaseDeskInv, AlertTold, caseDeskVars
<1>5. CaseDeskTyped' /\ \A c \in CaseIds \ opened' : trail'[c] = <<>>
  BY DEF CaseDeskInv, CaseDeskTyped, caseDeskVars
<1> QED
  BY <1>1, <1>2, <1>3, <1>4, <1>5 DEF CaseDeskInv

(* A request that ends leaves the others, which go on with what they read. *)
LEMMA CaseEnds ==
  ASSUME CaseDeskInv, NEW w \in Workers, request[w] # None, Ends(w), opened' = opened,
         \A c \in CaseIds : AnyAssigned(trail[c]) => AnyAssigned(trail'[c])
  PROVE  /\ RequestInv' /\ crossed' = crossed
         /\ \A v \in Workers : CallSound(v)'
         /\ \A v \in Workers : StillTrue(v)'
<1>1. /\ RequestInv' /\ request'[w] = None /\ \A v \in Workers \ {w} : request'[v] = request[v]
      /\ crossed' = crossed
      /\ ~crossed => \A v \in Workers \ {w} : request'[v] = None
  BY GoesOnStep DEF Ends, CaseDeskInv
<1>2. CallSound(w)' /\ StillTrue(w)'
  BY <1>1 DEF CallSound, StillTrue, Doing
<1>3. ASSUME NEW v \in Workers \ {w} PROVE CallSound(v)' /\ StillTrue(v)'
  <2>1. StillTrue(v)'
    BY <1>1 DEF StillTrue, Doing
  <2>2. CallSound(v)'
    <3>1. CallSound(v) /\ opened \subseteq CaseIds
      BY DEF CaseDeskInv, CaseDeskTyped
    <3>2. PICK r : r = request[v]
      OBVIOUS
    <3>3. request'[v] = r
      BY <1>1, <3>2
    <3> QED
      BY <3>1, <3>2, <3>3 DEF CallSound, Doing
  <2> QED
    BY <2>1, <2>2
<1> QED
  BY <1>1, <1>2, <1>3

(* An entry of the trail of one case.                                      *)
LEMMA NotedStep ==
  ASSUME CaseDeskTyped, NEW c \in CaseIds, NEW type \in EntryTypes,
         NEW of \in Evidence \cup Users \cup {None}, Noted(c, type, of)
  PROVE  /\ trail' \in [CaseIds -> Seq(TrailEntry)]
         /\ \A d \in CaseIds : d # c => trail'[d] = trail[d]
         /\ AnyLink(trail'[c]) <=> AnyLink(trail[c]) \/ type = "ALERT_LINKED"
         /\ AnyAssigned(trail'[c]) <=> AnyAssigned(trail[c]) \/ type = "ASSIGNMENT"
         /\ \A a : EverIn(trail'[c], a) <=> EverIn(trail[c], a) \/ (type = "ALERT_LINKED" /\ of = a)
         /\ \A a : TellsIn(trail'[c], a) <=>
              \/ type = "ALERT_LINKED" /\ of = a
              \/ TellsIn(trail[c], a) /\ ~(type \in {"ALERT_LINKED", "ALERT_UNLINKED"} /\ of = a)
         /\ \A a : FirstIn(trail'[c], a) <=>
              FirstIn(trail[c], a) \/ (~AnyLink(trail[c]) /\ type = "ALERT_LINKED" /\ of = a)
         /\ \A u : LastAssigned(trail'[c], u) <=>
              \/ type = "ASSIGNMENT" /\ of = u
              \/ LastAssigned(trail[c], u) /\ type # "ASSIGNMENT"
         /\ \A d \in CaseIds : AnyAssigned(trail[d]) => AnyAssigned(trail'[d])
<1>1. PICK s : s = trail[c]
  OBVIOUS
<1>2. PICK e : e = [type |-> type, of |-> of]
  OBVIOUS
<1>3. PICK z : z = Append(s, e)
  OBVIOUS
<1>4. s \in Seq(TrailEntry) /\ e \in TrailEntry
  BY <1>1, <1>2 DEF CaseDeskTyped, TrailEntry
<1>5. trail' = [trail EXCEPT ![c] = z]
  BY <1>1, <1>2, <1>3 DEF Noted
<1>6. trail'[c] = z /\ \A d \in CaseIds : d # c => trail'[d] = trail[d]
  BY <1>5 DEF CaseDeskTyped
<1>7. /\ z \in Seq(TrailEntry)
      /\ AnyLink(z) <=> AnyLink(s) \/ e.type = "ALERT_LINKED"
      /\ AnyAssigned(z) <=> AnyAssigned(s) \/ e.type = "ASSIGNMENT"
      /\ \A a : EverIn(z, a) <=> EverIn(s, a) \/ IsLinkOf(e, a)
      /\ \A a : TellsIn(z, a) <=> IsLinkOf(e, a) \/ (TellsIn(s, a) /\ ~IsAbout(e, a))
      /\ \A a : FirstIn(z, a) <=> FirstIn(s, a) \/ (~AnyLink(s) /\ IsLinkOf(e, a))
      /\ \A u : LastAssigned(z, u) <=>
           \/ e.type = "ASSIGNMENT" /\ e.of = u
           \/ LastAssigned(s, u) /\ e.type # "ASSIGNMENT"
  BY <1>3, <1>4, TrailGrows
<1>8. e.type = type /\ e.of = of
  BY <1>2
<1>9. trail' \in [CaseIds -> Seq(TrailEntry)]
  BY <1>5, <1>7 DEF CaseDeskTyped
<1>10. \A d \in CaseIds : AnyAssigned(trail[d]) => AnyAssigned(trail'[d])
  BY <1>1, <1>6, <1>7
<1> QED
  BY <1>1, <1>6, <1>7, <1>8, <1>9, <1>10 DEF IsLinkOf, IsAbout

(* A request reads a case and an alert.                                    *)
LEMMA LinkBeginInv ==
  ASSUME CaseDeskInv, NEW w \in Workers, NEW c \in CaseIds, NEW a \in Evidence, LinkBegin(w, c, a)
  PROVE  CaseDeskInv'
<1>1. PICK b \in CaseRow : b = caseRow[c]
  BY DEF CaseDeskInv, CaseDeskTyped
<1>2. PICK f \in CaseIds \cup {None} : f = linkedTo[a]
  BY DEF CaseDeskInv, CaseDeskTyped
<1>3. PICK n : n = LinkedRow(b, a)
  OBVIOUS
<1>4. PICK q : q = [op |-> "link", case |-> c, alert |-> a, from |-> f, before |-> b, after |-> n]
  OBVIOUS
<1>5. Begin(w, q) /\ c \in opened /\ UNCHANGED caseDeskVars
  BY <1>1, <1>2, <1>3, <1>4 DEF LinkBegin
<1>6. request'[w] = q
  BY <1>5, BeginStep DEF CaseDeskInv
<1>7. CallSound(w)'
  BY <1>3, <1>4, <1>5, <1>6 DEF CallSound, Doing, caseDeskVars
<1>8. StillTrue(w)'
  BY <1>1, <1>2, <1>4, <1>5, <1>6 DEF StillTrue, Doing, caseDeskVars
<1> QED
  BY <1>5, <1>7, <1>8, CaseBeginInv

(* A request reads an alert of the case.                                   *)
LEMMA UnlinkBeginInv ==
  ASSUME CaseDeskInv, NEW w \in Workers, NEW c \in CaseIds, NEW a \in Evidence, UnlinkBegin(w, c, a)
  PROVE  CaseDeskInv'
<1>1. PICK q : q = [op |-> "unlink", case |-> c, alert |-> a]
  OBVIOUS
<1>2. Begin(w, q) /\ c \in opened /\ linkedTo[a] = c /\ UNCHANGED caseDeskVars
  BY <1>1 DEF UnlinkBegin
<1>3. request'[w] = q
  BY <1>2, BeginStep DEF CaseDeskInv
<1>4. CallSound(w)' /\ StillTrue(w)'
  BY <1>1, <1>2, <1>3 DEF CallSound, StillTrue, Doing, caseDeskVars
<1> QED
  BY <1>2, <1>4, CaseBeginInv

(* A request reads a case to assign.                                       *)
LEMMA AssignBeginInv ==
  ASSUME CaseDeskInv, NEW w \in Workers, NEW c \in CaseIds, NEW u \in Users, AssignBegin(w, c, u)
  PROVE  CaseDeskInv'
<1>1. PICK b \in CaseRow : b = caseRow[c]
  BY DEF CaseDeskInv, CaseDeskTyped
<1>2. PICK n : n = [b EXCEPT !.assignee = u]
  OBVIOUS
<1>3. PICK q : q = [op |-> "assign", case |-> c, before |-> b, after |-> n]
  OBVIOUS
<1>4. Begin(w, q) /\ c \in opened /\ UNCHANGED caseDeskVars
  BY <1>1, <1>2, <1>3 DEF AssignBegin
<1>5. request'[w] = q
  BY <1>4, BeginStep DEF CaseDeskInv
<1>6. b.assignee # None => AnyAssigned(trail[c])
  BY <1>1 DEF CaseDeskInv, RowTold
<1>7. CallSound(w)'
  <2>1. q.op = "assign" /\ q.case = c /\ q.before = b /\ q.after = n
    BY <1>3
  <2>2. \E v \in Users : n = [b EXCEPT !.assignee = v]
    BY <1>2
  <2>3. c \in opened' /\ (b.assignee # None => AnyAssigned(trail'[c]))
    BY <1>4, <1>6 DEF caseDeskVars
  <2> QED
    BY <1>5, <2>1, <2>2, <2>3 DEF CallSound, Doing
<1>8. StillTrue(w)'
  BY <1>1, <1>3, <1>4, <1>5 DEF StillTrue, Doing, caseDeskVars
<1> QED
  BY <1>4, <1>7, <1>8, CaseBeginInv

(* An alert is linked to a case, or moved to it.                           *)
LEMMA LinkCommitInv ==
  ASSUME CaseDeskInv, NEW w \in Workers, LinkCommit(w)
  PROVE  CaseDeskInv'
<1> USE CaseDeskAssumption
<1>1. PICK c \in CaseIds, a \in Evidence, f \in CaseIds \cup {None}, b \in CaseRow, n \in CaseRow :
        /\ c = request[w].case /\ a = request[w].alert /\ f = request[w].from
        /\ b = request[w].before /\ n = request[w].after /\ n = LinkedRow(b, a)
        /\ c \in opened
        /\ ~crossed => linkedTo[a] = f /\ caseRow[c] = b
  <2>1. Doing(w, "link") /\ CallSound(w) /\ StillTrue(w) /\ opened \subseteq CaseIds
    BY DEF CaseDeskInv, LinkCommit, CaseDeskTyped
  <2>2. \A b \in CaseRow, a \in Evidence : LinkedRow(b, a) \in CaseRow
    BY LinkedCase
  <2> QED
    BY <2>1, <2>2 DEF CallSound, StillTrue
<1>2. /\ caseRow' = [caseRow EXCEPT ![c] = Flushed(@, b, n)]
      /\ linkedTo' = [linkedTo EXCEPT ![a] = IF f = c THEN @ ELSE c]
      /\ Noted(c, "ALERT_LINKED", a)
      /\ Ends(w) /\ request[w] # None /\ UNCHANGED <<opened, informed>>
  BY <1>1 DEF LinkCommit, Doing
<1>3. CaseDeskTyped
  BY DEF CaseDeskInv
<1>4. /\ trail' \in [CaseIds -> Seq(TrailEntry)]
      /\ \A d \in CaseIds : d # c => trail'[d] = trail[d]
      /\ AnyLink(trail'[c])
      /\ AnyAssigned(trail'[c]) <=> AnyAssigned(trail[c])
      /\ \A x : EverIn(trail'[c], x) <=> EverIn(trail[c], x) \/ a = x
      /\ \A x : TellsIn(trail'[c], x) <=> a = x \/ TellsIn(trail[c], x)
      /\ \A x : FirstIn(trail'[c], x) <=> FirstIn(trail[c], x) \/ (~AnyLink(trail[c]) /\ a = x)
      /\ \A u : LastAssigned(trail'[c], u) <=> LastAssigned(trail[c], u)
      /\ \A d \in CaseIds : AnyAssigned(trail[d]) => AnyAssigned(trail'[d])
  <2>1. PICK type \in EntryTypes : type = "ALERT_LINKED"
    BY DEF EntryTypes
  <2>2. Noted(c, type, a) /\ a \in Evidence \cup Users \cup {None}
    BY <1>2, <2>1
  <2>3. /\ trail' \in [CaseIds -> Seq(TrailEntry)]
        /\ \A d \in CaseIds : d # c => trail'[d] = trail[d]
        /\ AnyLink(trail'[c]) <=> AnyLink(trail[c]) \/ type = "ALERT_LINKED"
        /\ AnyAssigned(trail'[c]) <=> AnyAssigned(trail[c]) \/ type = "ASSIGNMENT"
        /\ \A x : EverIn(trail'[c], x) <=> EverIn(trail[c], x) \/ (type = "ALERT_LINKED" /\ a = x)
        /\ \A x : TellsIn(trail'[c], x) <=>
             \/ type = "ALERT_LINKED" /\ a = x
             \/ TellsIn(trail[c], x) /\ ~(type \in {"ALERT_LINKED", "ALERT_UNLINKED"} /\ a = x)
        /\ \A x : FirstIn(trail'[c], x) <=>
             FirstIn(trail[c], x) \/ (~AnyLink(trail[c]) /\ type = "ALERT_LINKED" /\ a = x)
        /\ \A u : LastAssigned(trail'[c], u) <=>
             \/ type = "ASSIGNMENT" /\ a = u
             \/ LastAssigned(trail[c], u) /\ type # "ASSIGNMENT"
        /\ \A d \in CaseIds : AnyAssigned(trail[d]) => AnyAssigned(trail'[d])
    BY <1>3, <2>2, NotedStep
  <2> QED
    BY <2>1, <2>3
<1>5. /\ RequestInv' /\ crossed' = crossed
      /\ \A v \in Workers : CallSound(v)'
      /\ \A v \in Workers : StillTrue(v)'
  BY <1>2, <1>4, CaseEnds
<1>6. n \in CaseRow /\ n.assignee = b.assignee /\ n.source = IF b.source = None THEN a ELSE b.source
  BY <1>1, LinkedCase
<1>7. PICK row \in CaseRow : row = caseRow[c]
  BY <1>3 DEF CaseDeskTyped
<1>8. PICK z \in CaseRow : /\ z = Flushed(row, b, n)
                           /\ row = b => z = n
                           /\ z.assignee = row.assignee
  BY <1>6, FlushedCase
<1>9. /\ caseRow' \in [CaseIds -> CaseRow] /\ caseRow'[c] = z
      /\ \A d \in CaseIds : d # c => caseRow'[d] = caseRow[d]
  BY <1>2, <1>3, <1>7, <1>8 DEF CaseDeskTyped
<1>10. /\ linkedTo' \in [Evidence -> CaseIds \cup {None}]
       /\ \A x \in Evidence : x # a => linkedTo'[x] = linkedTo[x]
       /\ ~crossed => linkedTo'[a] = c
  BY <1>1, <1>2, <1>3 DEF CaseDeskTyped
<1>11. CaseDeskTyped'
  BY <1>2, <1>3, <1>4, <1>9, <1>10 DEF CaseDeskTyped
<1>12. \A d \in CaseIds \ opened' : trail'[d] = <<>>
  BY <1>1, <1>2, <1>4 DEF CaseDeskInv
<1>13. ASSUME NEW d \in CaseIds PROVE RowTold(d)'
  <2>1. CASE d # c
    <3>1. PICK s : s = trail[d] /\ s = trail'[d]
      BY <1>4, <2>1
    <3>2. PICK y : y = caseRow[d] /\ y = caseRow'[d]
      BY <1>9, <2>1
    <3>3. RowTold(d)
      BY DEF CaseDeskInv
    <3> QED
      BY <1>2, <1>5, <3>1, <3>2, <3>3 DEF RowTold, AssigneeNotice
  <2>2. CASE d = c
    <3>1. RowTold(c)
      BY DEF CaseDeskInv
    <3>2. caseRow'[c].assignee = row.assignee
      BY <1>8, <1>9
    <3>3. ~crossed => caseRow'[c].source = IF row.source = None THEN a ELSE row.source
      BY <1>1, <1>6, <1>7, <1>8, <1>9
    <3>4. caseRow'[c].assignee # None => AssigneeNotice(c)' \in informed'
      BY <1>2, <1>7, <3>1, <3>2 DEF RowTold, AssigneeNotice
    <3>5. AnyAssigned(trail'[c]) <=> caseRow'[c].assignee # None
      BY <1>4, <1>7, <3>1, <3>2 DEF RowTold
    <3>6. ASSUME ~crossed'
          PROVE  /\ caseRow'[c].source = None <=> ~AnyLink(trail'[c])
                 /\ caseRow'[c].source # None => FirstIn(trail'[c], caseRow'[c].source)
                 /\ AnyAssigned(trail'[c]) => LastAssigned(trail'[c], caseRow'[c].assignee)
      BY <1>4, <1>5, <1>7, <3>1, <3>2, <3>3, <3>6 DEF RowTold
    <3> QED
      BY <2>2, <3>4, <3>5, <3>6 DEF RowTold
  <2> QED
    BY <2>1, <2>2
<1>14. ASSUME NEW d \in CaseIds, NEW x \in Evidence, ~crossed'
       PROVE  /\ linkedTo'[x] = d => TellsIn(trail'[d], x)
              /\ TellsIn(trail'[d], x) => linkedTo'[x] = d \/ \E e \in CaseIds \ {d} : EverIn(trail'[e], x)
  <2>1. ~crossed /\ AlertTold(d, x)
    BY <1>5, <1>14 DEF CaseDeskInv
  <2>2. \A e \in CaseIds : EverIn(trail[e], x) => EverIn(trail'[e], x)
    BY <1>4
  <2>3. CASE x = a
    BY <1>4, <1>10, <2>1, <2>3
  <2>4. CASE x # a
    <3>1. TellsIn(trail'[d], x) <=> TellsIn(trail[d], x)
      BY <1>4, <2>4
    <3> QED
      BY <1>10, <2>1, <2>2, <2>4, <3>1 DEF AlertTold
  <2> QED
    BY <2>3, <2>4
<1>15. \A d \in CaseIds, x \in Evidence : AlertTold(d, x)'
  BY <1>14 DEF AlertTold
<1> QED
  BY <1>5, <1>11, <1>12, <1>13, <1>15 DEF CaseDeskInv

(* An alert is let go.                                                     *)
LEMMA UnlinkCommitInv ==
  ASSUME CaseDeskInv, NEW w \in Workers, UnlinkCommit(w)
  PROVE  CaseDeskInv'
<1> USE CaseDeskAssumption
<1>1. PICK c \in CaseIds, a \in Evidence :
        /\ c = request[w].case /\ a = request[w].alert /\ c \in opened
        /\ ~crossed => linkedTo[a] = c
  <2>1. Doing(w, "unlink") /\ CallSound(w) /\ StillTrue(w) /\ opened \subseteq CaseIds
    BY DEF CaseDeskInv, UnlinkCommit, CaseDeskTyped
  <2> QED
    BY <2>1 DEF CallSound, StillTrue
<1>2. /\ linkedTo' = [linkedTo EXCEPT ![a] = None]
      /\ Noted(c, "ALERT_UNLINKED", a)
      /\ Ends(w) /\ request[w] # None /\ UNCHANGED <<opened, caseRow, informed>>
  BY <1>1 DEF UnlinkCommit, Doing
<1>3. CaseDeskTyped
  BY DEF CaseDeskInv
<1>4. /\ trail' \in [CaseIds -> Seq(TrailEntry)]
      /\ \A d \in CaseIds : d # c => trail'[d] = trail[d]
      /\ AnyLink(trail'[c]) <=> AnyLink(trail[c])
      /\ AnyAssigned(trail'[c]) <=> AnyAssigned(trail[c])
      /\ \A x : EverIn(trail'[c], x) <=> EverIn(trail[c], x)
      /\ \A x : TellsIn(trail'[c], x) <=> TellsIn(trail[c], x) /\ a # x
      /\ \A x : FirstIn(trail'[c], x) <=> FirstIn(trail[c], x)
      /\ \A u : LastAssigned(trail'[c], u) <=> LastAssigned(trail[c], u)
      /\ \A d \in CaseIds : AnyAssigned(trail[d]) => AnyAssigned(trail'[d])
  <2>1. PICK type \in EntryTypes : type = "ALERT_UNLINKED"
    BY DEF EntryTypes
  <2>2. Noted(c, type, a) /\ a \in Evidence \cup Users \cup {None}
    BY <1>2, <2>1
  <2>3. /\ trail' \in [CaseIds -> Seq(TrailEntry)]
        /\ \A d \in CaseIds : d # c => trail'[d] = trail[d]
        /\ AnyLink(trail'[c]) <=> AnyLink(trail[c]) \/ type = "ALERT_LINKED"
        /\ AnyAssigned(trail'[c]) <=> AnyAssigned(trail[c]) \/ type = "ASSIGNMENT"
        /\ \A x : EverIn(trail'[c], x) <=> EverIn(trail[c], x) \/ (type = "ALERT_LINKED" /\ a = x)
        /\ \A x : TellsIn(trail'[c], x) <=>
             \/ type = "ALERT_LINKED" /\ a = x
             \/ TellsIn(trail[c], x) /\ ~(type \in {"ALERT_LINKED", "ALERT_UNLINKED"} /\ a = x)
        /\ \A x : FirstIn(trail'[c], x) <=>
             FirstIn(trail[c], x) \/ (~AnyLink(trail[c]) /\ type = "ALERT_LINKED" /\ a = x)
        /\ \A u : LastAssigned(trail'[c], u) <=>
             \/ type = "ASSIGNMENT" /\ a = u
             \/ LastAssigned(trail[c], u) /\ type # "ASSIGNMENT"
        /\ \A d \in CaseIds : AnyAssigned(trail[d]) => AnyAssigned(trail'[d])
    BY <1>3, <2>2, NotedStep
  <2> QED
    BY <2>1, <2>3
<1>5. /\ RequestInv' /\ crossed' = crossed
      /\ \A v \in Workers : CallSound(v)'
      /\ \A v \in Workers : StillTrue(v)'
  BY <1>2, <1>4, CaseEnds
<1>6. /\ linkedTo' \in [Evidence -> CaseIds \cup {None}]
      /\ \A x \in Evidence : x # a => linkedTo'[x] = linkedTo[x]
      /\ linkedTo'[a] = None
  BY <1>2, <1>3 DEF CaseDeskTyped
<1>7. CaseDeskTyped'
  BY <1>2, <1>3, <1>4, <1>6 DEF CaseDeskTyped
<1>8. \A d \in CaseIds \ opened' : trail'[d] = <<>>
  BY <1>1, <1>2, <1>4 DEF CaseDeskInv
<1>9. ASSUME NEW d \in CaseIds PROVE RowTold(d)'
  <2>1. PICK y : y = caseRow[d] /\ y = caseRow'[d]
    BY <1>2
  <2>2. /\ AnyLink(trail'[d]) <=> AnyLink(trail[d])
        /\ AnyAssigned(trail'[d]) <=> AnyAssigned(trail[d])
        /\ \A x : FirstIn(trail'[d], x) <=> FirstIn(trail[d], x)
        /\ \A u : LastAssigned(trail'[d], u) <=> LastAssigned(trail[d], u)
    BY <1>4
  <2> QED
    BY <1>2, <1>5, <2>1, <2>2 DEF CaseDeskInv, RowTold, AssigneeNotice
<1>10. ASSUME NEW d \in CaseIds, NEW x \in Evidence, ~crossed'
       PROVE  /\ linkedTo'[x] = d => TellsIn(trail'[d], x)
              /\ TellsIn(trail'[d], x) => linkedTo'[x] = d \/ \E e \in CaseIds \ {d} : EverIn(trail'[e], x)
  <2>1. ~crossed /\ AlertTold(d, x) /\ AlertTold(c, x)
    BY <1>5, <1>10 DEF CaseDeskInv
  <2>2. \A e \in CaseIds : EverIn(trail[e], x) <=> EverIn(trail'[e], x)
    BY <1>4
  <2>3. CASE x = a
    <3>1. CASE d = c
      BY <1>4, <1>6, <2>3, <3>1
    <3>2. CASE d # c
      <4>1. TellsIn(trail[c], a)
        BY <1>1, <2>1, <2>3 DEF AlertTold
      <4>2. EverIn(trail[c], a)
        BY <4>1 DEF TellsIn, EverIn
      <4> QED
        BY <1>6, <2>2, <2>3, <3>2, <4>2
    <3> QED
      BY <3>1, <3>2
  <2>4. CASE x # a
    <3>1. TellsIn(trail'[d], x) <=> TellsIn(trail[d], x)
      BY <1>4, <2>4
    <3> QED
      BY <1>6, <2>1, <2>2, <2>4, <3>1 DEF AlertTold
  <2> QED
    BY <2>3, <2>4
<1>11. \A d \in CaseIds, x \in Evidence : AlertTold(d, x)'
  BY <1>10 DEF AlertTold
<1> QED
  BY <1>5, <1>7, <1>8, <1>9, <1>11 DEF CaseDeskInv

(* A case is given to whom the request names.                              *)
LEMMA AssignCommitInv ==
  ASSUME CaseDeskInv, NEW w \in Workers, AssignCommit(w)
  PROVE  CaseDeskInv'
<1> USE CaseDeskAssumption
<1>1. PICK c \in CaseIds, b \in CaseRow, u \in Users :
        /\ c = request[w].case /\ b = request[w].before /\ request[w].after = [b EXCEPT !.assignee = u]
        /\ c \in opened
        /\ b.assignee # None => AnyAssigned(trail[c])
        /\ ~crossed => caseRow[c] = b
  <2>1. Doing(w, "assign") /\ CallSound(w) /\ StillTrue(w) /\ opened \subseteq CaseIds
    BY DEF CaseDeskInv, AssignCommit, CaseDeskTyped
  <2> QED
    BY <2>1 DEF CallSound, StillTrue
<1>2. PICK n \in CaseRow : n = [b EXCEPT !.assignee = u] /\ n.assignee = u /\ n.source = b.source
  <2>1. b = [player |-> b.player, source |-> b.source, assignee |-> b.assignee]
    BY DEF CaseRow
  <2>2. [b EXCEPT !.assignee = u] = [player |-> b.player, source |-> b.source, assignee |-> u]
    BY <2>1
  <2>3. PICK n : n = [player |-> b.player, source |-> b.source, assignee |-> u]
    OBVIOUS
  <2>4. n \in CaseRow /\ n.assignee = u /\ n.source = b.source
    BY <2>3 DEF CaseRow
  <2> QED
    BY <2>2, <2>3, <2>4
<1>3. /\ caseRow' = [caseRow EXCEPT ![c] = Flushed(@, b, n)]
      /\ Noted(c, "ASSIGNMENT", u)
      /\ informed' = informed \cup {[case |-> c, user |-> u, kind |-> "CASE_ASSIGNED"]}
      /\ Ends(w) /\ request[w] # None /\ UNCHANGED <<opened, linkedTo>>
  BY <1>1, <1>2 DEF AssignCommit, Doing, Reassigned
<1>4. CaseDeskTyped
  BY DEF CaseDeskInv
<1>5. /\ trail' \in [CaseIds -> Seq(TrailEntry)]
      /\ \A d \in CaseIds : d # c => trail'[d] = trail[d]
      /\ AnyLink(trail'[c]) <=> AnyLink(trail[c])
      /\ AnyAssigned(trail'[c])
      /\ \A x : EverIn(trail'[c], x) <=> EverIn(trail[c], x)
      /\ \A x : TellsIn(trail'[c], x) <=> TellsIn(trail[c], x)
      /\ \A x : FirstIn(trail'[c], x) <=> FirstIn(trail[c], x)
      /\ LastAssigned(trail'[c], u)
      /\ \A d \in CaseIds : AnyAssigned(trail[d]) => AnyAssigned(trail'[d])
  <2>1. PICK type \in EntryTypes : type = "ASSIGNMENT"
    BY DEF EntryTypes
  <2>2. Noted(c, type, u) /\ u \in Evidence \cup Users \cup {None}
    BY <1>3, <2>1
  <2>3. /\ trail' \in [CaseIds -> Seq(TrailEntry)]
        /\ \A d \in CaseIds : d # c => trail'[d] = trail[d]
        /\ AnyLink(trail'[c]) <=> AnyLink(trail[c]) \/ type = "ALERT_LINKED"
        /\ AnyAssigned(trail'[c]) <=> AnyAssigned(trail[c]) \/ type = "ASSIGNMENT"
        /\ \A x : EverIn(trail'[c], x) <=> EverIn(trail[c], x) \/ (type = "ALERT_LINKED" /\ u = x)
        /\ \A x : TellsIn(trail'[c], x) <=>
             \/ type = "ALERT_LINKED" /\ u = x
             \/ TellsIn(trail[c], x) /\ ~(type \in {"ALERT_LINKED", "ALERT_UNLINKED"} /\ u = x)
        /\ \A x : FirstIn(trail'[c], x) <=>
             FirstIn(trail[c], x) \/ (~AnyLink(trail[c]) /\ type = "ALERT_LINKED" /\ u = x)
        /\ \A x : LastAssigned(trail'[c], x) <=>
             \/ type = "ASSIGNMENT" /\ u = x
             \/ LastAssigned(trail[c], x) /\ type # "ASSIGNMENT"
        /\ \A d \in CaseIds : AnyAssigned(trail[d]) => AnyAssigned(trail'[d])
    BY <1>4, <2>2, NotedStep
  <2> QED
    BY <2>1, <2>3
<1>6. /\ RequestInv' /\ crossed' = crossed
      /\ \A v \in Workers : CallSound(v)'
      /\ \A v \in Workers : StillTrue(v)'
  BY <1>3, <1>5, CaseEnds
<1>7. PICK row \in CaseRow : row = caseRow[c]
  BY <1>4 DEF CaseDeskTyped
<1>8. PICK z \in CaseRow : /\ z = Flushed(row, b, n)
                           /\ row = b => z = n
                           /\ z.assignee = IF n.assignee # b.assignee THEN n.assignee ELSE row.assignee
  BY FlushedCase
<1>9. /\ caseRow' \in [CaseIds -> CaseRow] /\ caseRow'[c] = z
      /\ \A d \in CaseIds : d # c => caseRow'[d] = caseRow[d]
  BY <1>3, <1>4, <1>7, <1>8 DEF CaseDeskTyped
<1>10. CaseDeskTyped'
  BY <1>3, <1>4, <1>5, <1>9 DEF CaseDeskTyped
<1>11. \A d \in CaseIds \ opened' : trail'[d] = <<>>
  BY <1>1, <1>3, <1>5 DEF CaseDeskInv
<1>12. ASSUME NEW d \in CaseIds PROVE RowTold(d)'
  <2>1. RowTold(d)
    BY DEF CaseDeskInv
  <2>2. CASE d # c
    <3>1. PICK s : s = trail[d] /\ s = trail'[d]
      BY <1>5, <2>2
    <3>2. PICK y : y = caseRow[d] /\ y = caseRow'[d]
      BY <1>9, <2>2
    <3> QED
      BY <1>3, <1>6, <2>1, <3>1, <3>2 DEF RowTold, AssigneeNotice
  <2>3. CASE d = c
    <3>1. z.assignee = u \/ (b.assignee = u /\ z.assignee = row.assignee)
      BY <1>2, <1>8
    <3>2. row.assignee # None => [case |-> c, user |-> row.assignee, kind |-> "CASE_ASSIGNED"] \in informed
      BY <1>7, <2>1, <2>3 DEF RowTold, AssigneeNotice
    <3>3. z.assignee # None
      <4>1. CASE z.assignee = u
        BY <4>1
      <4>2. CASE b.assignee = u /\ z.assignee = row.assignee
        BY <1>1, <1>7, <2>1, <2>3, <4>2 DEF RowTold
      <4> QED
        BY <3>1, <4>1, <4>2
    <3>4. [case |-> c, user |-> z.assignee, kind |-> "CASE_ASSIGNED"] \in informed'
      BY <1>3, <3>1, <3>2, <3>3
    <3>5. ASSUME ~crossed'
          PROVE  /\ caseRow'[c].source = None <=> ~AnyLink(trail'[c])
                 /\ caseRow'[c].source # None => FirstIn(trail'[c], caseRow'[c].source)
                 /\ LastAssigned(trail'[c], caseRow'[c].assignee)
      <4>1. row = b /\ z = n /\ ~crossed
        BY <1>1, <1>6, <1>7, <1>8, <3>5
      <4>2. z.assignee = u /\ z.source = row.source
        BY <1>2, <4>1
      <4> QED
        BY <1>5, <1>7, <1>9, <2>1, <2>3, <4>1, <4>2 DEF RowTold
    <3> QED
      BY <1>5, <1>9, <2>3, <3>3, <3>4, <3>5 DEF RowTold, AssigneeNotice
  <2> QED
    BY <2>2, <2>3
<1>13. ASSUME NEW d \in CaseIds, NEW x \in Evidence PROVE AlertTold(d, x)'
  <2>1. AlertTold(d, x)
    BY DEF CaseDeskInv
  <2>2. /\ \A e \in CaseIds : EverIn(trail[e], x) <=> EverIn(trail'[e], x)
        /\ TellsIn(trail'[d], x) <=> TellsIn(trail[d], x)
    BY <1>5
  <2> QED
    BY <1>3, <1>6, <2>1, <2>2 DEF AlertTold
<1> QED
  BY <1>6, <1>10, <1>11, <1>12, <1>13 DEF CaseDeskInv

(* A statement that touches one case and no column that requests read.     *)
LEMMA CaseStatementInv ==
  ASSUME CaseDeskInv, Statement, UNCHANGED linkedTo, informed \subseteq informed',
         NEW c \in CaseIds, opened \subseteq opened', CaseDeskTyped',
         \A d \in CaseIds : d # c => caseRow'[d] = caseRow[d],
         c \in opened => caseRow'[c] = caseRow[c],
         c \notin opened => caseRow'[c].assignee = None /\ caseRow'[c].source = None,
         \A d \in CaseIds \ opened' : trail'[d] = <<>>,
         \A d \in CaseIds :
           /\ AnyLink(trail'[d]) <=> AnyLink(trail[d])
           /\ AnyAssigned(trail'[d]) <=> AnyAssigned(trail[d])
           /\ \A x : EverIn(trail'[d], x) <=> EverIn(trail[d], x)
           /\ \A x : TellsIn(trail'[d], x) <=> TellsIn(trail[d], x)
           /\ \A x : FirstIn(trail'[d], x) <=> FirstIn(trail[d], x)
           /\ \A x : LastAssigned(trail'[d], x) <=> LastAssigned(trail[d], x)
  PROVE  CaseDeskInv'
<1>1. RequestInv' /\ request' = request /\ crossed' = crossed
  BY StatementStep DEF CaseDeskInv
<1>2. \A d \in opened : caseRow'[d] = caseRow[d] /\ d \in CaseIds
  BY DEF CaseDeskInv, CaseDeskTyped
<1>3. ASSUME NEW w \in Workers PROVE CallSound(w)' /\ StillTrue(w)'
  <2>1. CallSound(w) /\ StillTrue(w)
    BY DEF CaseDeskInv
  <2>2. PICK r : r = request[w] /\ r = request'[w]
    BY <1>1
  <2>3. CallSound(w)'
    BY <1>2, <2>1, <2>2 DEF CallSound, Doing
  <2>4. StillTrue(w)'
    BY <1>1, <1>2, <2>1, <2>2 DEF StillTrue, CallSound, Doing
  <2> QED
    BY <2>3, <2>4
<1>4. ASSUME NEW d \in CaseIds PROVE RowTold(d)'
  <2>1. RowTold(d)
    BY DEF CaseDeskInv
  <2>2. CASE caseRow'[d] = caseRow[d]
    <3>1. PICK y : y = caseRow[d] /\ y = caseRow'[d]
      BY <2>2
    <3> QED
      BY <1>1, <2>1, <3>1 DEF RowTold, AssigneeNotice
  <2>3. CASE caseRow'[d] # caseRow[d]
    <3>1. d = c /\ c \notin opened /\ caseRow'[d].assignee = None /\ caseRow'[d].source = None
      BY <2>3
    <3>2. trail[d] = <<>>
      BY <3>1 DEF CaseDeskInv
    <3>3. ~AnyLink(trail'[d]) /\ ~AnyAssigned(trail'[d])
      BY <3>2, EmptyTrail
    <3> QED
      BY <3>1, <3>3 DEF RowTold
  <2> QED
    BY <2>2, <2>3
<1>5. ASSUME NEW d \in CaseIds, NEW x \in Evidence PROVE AlertTold(d, x)'
  <2>1. AlertTold(d, x)
    BY DEF CaseDeskInv
  <2> QED
    BY <1>1, <2>1 DEF AlertTold
<1> QED
  BY <1>1, <1>3, <1>4, <1>5 DEF CaseDeskInv

(* A case is opened, of a player or of none.                               *)
LEMMA OpenCaseInv ==
  ASSUME CaseDeskInv, NEW c \in CaseIds, OpenCase(c)
  PROVE  CaseDeskInv'
<1> USE CaseDeskAssumption
<1>1. PICK p \in Owners : caseRow' = [caseRow EXCEPT ![c] = NewCase(p)]
  BY DEF OpenCase, Owners
<1>2. PICK row \in CaseRow : row = NewCase(p) /\ row.source = None /\ row.assignee = None
  <2>1. PICK row : row = [player |-> p, source |-> None, assignee |-> None]
    OBVIOUS
  <2> QED
    BY <2>1 DEF CaseRow, NewCase
<1>3. /\ Statement /\ c \notin opened /\ opened' = opened \cup {c}
      /\ UNCHANGED <<linkedTo, trail, informed>>
  BY DEF OpenCase
<1>4. CaseDeskTyped
  BY DEF CaseDeskInv
<1>5. CaseDeskTyped' /\ caseRow'[c] = row /\ \A d \in CaseIds : d # c => caseRow'[d] = caseRow[d]
  BY <1>1, <1>2, <1>3, <1>4 DEF CaseDeskTyped
<1>6. \A d \in CaseIds \ opened' : trail'[d] = <<>>
  BY <1>3 DEF CaseDeskInv
<1>7. \A d \in CaseIds :
        /\ AnyLink(trail'[d]) <=> AnyLink(trail[d])
        /\ AnyAssigned(trail'[d]) <=> AnyAssigned(trail[d])
        /\ \A x : EverIn(trail'[d], x) <=> EverIn(trail[d], x)
        /\ \A x : TellsIn(trail'[d], x) <=> TellsIn(trail[d], x)
        /\ \A x : FirstIn(trail'[d], x) <=> FirstIn(trail[d], x)
        /\ \A x : LastAssigned(trail'[d], x) <=> LastAssigned(trail[d], x)
  BY <1>3
<1>8. UNCHANGED linkedTo /\ informed \subseteq informed' /\ opened \subseteq opened'
  BY <1>3
<1> QED
  BY <1>2, <1>3, <1>5, <1>6, <1>7, <1>8, CaseStatementInv

(* A note on a case.                                                       *)
LEMMA CommentInv ==
  ASSUME CaseDeskInv, NEW c \in CaseIds, NEW mentioned \in SUBSET Users, Comment(c, mentioned)
  PROVE  CaseDeskInv'
<1>1. /\ Statement /\ c \in opened /\ Noted(c, "NOTE", None)
      /\ UNCHANGED <<opened, caseRow, linkedTo>> /\ informed \subseteq informed'
  BY DEF Comment
<1>2. CaseDeskTyped
  BY DEF CaseDeskInv
<1>3. PICK type \in EntryTypes : type = "NOTE"
  BY DEF EntryTypes
<1>4. PICK of \in Evidence \cup Users \cup {None} : of = None
  OBVIOUS
<1>5. Noted(c, type, of)
  BY <1>1, <1>3, <1>4
<1>6. /\ trail' \in [CaseIds -> Seq(TrailEntry)]
      /\ \A d \in CaseIds : d # c => trail'[d] = trail[d]
      /\ AnyLink(trail'[c]) <=> AnyLink(trail[c]) \/ type = "ALERT_LINKED"
      /\ AnyAssigned(trail'[c]) <=> AnyAssigned(trail[c]) \/ type = "ASSIGNMENT"
      /\ \A a : EverIn(trail'[c], a) <=> EverIn(trail[c], a) \/ (type = "ALERT_LINKED" /\ of = a)
      /\ \A a : TellsIn(trail'[c], a) <=>
           \/ type = "ALERT_LINKED" /\ of = a
           \/ TellsIn(trail[c], a) /\ ~(type \in {"ALERT_LINKED", "ALERT_UNLINKED"} /\ of = a)
      /\ \A a : FirstIn(trail'[c], a) <=>
           FirstIn(trail[c], a) \/ (~AnyLink(trail[c]) /\ type = "ALERT_LINKED" /\ of = a)
      /\ \A u : LastAssigned(trail'[c], u) <=>
           \/ type = "ASSIGNMENT" /\ of = u
           \/ LastAssigned(trail[c], u) /\ type # "ASSIGNMENT"
  BY <1>2, <1>5, NotedStep
<1>7. \A d \in CaseIds :
        /\ AnyLink(trail'[d]) <=> AnyLink(trail[d])
        /\ AnyAssigned(trail'[d]) <=> AnyAssigned(trail[d])
        /\ \A x : EverIn(trail'[d], x) <=> EverIn(trail[d], x)
        /\ \A x : TellsIn(trail'[d], x) <=> TellsIn(trail[d], x)
        /\ \A x : FirstIn(trail'[d], x) <=> FirstIn(trail[d], x)
        /\ \A x : LastAssigned(trail'[d], x) <=> LastAssigned(trail[d], x)
  <2> SUFFICES ASSUME NEW d \in CaseIds
               PROVE  /\ AnyLink(trail'[d]) <=> AnyLink(trail[d])
                      /\ AnyAssigned(trail'[d]) <=> AnyAssigned(trail[d])
                      /\ \A x : EverIn(trail'[d], x) <=> EverIn(trail[d], x)
                      /\ \A x : TellsIn(trail'[d], x) <=> TellsIn(trail[d], x)
                      /\ \A x : FirstIn(trail'[d], x) <=> FirstIn(trail[d], x)
                      /\ \A x : LastAssigned(trail'[d], x) <=> LastAssigned(trail[d], x)
    OBVIOUS
  <2>1. CASE d = c
    BY <1>3, <1>6, <2>1
  <2>2. CASE d # c
    BY <1>6, <2>2
  <2> QED
    BY <2>1, <2>2
<1>8. CaseDeskTyped'
  BY <1>1, <1>2, <1>6 DEF CaseDeskTyped
<1>9. \A d \in CaseIds \ opened' : trail'[d] = <<>>
  BY <1>1, <1>6 DEF CaseDeskInv
<1>10. UNCHANGED linkedTo /\ opened \subseteq opened'
       /\ \A d \in CaseIds : caseRow'[d] = caseRow[d]
  BY <1>1
<1> QED
  BY <1>1, <1>7, <1>8, <1>9, <1>10, CaseStatementInv

(* Every step of the desk.                                                 *)
LEMMA CaseDeskNextInv ==
  ASSUME CaseDeskInv, [CaseDeskNext]_<<requestVars, caseDeskVars>>
  PROVE  CaseDeskInv'
<1>1. ASSUME UNCHANGED <<requestVars, caseDeskVars>> PROVE CaseDeskInv'
  <2>1. /\ UNCHANGED <<request, calls, crossed>>
        /\ UNCHANGED <<opened, caseRow, linkedTo, trail, informed>>
    BY <1>1 DEF requestVars, caseDeskVars
  <2> QED
    BY <2>1 DEF CaseDeskInv, RequestInv, RequestTypeOK, OneAtATime, CaseDeskTyped, CallSound, Doing, StillTrue,
                RowTold, AssigneeNotice, AlertTold
<1>2. ASSUME CaseDeskNext PROVE CaseDeskInv'
  <2>1. ASSUME NEW w \in Workers, NEW c \in CaseIds, NEW a \in Evidence, LinkBegin(w, c, a)
        PROVE  CaseDeskInv'
    BY <2>1, LinkBeginInv
  <2>2. ASSUME NEW w \in Workers, NEW c \in CaseIds, NEW a \in Evidence, UnlinkBegin(w, c, a)
        PROVE  CaseDeskInv'
    BY <2>2, UnlinkBeginInv
  <2>3. ASSUME NEW w \in Workers, NEW c \in CaseIds, NEW u \in Users, AssignBegin(w, c, u)
        PROVE  CaseDeskInv'
    BY <2>3, AssignBeginInv
  <2>4. ASSUME NEW w \in Workers, LinkCommit(w) \/ UnlinkCommit(w) \/ AssignCommit(w)
        PROVE  CaseDeskInv'
    BY <2>4, LinkCommitInv, UnlinkCommitInv, AssignCommitInv
  <2>5. ASSUME NEW c \in CaseIds, OpenCase(c) PROVE CaseDeskInv'
    BY <2>5, OpenCaseInv
  <2>6. ASSUME NEW c \in CaseIds, NEW mentioned \in SUBSET Users, Comment(c, mentioned) PROVE CaseDeskInv'
    BY <2>6, CommentInv
  <2> QED
    BY <1>2, <2>1, <2>2, <2>3, <2>4, <2>5, <2>6 DEF CaseDeskNext
<1> QED
  BY <1>1, <1>2

(* What the desk reads as the latest of some entries is what the operators *)
(* on trails say, and the first of them too.                               *)
LEMMA TrailRead ==
  ASSUME NEW s \in Seq(TrailEntry), NEW S \in SUBSET (1..Len(s))
  PROVE  /\ S # {} => Latest(S) \in S /\ \A j \in S : j <= Latest(S)
<1>1. PICK n \in Nat : n = Len(s)
  BY LenProperties
<1>2. ASSUME S # {} PROVE \E i \in S : \A j \in S : j <= i
  <2>1. S \subseteq Nat /\ \A x \in S : x <= n
    BY <1>1
  <2> QED
    BY <1>2, <2>1, GreatestExists
<1> QED
  BY <1>2 DEF Latest

(* Alerts and notices are of cases that are opened.                        *)
PointersTyped ==
  /\ linkedTo \in [Evidence -> opened \cup {None}]
  /\ informed \subseteq [case : opened, user : Users, kind : {"CASE_ASSIGNED", "CASE_MENTION"}]

LEMMA PointersKept ==
  ASSUME CaseDeskInv, PointersTyped, [CaseDeskNext]_<<requestVars, caseDeskVars>>
  PROVE  PointersTyped'
<1>1. CASE UNCHANGED <<requestVars, caseDeskVars>>
  BY <1>1 DEF caseDeskVars, PointersTyped
<1>2. ASSUME NEW w \in Workers, NEW c \in CaseIds,
             \/ \E a \in Evidence : LinkBegin(w, c, a) \/ UnlinkBegin(w, c, a)
             \/ \E u \in Users : AssignBegin(w, c, u)
      PROVE  PointersTyped'
  BY <1>2 DEF LinkBegin, UnlinkBegin, AssignBegin, caseDeskVars, PointersTyped
<1>3. ASSUME NEW w \in Workers, LinkCommit(w) PROVE PointersTyped'
  <2>1. request[w].case \in opened
    BY <1>3 DEF LinkCommit, CaseDeskInv, CallSound
  <2> QED
    BY <1>3, <2>1 DEF LinkCommit, PointersTyped
<1>4. ASSUME NEW w \in Workers, UnlinkCommit(w) PROVE PointersTyped'
  BY <1>4 DEF UnlinkCommit, PointersTyped
<1>5. ASSUME NEW w \in Workers, AssignCommit(w) PROVE PointersTyped'
  <2> DEFINE q == request[w]
  <2>1. q.case \in opened /\ q.before \in CaseRow
    BY <1>5 DEF AssignCommit, CaseDeskInv, CallSound
  <2>2. PICK u \in Users : q.after = [q.before EXCEPT !.assignee = u]
    BY <1>5 DEF AssignCommit, CaseDeskInv, CallSound
  <2>3. q.after.assignee = u
    BY <2>1, <2>2 DEF CaseRow
  <2>4. informed' = informed \cup {[case |-> q.case, user |-> q.after.assignee, kind |-> "CASE_ASSIGNED"]}
    BY <1>5 DEF AssignCommit
  <2>5. UNCHANGED <<opened, linkedTo>>
    BY <1>5 DEF AssignCommit
  <2> QED
    BY <2>1, <2>3, <2>4, <2>5 DEF PointersTyped
<1>6. ASSUME NEW c \in CaseIds, OpenCase(c) PROVE PointersTyped'
  BY <1>6 DEF OpenCase, PointersTyped
<1>7. ASSUME NEW c \in CaseIds, NEW named \in SUBSET Users, Comment(c, named) PROVE PointersTyped'
  <2>1. c \in opened /\ UNCHANGED <<opened, linkedTo>>
    BY <1>7 DEF Comment
  <2>2. informed' = informed \cup {[case |-> c, user |-> u, kind |-> "CASE_MENTION"] : u \in Mentioned(named)}
    BY <1>7 DEF Comment
  <2>3. Mentioned(named) \subseteq Users
    BY DEF Mentioned
  <2> QED
    BY <2>1, <2>2, <2>3 DEF PointersTyped
<1> QED
  BY <1>1, <1>2, <1>3, <1>4, <1>5, <1>6, <1>7 DEF CaseDeskNext

(* The timeline, the reconciliation and the notices of a case agree with   *)
(* its alerts, unless two requests overlapped.                             *)
LEMMA CaseDeskInvSound ==
  ASSUME CaseDeskInv, PointersTyped
  PROVE  CaseDeskSound
<1> USE CaseDeskAssumption
<1>1. \A c \in CaseIds : trail[c] \in Seq(TrailEntry) /\ DOMAIN trail[c] = 1..Len(trail[c])
  BY LenProperties DEF CaseDeskInv, CaseDeskTyped
<1>2. TrailTellsAlerts
  <2> SUFFICES ASSUME ~crossed, NEW c \in CaseIds, NEW a \in Evidence
               PROVE  LET about == {i \in Entries(c, {"ALERT_LINKED", "ALERT_UNLINKED"}) : trail[c][i].of = a}
                          isIn == about # {} /\ trail[c][Latest(about)].type = "ALERT_LINKED"
                          moved == \E d \in CaseIds \ {c} : \E i \in Entries(d, {"ALERT_LINKED"}) : trail[d][i].of = a
                      IN /\ linkedTo[a] = c => isIn
                         /\ isIn => linkedTo[a] = c \/ moved
    BY DEF TrailTellsAlerts
  <2> DEFINE about == {i \in Entries(c, {"ALERT_LINKED", "ALERT_UNLINKED"}) : trail[c][i].of = a}
             isIn == about # {} /\ trail[c][Latest(about)].type = "ALERT_LINKED"
             moved == \E d \in CaseIds \ {c} : \E i \in Entries(d, {"ALERT_LINKED"}) : trail[d][i].of = a
  <2>1. PICK s \in Seq(TrailEntry) : s = trail[c] /\ DOMAIN s = 1..Len(s)
    BY <1>1
  <2>2. about = {i \in 1..Len(s) : IsAbout(s[i], a)} /\ about \in SUBSET (1..Len(s))
    BY <2>1 DEF Entries, IsAbout
  <2>3. moved <=> \E d \in CaseIds \ {c} : EverIn(trail[d], a)
    BY <1>1 DEF Entries, EverIn, IsLinkOf
  <2> HIDE DEF about, moved
  <2>4. ASSUME isIn PROVE TellsIn(s, a)
    <3>1. PICK m : m = Latest(about)
      OBVIOUS
    <3>2. m \in about /\ s[m].type = "ALERT_LINKED" /\ \A j \in about : j <= m
      BY <2>1, <2>2, <2>4, <3>1, TrailRead
    <3>3. m \in 1..Len(s) /\ IsLinkOf(s[m], a)
      BY <2>2, <3>2 DEF IsLinkOf, IsAbout
    <3>4. \A j \in 1..Len(s) : j > m => ~IsAbout(s[j], a)
      BY <2>2, <3>2, LenProperties
    <3> QED
      BY <3>3, <3>4 DEF TellsIn
  <2>5. ASSUME TellsIn(s, a) PROVE isIn
    <3>1. PICK i \in 1..Len(s) : IsLinkOf(s[i], a) /\ \A j \in 1..Len(s) : j > i => ~IsAbout(s[j], a)
      BY <2>5 DEF TellsIn
    <3>2. i \in about
      BY <2>2, <3>1 DEF IsLinkOf, IsAbout
    <3>3. PICK m : m = Latest(about)
      OBVIOUS
    <3>4. m \in about /\ \A j \in about : j <= m
      BY <2>1, <2>2, <3>2, <3>3, TrailRead
    <3>5. m = i
      BY <2>2, <3>1, <3>2, <3>4, LenProperties
    <3> QED
      BY <2>1, <3>1, <3>2, <3>3, <3>5 DEF IsLinkOf
  <2>6. AlertTold(c, a)
    BY DEF CaseDeskInv
  <2>7. (linkedTo[a] = c => isIn) /\ (isIn => linkedTo[a] = c \/ moved)
    BY <2>1, <2>3, <2>4, <2>5, <2>6 DEF AlertTold
  <2> QED
    BY <2>7 DEF about, moved
<1>3. ASSUME ~crossed, NEW c \in CaseIds, NEW links, links = Entries(c, {"ALERT_LINKED"})
      PROVE  AlertToCase(c) <=>
               /\ links # {}
               /\ linkedTo[trail[c][CHOOSE i \in links : \A j \in links : i <= j].of] = c
  <2>1. PICK s \in Seq(TrailEntry) : s = trail[c] /\ DOMAIN s = 1..Len(s)
    BY <1>1
  <2>2. links = {i \in 1..Len(s) : s[i].type = "ALERT_LINKED"}
    BY <1>3, <2>1 DEF Entries
  <2>3. RowTold(c) /\ caseRow[c] \in CaseRow
    BY DEF CaseDeskInv, CaseDeskTyped
  <2>4. CASE links = {}
    <3>1. ~AnyLink(s)
      BY <2>2, <2>4 DEF AnyLink
    <3>2. \A a \in Evidence : linkedTo[a] # c
      <4> SUFFICES ASSUME NEW a \in Evidence, linkedTo[a] = c PROVE FALSE
        OBVIOUS
      <4>1. TellsIn(s, a)
        BY <1>3, <2>1 DEF CaseDeskInv, AlertTold
      <4> QED
        BY <3>1, <4>1 DEF TellsIn, AnyLink, IsLinkOf
    <3> QED
      BY <2>4, <3>2 DEF AlertToCase
  <2>5. CASE links # {}
    <3>1. AnyLink(s)
      BY <2>2, <2>5 DEF AnyLink
    <3>2. PICK a \in Evidence : a = caseRow[c].source /\ FirstIn(s, a)
      BY <1>3, <2>1, <2>3, <3>1 DEF RowTold, CaseRow
    <3>3. PICK i \in 1..Len(s) :
            /\ s[i].type = "ALERT_LINKED" /\ s[i].of = a
            /\ \A j \in 1..Len(s) : s[j].type = "ALERT_LINKED" => i <= j
      BY <3>2 DEF FirstIn, IsLinkOf
    <3>4. i \in links /\ \A j \in links : i <= j
      BY <2>2, <3>3
    <3>5. PICK f : f = CHOOSE k \in links : \A j \in links : k <= j
      OBVIOUS
    <3>6. f \in links /\ \A j \in links : f <= j
      BY <3>4, <3>5
    <3>7. f = i
      BY <2>2, <3>4, <3>6, LenProperties
    <3>8. s[f].of = a
      BY <3>3, <3>7
    <3>9. AlertToCase(c) <=> linkedTo[a] = c
      BY <3>2 DEF AlertToCase
    <3> QED
      BY <2>1, <2>5, <3>5, <3>8, <3>9
  <2> QED
    BY <2>4, <2>5
<1>4. ReconciliationTracesFirst
  BY <1>3 DEF ReconciliationTracesFirst
<1>5. ASSUME NEW c \in CaseIds, NEW assignments, assignments = Entries(c, {"ASSIGNMENT"}), assignments # {}
      PROVE  /\ [case |-> c, user |-> caseRow[c].assignee, kind |-> "CASE_ASSIGNED"] \in informed
             /\ crossed \/ caseRow[c].assignee = trail[c][Latest(assignments)].of
  <2>1. PICK s \in Seq(TrailEntry) : s = trail[c] /\ DOMAIN s = 1..Len(s)
    BY <1>1
  <2>2. assignments = {i \in 1..Len(s) : s[i].type = "ASSIGNMENT"} /\ assignments \in SUBSET (1..Len(s))
    BY <1>5, <2>1 DEF Entries
  <2>3. RowTold(c) /\ AnyAssigned(s)
    BY <1>5, <2>2 DEF CaseDeskInv, AnyAssigned
  <2>4. PICK m : m = Latest(assignments)
    OBVIOUS
  <2>5. m \in assignments /\ \A j \in assignments : j <= m
    BY <1>5, <2>1, <2>2, <2>4, TrailRead
  <2>6. ASSUME ~crossed PROVE caseRow[c].assignee = s[m].of
    <3>1. PICK i \in 1..Len(s) : /\ s[i].type = "ASSIGNMENT" /\ s[i].of = caseRow[c].assignee
                                 /\ \A j \in 1..Len(s) : s[j].type = "ASSIGNMENT" => j <= i
      BY <2>1, <2>3, <2>6 DEF RowTold, LastAssigned
    <3>2. m = i
      BY <2>2, <2>5, <3>1, LenProperties
    <3> QED
      BY <3>1, <3>2
  <2>7. [case |-> c, user |-> caseRow[c].assignee, kind |-> "CASE_ASSIGNED"] \in informed
    BY <2>1, <2>3 DEF RowTold, AssigneeNotice
  <2> QED
    BY <2>1, <2>4, <2>6, <2>7
<1>6. AssigneeTold
  BY <1>5 DEF AssigneeTold
<1>7. CaseDeskTypeOK
  BY DEF CaseDeskTypeOK, CaseDeskInv, CaseDeskTyped, CaseRow, Owners, TrailEntry, EntryTypes, PointersTyped
<1> QED
  BY <1>2, <1>4, <1>6, <1>7 DEF CaseDeskSound

CaseDeskSpec == RequestInit /\ CaseDeskInit /\ [][CaseDeskNext]_<<requestVars, caseDeskVars>>

(* What is told of a case agrees with its alerts, for every number of      *)
(* cases, alerts and requests.                                             *)
THEOREM CaseDeskIsSound == CaseDeskSpec => []CaseDeskSound
<1> DEFINE AnInv == CaseDeskInv /\ PointersTyped
<1>1. RequestInit /\ CaseDeskInit => AnInv
  BY CaseDeskInitInv DEF CaseDeskInit, PointersTyped
<1>2. AnInv /\ [CaseDeskNext]_<<requestVars, caseDeskVars>> => AnInv'
  BY CaseDeskNextInv, PointersKept
<1>3. AnInv => CaseDeskSound
  BY CaseDeskInvSound
<1> QED
  BY <1>1, <1>2, <1>3, PTL DEF CaseDeskSpec

-----------------------------------------------------------------------------
(* RuleBook: versions of a rule, and what engines loaded.                  *)

BookRow == [active : BOOLEAN, dsl : Nat, version : Nat]

BookTyped ==
  /\ rule \in BookRow /\ book \in Seq(BookRow) /\ now \in Nat
  /\ since \in [Loaded -> Seq(Nat)]
  /\ cache \in [Loaded -> [edit : Nat, at : Nat] \cup {None}]
  /\ handled # None => handled \in [start : Nat, got : Seq([edit : Nat, fresh : BOOLEAN])]

(* The book is the rule's edits, and its last row is the rule.             *)
BookKept ==
  /\ Len(book) >= 1 /\ rule = book[Len(book)]
  /\ Len(since["rules"]) = Len(book) /\ Len(since["beside"]) >= 1
  /\ \A k \in Loaded : \A j \in 1..Len(since[k]) : since[k][j] <= now

(* What was loaded as the n-th edit: the next came at that moment or later.*)
LoadedAt(k, n, at) ==
  /\ n \in 1..Len(since[k])
  /\ \A j \in 1..Len(since[k]) : j > n => since[k][j] >= at

CacheSound(k) == cache[k] # None => cache[k].at <= now /\ LoadedAt(k, cache[k].edit, cache[k].at)

(* What an event goes on with: the rules or what is beside them.           *)
GotSound(i) ==
  LET k == LoadOrder[i]
      g == handled.got[i]
  IN /\ g.edit <= Len(since[k])
     /\ g.fresh => \E at \in Nat : at > handled.start - Ttl /\ LoadedAt(k, g.edit, at)

EventSound ==
  handled # None => /\ handled.start <= now /\ Len(handled.got) <= 2
                    /\ \A i \in 1..Len(handled.got) : GotSound(i)

(* A request that is alone has read the rule as it is.                     *)
EditSound(w) ==
  Doing(w, "rule") =>
    LET r == request[w]
    IN /\ r.row \in BookRow /\ r.new \in BookRow
       /\ ~crossed =>
            /\ r.row = rule
            /\ r.new.version > rule.version \/ (r.new.version = rule.version /\ r.new.dsl = rule.dsl)

(* The rows of one version are of one expression, and none is newer than   *)
(* the rule.                                                               *)
VersionsSound ==
  ~crossed => /\ \A i, j \in 1..Len(book) : book[i].version = book[j].version => book[i].dsl = book[j].dsl
              /\ \A i \in 1..Len(book) : book[i].version <= rule.version

FiredFromBook ==
  \A x \in fired : \E i \in 1..Len(book) : x = [dsl |-> book[i].dsl, version |-> book[i].version]

BookInv ==
  /\ RequestInv /\ BookTyped /\ BookKept
  /\ \A k \in Loaded : CacheSound(k)
  /\ EventSound
  /\ \A w \in Workers : EditSound(w)
  /\ VersionsSound /\ FiredFromBook

(* The first row is the only edit.                                         *)
LEMMA BookInitInv == RequestInit /\ BookInit => BookInv
<1> SUFFICES ASSUME RequestInit, BookInit PROVE BookInv
  OBVIOUS
<1>1. RequestInv /\ \A w \in Workers : request[w] = None
  BY RequestsInit
<1>2. PICK f \in BookRow : f = FirstRow
  BY DEF FirstRow, BookRow
<1>3. /\ rule = f /\ book = <<f>> /\ since = [k \in Loaded |-> <<0>>] /\ now = 0
      /\ cache = [k \in Loaded |-> None] /\ handled = None /\ fired = {}
  BY <1>2 DEF BookInit
<1>4. BookTyped
  BY <1>3 DEF BookTyped
<1>5. BookKept
  BY <1>3 DEF BookKept, Loaded
<1>6. (\A k \in Loaded : CacheSound(k)) /\ EventSound
  BY <1>3 DEF CacheSound, EventSound
<1>7. \A w \in Workers : EditSound(w)
  BY <1>1 DEF EditSound, Doing
<1>8. VersionsSound /\ FiredFromBook
  BY <1>3 DEF VersionsSound, FiredFromBook, BookRow
<1> QED
  BY <1>1, <1>4, <1>5, <1>6, <1>7, <1>8 DEF BookInv

(* The rule after a commit.                                                *)
LEMMA FlushedRule ==
  ASSUME NEW row \in BookRow, NEW before \in BookRow, NEW after \in BookRow
  PROVE  Flushed(row, before, after) \in BookRow /\ (row = before => Flushed(row, before, after) = after)
<1> DEFINE f == Flushed(row, before, after)
<1>1. DOMAIN row = {"active", "dsl", "version"}
  BY DEF BookRow
<1>2. f.active \in BOOLEAN /\ f.dsl \in Nat /\ f.version \in Nat /\ f = [x \in {"active", "dsl", "version"} |-> f[x]]
  BY <1>1 DEF Flushed, BookRow
<1>3. f = [active |-> f.active, dsl |-> f.dsl, version |-> f.version]
  BY <1>2
<1>4. f \in BookRow
  BY <1>2, <1>3 DEF BookRow
<1>5. ASSUME row = before PROVE f = after
  <2>1. f.active = after.active /\ f.dsl = after.dsl /\ f.version = after.version
    BY <1>1, <1>5 DEF Flushed
  <2>2. after = [active |-> after.active, dsl |-> after.dsl, version |-> after.version]
    BY DEF BookRow
  <2> QED
    BY <1>3, <2>1, <2>2
<1> QED
  BY <1>4, <1>5

(* A request reads the rule and is to change it.                           *)
LEMMA EditBeginInv ==
  ASSUME BookInv, NEW w \in Workers, NEW row \in BookRow, NEW new \in BookRow,
         Begin(w, [op |-> "rule", row |-> row, new |-> new]), UNCHANGED bookVars, row = rule,
         new.version > row.version \/ (new.version = row.version /\ new.dsl = row.dsl)
  PROVE  BookInv'
<1>1. PICK r : r = [op |-> "rule", row |-> row, new |-> new]
  OBVIOUS
<1>2. /\ RequestInv' /\ request'[w] = r /\ \A v \in Workers \ {w} : request'[v] = request[v]
      /\ ~crossed' => ~crossed /\ \A v \in Workers \ {w} : request'[v] = None
  BY <1>1, BeginStep DEF BookInv
<1>3. EditSound(w)'
  BY <1>1, <1>2 DEF EditSound, Doing, bookVars
<1>4. ASSUME NEW v \in Workers \ {w} PROVE EditSound(v)'
  <2>1. EditSound(v) /\ rule' = rule
    BY DEF BookInv, bookVars
  <2> QED
    BY <1>2, <2>1 DEF EditSound, Doing
<1>5. BookTyped' /\ BookKept' /\ (\A k \in Loaded : CacheSound(k)') /\ EventSound' /\ FiredFromBook'
  BY DEF BookInv, BookTyped, BookKept, CacheSound, LoadedAt, EventSound, GotSound, FiredFromBook, bookVars
<1>6. VersionsSound'
  BY <1>2 DEF BookInv, VersionsSound, bookVars
<1> QED
  BY <1>2, <1>3, <1>4, <1>5, <1>6 DEF BookInv

(* A rule is edited: its expression, its status, or it is deleted.         *)
LEMMA UpdateRuleInv ==
  ASSUME BookInv, NEW w \in Workers,
         (\E what \in {"dsl", "status"} : UpdateRule(w, what)) \/ DeleteRule(w)
  PROVE  BookInv'
<1>1. PICK row \in BookRow : row = rule
  BY DEF BookInv, BookTyped
<1>2. row = [active |-> row.active, dsl |-> row.dsl, version |-> row.version] /\ row.version \in Nat /\ row.dsl \in Nat
  BY DEF BookRow
<1>3. PICK n \in Nat : n = calls + 2
  BY DEF BookInv, RequestInv, RequestTypeOK
<1>4. PICK v \in Nat : v = row.version + 1
  BY <1>2
<1>5. \E new \in BookRow :
        /\ Begin(w, [op |-> "rule", row |-> row, new |-> new]) /\ UNCHANGED bookVars
        /\ new.version > row.version \/ (new.version = row.version /\ new.dsl = row.dsl)
  <2>1. ASSUME UpdateRule(w, "dsl")
        PROVE \E new \in BookRow :
        /\ Begin(w, [op |-> "rule", row |-> row, new |-> new]) /\ UNCHANGED bookVars
        /\ new.version > row.version
    <3>1. PICK new : new = [active |-> row.active, dsl |-> n, version |-> v]
      OBVIOUS
    <3>2. new \in BookRow /\ new.version > row.version
      BY <1>2, <1>4, <3>1 DEF BookRow
    <3>3. Revised(row, n) = new
      <4>1. Revised(row, n) = [row EXCEPT !.dsl = n, !.version = v]
        BY <1>2, <1>4 DEF Revised
      <4> QED
        BY <1>2, <3>1, <4>1
    <3> QED
      BY <1>1, <1>3, <2>1, <3>2, <3>3 DEF UpdateRule
  <2>2. ASSUME NEW b \in BOOLEAN, Begin(w, [op |-> "rule", row |-> row, new |-> [row EXCEPT !.active = b]]),
               UNCHANGED bookVars
        PROVE \E new \in BookRow :
        /\ Begin(w, [op |-> "rule", row |-> row, new |-> new]) /\ UNCHANGED bookVars
        /\ new.version = row.version /\ new.dsl = row.dsl
    <3>1. PICK new : new = [active |-> b, dsl |-> row.dsl, version |-> row.version]
      OBVIOUS
    <3>2. new \in BookRow /\ new.version = row.version /\ new.dsl = row.dsl
      BY <1>2, <3>1 DEF BookRow
    <3>3. [row EXCEPT !.active = b] = new
      BY <1>2, <3>1
    <3> QED
      BY <2>2, <3>2, <3>3
  <2>3. ASSUME UpdateRule(w, "status")
        PROVE \E b \in BOOLEAN : /\ Begin(w, [op |-> "rule", row |-> row, new |-> [row EXCEPT !.active = b]])
                                 /\ UNCHANGED bookVars
    <3>1. PICK b \in BOOLEAN : b = ~row.active
      OBVIOUS
    <3>2. [row EXCEPT !.active = ~@] = [row EXCEPT !.active = b]
      BY <1>2, <3>1
    <3>3. Begin(w, [op |-> "rule", row |-> row, new |-> [row EXCEPT !.active = ~@]]) /\ UNCHANGED bookVars
      BY <1>1, <2>3 DEF UpdateRule
    <3> QED
      BY <3>2, <3>3
  <2>4. ASSUME DeleteRule(w)
        PROVE \E b \in BOOLEAN : /\ Begin(w, [op |-> "rule", row |-> row, new |-> [row EXCEPT !.active = b]])
                                 /\ UNCHANGED bookVars
    BY <1>1, <2>4 DEF DeleteRule
  <2> QED
    BY <2>1, <2>2, <2>3, <2>4
<1> QED
  BY <1>1, <1>5, EditBeginInv

(* One more edit of a kind: what was loaded before is followed by one that *)
(* came now.                                                               *)
LEMMA EditedStep ==
  ASSUME BookTyped, \A k \in Loaded : \A j \in 1..Len(since[k]) : since[k][j] <= now,
         NEW k \in Loaded, Edited(k)
  PROVE  /\ since' \in [Loaded -> Seq(Nat)] /\ Len(since'[k]) = Len(since[k]) + 1
         /\ \A l \in Loaded : l # k => since'[l] = since[l]
         /\ \A l \in Loaded : \A j \in 1..Len(since'[l]) : since'[l][j] <= now
         /\ \A l \in Loaded : Len(since[l]) \in Nat /\ Len(since'[l]) \in Nat /\ Len(since[l]) <= Len(since'[l])
         /\ \A l \in Loaded, n, at \in Nat : LoadedAt(l, n, at) /\ at <= now => LoadedAt(l, n, at)'
<1>1. PICK s \in Seq(Nat) : s = since[k]
  BY DEF BookTyped
<1>2. PICK z : z = Append(s, now)
  OBVIOUS
<1>3. PICK n \in Nat : n = Len(s)
  BY LenProperties
<1>4. /\ z \in Seq(Nat) /\ Len(z) = n + 1 /\ z[n + 1] = now
      /\ \A i \in 1..n : z[i] = s[i]
  BY <1>2, <1>3, AppendProperties DEF BookTyped
<1>5. since' = [since EXCEPT ![k] = z]
  BY <1>1, <1>2 DEF Edited
<1>6. since' \in [Loaded -> Seq(Nat)] /\ since'[k] = z /\ \A l \in Loaded : l # k => since'[l] = since[l]
  BY <1>4, <1>5 DEF BookTyped
<1>7. \A j : j \in 1..(n + 1) <=> j \in 1..n \/ j = n + 1
  BY <1>3
<1>8. \A l \in Loaded : Len(since[l]) \in Nat /\ Len(since'[l]) \in Nat /\ Len(since[l]) <= Len(since'[l])
  <2> SUFFICES ASSUME NEW l \in Loaded
               PROVE  Len(since[l]) \in Nat /\ Len(since'[l]) \in Nat /\ Len(since[l]) <= Len(since'[l])
    OBVIOUS
  <2>1. CASE l = k
    BY <1>1, <1>3, <1>4, <1>6, <2>1
  <2>2. CASE l # k
    <3>1. PICK m \in Nat : m = Len(since[l])
      BY LenProperties DEF BookTyped
    <3> QED
      BY <1>6, <2>2, <3>1
  <2> QED
    BY <2>1, <2>2
<1>9. ASSUME NEW l \in Loaded, NEW m \in Nat, NEW at \in Nat, LoadedAt(l, m, at), at <= now
      PROVE  LoadedAt(l, m, at)'
  <2>1. CASE l = k
    BY <1>1, <1>3, <1>4, <1>6, <1>7, <1>9, <2>1 DEF LoadedAt
  <2>2. CASE l # k
    BY <1>6, <1>9, <2>2 DEF LoadedAt
  <2> QED
    BY <2>1, <2>2
<1>10. \A l \in Loaded : \A j \in 1..Len(since'[l]) : since'[l][j] <= now
  <2> SUFFICES ASSUME NEW l \in Loaded, NEW j \in 1..Len(since'[l]) PROVE since'[l][j] <= now
    OBVIOUS
  <2>1. CASE l = k
    <3>1. \A i \in 1..n : s[i] <= now
      BY <1>1, <1>3
    <3>2. now <= now
      BY DEF BookTyped
    <3>3. j \in 1..(n + 1) /\ since'[l][j] = z[j]
      BY <1>4, <1>6, <2>1
    <3> QED
      BY <1>4, <1>7, <3>1, <3>2, <3>3
  <2>2. CASE l # k
    BY <1>6, <2>2
  <2> QED
    BY <2>1, <2>2
<1> QED
  BY <1>1, <1>3, <1>4, <1>6, <1>8, <1>9, <1>10

(* An edit leaves what was loaded and what an event goes on with in order. *)
LEMMA EditedKeeps ==
  ASSUME BookInv, NEW k \in Loaded, Edited(k), UNCHANGED <<now, cache, handled>>
  PROVE  (\A l \in Loaded : CacheSound(l)') /\ EventSound'
<1>1. BookTyped /\ EventSound /\ \A l \in Loaded : CacheSound(l)
  BY DEF BookInv
<1>2. /\ \A l \in Loaded : Len(since[l]) \in Nat /\ Len(since'[l]) \in Nat /\ Len(since[l]) <= Len(since'[l])
      /\ \A l \in Loaded, n, at \in Nat : LoadedAt(l, n, at) /\ at <= now => LoadedAt(l, n, at)'
  BY EditedStep DEF BookInv, BookKept
<1>3. ASSUME NEW l \in Loaded PROVE CacheSound(l)'
  <2>1. CASE cache[l] = None
    BY <2>1 DEF CacheSound
  <2>2. CASE cache[l] # None
    <3>1. PICK n \in Nat, at \in Nat : n = cache[l].edit /\ at = cache[l].at
      BY <1>1, <2>2 DEF BookTyped
    <3>2. LoadedAt(l, n, at) /\ at <= now
      BY <1>1, <2>2, <3>1 DEF CacheSound
    <3>3. LoadedAt(l, n, at)' /\ at <= now'
      BY <1>2, <3>2
    <3> QED
      BY <3>1, <3>3 DEF CacheSound
  <2> QED
    BY <2>1, <2>2
<1>4. ASSUME handled # None, NEW i \in 1..Len(handled.got) PROVE GotSound(i)'
  <2>1. GotSound(i) /\ i \in 1..2 /\ handled \in [start : Nat, got : Seq([edit : Nat, fresh : BOOLEAN])]
        /\ handled.start <= now
    BY <1>1, <1>4, LenProperties DEF EventSound, BookTyped
  <2>2. PICK l \in Loaded : l = LoadOrder[i]
    BY <2>1 DEF LoadOrder, Loaded
  <2>3. PICK g \in [edit : Nat, fresh : BOOLEAN] : g = handled.got[i]
    BY <2>1, ElementOfSeq, <1>4
  <2>4. PICK start \in Nat : start = handled.start
    BY <2>1
  <2>5. g.edit \in Nat /\ g.edit <= Len(since[l]) /\ handled' = handled
    BY <2>1, <2>2, <2>3 DEF GotSound
  <2>6. g.edit <= Len(since'[l])
    BY <1>2, <2>5
  <2>7. ASSUME g.fresh PROVE \E at \in Nat : at > start - Ttl /\ LoadedAt(l, g.edit, at)'
    <3>1. PICK at \in Nat : at > start - Ttl /\ LoadedAt(l, g.edit, at)
      BY <2>1, <2>2, <2>3, <2>4, <2>7 DEF GotSound
    <3>2. CASE at <= now
      BY <1>2, <2>5, <3>1, <3>2
    <3>3. CASE at > now
      <4>1. LoadedAt(l, g.edit, start)
        <5>1. \A j \in 1..Len(since[l]) : since[l][j] \in Nat
          BY <1>1, ElementOfSeq DEF BookTyped
        <5>2. start <= at
          BY <1>1, <2>1, <2>4, <3>3 DEF BookTyped
        <5> QED
          BY <3>1, <5>1, <5>2 DEF LoadedAt
      <4>2. start <= now /\ start > start - Ttl
        BY <2>1, <2>4, BookAssumption
      <4> QED
        BY <1>2, <2>5, <4>1, <4>2
    <3> QED
      BY <1>1, <3>2, <3>3 DEF BookTyped
  <2> QED
    BY <2>2, <2>3, <2>4, <2>5, <2>6, <2>7 DEF GotSound
<1>5. EventSound'
  BY <1>1, <1>4 DEF EventSound
<1> QED
  BY <1>3, <1>5

(* The rule is written, and its row goes into the book.                    *)
LEMMA RuleCommitInv ==
  ASSUME BookInv, NEW w \in Workers, RuleCommit(w)
  PROVE  BookInv'
<1>1. PICK before \in BookRow, after \in BookRow :
        /\ before = request[w].row /\ after = request[w].new
        /\ ~crossed => before = rule /\ (after.version > rule.version
                                         \/ (after.version = rule.version /\ after.dsl = rule.dsl))
  BY DEF BookInv, RuleCommit, EditSound
<1>2. PICK row \in BookRow : row = rule
  BY DEF BookInv, BookTyped
<1>3. PICK new \in BookRow : new = Flushed(row, before, after) /\ (row = before => new = after)
  BY FlushedRule
<1>4. /\ rule' = new /\ book' = Append(book, new) /\ Edited("rules")
      /\ Ends(w) /\ request[w] # None /\ UNCHANGED <<now, cache, handled, fired>>
  BY <1>1, <1>2, <1>3 DEF RuleCommit, Doing
<1>5. /\ RequestInv' /\ request'[w] = None /\ \A v \in Workers \ {w} : request'[v] = request[v]
      /\ crossed' = crossed
      /\ ~crossed => \A v \in Workers \ {w} : request'[v] = None
  BY <1>4, GoesOnStep DEF Ends, BookInv
<1>6. PICK b \in Seq(BookRow) : b = book
  BY DEF BookInv, BookTyped
<1>7. PICK n \in Nat : n = Len(b) /\ n >= 1 /\ row = b[n]
  BY <1>2, <1>6, LenProperties DEF BookInv, BookKept
<1>8. PICK z \in Seq(BookRow) : /\ z = Append(b, new) /\ Len(z) = n + 1 /\ z[n + 1] = new
                                /\ \A i \in 1..n : z[i] = b[i]
  <2>1. PICK z : z = Append(b, new)
    OBVIOUS
  <2> QED
    BY <1>7, <2>1, AppendProperties
<1>9. book' = z /\ \A i : i \in 1..(n + 1) <=> i \in 1..n \/ i = n + 1
  BY <1>4, <1>6, <1>7, <1>8
<1>10. "rules" \in Loaded /\ "beside" \in Loaded
  BY DEF Loaded
<1>11. /\ since' \in [Loaded -> Seq(Nat)] /\ Len(since'["rules"]) = Len(since["rules"]) + 1
       /\ since'["beside"] = since["beside"]
       /\ \A l \in Loaded : \A j \in 1..Len(since'[l]) : since'[l][j] <= now
  BY <1>4, <1>10, EditedStep DEF BookInv, BookKept
<1>12. BookTyped'
  BY <1>4, <1>8, <1>9, <1>11 DEF BookInv, BookTyped
<1>13. BookKept'
  BY <1>4, <1>6, <1>7, <1>8, <1>9, <1>11 DEF BookInv, BookKept
<1>14. (\A k \in Loaded : CacheSound(k)') /\ EventSound'
  BY <1>4, <1>10, EditedKeeps
<1>15. \A v \in Workers : EditSound(v)'
  BY <1>5 DEF BookInv, EditSound, Doing
<1>16. VersionsSound'
  <2> SUFFICES ASSUME ~crossed
               PROVE  /\ \A i, j \in 1..(n + 1) : z[i].version = z[j].version => z[i].dsl = z[j].dsl
                      /\ \A i \in 1..(n + 1) : z[i].version <= new.version
    BY <1>4, <1>5, <1>8, <1>9 DEF VersionsSound
  <2>1. new.version > row.version \/ (new.version = row.version /\ new.dsl = row.dsl)
    BY <1>1, <1>2, <1>3
  <2>2. /\ \A i, j \in 1..n : b[i].version = b[j].version => b[i].dsl = b[j].dsl
        /\ \A i \in 1..n : b[i].version <= row.version
    BY <1>2, <1>6, <1>7 DEF BookInv, VersionsSound
  <2>3. \A i \in 1..n : b[i].version \in Nat
    <3> SUFFICES ASSUME NEW i \in 1..n PROVE b[i].version \in Nat
      OBVIOUS
    <3>1. b[i] \in BookRow
      BY <1>7, ElementOfSeq
    <3> QED
      BY <3>1 DEF BookRow
  <2>4. row.version \in Nat /\ new.version \in Nat /\ n \in 1..n
    BY <1>7 DEF BookRow
  <2>5. \A i \in 1..n : b[i].version <= new.version /\ (b[i].version = new.version => b[i].dsl = new.dsl)
    BY <1>7, <2>1, <2>2, <2>3, <2>4
  <2>6. \A i \in 1..(n + 1) : z[i].version <= new.version
    BY <1>8, <1>9, <2>4, <2>5
  <2>7. ASSUME NEW i \in 1..(n + 1), NEW j \in 1..(n + 1), z[i].version = z[j].version
        PROVE  z[i].dsl = z[j].dsl
    <3>1. CASE i \in 1..n /\ j \in 1..n
      BY <1>8, <2>2, <2>7, <3>1
    <3>2. CASE i = n + 1 \/ j = n + 1
      BY <1>8, <1>9, <2>5, <2>7, <3>2
    <3> QED
      BY <1>9, <3>1, <3>2
  <2> QED
    BY <2>6, <2>7
<1>17. FiredFromBook'
  <2> SUFFICES ASSUME NEW x \in fired
               PROVE  \E i \in 1..(n + 1) : x = [dsl |-> z[i].dsl, version |-> z[i].version]
    BY <1>4, <1>8, <1>9 DEF FiredFromBook
  <2>1. PICK i \in 1..n : x = [dsl |-> b[i].dsl, version |-> b[i].version]
    BY <1>6, <1>7 DEF BookInv, FiredFromBook
  <2> QED
    BY <1>8, <1>9, <2>1
<1> QED
  BY <1>5, <1>12, <1>13, <1>14, <1>15, <1>16, <1>17 DEF BookInv

(* Something else is edited.                                               *)
LEMMA EditInv == ASSUME BookInv, Edit PROVE BookInv'
<1>1. /\ Statement /\ Edited("beside") /\ UNCHANGED <<rule, book, now, cache, handled, fired>>
  BY DEF Edit, EditMacros, EditPlayerLists, EditCompounds, EditScoring
<1>2. RequestInv' /\ UNCHANGED <<request, crossed>>
  BY <1>1, StatementStep DEF BookInv
<1>3. "rules" \in Loaded /\ "beside" \in Loaded
  BY DEF Loaded
<1>4. /\ since' \in [Loaded -> Seq(Nat)] /\ Len(since'["beside"]) = Len(since["beside"]) + 1
      /\ Len(since["beside"]) \in Nat
      /\ since'["rules"] = since["rules"]
      /\ \A l \in Loaded : \A j \in 1..Len(since'[l]) : since'[l][j] <= now
  BY <1>1, <1>3, EditedStep DEF BookInv, BookKept
<1>5. BookTyped'
  BY <1>1, <1>4 DEF BookInv, BookTyped
<1>6. BookKept'
  BY <1>1, <1>4 DEF BookInv, BookKept
<1>7. (\A k \in Loaded : CacheSound(k)') /\ EventSound'
  BY <1>1, <1>3, EditedKeeps
<1>8. (\A v \in Workers : EditSound(v)') /\ VersionsSound' /\ FiredFromBook'
  BY <1>1, <1>2 DEF BookInv, EditSound, Doing, VersionsSound, FiredFromBook
<1> QED
  BY <1>2, <1>5, <1>6, <1>7, <1>8 DEF BookInv

(* The engine leaves the rows and what is known of them.                   *)
LEMMA EngineKeeps ==
  ASSUME BookInv, UNCHANGED <<requestVars, rule, book, since>>
  PROVE  RequestInv' /\ (\A w \in Workers : EditSound(w)') /\ VersionsSound'
<1>1. UNCHANGED <<request, calls, crossed>>
  BY DEF requestVars
<1> QED
  BY <1>1 DEF BookInv, RequestInv, RequestTypeOK, OneAtATime, EditSound, Doing, VersionsSound

(* The clock goes on.                                                      *)
LEMMA TickInv == ASSUME BookInv, Tick PROVE BookInv'
<1>1. PICK n \in Nat : n = now
  BY DEF BookInv, BookTyped
<1>2. PICK m \in Nat : m = n + 1 /\ n <= m
  BY <1>1
<1>3. now' = m /\ UNCHANGED <<requestVars, rule, book, since, cache, handled, fired>>
  BY <1>1, <1>2 DEF Tick
<1>4. RequestInv' /\ (\A w \in Workers : EditSound(w)') /\ VersionsSound'
  BY <1>3, EngineKeeps
<1>5. BookTyped'
  BY <1>3 DEF BookInv, BookTyped
<1>6. BookKept'
  <2>1. \A k \in Loaded : \A j \in 1..Len(since[k]) : since[k][j] \in Nat /\ since[k][j] <= n
    BY <1>1, ElementOfSeq DEF BookInv, BookTyped, BookKept
  <2>2. \A k \in Loaded : \A j \in 1..Len(since[k]) : since[k][j] <= m
    BY <1>2, <2>1
  <2> QED
    BY <1>3, <2>2 DEF BookInv, BookKept
<1>7. ASSUME NEW k \in Loaded PROVE CacheSound(k)'
  <2>1. CASE cache[k] = None
    BY <1>3, <2>1 DEF CacheSound
  <2>2. CASE cache[k] # None
    <3>1. PICK at \in Nat : at = cache[k].at
      BY <2>2 DEF BookInv, BookTyped
    <3>2. at <= n /\ LoadedAt(k, cache[k].edit, at)
      BY <1>1, <2>2, <3>1 DEF BookInv, CacheSound
    <3>3. at <= m
      BY <1>2, <3>2
    <3> QED
      BY <1>3, <3>1, <3>2, <3>3 DEF CacheSound, LoadedAt
  <2> QED
    BY <2>1, <2>2
<1>8. EventSound'
  <2>1. ASSUME handled # None PROVE handled.start <= m
    <3>1. handled.start \in Nat /\ handled.start <= n
      BY <1>1, <2>1 DEF BookInv, BookTyped, EventSound
    <3> QED
      BY <1>2, <3>1
  <2> QED
    BY <1>3, <2>1 DEF BookInv, EventSound, GotSound, LoadedAt
<1>9. FiredFromBook'
  BY <1>3 DEF BookInv, FiredFromBook
<1> QED
  BY <1>4, <1>5, <1>6, <1>7, <1>8, <1>9 DEF BookInv

(* An event begins, with nothing loaded.                                   *)
LEMMA EventStartInv == ASSUME BookInv, EventStart PROVE BookInv'
<1>1. PICK h \in [start : Nat, got : Seq([edit : Nat, fresh : BOOLEAN])] :
        h = [start |-> now, got |-> <<>>] /\ h.start = now /\ Len(h.got) = 0
  <2>1. PICK h : h = [start |-> now, got |-> <<>>]
    OBVIOUS
  <2>2. now \in Nat /\ <<>> \in Seq([edit : Nat, fresh : BOOLEAN]) /\ Len(<<>>) = 0
    BY DEF BookInv, BookTyped
  <2>3. h \in [start : Nat, got : Seq([edit : Nat, fresh : BOOLEAN])] /\ h.start = now /\ h.got = <<>>
    BY <2>1, <2>2
  <2> QED
    BY <2>1, <2>2, <2>3
<1>2. handled' = h /\ UNCHANGED <<requestVars, rule, book, since, now, cache, fired>>
  BY <1>1 DEF EventStart
<1>3. RequestInv' /\ (\A w \in Workers : EditSound(w)') /\ VersionsSound'
  BY <1>2, EngineKeeps
<1>4. BookTyped' /\ BookKept' /\ (\A k \in Loaded : CacheSound(k)') /\ FiredFromBook'
  BY <1>2 DEF BookInv, BookTyped, BookKept, CacheSound, LoadedAt, FiredFromBook
<1>5. EventSound'
  BY <1>1, <1>2 DEF BookInv, BookTyped, EventSound
<1> QED
  BY <1>3, <1>4, <1>5 DEF BookInv

(* An event gets the rules, or what is beside them.                        *)
LEMMA GotInv ==
  ASSUME BookInv, Loading, NEW n \in Nat, NEW fresh \in BOOLEAN,
         handled' = [handled EXCEPT !.got = Append(@, [edit |-> n, fresh |-> fresh])],
         UNCHANGED <<requestVars, rule, book, since, now, fired>>,
         n <= Len(since[Kind]),
         fresh => \E at \in Nat : at > handled.start - Ttl /\ LoadedAt(Kind, n, at),
         cache' \in [Loaded -> [edit : Nat, at : Nat] \cup {None}],
         \A k \in Loaded : cache'[k] = cache[k] \/ CacheSound(k)'
  PROVE  BookInv'
<1>1. PICK start \in Nat, s \in Seq([edit : Nat, fresh : BOOLEAN]) :
        handled = [start |-> start, got |-> s] /\ handled # None /\ Len(s) <= 2 /\ start <= now
  BY DEF BookInv, BookTyped, EventSound, Loading
<1>2. PICK m \in Nat : m = Len(s) /\ m \in 0..1
  BY <1>1, LenProperties DEF Loading, LoadOrder
<1>3. PICK g \in [edit : Nat, fresh : BOOLEAN] : g = [edit |-> n, fresh |-> fresh]
  OBVIOUS
<1>4. PICK z \in Seq([edit : Nat, fresh : BOOLEAN]) :
        /\ z = Append(s, g) /\ Len(z) = m + 1 /\ z[m + 1] = g
        /\ \A i \in 1..m : z[i] = s[i]
  <2>1. PICK z : z = Append(s, g)
    OBVIOUS
  <2>2. PICK E : E = [edit : Nat, fresh : BOOLEAN]
    OBVIOUS
  <2>3. s \in Seq(E) /\ g \in E
    BY <2>2
  <2>4. /\ z \in Seq(E) /\ Len(z) = m + 1 /\ z[m + 1] = g
        /\ \A i \in 1..m : z[i] = s[i]
    BY <1>2, <2>1, <2>3, AppendProperties
  <2> QED
    BY <2>1, <2>2, <2>4
<1>5. PICK h : h = [start |-> start, got |-> z]
  OBVIOUS
<1>6. handled' = h /\ h \in [start : Nat, got : Seq([edit : Nat, fresh : BOOLEAN])]
  <2>1. [handled EXCEPT !.got = Append(@, [edit |-> n, fresh |-> fresh])] = h
    <3>1. PICK o : o = handled /\ o = [start |-> start, got |-> s]
      BY <1>1
    <3>2. Append(o.got, [edit |-> n, fresh |-> fresh]) = z
      BY <1>3, <1>4, <3>1
    <3>3. [o EXCEPT !.got = Append(@, [edit |-> n, fresh |-> fresh])] = [o EXCEPT !.got = z]
      BY <3>2
    <3>4. [o EXCEPT !.got = z] = h
      BY <1>5, <3>1
    <3> QED
      BY <3>1, <3>3, <3>4
  <2>2. h \in [start : Nat, got : Seq([edit : Nat, fresh : BOOLEAN])]
    BY <1>5
  <2> QED
    BY <2>1, <2>2
<1>7. RequestInv' /\ (\A w \in Workers : EditSound(w)') /\ VersionsSound'
  BY EngineKeeps
<1>8. BookTyped' /\ BookKept' /\ FiredFromBook'
  BY <1>6 DEF BookInv, BookTyped, BookKept, FiredFromBook
<1>9. \A k \in Loaded : CacheSound(k)'
  BY DEF BookInv, CacheSound, LoadedAt
<1>10. PICK k : k = Kind /\ k = LoadOrder[m + 1]
  BY <1>1, <1>2 DEF Kind
<1>11. ASSUME NEW i \in 1..(m + 1) PROVE GotSound(i)'
  <2>1. CASE i = m + 1
    <3>1. z[i] = g /\ g.edit = n /\ g.fresh = fresh /\ LoadOrder[i] = k
      BY <1>3, <1>4, <1>10, <2>1
    <3>2. h.got = z /\ h.start = start /\ handled.start = start
      BY <1>1, <1>5
    <3>3. n <= Len(since'[k]) /\ (fresh => \E at \in Nat : at > start - Ttl /\ LoadedAt(k, n, at)')
      BY <1>10, <3>2 DEF LoadedAt
    <3> QED
      BY <1>6, <3>1, <3>2, <3>3 DEF GotSound
  <2>2. CASE i \in 1..m
    <3>1. GotSound(i) /\ handled.got = s /\ handled.start = start /\ h.got = z /\ h.start = start
      BY <1>1, <1>2, <1>5, <2>2 DEF BookInv, EventSound
    <3>2. z[i] = s[i]
      BY <1>4, <2>2
    <3> QED
      BY <1>6, <3>1, <3>2 DEF GotSound, LoadedAt
  <2> QED
    BY <1>2, <2>1, <2>2
<1>12. EventSound'
  BY <1>1, <1>2, <1>4, <1>5, <1>6, <1>11 DEF EventSound
<1> QED
  BY <1>7, <1>8, <1>9, <1>12 DEF BookInv

(* The engine reads from its cache, loads, or cannot.                      *)
LEMMA LoadingInv == ASSUME BookInv, FromCache \/ Load \/ LoadFails PROVE BookInv'
<1>1. Loading /\ handled # None /\ BookTyped /\ handled.start \in Nat /\ handled.start <= now /\ now \in Nat
  BY DEF FromCache, Load, LoadFails, Loading, BookInv, BookTyped, EventSound
<1>2. Kind \in Loaded
  <2>1. Len(handled.got) \in Nat /\ Len(handled.got) < 2
    BY <1>1, LenProperties DEF BookTyped, Loading, LoadOrder
  <2> QED
    BY <2>1 DEF Kind, LoadOrder, Loaded
<1>3. PICK k \in Loaded : k = Kind
  BY <1>2
<1>4. PICK start \in Nat, t \in Nat : start = handled.start /\ t = now /\ start <= t
  BY <1>1
<1>5. CacheSound(k) /\ Ttl \in Nat \ {0}
  BY BookAssumption DEF BookInv
<1>6. CASE FromCache
  <2>1. PICK n \in Nat, at \in Nat : n = cache[k].edit /\ at = cache[k].at /\ cache[k] # None /\ t - at < Ttl
    BY <1>1, <1>3, <1>4, <1>6 DEF FromCache, Cached, BookTyped
  <2>2. LoadedAt(k, n, at) /\ at > start - Ttl
    BY <1>4, <1>5, <2>1 DEF CacheSound
  <2>3. n <= Len(since[k])
    <3>1. PICK m \in Nat : m = Len(since[k])
      BY <1>1, LenProperties DEF BookTyped
    <3> QED
      BY <2>2, <3>1 DEF LoadedAt
  <2>4. /\ handled' = [handled EXCEPT !.got = Append(@, [edit |-> n, fresh |-> TRUE])]
        /\ UNCHANGED <<requestVars, rule, book, since, now, cache, fired>>
    BY <1>3, <1>6, <2>1 DEF FromCache, Got
  <2>5. /\ n <= Len(since[Kind]) /\ \E x \in Nat : x > handled.start - Ttl /\ LoadedAt(Kind, n, x)
        /\ cache' \in [Loaded -> [edit : Nat, at : Nat] \cup {None}]
        /\ \A l \in Loaded : cache'[l] = cache[l]
    BY <1>1, <1>3, <1>4, <2>2, <2>3, <2>4 DEF BookTyped
  <2> QED
    BY <1>1, <2>4, <2>5, GotInv
<1>7. CASE Load
  <2>1. PICK n \in Nat : n = Len(since[k]) /\ n >= 1
    <3>1. Len(since[k]) \in Nat /\ Len(book) \in Nat
      BY <1>1, LenProperties DEF BookTyped
    <3> QED
      BY <3>1 DEF BookInv, BookKept, Loaded
  <2>2. LoadedAt(k, n, t)
    BY <2>1 DEF LoadedAt
  <2>3. t > start - Ttl
    BY <1>4, <1>5
  <2>4. PICK c \in [edit : Nat, at : Nat] : c = [edit |-> n, at |-> t] /\ c.edit = n /\ c.at = t
    <3>1. PICK c : c = [edit |-> n, at |-> t]
      OBVIOUS
    <3> QED
      BY <3>1
  <2>5. /\ handled' = [handled EXCEPT !.got = Append(@, [edit |-> n, fresh |-> TRUE])]
        /\ cache' = [cache EXCEPT ![k] = c]
        /\ UNCHANGED <<requestVars, rule, book, since, now, fired>>
    BY <1>3, <1>4, <1>7, <2>1, <2>4 DEF Load, Got
  <2>6. /\ cache' \in [Loaded -> [edit : Nat, at : Nat] \cup {None}]
        /\ cache'[k] = c /\ \A l \in Loaded : l # k => cache'[l] = cache[l]
    BY <1>1, <2>5 DEF BookTyped
  <2>7. CacheSound(k)'
    BY <1>4, <2>2, <2>4, <2>5, <2>6 DEF CacheSound, LoadedAt
  <2>8. /\ n <= Len(since[Kind]) /\ \E x \in Nat : x > handled.start - Ttl /\ LoadedAt(Kind, n, x)
        /\ \A l \in Loaded : cache'[l] = cache[l] \/ CacheSound(l)'
    BY <1>3, <1>4, <2>1, <2>2, <2>3, <2>6, <2>7
  <2> QED
    BY <1>1, <2>5, <2>6, <2>8, GotInv
<1>8. CASE LoadFails
  <2>1. PICK n \in Nat : /\ n = (IF k = "rules" /\ cache[k] # None THEN cache[k].edit ELSE 0)
                         /\ n <= Len(since[k])
    <3>1. PICK m \in Nat : m = Len(since[k])
      BY <1>1, LenProperties DEF BookTyped
    <3>2. cache[k] # None => cache[k].edit \in Nat /\ cache[k].edit <= m
      BY <1>1, <1>5, <3>1 DEF CacheSound, LoadedAt, BookTyped
    <3> QED
      BY <3>1, <3>2
  <2>2. /\ handled' = [handled EXCEPT !.got = Append(@, [edit |-> n, fresh |-> FALSE])]
        /\ UNCHANGED <<requestVars, rule, book, since, now, cache, fired>>
    BY <1>3, <1>8, <2>1 DEF LoadFails, Got
  <2>3. n <= Len(since[Kind]) /\ cache' \in [Loaded -> [edit : Nat, at : Nat] \cup {None}]
        /\ \A l \in Loaded : cache'[l] = cache[l]
    BY <1>1, <1>3, <2>1, <2>2 DEF BookTyped
  <2> QED
    BY <1>1, <2>2, <2>3, GotInv
<1> QED
  BY <1>6, <1>7, <1>8

(* The event is evaluated with the rules it got.                           *)
LEMMA EvaluateEventInv == ASSUME BookInv, EvaluateEvent PROVE BookInv'
<1>1. handled # None /\ ~Loading /\ handled' = None /\ UNCHANGED <<requestVars, rule, book, since, now, cache>>
  BY DEF EvaluateEvent
<1>2. RequestInv' /\ (\A w \in Workers : EditSound(w)') /\ VersionsSound'
  BY <1>1, EngineKeeps
<1>3. BookTyped' /\ BookKept' /\ (\A k \in Loaded : CacheSound(k)') /\ EventSound'
  BY <1>1 DEF BookInv, BookTyped, BookKept, CacheSound, LoadedAt, EventSound
<1>4. PICK s \in Seq([edit : Nat, fresh : BOOLEAN]) : s = handled.got /\ Len(s) = 2
  <2>1. handled.got \in Seq([edit : Nat, fresh : BOOLEAN]) /\ Len(handled.got) <= 2
    BY <1>1 DEF BookInv, BookTyped, EventSound
  <2>2. PICK n \in Nat : n = Len(handled.got)
    BY <2>1, LenProperties
  <2>3. n <= 2 /\ ~(n < 2)
    BY <1>1, <2>1, <2>2 DEF Loading, LoadOrder
  <2>4. n = 2
    BY <2>3
  <2> QED
    BY <2>1, <2>2, <2>4
<1>5. PICK n \in Nat : n = handled.got[1].edit /\ n <= Len(book)
  <2>1. s[1] \in [edit : Nat, fresh : BOOLEAN] /\ GotSound(1)
    <3>1. 1 \in 1..Len(s)
      BY <1>4
    <3> QED
      BY <1>1, <1>4, <3>1, ElementOfSeq DEF BookInv, EventSound
  <2>2. s[1].edit \in Nat /\ s[1].edit <= Len(since["rules"])
    BY <1>4, <2>1 DEF GotSound, LoadOrder
  <2> QED
    BY <1>4, <2>2 DEF BookInv, BookKept
<1>6. \/ fired' = fired
      \/ n > 0 /\ fired' = fired \cup {[dsl |-> book[n].dsl, version |-> book[n].version]}
  BY <1>5 DEF EvaluateEvent
<1>7. n > 0 => n \in 1..Len(book)
  BY <1>5, LenProperties DEF BookInv, BookTyped
<1>8. FiredFromBook'
  BY <1>1, <1>6, <1>7 DEF BookInv, FiredFromBook
<1> QED
  BY <1>2, <1>3, <1>8 DEF BookInv

(* Every step of the edits and the engine.                                 *)
LEMMA BookNextInv ==
  ASSUME BookInv, [BookNext]_<<requestVars, bookVars>>
  PROVE  BookInv'
<1>1. ASSUME UNCHANGED <<requestVars, bookVars>> PROVE BookInv'
  <2>1. UNCHANGED <<request, calls, crossed>> /\ UNCHANGED <<rule, book, since, now, cache, handled, fired>>
    BY <1>1 DEF requestVars, bookVars
  <2> QED
    BY <2>1 DEF BookInv, RequestInv, RequestTypeOK, OneAtATime, BookTyped, BookKept, CacheSound, LoadedAt,
                EventSound, GotSound, EditSound, Doing, VersionsSound, FiredFromBook
<1>2. ASSUME BookNext PROVE BookInv'
  <2>1. ASSUME NEW w \in Workers, (\E what \in {"dsl", "status"} : UpdateRule(w, what)) \/ DeleteRule(w)
        PROVE  BookInv'
    BY <2>1, UpdateRuleInv
  <2>2. ASSUME NEW w \in Workers, RuleCommit(w) PROVE BookInv'
    BY <2>2, RuleCommitInv
  <2>3. ASSUME FromCache \/ Load \/ LoadFails PROVE BookInv'
    BY <2>3, LoadingInv
  <2>4. ASSUME Edit PROVE BookInv'
    BY <2>4, EditInv
  <2>5. ASSUME Tick PROVE BookInv'
    BY <2>5, TickInv
  <2>6. ASSUME EventStart PROVE BookInv'
    BY <2>6, EventStartInv
  <2>7. ASSUME EvaluateEvent PROVE BookInv'
    BY <2>7, EvaluateEventInv
  <2> QED
    BY <1>2, <2>1, <2>2, <2>3, <2>4, <2>5, <2>6, <2>7 DEF BookNext
<1> QED
  BY <1>1, <1>2

(* What an event goes on with is no older than a life of the cache, and a  *)
(* version names one expression.                                           *)
LEMMA BookInvSound == BookInv => BookSound
<1> SUFFICES ASSUME BookInv PROVE BookSound
  OBVIOUS
<1>1. ASSUME handled # None, NEW i \in 1..Len(handled.got), handled.got[i].fresh
      PROVE  LET k == LoadOrder[i]
                 g == handled.got[i]
             IN /\ g.edit > 0
                /\ g.edit < Len(since[k]) => since[k][g.edit + 1] > handled.start - Ttl
  <2>1. GotSound(i) /\ i \in 1..2 /\ handled \in [start : Nat, got : Seq([edit : Nat, fresh : BOOLEAN])]
    BY <1>1, LenProperties DEF BookInv, EventSound, BookTyped
  <2>2. PICK k \in Loaded : k = LoadOrder[i]
    BY <2>1 DEF LoadOrder, Loaded
  <2>3. PICK g \in [edit : Nat, fresh : BOOLEAN] : g = handled.got[i]
    BY <1>1, <2>1, ElementOfSeq
  <2>4. PICK start \in Nat, n \in Nat : start = handled.start /\ n = g.edit
    BY <2>1
  <2>5. PICK at \in Nat : at > start - Ttl /\ LoadedAt(k, n, at)
    BY <1>1, <2>1, <2>2, <2>3, <2>4 DEF GotSound
  <2>6. PICK s \in Seq(Nat), m \in Nat : s = since[k] /\ m = Len(s)
    BY LenProperties DEF BookInv, BookTyped
  <2>7. n \in 1..m /\ \A j \in 1..m : j > n => s[j] >= at
    BY <2>5, <2>6 DEF LoadedAt
  <2>8. ASSUME n < m PROVE s[n + 1] > start - Ttl
    <3>1. n + 1 \in 1..m /\ n + 1 > n
      BY <2>8
    <3>2. s[n + 1] \in Nat /\ s[n + 1] >= at
      BY <2>6, <2>7, <3>1, ElementOfSeq
    <3> QED
      BY <2>5, <3>2, BookAssumption
  <2> QED
    BY <2>2, <2>3, <2>4, <2>6, <2>7, <2>8
<1>2. EditsArrive
  BY <1>1 DEF EditsArrive
<1>3. VersionNamesExpression
  BY DEF VersionNamesExpression, BookInv, VersionsSound, FiredFromBook
<1>4. BookTypeOK
  <2>1. rule \in RuleRows /\ book \in Seq(RuleRows) /\ rule = book[Len(book)] /\ since \in [Loaded -> Seq(Nat)]
        /\ now \in Nat /\ \A k \in Loaded : \A j \in 1..Len(since[k]) : since[k][j] <= now
    BY DEF BookInv, BookTyped, BookKept, BookRow, RuleRows
  <2>2. ASSUME NEW k \in Loaded, cache[k] # None PROVE cache[k] \in [edit : 1..Len(since[k]), at : 0..now]
    <3>1. cache[k] \in [edit : Nat, at : Nat] /\ cache[k].at <= now /\ cache[k].edit \in 1..Len(since[k])
      BY <2>2 DEF BookInv, BookTyped, CacheSound, LoadedAt
    <3>2. cache[k].at \in 0..now
      BY <2>1, <3>1
    <3> QED
      BY <3>1, <3>2
  <2>3. ASSUME handled # None PROVE handled \in [start : 0..now, got : Seq([edit : Nat, fresh : BOOLEAN])]
    <3>1. handled \in [start : Nat, got : Seq([edit : Nat, fresh : BOOLEAN])] /\ handled.start <= now
      BY <2>3 DEF BookInv, BookTyped, EventSound
    <3>2. handled.start \in 0..now
      BY <2>1, <3>1
    <3> QED
      BY <3>1, <3>2
  <2>4. fired \subseteq [dsl : Nat, version : Nat]
    <3> SUFFICES ASSUME NEW x \in fired PROVE x \in [dsl : Nat, version : Nat]
      OBVIOUS
    <3>1. PICK i \in 1..Len(book) : x = [dsl |-> book[i].dsl, version |-> book[i].version]
      BY DEF BookInv, FiredFromBook
    <3>2. book[i] \in BookRow
      BY ElementOfSeq DEF BookInv, BookTyped
    <3> QED
      BY <3>1, <3>2 DEF BookRow
  <2> QED
    BY <2>1, <2>2, <2>3, <2>4 DEF BookTypeOK
<1> QED
  BY <1>2, <1>3, <1>4 DEF BookSound

BookSpec == RequestInit /\ BookInit /\ [][BookNext]_<<requestVars, bookVars>>

(* The engine evaluates what was edited, within the life of its cache, and *)
(* an alert tells which edit that was, however many edits there are.       *)
THEOREM BookIsSound == BookSpec => []BookSound
<1>1. BookInv /\ [BookNext]_<<requestVars, bookVars>> => BookInv'
  BY BookNextInv
<1> QED
  BY BookInitInv, <1>1, BookInvSound, PTL DEF BookSpec

-----------------------------------------------------------------------------
(* AlertStream: what a listener is sent.                                   *)

(* A set of numbers has a least.                                           *)
LEMMA LeastExists ==
  ASSUME NEW S, S \subseteq Nat, S # {}
  PROVE  \E x \in S : \A y \in S : x <= y
<1> DEFINE Less == {p \in Nat \X Nat : p[1] < p[2]}
<1>1. IsWellFoundedOn(Less, Nat)
  BY NatLessThanWellFounded DEF OpToRel
<1>2. PICK m \in S : \A n \in S : ~ (<<n, m>> \in Less)
  <2> HIDE DEF Less
  <2> QED
    BY <1>1, WFMin
<1>3. \A n \in S : ~ (n < m)
  BY <1>2
<1> QED
  BY <1>3

FeedTyped ==
  /\ started \in Nat /\ visible \subseteq Feed
  /\ client \in {"away", "connecting", "connected"}
  /\ cursor \in Nat /\ sent \in [Feed -> Nat]

(* Until it is connected a client has been sent nothing; what had begun    *)
(* before it came is not promised to it.                                   *)
BeforeConnected ==
  /\ client # "connected" => \A a \in Feed : sent[a] = 0
  /\ client = "connecting" => \A a \in Feed : a <= cursor => a \in behind

(* An alert was sent at first and once for each place of the cursor since. *)
RepeatsBounded == \A a \in Feed : sent[a] <= 1 + a /\ (client = "connected" => sent[a] <= 1 + cursor)

FeedInv == FeedTyped /\ BeforeConnected /\ RepeatsBounded /\ NothingSkipped

(* The first alerts are sent.                                              *)
LEMMA FirstSentInv == ASSUME FeedInv, FirstSent PROVE FeedInv'
<1>1. PICK batch : batch = Newest(Open, Batch) /\ batch \subseteq Open
  BY DEF Newest
<1>2. /\ client = "connecting" /\ client' = "connected" /\ sent' = Sent(batch)
      /\ UNCHANGED <<started, visible, triaged, cursor, polls, behind, dropped>>
  BY <1>1 DEF FirstSent
<1>3. \A a \in Feed : sent[a] = 0 /\ a \in Nat
  BY <1>2 DEF FeedInv, BeforeConnected, Feed
<1>4. sent' \in [Feed -> Nat] /\ \A a \in Feed : sent'[a] \in {0, 1}
  BY <1>2, <1>3 DEF Sent
<1>5. \A a \in Feed : a <= cursor => a \in behind
  BY <1>2 DEF FeedInv, BeforeConnected
<1>6. NothingSkipped'
  BY <1>2, <1>3, <1>5 DEF NothingSkipped, Open, FeedInv, FeedTyped
<1>7. RepeatsBounded'
  BY <1>2, <1>3, <1>4 DEF RepeatsBounded, FeedInv, FeedTyped
<1> QED
  BY <1>2, <1>4, <1>6, <1>7 DEF FeedInv, FeedTyped, BeforeConnected

(* A poll sends what is beyond the cursor, up to a batch, and moves it to  *)
(* the oldest of them.                                                     *)
LEMMA PollInv == ASSUME FeedInv, Poll PROVE FeedInv'
<1>1. PICK fresh : fresh = Fresh
  OBVIOUS
<1>2. PICK batch : batch = Newest(fresh, Batch) /\ batch \subseteq fresh
  BY DEF Newest
<1>3. client = "connected" /\ UNCHANGED <<started, visible, triaged, client, behind>>
  BY DEF Poll
<1>4. CASE batch = {}
  <2>1. UNCHANGED <<cursor, sent, dropped>>
    BY <1>1, <1>2, <1>4 DEF Poll
  <2> QED
    BY <1>3, <2>1 DEF FeedInv, FeedTyped, BeforeConnected, RepeatsBounded, NothingSkipped, Open
<1>5. CASE batch # {}
  <2>1. cursor' = Min(batch) /\ sent' = Sent(batch) /\ dropped' = dropped \cup (fresh \ batch)
    BY <1>1, <1>2, <1>5 DEF Poll, CursorAfter
  <2>2. \A a \in fresh : a \in Feed /\ a \in Nat /\ a > cursor
    BY <1>1 DEF Fresh, Open, FeedInv, FeedTyped, Feed
  <2>3. PICK c \in batch : c = Min(batch) /\ \A y \in batch : c <= y
    <3>1. \E x \in batch : \A y \in batch : x <= y
      BY <1>2, <1>5, <2>2, LeastExists
    <3> QED
      BY <3>1 DEF Min
  <2>4. PICK k \in Nat : k = cursor
    BY DEF FeedInv, FeedTyped
  <2>5. cursor' = c /\ c \in Nat /\ c >= k + 1
    BY <1>2, <2>1, <2>2, <2>3, <2>4
  <2>6. FeedTyped'
    BY <1>3, <2>1, <2>5 DEF FeedInv, FeedTyped, Sent
  <2>7. ASSUME NEW a \in Feed PROVE sent'[a] <= 1 + a /\ sent'[a] <= 1 + c
    <3>1. PICK n \in Nat : n = sent[a] /\ n <= 1 + a /\ n <= 1 + k
      BY <1>3, <2>4 DEF FeedInv, FeedTyped, RepeatsBounded
    <3>2. a \in Nat
      BY DEF Feed
    <3>3. CASE a \in batch
      <4>1. sent'[a] = n + 1 /\ a >= c
        BY <2>1, <2>3, <3>1, <3>3 DEF Sent
      <4> QED
        BY <2>5, <3>1, <3>2, <4>1
    <3>4. CASE a \notin batch
      <4>1. sent'[a] = n
        BY <2>1, <3>1, <3>4 DEF Sent
      <4> QED
        BY <2>5, <3>1, <3>2, <4>1
    <3> QED
      BY <3>3, <3>4
  <2>8. ASSUME NEW a \in Open', sent'[a] = 0 PROVE a > cursor' \/ a \in behind' \cup dropped'
    <3>1. a \in Open /\ a \in Feed /\ a \in Nat
      BY <1>3 DEF Open, FeedInv, FeedTyped, Feed
    <3>2. a \notin batch /\ sent[a] = 0
      BY <2>1, <2>8, <3>1 DEF Sent, FeedInv, FeedTyped
    <3>3. a > cursor => a \in dropped'
      BY <1>1, <2>1, <3>1, <3>2 DEF Fresh
    <3>4. a > cursor \/ a \in behind \cup dropped
      BY <1>3, <3>1, <3>2 DEF FeedInv, NothingSkipped
    <3> QED
      BY <1>3, <2>1, <3>3, <3>4
  <2> QED
    BY <1>3, <2>5, <2>6, <2>7, <2>8 DEF FeedInv, BeforeConnected, RepeatsBounded, NothingSkipped
<1> QED
  BY <1>4, <1>5

(* Every step of the table and the client.                                 *)
LEMMA FeedNextInv == ASSUME FeedInv, [StreamNext]_streamVars PROVE FeedInv'
<1> USE FeedAssumption
<1>1. ASSUME UNCHANGED streamVars PROVE FeedInv'
  BY <1>1 DEF streamVars, FeedInv, FeedTyped, BeforeConnected, RepeatsBounded, NothingSkipped, Open
<1>2. ASSUME InsertBegins PROVE FeedInv'
  BY <1>2 DEF InsertBegins, FeedInv, FeedTyped, BeforeConnected, RepeatsBounded, NothingSkipped, Open
<1>3. ASSUME NEW a \in Feed, InsertCommits(a) PROVE FeedInv'
  <2>1. /\ visible' = visible \cup {a} /\ (client # "away" /\ a <= cursor => a \in behind')
        /\ behind \subseteq behind'
        /\ UNCHANGED <<started, triaged, client, cursor, sent, polls, dropped>>
    BY <1>3 DEF InsertCommits
  <2>2. a \in Nat
    BY DEF Feed
  <2>3. NothingSkipped'
    <3> SUFFICES ASSUME client = "connected", NEW b \in (visible \cup {a}) \ triaged, sent[b] = 0
                 PROVE  b > cursor \/ b \in behind' \cup dropped
      BY <2>1 DEF NothingSkipped, Open
    <3> QED
      BY <2>1, <2>2 DEF FeedInv, FeedTyped, NothingSkipped, Open
  <2> QED
    BY <2>1, <2>3 DEF FeedInv, FeedTyped, BeforeConnected, RepeatsBounded
<1>4. ASSUME NEW a \in Feed, Triaged(a) PROVE FeedInv'
  BY <1>4 DEF Triaged, FeedInv, FeedTyped, BeforeConnected, RepeatsBounded, NothingSkipped, Open
<1>5. ASSUME Connect PROVE FeedInv'
  <2>1. /\ client = "away" /\ client' = "connecting" /\ cursor' = started /\ behind' = 1..started
        /\ UNCHANGED <<started, visible, triaged, sent, polls, dropped>>
    BY <1>5 DEF Connect
  <2>2. BeforeConnected' /\ NothingSkipped'
    BY <2>1 DEF FeedInv, FeedTyped, BeforeConnected, NothingSkipped, Feed
  <2> QED
    BY <2>1, <2>2 DEF FeedInv, FeedTyped, RepeatsBounded
<1> QED
  BY <1>1, <1>2, <1>3, <1>4, <1>5, FirstSentInv, PollInv DEF StreamNext

(* The rest of the types.                                                  *)
PlacesTyped ==
  /\ started <= MaxFeed /\ triaged \subseteq visible
  /\ cursor \in Feed \cup {0} /\ polls \in Nat
  /\ behind \subseteq Feed /\ dropped \subseteq Feed

LEMMA PlacesKept == ASSUME FeedInv, PlacesTyped, [StreamNext]_streamVars PROVE PlacesTyped'
<1> USE FeedAssumption
<1>1. CASE UNCHANGED streamVars
  BY <1>1 DEF streamVars, PlacesTyped
<1>2. CASE InsertBegins
  BY <1>2 DEF InsertBegins, PlacesTyped, Feed
<1>3. CASE Connect
  <2>1. started \in Nat /\ started <= MaxFeed
    BY DEF FeedInv, FeedTyped, PlacesTyped
  <2>2. started \in Feed \cup {0} /\ 1..started \subseteq Feed
    BY <2>1 DEF Feed
  <2> QED
    BY <1>3, <2>2 DEF Connect, PlacesTyped
<1>4. CASE FirstSent
  BY <1>4 DEF FirstSent, PlacesTyped
<1>5. CASE Poll
  <2> DEFINE batch == Newest(Fresh, Batch)
  <2>1. Fresh \subseteq Feed /\ batch \subseteq Fresh
    BY DEF Fresh, Open, Newest, FeedInv, FeedTyped
  <2>2. /\ UNCHANGED <<started, visible, triaged, behind>> /\ polls' = polls + 1
        /\ IF batch = {} THEN UNCHANGED <<cursor, sent, dropped>>
           ELSE cursor' = CursorAfter(batch) /\ dropped' = dropped \cup (Fresh \ batch)
    BY <1>5 DEF Poll
  <2>3. ASSUME batch # {} PROVE CursorAfter(batch) \in Feed
    <3> HIDE DEF batch
    <3>1. batch \subseteq Nat
      <4>1. Feed \subseteq Nat
        BY DEF Feed
      <4> QED
        BY <2>1, <4>1
    <3>2. \E x \in batch : \A y \in batch : x <= y
      BY <2>3, <3>1, LeastExists
    <3>3. Min(batch) \in batch
      BY <3>2 DEF Min
    <3> QED
      BY <2>1, <3>3 DEF CursorAfter
  <2> HIDE DEF batch
  <2> QED
    BY <2>1, <2>2, <2>3 DEF PlacesTyped
<1>6. ASSUME NEW a \in Feed, InsertCommits(a) \/ Triaged(a) PROVE PlacesTyped'
  BY <1>6 DEF InsertCommits, Triaged, PlacesTyped
<1> QED
  BY <1>1, <1>2, <1>3, <1>4, <1>5, <1>6 DEF StreamNext

FeedSpec == StreamInit /\ [][StreamNext]_streamVars

(* A connected client is sent what opens after it connected, and not again *)
(* for ever, however many alerts come and however large a batch is.        *)
THEOREM FeedIsSound == FeedSpec => []FeedSound
<1> DEFINE AnInv == FeedInv /\ PlacesTyped
<1>1. StreamInit => AnInv
  <2> SUFFICES ASSUME StreamInit PROVE AnInv
    OBVIOUS
  <2>1. FeedInv
    BY DEF StreamInit, FeedInv, FeedTyped, BeforeConnected, RepeatsBounded, NothingSkipped, Open, Feed
  <2>2. PlacesTyped
    BY FeedAssumption DEF StreamInit, PlacesTyped
  <2> QED
    BY <2>1, <2>2
<1>2. AnInv => FeedSound
  <2> SUFFICES ASSUME AnInv PROVE FeedSound
    OBVIOUS
  <2>1. StreamTypeOK
    BY FeedAssumption DEF StreamTypeOK, FeedInv, FeedTyped, PlacesTyped
  <2> QED
    BY <2>1 DEF FeedInv, FeedSound, RepeatsBounded, RepeatsEnd
<1>3. AnInv /\ [StreamNext]_streamVars => AnInv'
  BY FeedNextInv, PlacesKept
<1> QED
  BY <1>1, <1>2, <1>3, PTL DEF FeedSpec

-----------------------------------------------------------------------------
(* ReportCustody: the documents of a report.                               *)

(* What a row of a package names is in the store, and the payload tells of *)
(* nothing that came after it was made.                                    *)
RowKept(row) ==
  /\ row.attached \subseteq files["minio"] \cup altered
  /\ row.pdf = "minio" => F("pdf", row.n) \in files["minio"]
  /\ row.xml = "minio" => F("xml", row.n) \in files["minio"]
  /\ "payload" \in row.custody /\ row.custody \subseteq {"payload", "pdf"}

(* What a request under way holds was stored, and so was what it read.     *)
HeldSound(w) ==
  LET r == request[w]
  IN /\ Doing(w, "upload") => r.file \in File /\ r.file \in files["minio"] \cup altered
     /\ Doing(w, "generate") => r.report \in Report /\ RowKept(r.report)
     /\ Doing(w, "submit") =>
          /\ r.i \in 1..Len(reports) /\ r.read \in Report /\ r.xml \in Places \cup {None}
          /\ r.read.custody # {}
          /\ r.xml = "minio" => F("xml", reports[r.i].n) \in files["minio"]

PackagesSound == \A i \in 1..Len(reports) : RowKept(reports[i])

CustodyInv ==
  /\ RequestInv /\ CustodyTypeOK
  /\ \A i \in 1..Len(evidence) : evidence[i] \in files["minio"] \cup altered
  /\ PackagesSound
  /\ \A w \in Workers : HeldSound(w)
  /\ ServedIntact

(* A step that loses nothing unnoticed, and of evidence only.              *)
StoreKept ==
  /\ files["minio"] \cup altered \subseteq files'["minio"] \cup altered'
  /\ \A f \in files["minio"] : f.kind # "evidence" => f \in files'["minio"]

PackagesKept ==
  /\ Len(reports) <= Len(reports')
  /\ \A i \in 1..Len(reports) : reports'[i].n = reports[i].n

(* What a row names is kept with the store.                                *)
LEMMA RowStays ==
  ASSUME StoreKept, NEW row, RowKept(row)
  PROVE  RowKept(row)'
<1>1. F("pdf", row.n).kind = "pdf" /\ F("xml", row.n).kind = "xml"
  BY DEF F
<1> QED
  BY <1>1 DEF StoreKept, RowKept

(* So are all the packages.                                                *)
LEMMA PackagesStay == ASSUME StoreKept, PackagesSound, UNCHANGED reports PROVE PackagesSound'
<1> SUFFICES ASSUME NEW i \in 1..Len(reports) PROVE RowKept(reports[i])'
  BY DEF PackagesSound
<1>1. PICK row : row = reports[i]
  OBVIOUS
<1>2. RowKept(row)'
  BY <1>1, RowStays DEF PackagesSound
<1> QED
  BY <1>1, <1>2 DEF RowKept

(* What a request holds is kept with the store and the packages.           *)
LEMMA HeldStays ==
  ASSUME CustodyTypeOK, StoreKept, PackagesKept, CustodyTypeOK', NEW w \in Workers,
         HeldSound(w), request'[w] = request[w]
  PROVE  HeldSound(w)'
<1>1. PICK r : r = request[w] /\ r = request'[w]
  OBVIOUS
<1>2. ASSUME r # None, r.op = "upload" PROVE r.file \in File /\ r.file \in files'["minio"] \cup altered'
  BY <1>1, <1>2 DEF HeldSound, Doing, StoreKept
<1>3. ASSUME r # None, r.op = "generate" PROVE r.report \in Report /\ RowKept(r.report)'
  <2>1. r.report \in Report /\ RowKept(r.report)
    BY <1>1, <1>3 DEF HeldSound, Doing
  <2>2. PICK row : row = r.report
    OBVIOUS
  <2> QED
    BY <2>1, <2>2, RowStays
<1>4. ASSUME r # None, r.op = "submit"
      PROVE  /\ r.i \in 1..Len(reports') /\ r.read \in Report /\ r.xml \in Places \cup {None}
             /\ r.read.custody # {}
             /\ r.xml = "minio" => F("xml", reports'[r.i].n) \in files'["minio"]
  <2>1. /\ r.i \in 1..Len(reports) /\ r.read \in Report /\ r.xml \in Places \cup {None}
        /\ r.read.custody # {}
        /\ r.xml = "minio" => F("xml", reports[r.i].n) \in files["minio"]
    BY <1>1, <1>4 DEF HeldSound, Doing
  <2>2. Len(reports) \in Nat /\ Len(reports') \in Nat
    BY LenProperties DEF CustodyTypeOK
  <2>3. F("xml", reports[r.i].n).kind = "xml"
    BY DEF F
  <2> QED
    BY <2>1, <2>2, <2>3 DEF PackagesKept, StoreKept
<1> QED
  BY <1>1, <1>2, <1>3, <1>4 DEF HeldSound, Doing

(* A file is stored, or none is.                                           *)
LEMMA StoredStep ==
  ASSUME CustodyTypeOK, NEW place \in Places \cup {None}, NEW f \in File,
         place # None => Stored(place, f), place = None => UNCHANGED files, altered' = altered
  PROVE  files' \in [Places -> SUBSET File] /\ StoreKept /\ (place = "minio" => f \in files'["minio"])
<1>0. "minio" \in Places /\ None \notin Places
  BY CustodyAssumption DEF Places
<1>1. CASE place = None
  BY <1>0, <1>1 DEF CustodyTypeOK, StoreKept
<1>2. CASE place # None
  <2>1. PICK g \in [Places -> SUBSET File] : g = files
    BY DEF CustodyTypeOK
  <2>2. PICK set : set = g[place] \cup {f}
    OBVIOUS
  <2>3. files' = [g EXCEPT ![place] = set] /\ place \in Places
    BY <1>2, <2>1, <2>2 DEF Stored
  <2>4. /\ files' \in [Places -> SUBSET File] /\ f \in files'[place]
        /\ \A x \in g["minio"] : x \in files'["minio"]
    BY <1>0, <2>1, <2>2, <2>3
  <2> QED
    BY <2>1, <2>4 DEF StoreKept
<1> QED
  BY <1>1, <1>2

(* A request begins that holds what is stored.                             *)
LEMMA CustodyBeginInv ==
  ASSUME CustodyInv, NEW w \in Workers, NEW r, Begin(w, r), StoreKept, CustodyTypeOK',
         UNCHANGED <<altered, evidence, reports, served>>, HeldSound(w)'
  PROVE  CustodyInv'
<1>1. RequestInv' /\ \A v \in Workers \ {w} : request'[v] = request[v]
  BY BeginStep DEF CustodyInv
<1>2. PackagesKept
  <2>1. PICK s : s = reports /\ s = reports'
    OBVIOUS
  <2>2. Len(s) \in Nat
    BY <2>1, LenProperties DEF CustodyInv, CustodyTypeOK
  <2> QED
    BY <2>1, <2>2 DEF PackagesKept
<1>3. \A v \in Workers : HeldSound(v)'
  BY <1>1, <1>2, HeldStays DEF CustodyInv
<1>4. PackagesSound'
  BY PackagesStay DEF CustodyInv
<1>5. (\A i \in 1..Len(evidence') : evidence'[i] \in files'["minio"] \cup altered') /\ ServedIntact'
  BY DEF CustodyInv, StoreKept, ServedIntact
<1> QED
  BY <1>1, <1>3, <1>4, <1>5 DEF CustodyInv

(* A request that ends, and a statement, leave what the others hold.       *)
LEMMA CustodyEnds ==
  ASSUME CustodyInv, NEW w \in Workers, request[w] # None, Ends(w), StoreKept, PackagesKept, CustodyTypeOK'
  PROVE  RequestInv' /\ \A v \in Workers : HeldSound(v)'
<1>1. RequestInv' /\ request'[w] = None /\ \A v \in Workers \ {w} : request'[v] = request[v]
  BY GoesOnStep DEF Ends, CustodyInv
<1>2. HeldSound(w)'
  BY <1>1 DEF HeldSound, Doing
<1>3. \A v \in Workers \ {w} : HeldSound(v)'
  BY <1>1, HeldStays DEF CustodyInv
<1> QED
  BY <1>1, <1>2, <1>3

(* So does a statement of its own.                                         *)
LEMMA CustodyStatement ==
  ASSUME CustodyInv, Statement, StoreKept, PackagesKept, CustodyTypeOK'
  PROVE  RequestInv' /\ \A v \in Workers : HeldSound(v)'
<1>1. RequestInv' /\ request' = request
  BY StatementStep DEF CustodyInv
<1>2. \A v \in Workers : HeldSound(v)'
  BY <1>1, HeldStays DEF CustodyInv
<1> QED
  BY <1>1, <1>2

(* Where neither files nor packages change, both are kept.                 *)
LEMMA NothingChanged ==
  ASSUME CustodyTypeOK, UNCHANGED <<files, altered>>
  PROVE  StoreKept /\ (UNCHANGED reports => PackagesKept)
<1>1. Len(reports) \in Nat
  BY LenProperties DEF CustodyTypeOK
<1> QED
  BY <1>1 DEF StoreKept, PackagesKept

(* One package is written, and names what is stored.                       *)
LEMMA PackageWritten ==
  ASSUME CustodyInv, NEW i \in 1..Len(reports), NEW z \in Report, z.n = reports[i].n, RowKept(z),
         reports' = [reports EXCEPT ![i] = z], UNCHANGED <<files, altered>>
  PROVE  reports' \in Seq(Report) /\ PackagesKept /\ PackagesSound'
<1>1. PICK s \in Seq(Report) : s = reports
  BY DEF CustodyInv, CustodyTypeOK
<1>2. PICK t : t = [s EXCEPT ![i] = z]
  OBVIOUS
<1>3. /\ t \in Seq(Report) /\ Len(t) = Len(s) /\ Len(s) \in Nat
      /\ \A j \in 1..Len(s) : t[j] = IF j = i THEN z ELSE s[j]
  BY <1>1, <1>2, ExceptSeq, LenProperties
<1>4. reports' = t
  BY <1>1, <1>2
<1>5. PackagesKept
  BY <1>1, <1>3, <1>4 DEF PackagesKept
<1>6. ASSUME NEW j \in 1..Len(s) PROVE RowKept(reports[j])'
  <2>1. PICK row : row = t[j]
    OBVIOUS
  <2>2. RowKept(row)
    BY <1>1, <1>3, <2>1 DEF CustodyInv, PackagesSound
  <2> QED
    BY <1>4, <2>1, <2>2 DEF RowKept
<1>7. PackagesSound'
  BY <1>3, <1>4, <1>6 DEF PackagesSound
<1> QED
  BY <1>3, <1>4, <1>5, <1>7

(* An evidence file is stored.                                             *)
LEMMA UploadBeginInv == ASSUME CustodyInv, NEW w \in Workers, UploadBegin(w) PROVE CustodyInv'
<1> USE CustodyAssumption
<1>1. PICK k \in 0..MaxFiles : k = uploads["evidence"] /\ k < MaxFiles
  BY DEF CustodyInv, CustodyTypeOK, UploadBegin
<1>2. k \in Nat /\ k + 1 \in 1..MaxFiles
  BY <1>1
<1>3. PICK f \in File : f = F("evidence", k + 1)
  BY <1>2 DEF File, F
<1>4. PICK r : r = [op |-> "upload", file |-> f]
  OBVIOUS
<1>5. /\ uploads' = [uploads EXCEPT !["evidence"] = k + 1]
      /\ Stored("minio", f) /\ Begin(w, r)
      /\ UNCHANGED <<altered, evidence, reports, served>>
  BY <1>1, <1>3, <1>4 DEF UploadBegin
<1>6. CustodyTypeOK /\ "minio" \in Places /\ None # "minio"
  BY DEF CustodyInv, Places
<1>7. files' \in [Places -> SUBSET File] /\ StoreKept /\ f \in files'["minio"]
  <2>1. PICK place \in Places \cup {None} : place = "minio"
    BY <1>6
  <2>2. place # None => Stored(place, f)
    BY <1>5, <2>1
  <2>3. place # None
    BY <1>6, <2>1
  <2>4. files' \in [Places -> SUBSET File] /\ StoreKept /\ (place = "minio" => f \in files'["minio"])
    BY <1>5, <1>6, <2>2, <2>3, StoredStep
  <2> QED
    BY <2>1, <2>4
<1>8. CustodyTypeOK'
  BY <1>2, <1>5, <1>6, <1>7 DEF CustodyTypeOK
<1>9. request'[w] = r
  BY <1>5, BeginStep DEF CustodyInv
<1>10. HeldSound(w)'
  BY <1>4, <1>7, <1>9 DEF HeldSound, Doing
<1> QED
  BY <1>5, <1>7, <1>8, <1>10, CustodyBeginInv

(* Its event is written.                                                   *)
LEMMA UploadCommitInv == ASSUME CustodyInv, NEW w \in Workers, UploadCommit(w) PROVE CustodyInv'
<1>1. PICK f \in File : f = request[w].file /\ f \in files["minio"] \cup altered
  BY DEF CustodyInv, UploadCommit, HeldSound
<1>2. /\ evidence' = Append(evidence, f) /\ Ends(w) /\ request[w] # None
      /\ UNCHANGED <<files, altered, reports, served, uploads>>
  BY <1>1 DEF UploadCommit, Doing
<1>3. PICK s \in Seq(File), n \in Nat : s = evidence /\ n = Len(s)
  BY LenProperties DEF CustodyInv, CustodyTypeOK
<1>4. PICK z : z = Append(s, f)
  OBVIOUS
<1>5. z \in Seq(File) /\ Len(z) = n + 1 /\ z[n + 1] = f /\ \A i \in 1..n : z[i] = s[i]
  BY <1>3, <1>4, AppendProperties
<1>6. CustodyTypeOK'
  BY <1>2, <1>3, <1>4, <1>5 DEF CustodyInv, CustodyTypeOK
<1>7. StoreKept /\ PackagesKept
  BY <1>2, NothingChanged DEF CustodyInv
<1>8. RequestInv' /\ \A v \in Workers : HeldSound(v)'
  BY <1>2, <1>6, <1>7, CustodyEnds
<1>9. \A i \in 1..(n + 1) : z[i] \in files["minio"] \cup altered
  <2>1. \A i : i \in 1..(n + 1) <=> i \in 1..n \/ i = n + 1
    BY <1>3
  <2> QED
    BY <1>1, <1>3, <1>5, <2>1 DEF CustodyInv
<1>10. PackagesSound' /\ ServedIntact'
  BY <1>2, <1>7, PackagesStay DEF CustodyInv, ServedIntact
<1> QED
  BY <1>2, <1>3, <1>4, <1>5, <1>6, <1>8, <1>9, <1>10 DEF CustodyInv

(* A download answers with what the hash is of.                            *)
LEMMA DownloadInv ==
  ASSUME CustodyInv, NEW i \in 1..MaxFiles, DownloadEvidence(i) PROVE CustodyInv'
<1>1. PICK f \in File : f = evidence[i] /\ f \notin altered
  <2>1. i \in 1..Len(evidence) /\ evidence[i] \notin altered /\ evidence \in Seq(File)
    BY DEF DownloadEvidence, Answers, CustodyInv, CustodyTypeOK
  <2> QED
    BY <2>1, ElementOfSeq
<1>2. PICK s : s = [file |-> f, intact |-> TRUE]
  OBVIOUS
<1>3. /\ Statement /\ served' = served \cup {s} /\ UNCHANGED <<files, altered, evidence, reports, uploads>>
  BY <1>1, <1>2 DEF DownloadEvidence
<1>4. StoreKept /\ PackagesKept
  BY <1>3, NothingChanged DEF CustodyInv
<1>5. CustodyTypeOK'
  <2>1. s \in [file : File, intact : BOOLEAN]
    BY <1>2
  <2>2. served \cup {s} \subseteq [file : File, intact : BOOLEAN]
    BY <2>1 DEF CustodyInv, CustodyTypeOK
  <2> QED
    BY <1>3, <2>2 DEF CustodyInv, CustodyTypeOK
<1>6. RequestInv' /\ \A v \in Workers : HeldSound(v)'
  BY <1>3, <1>4, <1>5, CustodyStatement
<1>7. ServedIntact'
  BY <1>2, <1>3 DEF CustodyInv, ServedIntact
<1>8. PackagesSound'
  BY <1>3, <1>4, PackagesStay DEF CustodyInv
<1> QED
  BY <1>3, <1>5, <1>6, <1>7, <1>8 DEF CustodyInv

(* The payload and the PDF of a package are made.                          *)
LEMMA GenerateBeginInv == ASSUME CustodyInv, NEW w \in Workers, GenerateBegin(w) PROVE CustodyInv'
<1> USE CustodyAssumption
<1>1. PICK k \in 0..MaxFiles : k = uploads["report"] /\ k < MaxFiles
  BY DEF CustodyInv, CustodyTypeOK, GenerateBegin
<1>2. k \in Nat /\ k + 1 \in 1..MaxFiles
  BY <1>1
<1>3. PICK n \in 1..MaxFiles : n = k + 1
  BY <1>2
<1>4. PICK f \in File : f = F("pdf", n)
  BY DEF File, F
<1>5. PICK all : all = {evidence[i] : i \in 1..Len(evidence)}
  OBVIOUS
<1>6. all \subseteq File /\ all \subseteq files["minio"] \cup altered
  <2>1. ASSUME NEW i \in 1..Len(evidence) PROVE evidence[i] \in File /\ evidence[i] \in files["minio"] \cup altered
    <3>1. evidence \in Seq(File)
      BY DEF CustodyInv, CustodyTypeOK
    <3> QED
      BY <3>1, ElementOfSeq DEF CustodyInv
  <2> QED
    BY <1>5, <2>1
<1>7. PICK place \in Places \cup {None} :
        /\ IF place = None THEN UNCHANGED files ELSE StoredSomewhere(w, F("pdf", k + 1), place)
        /\ Begin(w, [op |-> "generate", report |->
             [n |-> k + 1, attached |-> {evidence[i] : i \in 1..Len(evidence)}, pdf |-> place, xml |-> None,
              filed |-> FALSE, protocol |-> FALSE,
              custody |-> {"payload"} \cup (IF place = None THEN {} ELSE {"pdf"})]])
  BY <1>1 DEF GenerateBegin
<1>8. PICK chain : chain = {"payload"} \cup (IF place = None THEN {} ELSE {"pdf"})
  OBVIOUS
<1>9. PICK row : row = [n |-> n, attached |-> all, pdf |-> place, xml |-> None,
                        filed |-> FALSE, protocol |-> FALSE, custody |-> chain]
  OBVIOUS
<1>10. row \in Report /\ row.n = n /\ row.attached = all /\ row.pdf = place /\ row.xml = None /\ row.custody = chain
  BY <1>6, <1>8, <1>9 DEF Report
<1>11. PICK r : r = [op |-> "generate", report |-> row]
  OBVIOUS
<1>12. /\ Begin(w, r) /\ (place # None => Stored(place, f)) /\ (place = None => UNCHANGED files)
       /\ uploads' = [uploads EXCEPT !["report"] = n]
       /\ UNCHANGED <<altered, evidence, reports, served>>
  BY <1>1, <1>3, <1>4, <1>5, <1>7, <1>8, <1>9, <1>11 DEF GenerateBegin, StoredSomewhere
<1>13. CustodyTypeOK
  BY DEF CustodyInv
<1>14. files' \in [Places -> SUBSET File] /\ StoreKept /\ (place = "minio" => f \in files'["minio"])
  BY <1>12, <1>13, StoredStep
<1>15. CustodyTypeOK'
  BY <1>2, <1>3, <1>12, <1>13, <1>14 DEF CustodyTypeOK
<1>16. request'[w] = r
  BY <1>12, BeginStep DEF CustodyInv
<1>17. RowKept(row)'
  BY <1>4, <1>6, <1>8, <1>10, <1>14 DEF RowKept, StoreKept
<1>18. HeldSound(w)'
  <2>1. r.op = "generate" /\ r.report = row
    BY <1>11
  <2>2. /\ row.attached \subseteq files'["minio"] \cup altered'
        /\ row.pdf = "minio" => F("pdf", row.n) \in files'["minio"]
        /\ row.xml = "minio" => F("xml", row.n) \in files'["minio"]
        /\ "payload" \in row.custody /\ row.custody \subseteq {"payload", "pdf"}
    BY <1>17 DEF RowKept
  <2> QED
    BY <1>10, <1>16, <2>1, <2>2 DEF HeldSound, Doing, RowKept
<1> QED
  BY <1>12, <1>14, <1>15, <1>18, CustodyBeginInv

(* Its row is written.                                                     *)
LEMMA GenerateCommitInv == ASSUME CustodyInv, NEW w \in Workers, GenerateCommit(w) PROVE CustodyInv'
<1>1. PICK row \in Report : row = request[w].report /\ RowKept(row)
  <2>1. request[w].report \in Report /\ RowKept(request[w].report)
    BY DEF CustodyInv, GenerateCommit, HeldSound
  <2> QED
    BY <2>1
<1>2. /\ reports' = Append(reports, row) /\ Ends(w) /\ request[w] # None
      /\ UNCHANGED <<files, altered, evidence, served, uploads>>
  BY <1>1 DEF GenerateCommit, Doing
<1>3. PICK s \in Seq(Report), n \in Nat : s = reports /\ n = Len(s)
  BY LenProperties DEF CustodyInv, CustodyTypeOK
<1>4. PICK z : z = Append(s, row)
  OBVIOUS
<1>5. z \in Seq(Report) /\ Len(z) = n + 1 /\ z[n + 1] = row /\ \A i \in 1..n : z[i] = s[i]
  BY <1>3, <1>4, AppendProperties
<1>6. reports' = z
  BY <1>2, <1>3, <1>4
<1>7. CustodyTypeOK'
  BY <1>2, <1>5, <1>6 DEF CustodyInv, CustodyTypeOK
<1>8. StoreKept
  BY <1>2, NothingChanged DEF CustodyInv
<1>9. PackagesKept
  BY <1>3, <1>5, <1>6 DEF PackagesKept
<1>10. RequestInv' /\ \A v \in Workers : HeldSound(v)'
  BY <1>2, <1>7, <1>8, <1>9, CustodyEnds
<1>11. ASSUME NEW i \in 1..(n + 1) PROVE RowKept(reports[i])'
  <2>1. PICK y : y = z[i]
    OBVIOUS
  <2>2. RowKept(y)
    <3>1. CASE i = n + 1
      BY <1>1, <1>5, <2>1, <3>1
    <3>2. CASE i \in 1..n
      BY <1>3, <1>5, <2>1, <3>2 DEF CustodyInv, PackagesSound
    <3> QED
      BY <1>3, <3>1, <3>2
  <2> QED
    BY <1>2, <1>6, <2>1, <2>2 DEF RowKept
<1>12. PackagesSound'
  BY <1>5, <1>6, <1>11 DEF PackagesSound
<1> QED
  BY <1>2, <1>7, <1>10, <1>12 DEF CustodyInv, ServedIntact

(* The XML of a package is made.                                           *)
LEMMA SubmitBeginInv ==
  ASSUME CustodyInv, NEW w \in Workers, NEW i \in 1..MaxFiles, SubmitBegin(w, i) PROVE CustodyInv'
<1> USE CustodyAssumption
<1>1. CustodyTypeOK /\ i \in 1..Len(reports)
  BY DEF CustodyInv, SubmitBegin
<1>2. PICK row \in Report : row = reports[i]
  BY <1>1, ElementOfSeq DEF CustodyTypeOK
<1>3. row.n \in 1..MaxFiles /\ row.custody # {}
  BY <1>1, <1>2 DEF Report, CustodyInv, PackagesSound, RowKept
<1>4. PICK f \in File : f = F("xml", row.n)
  BY <1>3 DEF File, F
<1>5. PICK place \in Places \cup {None} :
        /\ IF place = None THEN UNCHANGED files ELSE StoredSomewhere(w, F("xml", reports[i].n), place)
        /\ Begin(w, [op |-> "submit", i |-> i, read |-> reports[i], xml |-> place])
  BY DEF SubmitBegin
<1>6. PICK r : r = [op |-> "submit", i |-> i, read |-> row, xml |-> place]
  OBVIOUS
<1>7. /\ Begin(w, r) /\ (place # None => Stored(place, f)) /\ (place = None => UNCHANGED files)
      /\ UNCHANGED <<altered, evidence, reports, served, uploads>>
  BY <1>2, <1>4, <1>5, <1>6 DEF SubmitBegin, StoredSomewhere
<1>8. files' \in [Places -> SUBSET File] /\ StoreKept /\ (place = "minio" => f \in files'["minio"])
  BY <1>1, <1>7, StoredStep
<1>9. CustodyTypeOK'
  BY <1>1, <1>7, <1>8 DEF CustodyTypeOK
<1>10. request'[w] = r
  BY <1>7, BeginStep DEF CustodyInv
<1>11. HeldSound(w)'
  <2>1. r.op = "submit" /\ r.i = i /\ r.read = row /\ r.xml = place
    BY <1>6
  <2>2. i \in 1..Len(reports') /\ reports'[i] = row
    BY <1>1, <1>2, <1>7
  <2> QED
    BY <1>3, <1>4, <1>8, <1>10, <2>1, <2>2 DEF HeldSound, Doing
<1> QED
  BY <1>7, <1>8, <1>9, <1>11, CustodyBeginInv

(* The row is filed with what the request read, the XML it stored and a    *)
(* payload that is as it was.                                              *)
LEMMA SubmitCommitInv == ASSUME CustodyInv, NEW w \in Workers, SubmitCommit(w) PROVE CustodyInv'
<1>1. CustodyTypeOK /\ PackagesSound
  BY DEF CustodyInv
<1>2. PICK i \in 1..Len(reports), read \in Report, xml \in Places \cup {None} :
        /\ i = request[w].i /\ read = request[w].read /\ xml = request[w].xml
        /\ read.custody # {}
        /\ xml = "minio" => F("xml", reports[i].n) \in files["minio"]
  BY DEF CustodyInv, SubmitCommit, HeldSound
<1>3. PICK row \in Report : row = reports[i] /\ RowKept(row)
  <2>1. reports[i] \in Report
    BY <1>1, ElementOfSeq DEF CustodyTypeOK
  <2> QED
    BY <1>1, <2>1 DEF PackagesSound
<1>4. PICK after : after = [read EXCEPT !.xml = xml, !.filed = TRUE]
  OBVIOUS
<1>5. PICK new : new = Flushed(row, read, after)
  OBVIOUS
<1>6. /\ new = [n |-> row.n, attached |-> row.attached, pdf |-> row.pdf, xml |-> new.xml,
                filed |-> new.filed, protocol |-> row.protocol, custody |-> row.custody]
      /\ new.xml \in {xml, row.xml} /\ new.filed \in BOOLEAN
  <2>1. DOMAIN row = {"n", "attached", "pdf", "xml", "filed", "protocol", "custody"}
        /\ DOMAIN read = {"n", "attached", "pdf", "xml", "filed", "protocol", "custody"}
    BY DEF Report
  <2>2. /\ after.n = read.n /\ after.attached = read.attached /\ after.pdf = read.pdf
        /\ after.protocol = read.protocol /\ after.custody = read.custody
        /\ after.xml = xml /\ after.filed = TRUE
    BY <1>4, <2>1
  <2>3. /\ DOMAIN new = {"n", "attached", "pdf", "xml", "filed", "protocol", "custody"}
        /\ new = [x \in {"n", "attached", "pdf", "xml", "filed", "protocol", "custody"} |-> new[x]]
        /\ \A x \in DOMAIN row : new[x] = IF after[x] # read[x] THEN after[x] ELSE row[x]
    BY <1>5, <2>1 DEF Flushed
  <2>4. /\ new.n = row.n /\ new.attached = row.attached /\ new.pdf = row.pdf
        /\ new.protocol = row.protocol /\ new.custody = row.custody
    BY <2>1, <2>2, <2>3
  <2>5. new.xml \in {xml, row.xml}
    BY <2>1, <2>2, <2>3
  <2>6. new.filed \in BOOLEAN
    <3>1. row.filed \in BOOLEAN
      BY DEF Report
    <3> QED
      BY <2>1, <2>2, <2>3, <3>1
  <2> QED
    BY <2>3, <2>4, <2>5, <2>6
<1>7. PICK z \in Report : z = new
  BY <1>6 DEF Report
<1>8. RowKept(z) /\ z.n = reports[i].n
  BY <1>2, <1>3, <1>6, <1>7 DEF RowKept
<1>9. reports' = [reports EXCEPT ![i] = z]
  <2>1. [new EXCEPT !.custody = new.custody] = new
    BY <1>6
  <2>2. (IF xml = None THEN new.custody ELSE PayloadWritten(row, read, "xml")) = new.custody
    BY <1>2, <1>6 DEF PayloadWritten
  <2>3. [new EXCEPT !.custody = IF xml = None THEN @ ELSE PayloadWritten(row, read, "xml")] = new
    BY <2>1, <2>2
  <2>4. reports' = [reports EXCEPT ![i] =
          [new EXCEPT !.custody = IF xml = None THEN @ ELSE PayloadWritten(row, read, "xml")]]
    BY <1>2, <1>3, <1>4, <1>5 DEF SubmitCommit
  <2> QED
    BY <1>7, <2>3, <2>4
<1>10. Ends(w) /\ request[w] # None /\ UNCHANGED <<files, altered, evidence, served, uploads>>
  BY DEF SubmitCommit, Doing
<1>11. reports' \in Seq(Report) /\ PackagesKept /\ PackagesSound'
  BY <1>8, <1>9, <1>10, PackageWritten
<1>12. CustodyTypeOK' /\ StoreKept
  BY <1>1, <1>10, <1>11, NothingChanged DEF CustodyTypeOK
<1>13. RequestInv' /\ \A v \in Workers : HeldSound(v)'
  BY <1>10, <1>11, <1>12, CustodyEnds
<1> QED
  BY <1>10, <1>11, <1>12, <1>13 DEF CustodyInv, ServedIntact

(* A package is filed by hand, or its protocol number is written.          *)
LEMMA PackageStatementInv ==
  ASSUME CustodyInv, NEW i \in 1..MaxFiles, FileManually(i) \/ RegisterProtocol(i) PROVE CustodyInv'
<1>1. /\ CustodyTypeOK /\ PackagesSound
      /\ i \in 1..Len(reports) /\ Statement /\ UNCHANGED <<files, altered, evidence, served, uploads>>
  BY DEF CustodyInv, FileManually, RegisterProtocol
<1>2. PICK row \in Report : row = reports[i] /\ RowKept(row)
  <2>1. reports[i] \in Report
    BY <1>1, ElementOfSeq DEF CustodyTypeOK
  <2> QED
    BY <1>1, <2>1 DEF PackagesSound
<1>3. row = [n |-> row.n, attached |-> row.attached, pdf |-> row.pdf, xml |-> row.xml,
             filed |-> row.filed, protocol |-> row.protocol, custody |-> row.custody]
  BY DEF Report
<1>4. PICK z \in Report : reports' = [reports EXCEPT ![i] = z] /\ RowKept(z) /\ z.n = row.n
  <2>1. CASE FileManually(i)
    <3>1. PICK z : z = [n |-> row.n, attached |-> row.attached, pdf |-> row.pdf, xml |-> row.xml,
                        filed |-> TRUE, protocol |-> row.protocol, custody |-> row.custody]
      OBVIOUS
    <3>2. z \in Report /\ RowKept(z) /\ z.n = row.n
      BY <1>2, <3>1 DEF Report, RowKept
    <3>3. [row EXCEPT !.filed = TRUE] = z
      <4>1. PICK x : x = [row EXCEPT !.filed = TRUE]
        OBVIOUS
      <4>2. x = [n |-> row.n, attached |-> row.attached, pdf |-> row.pdf, xml |-> row.xml,
                 filed |-> TRUE, protocol |-> row.protocol, custody |-> row.custody]
        BY <1>2, <4>1 DEF Report
      <4> QED
        BY <3>1, <4>1, <4>2
    <3>4. reports' = [reports EXCEPT ![i] = [row EXCEPT !.filed = TRUE]]
      BY <1>2, <2>1 DEF FileManually
    <3> QED
      BY <3>2, <3>3, <3>4
  <2>2. CASE RegisterProtocol(i)
    <3>1. PICK z : z = [n |-> row.n, attached |-> row.attached, pdf |-> row.pdf, xml |-> row.xml,
                        filed |-> row.filed, protocol |-> TRUE, custody |-> row.custody]
      OBVIOUS
    <3>2. z \in Report /\ RowKept(z) /\ z.n = row.n
      BY <1>2, <3>1 DEF Report, RowKept
    <3>3. PayloadWritten(row, row, "protocol") = row.custody
      BY <1>2 DEF PayloadWritten, RowKept
    <3>4. PICK y \in Report : /\ y = [n |-> row.n, attached |-> row.attached, pdf |-> row.pdf, xml |-> row.xml,
                                      filed |-> row.filed, protocol |-> TRUE, custody |-> row.custody]
                              /\ y = [row EXCEPT !.protocol = TRUE]
      BY <1>3, <3>1, <3>2
    <3>5. [y EXCEPT !.custody = row.custody] = z
      BY <3>1, <3>4
    <3>6. PICK s \in Seq(Report) : s = reports
      BY <1>1 DEF CustodyTypeOK
    <3>7. reports' = [s EXCEPT ![i] = [y EXCEPT !.custody = row.custody]]
      <4>1. reports' = [[s EXCEPT ![i].protocol = TRUE] EXCEPT ![i].custody = row.custody]
        BY <1>2, <2>2, <3>3, <3>6 DEF RegisterProtocol
      <4>2. [s EXCEPT ![i].protocol = TRUE] = [s EXCEPT ![i] = y]
        BY <1>2, <3>4, <3>6
      <4>3. [[s EXCEPT ![i] = y] EXCEPT ![i].custody = row.custody]
            = [s EXCEPT ![i] = [y EXCEPT !.custody = row.custody]]
        BY <1>1, <3>6
      <4> QED
        BY <4>1, <4>2, <4>3
    <3> QED
      BY <3>2, <3>5, <3>6, <3>7
  <2> QED
    BY <2>1, <2>2
<1>5. reports' \in Seq(Report) /\ PackagesKept /\ PackagesSound'
  BY <1>1, <1>2, <1>4, PackageWritten
<1>6. CustodyTypeOK' /\ StoreKept
  BY <1>1, <1>5, NothingChanged DEF CustodyTypeOK
<1>7. RequestInv' /\ \A v \in Workers : HeldSound(v)'
  BY <1>1, <1>5, <1>6, CustodyStatement
<1> QED
  BY <1>1, <1>5, <1>6, <1>7 DEF CustodyInv, ServedIntact

(* A replica restarts.                                                     *)
LEMMA RestartInv == ASSUME CustodyInv, NEW w \in Workers, Restart(w) PROVE CustodyInv'
<1> USE CustodyAssumption
<1>1. /\ calls < MaxCalls /\ calls' = calls + 1
      /\ request' = [request EXCEPT ![w] = None] /\ files' = [files EXCEPT ![w] = {}]
      /\ UNCHANGED <<crossed, altered, evidence, reports, served, uploads>>
  BY DEF Restart
<1>2. CustodyTypeOK /\ RequestInv /\ "minio" \in Places /\ w \in Places /\ w # "minio"
  BY DEF CustodyInv, Places
<1>3. /\ RequestInv' /\ request'[w] = None /\ \A v \in Workers \ {w} : request'[v] = request[v]
  <2>1. /\ DOMAIN request' = Workers /\ request'[w] = None /\ \A v \in Workers \ {w} : request'[v] = request[v]
    BY <1>1, <1>2 DEF RequestInv, RequestTypeOK
  <2>2. OneAtATime'
    BY <1>1, <1>2, <2>1 DEF RequestInv, OneAtATime
  <2>3. calls' \in Nat /\ calls' <= MaxCalls
    BY <1>1, <1>2, RequestAssumption DEF RequestInv, RequestTypeOK
  <2> QED
    BY <1>1, <1>2, <2>1, <2>2, <2>3 DEF RequestInv, RequestTypeOK
<1>4. CustodyTypeOK' /\ files'["minio"] = files["minio"]
  BY <1>1, <1>2 DEF CustodyTypeOK
<1>5. StoreKept /\ PackagesKept
  <2>1. Len(reports) \in Nat
    BY <1>2, LenProperties DEF CustodyTypeOK
  <2> QED
    BY <1>1, <1>4, <2>1 DEF StoreKept, PackagesKept
<1>6. \A v \in Workers : HeldSound(v)'
  <2>1. HeldSound(w)'
    BY <1>3 DEF HeldSound, Doing
  <2>2. \A v \in Workers \ {w} : HeldSound(v)'
    BY <1>2, <1>3, <1>4, <1>5, HeldStays DEF CustodyInv
  <2> QED
    BY <2>1, <2>2
<1>7. PackagesSound' /\ ServedIntact'
  BY <1>1, <1>5, PackagesStay DEF CustodyInv, ServedIntact
<1>8. \A i \in 1..Len(evidence') : evidence'[i] \in files'["minio"] \cup altered'
  BY <1>1, <1>4 DEF CustodyInv
<1> QED
  BY <1>3, <1>4, <1>6, <1>7, <1>8 DEF CustodyInv

(* The store alters or loses an evidence file, and is asked of it no more. *)
LEMMA StoreFailsInv == ASSUME CustodyInv, NEW f \in File, StoreFails(f) PROVE CustodyInv'
<1>1. /\ f.kind = "evidence" /\ Statement /\ altered' = altered \cup {f}
      /\ files' = [files EXCEPT !["minio"] = @ \ {f}] \/ UNCHANGED files
      /\ UNCHANGED <<evidence, reports, served, uploads>>
  BY DEF StoreFails
<1>2. CustodyTypeOK /\ "minio" \in Places
  BY DEF CustodyInv, Places
<1>3. /\ CustodyTypeOK'
      /\ files'["minio"] \in {files["minio"], files["minio"] \ {f}}
  BY <1>1, <1>2 DEF CustodyTypeOK
<1>4. StoreKept
  BY <1>1, <1>3 DEF StoreKept
<1>5. PackagesKept
  <2>1. Len(reports) \in Nat
    BY <1>2, LenProperties DEF CustodyTypeOK
  <2> QED
    BY <1>1, <2>1 DEF PackagesKept
<1>6. RequestInv' /\ \A v \in Workers : HeldSound(v)'
  BY <1>1, <1>3, <1>4, <1>5, CustodyStatement
<1>7. PackagesSound' /\ ServedIntact'
  BY <1>1, <1>4, PackagesStay DEF CustodyInv, ServedIntact
<1>8. \A i \in 1..Len(evidence') : evidence'[i] \in files'["minio"] \cup altered'
  BY <1>1, <1>4 DEF CustodyInv, StoreKept
<1> QED
  BY <1>3, <1>6, <1>7, <1>8 DEF CustodyInv

(* Every step of the custody.                                              *)
LEMMA CustodyNextInv ==
  ASSUME CustodyInv, [CustodyNext]_<<requestVars, custodyVars>>
  PROVE  CustodyInv'
<1>1. ASSUME UNCHANGED <<requestVars, custodyVars>> PROVE CustodyInv'
  <2>1. /\ UNCHANGED <<request, calls, crossed>>
        /\ UNCHANGED <<files, altered, evidence, reports, served, uploads>>
    BY <1>1 DEF requestVars, custodyVars
  <2> QED
    BY <2>1 DEF CustodyInv, RequestInv, RequestTypeOK, OneAtATime, CustodyTypeOK, PackagesSound, RowKept,
                HeldSound, Doing, ServedIntact
<1>2. ASSUME CustodyNext PROVE CustodyInv'
  <2>1. ASSUME NEW w \in Workers, UploadBegin(w) \/ UploadCommit(w) \/ GenerateBegin(w) \/ GenerateCommit(w)
        PROVE  CustodyInv'
    BY <2>1, UploadBeginInv, UploadCommitInv, GenerateBeginInv, GenerateCommitInv
  <2>2. ASSUME NEW w \in Workers, (\E i \in 1..MaxFiles : SubmitBegin(w, i)) \/ SubmitCommit(w) \/ Restart(w)
        PROVE  CustodyInv'
    BY <2>2, SubmitBeginInv, SubmitCommitInv, RestartInv
  <2>3. ASSUME NEW i \in 1..MaxFiles, DownloadEvidence(i) \/ FileManually(i) \/ RegisterProtocol(i)
        PROVE  CustodyInv'
    BY <2>3, DownloadInv, PackageStatementInv
  <2>4. ASSUME NEW f \in File, StoreFails(f) PROVE CustodyInv'
    BY <2>4, StoreFailsInv
  <2> QED
    BY <1>2, <2>1, <2>2, <2>3, <2>4 DEF CustodyNext
<1> QED
  BY <1>1, <1>2

CustodySpec == RequestInit /\ CustodyInit /\ [][CustodyNext]_<<requestVars, custodyVars>>

(* The documents of a report are there, are served as they were made, and  *)
(* the chain of custody names each: for any number of files and replicas,  *)
(* whatever restarts between storing a file and writing its row.           *)
THEOREM CustodyIsSound == CustodySpec => []CustodySound
<1>1. RequestInit /\ CustodyInit => CustodyInv
  <2> SUFFICES ASSUME RequestInit, CustodyInit PROVE CustodyInv
    OBVIOUS
  <2>1. RequestInv /\ \A w \in Workers : request[w] = None
    BY RequestsInit
  <2>2. CustodyTypeOK
    BY CustodyAssumption DEF CustodyInit, CustodyTypeOK
  <2>3. \A w \in Workers : HeldSound(w)
    BY <2>1 DEF HeldSound, Doing
  <2> QED
    BY <2>1, <2>2, <2>3 DEF CustodyInit, CustodyInv, PackagesSound, ServedIntact
<1>2. CustodyInv => CustodySound
  <2> SUFFICES ASSUME CustodyInv PROVE CustodySound
    OBVIOUS
  <2>1. RowsHaveFiles
    BY DEF CustodyInv, RowsHaveFiles, PackagesSound, RowKept
  <2>2. CustodyComplete
    <3> SUFFICES ASSUME NEW i \in 1..Len(reports)
                 PROVE  CustodyView(i) = [xml |-> reports[i].xml # None, protocol |-> reports[i].protocol]
      BY DEF CustodyComplete
    <3>1. "xml" \notin reports[i].custody /\ "protocol" \notin reports[i].custody
      BY DEF CustodyInv, PackagesSound, RowKept
    <3>2. reports[i].protocol \in BOOLEAN
      <4>1. reports[i] \in Report
        BY ElementOfSeq DEF CustodyInv, CustodyTypeOK
      <4> QED
        BY <4>1 DEF Report
    <3> QED
      BY <3>1, <3>2 DEF CustodyView
  <2> QED
    BY <2>1, <2>2 DEF CustodyInv, CustodySound
<1>3. CustodyInv /\ [CustodyNext]_<<requestVars, custodyVars>> => CustodyInv'
  BY CustodyNextInv
<1> QED
  BY <1>1, <1>2, <1>3, PTL DEF CustodySpec

-----------------------------------------------------------------------------
(* SlaMonitor: cases past their deadline.                                  *)

NoticeType == [dossier : Dossiers, kind : {"SLA_VIOLATION", "SLA_WARNING"}, at : Nat \ {0}, by : Workers]

SlaTyped ==
  /\ hour \in Nat \ {0} /\ isOpen \subseteq Dossiers /\ due \subseteq Workers
  /\ notices \subseteq NoticeType
  /\ told \in [Dossiers -> Nat] /\ \A d \in Dossiers : told[d] <= hour
  /\ DOMAIN request = Workers

(* The notifications that cases are overdue.                               *)
Violations == {n \in notices : n.kind = "SLA_VIOLATION"}

ViolationsTold == \A n \in Violations : n.at <= told[n.dossier]

(* A replica in its first phase will notify each overdue case, or found it *)
(* notified; whom it notifies had no notification in the window, but for   *)
(* those that another run of this hour has written since.                  *)
RunSound(w) ==
  request[w] # None =>
    /\ request[w].kind \in {"SLA_VIOLATION", "SLA_WARNING"}
    /\ request[w].at = hour /\ request[w].dossiers \subseteq Dossiers
    /\ request[w].kind = "SLA_VIOLATION" =>
         /\ \A d \in isOpen : DueAt[d] < hour => d \in request[w].dossiers \/ (told[d] # 0 /\ hour <= told[d] + 2)
         /\ \A n \in Violations : n.dossier \in request[w].dossiers => n.at = hour \/ n.at + 2 <= hour

(* The last hour in which a run wrote its notifications: whatever failed   *)
(* since, failed for a pair of then, which is in the window for two hours. *)
LookedAt(h) ==
  /\ \A n \in Violations : n.at <= h
  /\ \A d \in isOpen : DueAt[d] < h => told[d] # 0 /\ h <= told[d] + 2
  /\ \/ hour <= h + 2
     \/ /\ hour <= h + 3
        /\ due # {} \/ \E w \in Workers : request[w] # None /\ request[w].kind = "SLA_VIOLATION"

SlaInv ==
  /\ SlaTyped /\ ViolationsTold /\ DuplicatesOfOneHour
  /\ \A w \in Workers : RunSound(w)
  /\ \E h \in 0..hour : LookedAt(h)

(* What Recent looks for is of the last two hours.                         *)
LEMMA RecentViolations ==
  ASSUME SlaTyped, NEW d, NEW edge \in BOOLEAN
  PROVE  /\ \A n \in Recent(d, "SLA_VIOLATION", edge) : n \in Violations /\ n.dossier = d /\ hour <= n.at + 2
         /\ \A n \in Violations : n.dossier = d /\ n \notin Recent(d, "SLA_VIOLATION", edge) => n.at + 2 <= hour
<1>1. Window["SLA_VIOLATION"] = 2
  BY DEF Window
<1>2. \A n \in notices : n.at \in Nat \ {0}
  BY DEF SlaTyped, NoticeType
<1> QED
  BY <1>1, <1>2 DEF Recent, Violations, SlaTyped

(* A run that fails found two.                                             *)
LEMMA RaisesFindsOne ==
  ASSUME SlaTyped, NEW set, NEW edge \in BOOLEAN, Raises(set, "SLA_VIOLATION", edge)
  PROVE  \E n \in Violations : hour <= n.at + 2
<1>1. PICK d \in set : Cardinality(Recent(d, "SLA_VIOLATION", edge)) > 1
  BY DEF Raises
<1>2. Recent(d, "SLA_VIOLATION", edge) # {}
  <2>1. SUFFICES ASSUME Recent(d, "SLA_VIOLATION", edge) = {} PROVE FALSE
    OBVIOUS
  <2> QED
    BY <1>1, <2>1, FS_EmptySet
<1> QED
  BY <1>2, RecentViolations

(* A replica reads what it will notify of cases that are overdue.          *)
LEMMA SlaBeginInv == ASSUME SlaInv, NEW w \in Workers, SlaBegin(w) PROVE SlaInv'
<1>1. PICK edge \in BOOLEAN :
        IF Raises(Overdue, "SLA_VIOLATION", edge)
        THEN failed' = TRUE /\ UNCHANGED request
        ELSE /\ request' = [request EXCEPT ![w] = Phase(w, "SLA_VIOLATION", Overdue, edge)]
             /\ UNCHANGED failed
  BY DEF SlaBegin
<1>2. /\ due' = due \ {w} /\ request[w] = None /\ UNCHANGED <<hour, isOpen, notices, told>>
  BY DEF SlaBegin
<1>3. SlaTyped /\ Violations' = Violations
  BY <1>2 DEF SlaInv, Violations
<1>4. PICK h \in 0..hour : LookedAt(h)
  BY DEF SlaInv
<1>5. CASE Raises(Overdue, "SLA_VIOLATION", edge)
  <2>1. UNCHANGED request
    BY <1>1, <1>5
  <2>2. PICK n \in Violations : hour <= n.at + 2
    BY <1>3, <1>5, RaisesFindsOne
  <2>3. n.at \in Nat \ {0} /\ n.at <= h
    BY <1>3, <1>4 DEF LookedAt, SlaTyped, NoticeType, Violations
  <2>4. hour <= h + 2
    BY <1>3, <2>2, <2>3 DEF SlaTyped
  <2>5. LookedAt(h)'
    BY <1>2, <1>3, <1>4, <2>4 DEF LookedAt
  <2>6. SlaTyped' /\ ViolationsTold' /\ DuplicatesOfOneHour'
    BY <1>2, <1>3, <2>1 DEF SlaInv, SlaTyped, ViolationsTold, DuplicatesOfOneHour
  <2>7. \A v \in Workers : RunSound(v)'
    BY <1>2, <1>3, <2>1 DEF SlaInv, RunSound
  <2> QED
    BY <1>2, <1>4, <2>5, <2>6, <2>7 DEF SlaInv
<1>6. CASE ~Raises(Overdue, "SLA_VIOLATION", edge)
  <2>1. PICK r : r = Phase(w, "SLA_VIOLATION", Overdue, edge)
    OBVIOUS
  <2>2. r.kind = "SLA_VIOLATION" /\ r.at = hour /\ r.dossiers = ToTell(Overdue, "SLA_VIOLATION", edge)
    BY <2>1 DEF Phase
  <2>3. /\ request'[w] = r /\ \A v \in Workers \ {w} : request'[v] = request[v]
        /\ DOMAIN request' = Workers
    BY <1>1, <1>3, <1>6, <2>1 DEF SlaTyped
  <2>4. RunSound(w)'
    <3>1. r.dossiers \subseteq Dossiers
      BY <1>3, <2>2 DEF ToTell, Overdue, SlaTyped
    <3>2. ASSUME NEW d \in isOpen, DueAt[d] < hour, d \notin r.dossiers PROVE told[d] # 0 /\ hour <= told[d] + 2
      <4>1. PICK n \in Recent(d, "SLA_VIOLATION", edge) : TRUE
        BY <2>2, <3>2 DEF ToTell, Overdue
      <4>2. n \in Violations /\ n.dossier = d /\ hour <= n.at + 2
        BY <1>3, <4>1, RecentViolations
      <4>3. n.at <= told[d] /\ n.at \in Nat \ {0} /\ told[d] \in Nat
        BY <1>3, <4>2 DEF SlaInv, ViolationsTold, SlaTyped, NoticeType, Violations
      <4> QED
        BY <1>3, <4>2, <4>3 DEF SlaTyped
    <3>3. ASSUME NEW n \in Violations, n.dossier \in r.dossiers PROVE n.at + 2 <= hour
      BY <1>3, <2>2, <3>3, RecentViolations DEF ToTell
    <3>4. \A d \in isOpen : DueAt[d] < hour => d \in r.dossiers \/ (told[d] # 0 /\ hour <= told[d] + 2)
      BY <3>2
    <3>5. \A n \in Violations : n.dossier \in r.dossiers => n.at = hour \/ n.at + 2 <= hour
      BY <3>3
    <3> QED
      BY <1>2, <1>3, <2>2, <2>3, <3>1, <3>4, <3>5 DEF RunSound
  <2>5. r # None
    <3>1. PICK D : D = ToTell(Overdue, "SLA_VIOLATION", edge)
      OBVIOUS
    <3>2. D \subseteq Dossiers /\ hour \in Nat
      BY <1>3, <3>1 DEF ToTell, Overdue, SlaTyped
    <3>3. r = [op |-> "sla", kind |-> "SLA_VIOLATION", at |-> hour, dossiers |-> D, edge |-> edge]
      BY <2>1, <3>1 DEF Phase
    <3> QED
      BY <3>2, <3>3, SlaAssumption
  <2>6. \A v \in Workers \ {w} : RunSound(v)'
    BY <1>2, <1>3, <2>3 DEF SlaInv, RunSound
  <2>7. SlaTyped' /\ ViolationsTold' /\ DuplicatesOfOneHour'
    BY <1>2, <1>3, <2>3 DEF SlaInv, SlaTyped, ViolationsTold, DuplicatesOfOneHour
  <2>8. LookedAt(h)'
    <3>1. request'[w] # None /\ request'[w].kind = "SLA_VIOLATION" /\ hour <= h + 3
      BY <1>3, <1>4, <2>2, <2>3, <2>5 DEF LookedAt, SlaTyped
    <3> QED
      BY <1>2, <1>3, <1>4, <3>1 DEF LookedAt
  <2> QED
    BY <1>2, <1>4, <2>4, <2>6, <2>7, <2>8 DEF SlaInv
<1> QED
  BY <1>5, <1>6

(* What a run notifies is of this hour.                                    *)
LEMMA NoticesNew ==
  ASSUME SlaInv, NEW w \in Workers, Doing(w, "sla")
  PROVE  /\ Notices(w) \subseteq NoticeType
         /\ \A n \in Notices(w) :
              n.dossier \in request[w].dossiers /\ n.kind = request[w].kind /\ n.at = hour
<1>1. RunSound(w) /\ request[w] # None /\ hour \in Nat \ {0}
  BY DEF SlaInv, SlaTyped, Doing
<1>2. ASSUME NEW n \in Notices(w)
      PROVE  /\ n \in NoticeType /\ n.dossier \in request[w].dossiers
             /\ n.kind = request[w].kind /\ n.at = hour
  <2>1. PICK d \in request[w].dossiers :
          n = [dossier |-> d, kind |-> request[w].kind, at |-> request[w].at, by |-> w]
    BY DEF Notices
  <2> QED
    BY <1>1, <2>1 DEF RunSound, NoticeType
<1> QED
  BY <1>2

(* The cases overdue are notified; the run goes on to those about to be,   *)
(* or ends.                                                                *)
LEMMA SlaCommitInv == ASSUME SlaInv, NEW w \in Workers, SlaCommit(w) PROVE SlaInv'
<1>1. /\ SlaTyped /\ ViolationsTold /\ DuplicatesOfOneHour /\ RunSound(w) /\ \A v \in Workers : RunSound(v)
      /\ Doing(w, "sla") /\ request[w] # None /\ request[w].kind = "SLA_VIOLATION"
      /\ notices' = notices \cup Notices(w)
      /\ told' = [d \in Dossiers |-> IF d \in request[w].dossiers THEN request[w].at ELSE told[d]]
      /\ UNCHANGED <<hour, isOpen, due>>
  BY DEF SlaInv, SlaCommit, Doing
<1>2. PICK D \in SUBSET Dossiers : D = request[w].dossiers
  BY <1>1 DEF RunSound
<1>3. PICK x \in Nat \ {0} : x = hour
  BY <1>1 DEF SlaTyped
<1>4. /\ request[w].at = x /\ told' = [d \in Dossiers |-> IF d \in D THEN x ELSE told[d]]
      /\ \A n \in Notices(w) : n \in NoticeType /\ n.dossier \in D /\ n.kind = "SLA_VIOLATION" /\ n.at = x
  BY <1>1, <1>2, <1>3, NoticesNew DEF RunSound
<1>5. PICK r : /\ request' = [request EXCEPT ![w] = r]
               /\ r # None => r.kind = "SLA_WARNING" /\ r.at = x /\ r.dossiers \subseteq Dossiers
  <2>1. CASE Raises(Approaching, "SLA_WARNING", request[w].edge)
    BY <1>1, <2>1 DEF SlaCommit
  <2>2. CASE ~Raises(Approaching, "SLA_WARNING", request[w].edge)
    <3>1. PICK r : r = Phase(w, "SLA_WARNING", Approaching, request[w].edge)
      OBVIOUS
    <3>2. r.kind = "SLA_WARNING" /\ r.at = x /\ r.dossiers \subseteq Dossiers
      BY <1>1, <1>3, <3>1 DEF Phase, ToTell, Approaching, SlaTyped
    <3>3. request' = [request EXCEPT ![w] = r]
      BY <2>2, <3>1 DEF SlaCommit
    <3> QED
      BY <3>2, <3>3
  <2> QED
    BY <2>1, <2>2
<1>6. request'[w] = r /\ DOMAIN request' = Workers /\ \A v \in Workers \ {w} : request'[v] = request[v]
  BY <1>1, <1>5 DEF SlaTyped
<1>7. \A d \in Dossiers : told'[d] \in Nat /\ told[d] \in Nat /\ told[d] <= told'[d] /\ told'[d] <= x
  BY <1>1, <1>3, <1>4 DEF SlaTyped
<1>8. SlaTyped'
  BY <1>1, <1>3, <1>4, <1>6, <1>7 DEF SlaTyped
<1>9. Violations' = Violations \cup Notices(w) /\ Violations \subseteq NoticeType
  BY <1>1, <1>4 DEF Violations, SlaTyped
<1>10. ViolationsTold'
  <2>1. ASSUME NEW n \in Violations' PROVE n.at <= told'[n.dossier]
    <3>1. n.dossier \in Dossiers /\ n.at \in Nat \ {0}
      BY <1>4, <1>9 DEF NoticeType
    <3>2. CASE n \in Violations
      <4>1. n.at <= told[n.dossier]
        BY <1>1, <3>2 DEF ViolationsTold
      <4> QED
        BY <1>7, <3>1, <4>1
    <3>3. CASE n \in Notices(w)
      BY <1>3, <1>4, <3>1, <3>3
    <3> QED
      BY <1>9, <3>2, <3>3
  <2> QED
    BY <2>1 DEF ViolationsTold
<1>11. \A n \in Violations : n.dossier \in D => n.at = x \/ n.at + 2 <= x
  BY <1>1, <1>2, <1>3 DEF RunSound
<1>12. DuplicatesOfOneHour'
  <2>1. ASSUME NEW n \in Violations', NEW m \in Violations', n # m, n.dossier = m.dossier
        PROVE  n.at = m.at \/ n.at - m.at >= 2 \/ m.at - n.at >= 2
    <3>1. n.at \in Nat \ {0} /\ m.at \in Nat
      BY <1>4, <1>9 DEF NoticeType
    <3>2. CASE n \in Violations /\ m \in Violations
      BY <1>1, <2>1, <3>2 DEF DuplicatesOfOneHour, Violations
    <3>3. CASE n \in Notices(w) /\ m \in Notices(w)
      BY <1>4, <3>3
    <3>4. CASE n \in Violations /\ m \in Notices(w)
      BY <1>3, <1>4, <1>11, <2>1, <3>1, <3>4
    <3>5. CASE n \in Notices(w) /\ m \in Violations
      BY <1>3, <1>4, <1>11, <2>1, <3>1, <3>5
    <3> QED
      BY <1>9, <3>2, <3>3, <3>4, <3>5
  <2> QED
    BY <2>1 DEF DuplicatesOfOneHour, Violations
<1>13. RunSound(w)'
  BY <1>1, <1>3, <1>5, <1>6 DEF RunSound
<1>14. ASSUME NEW v \in Workers \ {w} PROVE RunSound(v)'
  <2>1. PICK q : q = request[v]
    OBVIOUS
  <2>2. request'[v] = q /\ (q # None =>
          /\ q.kind \in {"SLA_VIOLATION", "SLA_WARNING"} /\ q.at = x /\ q.dossiers \subseteq Dossiers
          /\ q.kind = "SLA_VIOLATION" =>
               /\ \A d \in isOpen : DueAt[d] < x => d \in q.dossiers \/ (told[d] # 0 /\ x <= told[d] + 2)
               /\ \A n \in Violations : n.dossier \in q.dossiers => n.at = x \/ n.at + 2 <= x)
    BY <1>1, <1>3, <1>6, <2>1 DEF RunSound
  <2>3. \A d \in isOpen : told[d] # 0 /\ x <= told[d] + 2 => told'[d] # 0 /\ x <= told'[d] + 2
    BY <1>1, <1>3, <1>7 DEF SlaTyped
  <2>4. \A n \in Notices(w) : n.at = x
    BY <1>4
  <2> QED
    BY <1>1, <1>3, <1>9, <2>2, <2>3, <2>4 DEF RunSound
<1>15. LookedAt(x)'
  <2>1. ASSUME NEW n \in Violations' PROVE n.at <= x
    <3>1. CASE n \in Violations
      <4>1. n.at <= told[n.dossier] /\ n.dossier \in Dossiers /\ n.at \in Nat \ {0}
        BY <1>1, <1>9, <3>1 DEF ViolationsTold, NoticeType
      <4> QED
        BY <1>3, <1>7, <4>1
    <3> QED
      BY <1>3, <1>4, <1>9, <3>1
  <2>2. ASSUME NEW d \in isOpen, DueAt[d] < x PROVE told'[d] # 0 /\ x <= told'[d] + 2
    <3>1. d \in Dossiers /\ (d \in D \/ (told[d] # 0 /\ x <= told[d] + 2))
      BY <1>1, <1>2, <1>3, <2>2 DEF RunSound, SlaTyped
    <3> QED
      BY <1>3, <1>4, <1>7, <3>1
  <2> QED
    BY <1>1, <1>3, <2>1, <2>2 DEF LookedAt
<1> QED
  BY <1>1, <1>3, <1>8, <1>10, <1>12, <1>13, <1>14, <1>15 DEF SlaInv

(* A run ends with the cases about to be overdue.                          *)
LEMMA WarningCommitInv == ASSUME SlaInv, NEW w \in Workers, WarningCommit(w) PROVE SlaInv'
<1>1. /\ SlaTyped /\ Doing(w, "sla") /\ request[w].kind = "SLA_WARNING"
      /\ notices' = notices \cup Notices(w) /\ request' = [request EXCEPT ![w] = None]
      /\ UNCHANGED <<hour, isOpen, due, told>>
  BY DEF SlaInv, WarningCommit, Ends, GoesOn
<1>2. /\ Notices(w) \subseteq NoticeType /\ Violations' = Violations
  BY <1>1, NoticesNew DEF Violations
<1>3. /\ DOMAIN request' = Workers /\ request'[w] = None
      /\ \A v \in Workers \ {w} : request'[v] = request[v]
  BY <1>1 DEF SlaTyped
<1>4. SlaTyped' /\ ViolationsTold'
  BY <1>1, <1>2, <1>3 DEF SlaInv, SlaTyped, ViolationsTold
<1>5. DuplicatesOfOneHour'
  <2>1. \A n \in notices' : n.kind = "SLA_VIOLATION" => n \in Violations
    BY <1>2 DEF Violations
  <2> QED
    BY <2>1 DEF SlaInv, DuplicatesOfOneHour, Violations
<1>6. \A v \in Workers : RunSound(v)'
  BY <1>1, <1>2, <1>3 DEF SlaInv, RunSound
<1>7. PICK h \in 0..hour : LookedAt(h)
  BY DEF SlaInv
<1>8. LookedAt(h)'
  <2>1. ASSUME NEW v \in Workers, request[v] # None, request[v].kind = "SLA_VIOLATION"
        PROVE  request'[v] # None /\ request'[v].kind = "SLA_VIOLATION"
    BY <1>1, <1>3, <2>1
  <2> QED
    BY <1>1, <1>2, <1>7, <2>1 DEF LookedAt
<1> QED
  BY <1>1, <1>4, <1>5, <1>6, <1>7, <1>8 DEF SlaInv

(* Another hour: the last run that wrote was two hours ago at most.        *)
LEMMA NextHourInv == ASSUME SlaInv, NextHour PROVE SlaInv'
<1>1. /\ SlaTyped /\ due = {} /\ (\A w \in Workers : request[w] = None)
      /\ hour' = hour + 1 /\ due' = Workers /\ notices' = {n \in notices : n.at >= hour - 1}
      /\ UNCHANGED <<request, isOpen, told>>
  BY DEF SlaInv, NextHour, UnderWay, requestVars
<1>2. PICK h \in 0..hour : LookedAt(h)
  BY DEF SlaInv
<1>3. hour \in Nat /\ h \in Nat /\ hour <= h + 2 /\ h \in 0..(hour + 1) /\ hour + 1 <= h + 3
  BY <1>1, <1>2 DEF LookedAt, SlaTyped
<1>4. Violations' \subseteq Violations /\ notices' \subseteq notices
  BY <1>1 DEF Violations
<1>5. SlaTyped'
  BY <1>1, <1>4 DEF SlaTyped
<1>6. ViolationsTold' /\ DuplicatesOfOneHour'
  BY <1>1, <1>4 DEF SlaInv, ViolationsTold, DuplicatesOfOneHour
<1>7. \A w \in Workers : RunSound(w)'
  BY <1>1 DEF RunSound
<1>8. LookedAt(h)'
  BY <1>1, <1>2, <1>3, <1>4, SlaAssumption DEF LookedAt
<1> QED
  BY <1>1, <1>3, <1>5, <1>6, <1>7, <1>8 DEF SlaInv

(* A replica that misses its run, and a case that is closed.               *)
LEMMA SlaOthersInv ==
  ASSUME SlaInv, (\E w \in Workers : Missed(w)) \/ (\E d \in Dossiers : Closed(d))
                   \/ UNCHANGED <<requestVars, slaVars>>
  PROVE  SlaInv'
<1>1. /\ UNCHANGED <<request, hour, notices, told>> /\ isOpen' \subseteq isOpen
      /\ due' \subseteq due /\ (due # {} => due' # {})
  BY DEF Missed, Closed, requestVars, slaVars
<1>2. Violations' = Violations
  BY <1>1 DEF Violations
<1>3. SlaTyped' /\ ViolationsTold' /\ DuplicatesOfOneHour'
  BY <1>1, <1>2 DEF SlaInv, SlaTyped, ViolationsTold, DuplicatesOfOneHour
<1>4. \A w \in Workers : RunSound(w)'
  BY <1>1, <1>2 DEF SlaInv, RunSound
<1>5. \A h \in 0..hour : LookedAt(h) => LookedAt(h)'
  BY <1>1, <1>2 DEF LookedAt
<1> QED
  BY <1>1, <1>3, <1>4, <1>5 DEF SlaInv

SlaSpec == RequestInit /\ SlaInit /\ [][SlaNext]_<<requestVars, slaVars>>

(* An overdue case is notified in time and again, and twice by runs of one *)
(* hour only: for any number of replicas and cases and whenever they are   *)
(* due, whichever replicas are down, as long as one runs the job.          *)
THEOREM OverdueIsTold == SlaSpec => []OverdueTold
<1> DEFINE AnInv == SlaInv /\ failed \in BOOLEAN
<1>1. RequestInit /\ SlaInit => AnInv
  <2> SUFFICES ASSUME RequestInit, SlaInit PROVE AnInv
    OBVIOUS
  <2>1. SlaTyped /\ hour = 1 /\ isOpen = Dossiers /\ notices = {} /\ due = Workers
    BY DEF RequestInit, SlaInit, SlaTyped
  <2>2. \A w \in Workers : RunSound(w)
    BY DEF RequestInit, RunSound
  <2>3. Violations = {}
    BY <2>1 DEF Violations
  <2>4. LookedAt(0)
    BY <2>1, <2>3, SlaAssumption DEF LookedAt, SlaTyped
  <2> QED
    <3>1. SlaInv
      BY <2>1, <2>2, <2>3, <2>4 DEF SlaInv, ViolationsTold, DuplicatesOfOneHour
    <3>2. failed \in BOOLEAN
      BY DEF SlaInit
    <3> QED
      BY <3>1, <3>2
<1>2. AnInv /\ [SlaNext]_<<requestVars, slaVars>> => AnInv'
  <2> SUFFICES ASSUME AnInv, [SlaNext]_<<requestVars, slaVars>> PROVE AnInv'
    OBVIOUS
  <2>1. SlaInv'
    BY SlaBeginInv, SlaCommitInv, WarningCommitInv, NextHourInv, SlaOthersInv DEF SlaNext
  <2>2. failed' \in {failed, TRUE}
    BY DEF SlaNext, SlaBegin, SlaCommit, WarningCommit, Missed, NextHour, Closed, slaVars
  <2> QED
    BY <2>1, <2>2
<1>3. AnInv => OverdueTold
  <2> SUFFICES ASSUME AnInv PROVE OverdueTold
    OBVIOUS
  <2>1. PICK h \in 0..hour : LookedAt(h)
    BY DEF SlaInv
  <2>2. ASSUME due = {}, UnderWay = {}, NEW d \in Overdue
        PROVE  (told[d] # 0 /\ hour - told[d] <= 4) \/ hour - DueAt[d] <= 2
    <3>1. hour \in Nat /\ h \in Nat /\ d \in isOpen /\ d \in Dossiers /\ told[d] \in Nat /\ DueAt[d] \in Nat
      BY SlaAssumption DEF SlaInv, SlaTyped, Overdue
    <3>2. hour <= h + 2
      BY <2>1, <2>2 DEF LookedAt, UnderWay
    <3>3. DueAt[d] < h => told[d] # 0 /\ h <= told[d] + 2
      BY <2>1, <3>1 DEF LookedAt
    <3> QED
      BY <3>1, <3>2, <3>3
  <2>3. NobodyForgotten
    BY <2>2, SlaAssumption DEF NobodyForgotten, Overdue, SlaInv, SlaTyped
  <2>4. SlaTypeOK
    <3>1. told \in [Dossiers -> 0..hour]
      BY DEF SlaInv, SlaTyped
    <3>2. notices \subseteq [dossier : Dossiers, kind : DOMAIN Window, at : Nat \ {0}, by : Workers]
      BY DEF SlaInv, SlaTyped, NoticeType, Window
    <3> QED
      BY <3>1, <3>2 DEF SlaTypeOK, SlaInv, SlaTyped
  <2> QED
    BY <2>3, <2>4 DEF SlaInv, OverdueTold
<1> QED
  BY <1>1, <1>2, <1>3, PTL DEF SlaSpec

-----------------------------------------------------------------------------
(* AlertDesk: labels and training.                                         *)

DeskRow == [status : AlertStatuses, label : Labels \cup {None}]
LabelRow == [alert : DeskAlerts, label : Labels]
Task == [n : Nat, ts : Nat, fails : Nat]
LabelRecord == [n : Nat, ts : Nat]

RowsTyped == desk \in [DeskAlerts -> DeskRow] /\ audited \in [DeskAlerts -> AlertStatuses]

LabelsTyped ==
  /\ labelled \in Seq(LabelRow) /\ clock \in Nat
  /\ feedback \subseteq Task /\ \A t \in feedback : t.n \in LabelIds /\ t.ts <= clock
  /\ topic \in Seq(LabelRecord)
  /\ \A i \in 1..Len(topic) : topic[i].n \in LabelIds /\ topic[i].ts \in 1..clock
  /\ notified \subseteq LabelIds /\ lost \subseteq LabelIds

Published(n) == \E i \in 1..Len(topic) : topic[i].n = n
Pending(n) == \E t \in feedback : t.n = n

(* A label is in one place, in one task if that is where it is.            *)
Accounted ==
  /\ \A n \in LabelIds : Published(n) \/ Pending(n) \/ n \in notified \cup lost
  /\ \A n \in LabelIds : Published(n) => ~Pending(n) /\ n \notin notified \cup lost
  /\ \A n \in LabelIds : Pending(n) => n \notin notified \cup lost
  /\ \A t, u \in feedback : t.n = u.n => t = u

(* The times that tasks have taken, with those they published.             *)
Taken(n, x) ==
  \/ \E i \in 1..Len(topic) : topic[i].n = n /\ topic[i].ts = x
  \/ \E t \in feedback : t.n = n /\ t.ts = x /\ x # 0

(* They are in the order of the labels.                                    *)
TakenInOrder ==
  \A n, m \in LabelIds, x, y \in 1..clock :
    /\ labelled[n].alert \notin mixed /\ labelled[m].alert = labelled[n].alert
    /\ n < m /\ Taken(n, x) /\ Taken(m, y)
    => x < y

LabelsUnder(a) == {w \in Workers : Doing(w, "label") /\ request[w].alert = a}

(* A task that has not begun is of the last label, and no other is coming. *)
UnstartedIsLast ==
  \A t \in feedback :
    t.ts = 0 /\ labelled[t.n].alert \notin mixed =>
      /\ \A m \in LabelIds : labelled[m].alert = labelled[t.n].alert => m <= t.n
      /\ LabelsUnder(labelled[t.n].alert) = {}

(* The row has the last label.                                             *)
LastLabelKept ==
  \A n \in LabelIds :
    /\ labelled[n].alert \notin mixed
    /\ \A m \in LabelIds : labelled[m].alert = labelled[n].alert => m <= n
    => desk[labelled[n].alert].label = labelled[n].label

(* What a request has read is still so, of all columns if it is alone, of  *)
(* the label if no other request labels the alert.                         *)
DeskHeld(w) ==
  /\ request[w] # None => request[w].op \in {"triage", "close", "label"}
  /\ Doing(w, "triage") \/ Doing(w, "close") =>
       /\ DOMAIN request[w].rows \subseteq DeskAlerts
       /\ \A a \in DOMAIN request[w].rows :
            request[w].rows[a] \in DeskRow /\ (~crossed => request[w].rows[a] = desk[a])
  /\ Doing(w, "triage") => request[w].to \in Verdicts
  /\ Doing(w, "label") =>
       /\ request[w].alert \in DeskAlerts /\ request[w].label \in Labels /\ request[w].row \in DeskRow
       /\ request[w].alert \notin mixed =>
            /\ request[w].row.label = desk[request[w].alert].label
            /\ LabelsUnder(request[w].alert) = {w}

DeskInv ==
  /\ RequestInv /\ RowsTyped /\ LabelsTyped
  /\ Accounted /\ TakenInOrder /\ UnstartedIsLast /\ LastLabelKept /\ StatusAudited
  /\ \A w \in Workers : DeskHeld(w)

(* What the topic and the row tell once the last label is published.       *)
LEMMA LastIsNewest == ASSUME DeskInv PROVE NewestLabelTold
<1> SUFFICES ASSUME NEW a \in DeskAlerts \ mixed,
                    NEW i \in 1..Len(topic), labelled[topic[i].n].alert = a,
                    \A n \in LabelIds : labelled[n].alert = a =>
                       \E j \in 1..Len(topic) : labelled[topic[j].n].alert = a /\ topic[j].n = n,
                    \A j \in 1..Len(topic) : labelled[topic[j].n].alert = a => topic[j].ts <= topic[i].ts
             PROVE  labelled[topic[i].n].label = desk[a].label
  BY DEF NewestLabelTold
<1>1. Len(labelled) \in Nat /\ LabelIds = 1..Len(labelled)
  BY LenProperties DEF DeskInv, LabelsTyped, LabelIds
<1> DEFINE Own == {n \in LabelIds : labelled[n].alert = a}
<1>2. topic[i].n \in Own /\ Own \subseteq Nat /\ \A n \in Own : n <= Len(labelled)
  BY <1>1 DEF DeskInv, LabelsTyped
<1>3. PICK n \in Own : \A m \in Own : m <= n
  <2> HIDE DEF Own
  <2> QED
    BY <1>1, <1>2, GreatestExists
<1>4. PICK j \in 1..Len(topic) : topic[j].n = n /\ topic[j].ts <= topic[i].ts
  BY <1>3
<1>5. /\ topic[i].ts \in 1..clock /\ topic[j].ts \in 1..clock /\ topic[i].n \in LabelIds /\ clock \in Nat
      /\ Taken(topic[i].n, topic[i].ts) /\ Taken(n, topic[j].ts)
  BY <1>4 DEF DeskInv, LabelsTyped, Taken
<1>6. ~(topic[i].n < n)
  <2>1. topic[i].n < n => topic[i].ts < topic[j].ts
    BY <1>2, <1>3, <1>5 DEF DeskInv, TakenInOrder
  <2> QED
    BY <1>4, <1>5, <2>1
<1>7. topic[i].n = n
  BY <1>1, <1>2, <1>3, <1>6
<1> QED
  BY <1>1, <1>3, <1>7 DEF DeskInv, LastLabelKept

(* A request that begins changes no row and no task.                       *)
LEMMA DeskBegin ==
  ASSUME DeskInv, NEW w \in Workers, NEW r, Begin(w, r),
         UNCHANGED <<desk, audited, labelled, feedback, clock, topic, notified, lost>>,
         mixed \subseteq mixed'
  PROVE  /\ RequestInv' /\ RowsTyped' /\ LabelsTyped' /\ Accounted' /\ TakenInOrder'
         /\ LastLabelKept' /\ StatusAudited'
<1>1. RequestInv' /\ (~crossed' => ~crossed)
  BY BeginStep DEF DeskInv
<1>2. RowsTyped' /\ LabelsTyped' /\ Accounted'
  BY DEF DeskInv, RowsTyped, LabelsTyped, Accounted, LabelIds, Published, Pending
<1>3. TakenInOrder' /\ LastLabelKept'
  BY DEF DeskInv, TakenInOrder, LastLabelKept, Taken, LabelIds
<1> QED
  BY <1>1, <1>2, <1>3 DEF DeskInv, StatusAudited

(* Statuses are read to be changed.                                        *)
LEMMA StatusBeginInv ==
  ASSUME DeskInv, NEW w \in Workers,
         \/ \E set \in SUBSET DeskAlerts, d \in Verdicts : TriageBegin(w, set, d)
         \/ \E a \in DeskAlerts : CloseBegin(w, a)
  PROVE  DeskInv'
<1>1. PICK r : /\ Begin(w, r) /\ UNCHANGED deskVars
               /\ r.op \in {"triage", "close"} /\ (r.op = "triage" => r.to \in Verdicts)
               /\ DOMAIN r.rows \subseteq DeskAlerts /\ \A a \in DOMAIN r.rows : r.rows[a] = desk[a]
  <2>1. CASE \E set \in SUBSET DeskAlerts, d \in Verdicts : TriageBegin(w, set, d)
    <3>1. PICK set \in SUBSET DeskAlerts, d \in Verdicts : TriageBegin(w, set, d)
      BY <2>1
    <3>2. PICK r : r = [op |-> "triage", rows |-> [a \in set |-> desk[a]], to |-> d]
      OBVIOUS
    <3> QED
      BY <3>1, <3>2 DEF TriageBegin
  <2>2. CASE \E a \in DeskAlerts : CloseBegin(w, a)
    <3>1. PICK a \in DeskAlerts : CloseBegin(w, a)
      BY <2>2
    <3>2. PICK r : r = [op |-> "close", rows |-> [b \in {a} |-> desk[b]]]
      OBVIOUS
    <3> QED
      BY <3>1, <3>2 DEF CloseBegin
  <2> QED
    BY <2>1, <2>2
<1>2. /\ UNCHANGED <<desk, audited, labelled, feedback, clock, topic, notified, lost, mixed>>
      /\ request'[w] = r /\ \A v \in Workers \ {w} : request'[v] = request[v]
      /\ ~crossed' => ~crossed
  BY <1>1, BeginStep DEF DeskInv, deskVars
<1>3. /\ RequestInv' /\ RowsTyped' /\ LabelsTyped' /\ Accounted' /\ TakenInOrder'
      /\ LastLabelKept' /\ StatusAudited'
  BY <1>1, <1>2, DeskBegin
<1>4. \A a : LabelsUnder(a)' = LabelsUnder(a)
  <2>1. ~Doing(w, "label") /\ ~Doing(w, "label")'
    BY <1>1, <1>2 DEF Doing, Begin
  <2> QED
    BY <1>2, <2>1 DEF LabelsUnder, Doing
<1>5. UnstartedIsLast'
  BY <1>2, <1>4 DEF DeskInv, UnstartedIsLast, LabelIds
<1>6. DeskHeld(w)'
  <2>1. \A a \in DOMAIN r.rows : r.rows[a] \in DeskRow
    BY <1>1 DEF DeskInv, RowsTyped
  <2> QED
    BY <1>1, <1>2, <2>1 DEF DeskHeld, Doing
<1>7. \A v \in Workers \ {w} : DeskHeld(v)'
  BY <1>2, <1>4 DEF DeskInv, DeskHeld, Doing
<1> QED
  BY <1>3, <1>5, <1>6, <1>7 DEF DeskInv

(* An alert is read to be labelled.                                        *)
LEMMA LabelBeginInv ==
  ASSUME DeskInv, NEW w \in Workers, NEW a \in DeskAlerts, NEW l \in Labels, LabelBegin(w, a, l)
  PROVE  DeskInv'
<1>1. PICK r : r = [op |-> "label", alert |-> a, row |-> desk[a], label |-> l]
  OBVIOUS
<1>2. /\ Begin(w, r)
      /\ mixed' = IF Unstarted(a) # {} \/ Labelling(a) # {} THEN mixed \cup {a} ELSE mixed
      /\ UNCHANGED <<desk, audited, labelled, feedback, clock, topic, notified, lost>>
  BY <1>1 DEF LabelBegin
<1>3. /\ request[w] = None /\ request'[w] = r /\ \A v \in Workers \ {w} : request'[v] = request[v]
      /\ ~crossed' => ~crossed
  BY <1>2, BeginStep DEF DeskInv, Begin
<1>4. /\ RequestInv' /\ RowsTyped' /\ LabelsTyped' /\ Accounted' /\ TakenInOrder'
      /\ LastLabelKept' /\ StatusAudited'
  BY <1>2, DeskBegin
<1>5. \A b \in DeskAlerts : b # a => LabelsUnder(b)' = LabelsUnder(b)
  BY <1>1, <1>3 DEF LabelsUnder, Doing
<1>6. a \notin mixed' => Unstarted(a) = {} /\ LabelsUnder(a) = {} /\ LabelsUnder(a)' \subseteq {w}
  BY <1>2, <1>3 DEF LabelsUnder, Doing, Labelling, UnderWay
<1>7. UnstartedIsLast'
  <2>1. ASSUME NEW t \in feedback, t.ts = 0, labelled[t.n].alert \notin mixed'
        PROVE  /\ \A m \in LabelIds : labelled[m].alert = labelled[t.n].alert => m <= t.n
               /\ LabelsUnder(labelled[t.n].alert)' = {}
    <3>1. PICK b \in DeskAlerts : b = labelled[t.n].alert
      <4>1. labelled[t.n] \in LabelRow
        BY ElementOfSeq DEF DeskInv, LabelsTyped, LabelIds
      <4> QED
        BY <4>1 DEF LabelRow
    <3>2. b \notin mixed /\ b # a
      BY <1>2, <1>6, <2>1, <3>1 DEF Unstarted
    <3>3. LabelsUnder(b)' = LabelsUnder(b)
      BY <1>5, <3>2
    <3>4. LabelsUnder(b) = {} /\ \A m \in LabelIds : labelled[m].alert = labelled[t.n].alert => m <= t.n
      BY <2>1, <3>1, <3>2 DEF DeskInv, UnstartedIsLast
    <3>5. LabelsUnder(b)' = {}
      BY <3>3, <3>4
    <3> QED
      BY <1>2, <3>1, <3>4, <3>5
  <2> QED
    BY <1>2, <2>1 DEF UnstartedIsLast, LabelIds
<1>8. DeskHeld(w)'
  <2>1. desk[a] \in DeskRow
    BY DEF DeskInv, RowsTyped
  <2>2. Doing(w, "label")' /\ a \notin mixed' => LabelsUnder(a)' = {w}
    BY <1>1, <1>3, <1>6 DEF LabelsUnder, Doing
  <2> QED
    BY <1>1, <1>2, <1>3, <2>1, <2>2 DEF DeskHeld, Doing
<1>9. ASSUME NEW v \in Workers \ {w} PROVE DeskHeld(v)'
  <2>1. PICK q : q = request[v]
    OBVIOUS
  <2>2. request'[v] = q /\ DeskHeld(v)
    BY <1>3, <2>1 DEF DeskInv
  <2>3. q # None /\ q.op = "label" /\ q.alert \notin mixed' =>
          q.alert \in DeskAlerts /\ q.alert \notin mixed /\ LabelsUnder(q.alert)' = {v}
    <3> SUFFICES ASSUME q # None, q.op = "label", q.alert \notin mixed'
                 PROVE  q.alert \in DeskAlerts /\ q.alert \notin mixed /\ LabelsUnder(q.alert)' = {v}
      OBVIOUS
    <3>1. q.alert \in DeskAlerts /\ q.alert \notin mixed /\ LabelsUnder(q.alert) = {v}
      BY <1>2, <2>1, <2>2 DEF DeskHeld, Doing
    <3>2. q.alert # a
      BY <1>6, <3>1
    <3> QED
      BY <1>5, <3>1, <3>2
  <2> QED
    BY <1>2, <1>3, <2>1, <2>2, <2>3 DEF DeskHeld, Doing
<1> QED
  BY <1>4, <1>7, <1>8, <1>9 DEF DeskInv

(* A request that ends leaves what the others have read, as far as it was  *)
(* not the one that labels their alert.                                    *)
LEMMA StatusCommitInv ==
  ASSUME DeskInv, NEW w \in Workers, TriageCommit(w) \/ CloseCommit(w)
  PROVE  DeskInv'
<1>1. /\ request[w] # None /\ Ends(w) /\ UNCHANGED <<labelled, feedback, clock, topic, notified, lost, mixed>>
  BY DEF TriageCommit, CloseCommit, Doing, feedbackVars
<1>2. /\ RequestInv' /\ request'[w] = None /\ UNCHANGED crossed
      /\ \A v \in Workers \ {w} : request'[v] = request[v]
      /\ ~crossed => \A v \in Workers \ {w} : request'[v] = None
  BY <1>1, GoesOnStep DEF Ends, DeskInv
<1>3. PICK rows : rows = request[w].rows
  OBVIOUS
<1>4. /\ DOMAIN rows \subseteq DeskAlerts
      /\ \A a \in DOMAIN rows : rows[a] \in DeskRow /\ (~crossed => rows[a] = desk[a])
  BY <1>3 DEF DeskInv, DeskHeld, TriageCommit, CloseCommit
<1>5. PICK S \in SUBSET (DOMAIN rows), st \in AlertStatuses :
        \A a \in DeskAlerts :
          /\ desk'[a] = IF a \in S THEN Flushed(desk[a], rows[a], [rows[a] EXCEPT !.status = st]) ELSE desk[a]
          /\ audited'[a] = IF a \in S THEN st ELSE audited[a]
  <2>1. CASE TriageCommit(w)
    <3>1. request[w].to \in AlertStatuses
      BY <2>1, DeskAssumption DEF DeskInv, DeskHeld, TriageCommit, AlertStatuses
    <3> QED
      BY <1>3, <2>1, <3>1 DEF TriageCommit, TriagedRow
  <2>2. CASE CloseCommit(w)
    <3>1. PICK a \in DOMAIN rows :
            /\ desk' = [desk EXCEPT ![a] = Flushed(desk[a], rows[a], [rows[a] EXCEPT !.status = "CLOSED"])]
            /\ audited' = [audited EXCEPT ![a] = "CLOSED"]
      BY <1>3, <2>2 DEF CloseCommit
    <3>2. "CLOSED" \in AlertStatuses
      BY DEF AlertStatuses
    <3>3. PICK T \in SUBSET (DOMAIN rows) : T = {a}
      OBVIOUS
    <3> QED
      BY <1>4, <3>1, <3>2, <3>3 DEF DeskInv, RowsTyped
  <2> QED
    BY <2>1, <2>2
<1>6. DOMAIN desk' = DeskAlerts /\ DOMAIN audited' = DeskAlerts
  BY DEF DeskInv, RowsTyped, TriageCommit, CloseCommit
<1>7. ASSUME NEW a \in DeskAlerts
      PROVE  /\ desk'[a] \in DeskRow /\ desk'[a].label = desk[a].label /\ audited'[a] \in AlertStatuses
             /\ ~crossed => desk'[a].status = audited'[a]
  <2>1. PICK row \in DeskRow : row = desk[a]
    BY DEF DeskInv, RowsTyped
  <2>2. audited[a] \in AlertStatuses /\ (~crossed => row.status = audited[a])
    BY <2>1 DEF DeskInv, RowsTyped, StatusAudited
  <2>3. CASE a \notin S
    BY <1>5, <2>1, <2>2, <2>3
  <2>4. CASE a \in S
    <3>1. PICK read \in DeskRow : read = rows[a] /\ (~crossed => read = row)
      BY <1>4, <2>1, <2>4
    <3>2. PICK x : x = [read EXCEPT !.status = st]
      OBVIOUS
    <3>3. x.status = st /\ x.label = read.label
      BY <3>1, <3>2 DEF DeskRow
    <3>4. DOMAIN row = {"status", "label"} /\ row.status \in AlertStatuses /\ row.label \in Labels \cup {None}
      BY DEF DeskRow
    <3>5. PICK new : new = Flushed(row, read, x)
      OBVIOUS
    <3>6. new = [column \in {"status", "label"} |-> IF x[column] # read[column] THEN x[column] ELSE row[column]]
      BY <3>4, <3>5 DEF Flushed
    <3>7. new.label = row.label /\ new.status = IF st # read.status THEN st ELSE row.status
      BY <3>3, <3>6
    <3>8. new \in DeskRow
      <4>1. new = [status |-> new.status, label |-> new.label]
        BY <3>6
      <4> QED
        BY <3>4, <3>7, <4>1 DEF DeskRow
    <3>9. ~crossed => new.status = st
      BY <3>1, <3>7
    <3> QED
      BY <1>5, <2>1, <2>4, <3>1, <3>2, <3>5, <3>7, <3>8, <3>9
  <2> QED
    BY <2>3, <2>4
<1>8. RowsTyped'
  <2>1. desk' = [a \in DeskAlerts |-> desk'[a]] /\ audited' = [a \in DeskAlerts |-> audited'[a]]
    BY <1>6 DEF TriageCommit, CloseCommit, DeskInv, RowsTyped
  <2> QED
    BY <1>7, <2>1 DEF RowsTyped
<1>9. StatusAudited'
  BY <1>2, <1>7 DEF StatusAudited
<1>10. LabelsTyped' /\ Accounted' /\ TakenInOrder'
  BY <1>1 DEF DeskInv, LabelsTyped, Accounted, TakenInOrder, Taken, LabelIds, Published, Pending
<1>11. \A n \in LabelIds : labelled[n].alert \in DeskAlerts
  <2>1. \A n \in LabelIds : labelled[n] \in LabelRow
    BY ElementOfSeq DEF DeskInv, LabelsTyped, LabelIds
  <2> QED
    BY <2>1 DEF LabelRow
<1>12. LastLabelKept'
  <2>1. \A n \in LabelIds : desk'[labelled[n].alert].label = desk[labelled[n].alert].label
    BY <1>7, <1>11
  <2> QED
    BY <1>1, <2>1 DEF DeskInv, LastLabelKept, LabelIds
<1>13. \A a : LabelsUnder(a)' = LabelsUnder(a)
  <2>1. ~Doing(w, "label") /\ ~Doing(w, "label")'
    BY <1>2 DEF TriageCommit, CloseCommit, Doing
  <2> QED
    BY <1>2, <2>1 DEF LabelsUnder, Doing
<1>14. UnstartedIsLast'
  BY <1>1, <1>13 DEF DeskInv, UnstartedIsLast, LabelIds
<1>15. DeskHeld(w)'
  BY <1>2 DEF DeskHeld, Doing
<1>16. ASSUME NEW v \in Workers \ {w} PROVE DeskHeld(v)'
  <2>1. PICK q : q = request[v]
    OBVIOUS
  <2>2. request'[v] = q /\ DeskHeld(v) /\ (~crossed => q = None)
    BY <1>2, <2>1 DEF DeskInv
  <2>3. q # None /\ q.op = "label" /\ q.alert \notin mixed =>
          q.alert \in DeskAlerts /\ q.row.label = desk'[q.alert].label /\ LabelsUnder(q.alert)' = {v}
    BY <1>7, <1>13, <2>1, <2>2 DEF DeskHeld, Doing
  <2> QED
    BY <1>1, <1>2, <2>1, <2>2, <2>3 DEF DeskHeld, Doing
<1> QED
  BY <1>2, <1>8, <1>9, <1>10, <1>12, <1>14, <1>15, <1>16 DEF DeskInv

(* A label is committed with a task.                                       *)
LEMMA LabelCommitInv == ASSUME DeskInv, NEW w \in Workers, LabelCommit(w) PROVE DeskInv'
<1>1. /\ request[w] # None /\ request[w].op = "label" /\ Ends(w)
      /\ UNCHANGED <<audited, clock, topic, notified, lost, mixed>>
  BY DEF LabelCommit, Doing
<1>2. /\ RequestInv' /\ request'[w] = None /\ UNCHANGED crossed
      /\ \A v \in Workers \ {w} : request'[v] = request[v]
      /\ ~crossed => \A v \in Workers \ {w} : request'[v] = None
  BY <1>1, GoesOnStep DEF Ends, DeskInv
<1>3. PICK a \in DeskAlerts, l \in Labels, read \in DeskRow :
        /\ a = request[w].alert /\ l = request[w].label /\ read = request[w].row
        /\ a \notin mixed => read.label = desk[a].label /\ LabelsUnder(a) = {w}
  BY DEF LabelCommit, DeskInv, DeskHeld
<1>4. PICK row \in DeskRow : row = desk[a]
  BY DEF DeskInv, RowsTyped
<1>5. PICK new \in DeskRow :
        /\ desk' = [desk EXCEPT ![a] = new] /\ new.status = row.status
        /\ a \notin mixed => new.label = l
  <2>1. PICK x : x = [read EXCEPT !.label = l]
    OBVIOUS
  <2>2. x.status = read.status /\ x.label = l
    BY <2>1 DEF DeskRow
  <2>3. PICK new : new = Flushed(row, read, x)
    OBVIOUS
  <2>4. DOMAIN row = {"status", "label"} /\ row.status \in AlertStatuses /\ row.label \in Labels \cup {None}
    BY DEF DeskRow
  <2>5. new = [column \in {"status", "label"} |-> IF x[column] # read[column] THEN x[column] ELSE row[column]]
    BY <2>3, <2>4 DEF Flushed
  <2>6. new.status = row.status /\ new.label = IF l # read.label THEN l ELSE row.label
    BY <2>2, <2>5
  <2>7. new \in DeskRow
    <3>1. new = [status |-> new.status, label |-> new.label]
      BY <2>5
    <3> QED
      BY <2>4, <2>6, <3>1 DEF DeskRow
  <2>8. desk' = [desk EXCEPT ![a] = new]
    <3>1. desk' = [desk EXCEPT ![a] = Flushed(@, read, [read EXCEPT !.label = l])]
      BY <1>3 DEF LabelCommit
    <3> QED
      BY <1>4, <2>1, <2>3, <3>1
  <2> QED
    BY <1>3, <1>4, <2>6, <2>7, <2>8
<1>6. /\ desk'[a] = new /\ (\A b \in DeskAlerts : b # a => desk'[b] = desk[b])
  BY <1>5 DEF DeskInv, RowsTyped
<1>7. PICK k \in Nat : k = Len(labelled)
  BY LenProperties DEF DeskInv, LabelsTyped
<1>8. PICK x \in LabelRow : x = [alert |-> a, label |-> l]
  BY DEF LabelRow
<1>9. PICK t \in Task : t = [n |-> k + 1, ts |-> 0, fails |-> 0]
  <2>1. PICK n \in Nat : n = k + 1
    BY <1>7
  <2>2. [n |-> n, ts |-> 0, fails |-> 0] \in Task
    BY DEF Task
  <2> QED
    BY <2>1, <2>2
<1>10. labelled' = Append(labelled, x) /\ feedback' = feedback \cup {t}
  BY <1>3, <1>7, <1>8, <1>9 DEF LabelCommit
<1>11. /\ labelled' \in Seq(LabelRow) /\ LabelIds' = 1..(k + 1) /\ LabelIds = 1..k
       /\ labelled'[k + 1] = x /\ \A n \in 1..k : labelled'[n] = labelled[n]
  <2>1. PICK s \in Seq(LabelRow) : s = labelled /\ Len(s) = k
    BY <1>7 DEF DeskInv, LabelsTyped
  <2>2. PICK z : z = Append(s, x)
    OBVIOUS
  <2>3. z \in Seq(LabelRow) /\ Len(z) = k + 1 /\ z[k + 1] = x /\ \A n \in 1..k : z[n] = s[n]
    BY <2>1, <2>2, AppendProperties
  <2>4. labelled' = z
    BY <1>10, <2>1, <2>2
  <2> QED
    BY <1>7, <2>1, <2>3, <2>4 DEF LabelIds
<1>12. t.n = k + 1 /\ t.ts = 0 /\ x.alert = a /\ x.label = l
  BY <1>8, <1>9
<1>13. \A n \in 1..(k + 1) : n \in 1..k \/ n = k + 1
  BY <1>7
<1>14. /\ \A u \in feedback : u.n \in 1..k
       /\ \A i \in 1..Len(topic) : topic[i].n \in 1..k
       /\ notified \subseteq 1..k /\ lost \subseteq 1..k /\ 1..k \subseteq 1..(k + 1) /\ k + 1 \notin 1..k
       /\ k + 1 \in 1..(k + 1)
  BY <1>7, <1>11 DEF DeskInv, LabelsTyped
<1>15. RowsTyped' /\ StatusAudited'
  BY <1>1, <1>2, <1>4, <1>5, <1>6 DEF DeskInv, RowsTyped, StatusAudited
<1>16. LabelsTyped'
  BY <1>1, <1>9, <1>10, <1>11, <1>12, <1>14 DEF DeskInv, LabelsTyped, Task
<1>17. Accounted'
  <2>1. \A n \in 1..k : Published(n)' <=> Published(n)
    BY <1>1 DEF Published
  <2>2. \A n \in 1..k : Pending(n)' <=> Pending(n)
    BY <1>10, <1>12, <1>14 DEF Pending
  <2>3. ~Published(k + 1)' /\ Pending(k + 1)' /\ k + 1 \notin notified \cup lost
    BY <1>1, <1>10, <1>12, <1>14 DEF Published, Pending
  <2>4. \A u, v \in feedback' : u.n = v.n => u = v
    BY <1>10, <1>12, <1>14 DEF DeskInv, Accounted
  <2> QED
    BY <1>1, <1>11, <1>13, <2>1, <2>2, <2>3, <2>4 DEF DeskInv, Accounted
<1>18. TakenInOrder'
  <2>1. ASSUME NEW n \in 1..(k + 1), NEW y, Taken(n, y)' PROVE n \in 1..k /\ Taken(n, y)
    BY <1>1, <1>10, <1>12, <1>14, <2>1 DEF Taken
  <2> QED
    BY <1>1, <1>11, <2>1 DEF DeskInv, TakenInOrder
<1>19. a \notin mixed => LabelsUnder(a)' = {}
  BY <1>2, <1>3 DEF LabelsUnder, Doing
<1>20. \A b : b # a => LabelsUnder(b)' = LabelsUnder(b)
  BY <1>1, <1>2, <1>3 DEF LabelsUnder, Doing
<1>21. UnstartedIsLast'
  <2>1. ASSUME NEW u \in feedback', NEW b, b = labelled'[u.n].alert, u.ts = 0, b \notin mixed
        PROVE  (\A m \in 1..(k + 1) : labelled'[m].alert = b => m <= u.n) /\ LabelsUnder(b)' = {}
    <3>1. CASE u = t
      <4>1. b = a
        BY <1>11, <1>12, <2>1, <3>1
      <4> QED
        BY <1>7, <1>12, <1>19, <2>1, <3>1, <4>1
    <3>2. CASE u \in feedback
      <4>1. u.n \in 1..k /\ labelled[u.n].alert = b
        BY <1>11, <1>14, <2>1, <3>2
      <4>2. LabelsUnder(b) = {} /\ \A m \in 1..k : labelled[m].alert = b => m <= u.n
        BY <1>11, <2>1, <3>2, <4>1 DEF DeskInv, UnstartedIsLast
      <4>3. b # a
        BY <1>3, <2>1, <4>2
      <4> QED
        BY <1>11, <1>12, <1>13, <1>20, <4>2, <4>3
    <3> QED
      BY <1>10, <3>1, <3>2
  <2>2. ASSUME NEW u \in feedback', u.ts = 0, labelled'[u.n].alert \notin mixed
        PROVE  /\ \A m \in LabelIds' : labelled'[m].alert = labelled'[u.n].alert => m <= u.n
               /\ \A v \in Workers : Doing(v, "label")' => request'[v].alert # labelled'[u.n].alert
    <3>1. PICK b : b = labelled'[u.n].alert
      OBVIOUS
    <3>2. (\A m \in 1..(k + 1) : labelled'[m].alert = b => m <= u.n) /\ LabelsUnder(b)' = {}
      BY <2>1, <2>2, <3>1
    <3> QED
      BY <1>11, <3>1, <3>2 DEF LabelsUnder
  <2> QED
    BY <1>1, <2>2 DEF UnstartedIsLast, LabelsUnder
<1>22. LastLabelKept'
  <2>1. ASSUME NEW n \in 1..(k + 1), labelled'[n].alert \notin mixed,
               \A m \in 1..(k + 1) : labelled'[m].alert = labelled'[n].alert => m <= n
        PROVE  desk'[labelled'[n].alert].label = labelled'[n].label
    <3>1. CASE n = k + 1
      BY <1>5, <1>6, <1>11, <1>12, <2>1, <3>1
    <3>2. CASE n \in 1..k
      <4>1. labelled'[n].alert # a
        BY <1>7, <1>11, <1>12, <1>14, <2>1, <3>2
      <4>2. labelled[n].alert \in DeskAlerts
        <5>1. labelled[n] \in LabelRow
          BY <1>11, <3>2, ElementOfSeq DEF DeskInv, LabelsTyped, LabelIds
        <5> QED
          BY <5>1 DEF LabelRow
      <4>3. desk[labelled[n].alert].label = labelled[n].label
        BY <1>11, <1>14, <2>1, <3>2 DEF DeskInv, LastLabelKept
      <4> QED
        BY <1>6, <1>11, <3>2, <4>1, <4>2, <4>3
    <3> QED
      BY <1>13, <3>1, <3>2
  <2> QED
    BY <1>1, <1>11, <2>1 DEF LastLabelKept
<1>23. DeskHeld(w)'
  BY <1>2 DEF DeskHeld, Doing
<1>24. ASSUME NEW v \in Workers \ {w} PROVE DeskHeld(v)'
  <2>1. PICK q : q = request[v]
    OBVIOUS
  <2>2. request'[v] = q /\ DeskHeld(v) /\ (~crossed => q = None)
    BY <1>2, <2>1 DEF DeskInv
  <2>3. q # None /\ q.op = "label" /\ q.alert \notin mixed =>
          q.row.label = desk'[q.alert].label /\ LabelsUnder(q.alert)' = {v}
    <3> SUFFICES ASSUME q # None, q.op = "label", q.alert \notin mixed
                 PROVE  q.row.label = desk'[q.alert].label /\ LabelsUnder(q.alert)' = {v}
      OBVIOUS
    <3>1. q.alert \in DeskAlerts /\ q.row.label = desk[q.alert].label /\ LabelsUnder(q.alert) = {v}
      BY <2>1, <2>2 DEF DeskHeld, Doing
    <3>2. q.alert # a
      BY <1>3, <3>1
    <3> QED
      BY <1>6, <1>20, <3>1, <3>2
  <2> QED
    BY <1>1, <1>2, <2>1, <2>2, <2>3 DEF DeskHeld, Doing
<1> QED
  BY <1>2, <1>15, <1>16, <1>17, <1>18, <1>21, <1>22, <1>23, <1>24 DEF DeskInv

(* A step of a task leaves rows and requests; a request that ends with its *)
(* replica leaves the others.                                              *)
LEMMA TaskStep ==
  ASSUME DeskInv, UNCHANGED <<crossed, desk, audited, labelled, mixed>>,
         \/ UNCHANGED <<request, calls>>
         \/ calls < MaxCalls /\ calls' = calls + 1 /\ request' = [w \in Workers |-> None]
  PROVE  /\ RequestInv' /\ RowsTyped' /\ LastLabelKept' /\ StatusAudited' /\ LabelIds' = LabelIds
         /\ \A w \in Workers : DeskHeld(w)'
         /\ \A a : LabelsUnder(a) = {} => LabelsUnder(a)' = {}
<1>1. RequestInv'
  <2>1. RequestTypeOK'
    BY RequestAssumption DEF DeskInv, RequestInv, RequestTypeOK
  <2>2. OneAtATime'
    BY DEF DeskInv, RequestInv, OneAtATime
  <2> QED
    BY <2>1, <2>2 DEF RequestInv
<1>2. RowsTyped' /\ LastLabelKept' /\ StatusAudited' /\ LabelIds' = LabelIds
  BY DEF DeskInv, RowsTyped, LastLabelKept, StatusAudited, LabelIds
<1>3. CASE UNCHANGED <<request, calls>>
  <2>1. \A a : LabelsUnder(a)' = LabelsUnder(a)
    BY <1>3 DEF LabelsUnder, Doing
  <2>2. \A w \in Workers : DeskHeld(w)'
    BY <1>3, <2>1 DEF DeskInv, DeskHeld, Doing
  <2> QED
    BY <1>1, <1>2, <2>1, <2>2
<1>4. CASE request' = [w \in Workers |-> None]
  <2>1. \A w \in Workers : request'[w] = None
    BY <1>4
  <2> QED
    BY <1>1, <1>2, <2>1 DEF DeskHeld, LabelsUnder, Doing
<1> QED
  BY <1>3, <1>4

(* What the tasks lose and the topic gains, they have lost and gained of   *)
(* the same labels and times.                                              *)
LEMMA TakenStays ==
  ASSUME DeskInv, UNCHANGED <<labelled, mixed, clock>>,
         \A n, x : Taken(n, x)' => Taken(n, x),
         \A t \in feedback' : t.ts = 0 => \E u \in feedback : u.ts = 0 /\ u.n = t.n,
         \A a : LabelsUnder(a) = {} => LabelsUnder(a)' = {}
  PROVE  TakenInOrder' /\ UnstartedIsLast'
<1>1. LabelIds' = LabelIds
  BY DEF LabelIds
<1>2. TakenInOrder'
  BY <1>1 DEF DeskInv, TakenInOrder
<1>3. ASSUME NEW t \in feedback', t.ts = 0, labelled[t.n].alert \notin mixed
      PROVE  /\ \A m \in LabelIds : labelled[m].alert = labelled[t.n].alert => m <= t.n
             /\ \A v \in Workers : Doing(v, "label")' => request'[v].alert # labelled[t.n].alert
  <2>1. PICK u \in feedback : u.ts = 0 /\ u.n = t.n
    BY <1>3
  <2>2. PICK b : b = labelled[t.n].alert
    OBVIOUS
  <2>3. LabelsUnder(b) = {} /\ \A m \in LabelIds : labelled[m].alert = b => m <= t.n
    BY <1>3, <2>1, <2>2 DEF DeskInv, UnstartedIsLast
  <2>4. LabelsUnder(b)' = {}
    BY <2>3
  <2> QED
    BY <2>2, <2>3, <2>4 DEF LabelsUnder
<1>4. UnstartedIsLast'
  BY <1>1, <1>3 DEF UnstartedIsLast, LabelsUnder
<1> QED
  BY <1>2, <1>4

(* A task takes its time.                                                  *)
LEMMA FeedbackStartInv == ASSUME DeskInv, NEW t \in feedback, FeedbackStart(t) PROVE DeskInv'
<1>1. PICK c \in Nat : c = clock
  BY DEF DeskInv, LabelsTyped
<1>2. /\ t \in Task /\ t.ts = 0 /\ t.n \in LabelIds
  BY DEF DeskInv, LabelsTyped, FeedbackStart
<1>3. PICK x \in Nat : x = c + 1
  BY <1>1
<1>4. PICK u \in Task : u = [t EXCEPT !.ts = x] /\ u.n = t.n /\ u.ts = x
  <2>1. PICK u : u = [t EXCEPT !.ts = x]
    OBVIOUS
  <2>2. u = [n |-> t.n, ts |-> x, fails |-> t.fails]
    BY <1>2, <2>1 DEF Task
  <2> QED
    BY <1>2, <2>1, <2>2 DEF Task
<1>5. /\ clock' = x /\ feedback' = (feedback \ {t}) \cup {u}
      /\ UNCHANGED <<requestVars, desk, audited, labelled, topic, notified, lost, mixed>>
  BY <1>1, <1>3, <1>4 DEF FeedbackStart
<1>6. UNCHANGED <<request, calls, crossed>>
  BY <1>5 DEF requestVars
<1>7. /\ RequestInv' /\ RowsTyped' /\ LastLabelKept' /\ StatusAudited' /\ LabelIds' = LabelIds
      /\ \A w \in Workers : DeskHeld(w)'
      /\ \A a : LabelsUnder(a) = {} => LabelsUnder(a)' = {}
  BY <1>5, <1>6, TaskStep
<1>8. \A v \in feedback : v.n \in LabelIds /\ v.n \in Nat /\ v.ts \in Nat /\ v.ts <= c
  BY <1>1 DEF DeskInv, LabelsTyped, Task
<1>9. \A i \in 1..Len(topic) : topic[i].n \in LabelIds /\ topic[i].ts \in 1..c
  BY <1>1 DEF DeskInv, LabelsTyped
<1>10. LabelsTyped'
  <2>1. \A v \in feedback : v \in Task /\ v.n \in LabelIds /\ v.ts <= x
    BY <1>1, <1>3, <1>8 DEF DeskInv, LabelsTyped
  <2>2. u \in Task /\ u.n \in LabelIds /\ u.ts <= x
    BY <1>2, <1>3, <1>4
  <2>3. feedback' \subseteq Task /\ \A v \in feedback' : v.n \in LabelIds /\ v.ts <= x
    BY <1>5, <2>1, <2>2
  <2>4. \A i \in 1..Len(topic) : topic[i].n \in LabelIds /\ topic[i].ts \in 1..x
    BY <1>1, <1>3, <1>9
  <2> QED
    BY <1>5, <1>7, <2>3, <2>4 DEF DeskInv, LabelsTyped
<1>11. Accounted'
  <2>1. \A n \in LabelIds : (Published(n)' <=> Published(n)) /\ (Pending(n)' <=> Pending(n))
    BY <1>4, <1>5 DEF Published, Pending
  <2>2. \A v, z \in feedback' : v.n = z.n => v = z
    <3>1. \A v, z \in feedback \ {t} : v.n # t.n /\ (v.n = z.n => v = z)
      BY DEF DeskInv, Accounted
    <3> QED
      BY <1>4, <1>5, <3>1
  <2> QED
    BY <1>5, <1>7, <2>1, <2>2 DEF DeskInv, Accounted
<1>12. TakenInOrder'
  <2>1. ASSUME NEW n \in LabelIds, NEW m \in LabelIds, NEW y \in 1..x, NEW z \in 1..x,
               labelled[n].alert \notin mixed, labelled[m].alert = labelled[n].alert,
               n < m, Taken(n, y)', Taken(m, z)'
        PROVE  y < z
    <3>1. LabelIds \subseteq Nat
      BY DEF LabelIds
    <3>2. (Taken(n, y) /\ y <= c) \/ (n = t.n /\ y = x)
      <4>1. CASE \E i \in 1..Len(topic) : topic[i].n = n /\ topic[i].ts = y
        BY <1>1, <1>9, <4>1 DEF Taken
      <4>2. CASE \E v \in feedback : v.n = n /\ v.ts = y /\ y # 0
        BY <1>8, <4>2 DEF Taken
      <4>3. CASE u.n = n /\ u.ts = y
        BY <1>4, <4>3
      <4> QED
        BY <1>5, <2>1, <4>1, <4>2, <4>3 DEF Taken
    <3>3. (Taken(m, z) /\ z <= c) \/ (m = t.n /\ z = x)
      <4>1. CASE \E i \in 1..Len(topic) : topic[i].n = m /\ topic[i].ts = z
        BY <1>1, <1>9, <4>1 DEF Taken
      <4>2. CASE \E v \in feedback : v.n = m /\ v.ts = z /\ z # 0
        BY <1>8, <4>2 DEF Taken
      <4>3. CASE u.n = m /\ u.ts = z
        BY <1>4, <4>3
      <4> QED
        BY <1>5, <2>1, <4>1, <4>2, <4>3 DEF Taken
    <3>4. CASE n = t.n
      <4>1. m <= t.n
        BY <1>2, <2>1, <3>4 DEF DeskInv, UnstartedIsLast
      <4> QED
        BY <2>1, <3>1, <3>4, <4>1
    <3>5. CASE n # t.n /\ m = t.n /\ z = x
      BY <1>1, <1>3, <3>2, <3>5
    <3>6. CASE n # t.n /\ Taken(m, z) /\ z <= c
      BY <1>1, <1>3, <2>1, <3>2, <3>6 DEF DeskInv, TakenInOrder
    <3> QED
      BY <3>3, <3>4, <3>5, <3>6
  <2> QED
    BY <1>5, <1>7, <2>1 DEF TakenInOrder
<1>13. UnstartedIsLast'
  <2>1. ASSUME NEW v \in feedback', v.ts = 0, labelled[v.n].alert \notin mixed
        PROVE  /\ \A m \in LabelIds : labelled[m].alert = labelled[v.n].alert => m <= v.n
               /\ \A w \in Workers : Doing(w, "label")' => request'[w].alert # labelled[v.n].alert
    <3>1. v \in feedback
      <4>1. x # 0
        BY <1>1, <1>3
      <4> QED
        BY <1>4, <1>5, <2>1, <4>1
    <3>2. PICK b : b = labelled[v.n].alert
      OBVIOUS
    <3>3. LabelsUnder(b) = {} /\ \A m \in LabelIds : labelled[m].alert = b => m <= v.n
      BY <2>1, <3>1, <3>2 DEF DeskInv, UnstartedIsLast
    <3>4. LabelsUnder(b)' = {}
      BY <1>7, <3>3
    <3> QED
      BY <3>2, <3>3, <3>4 DEF LabelsUnder
  <2> QED
    BY <1>5, <1>7, <2>1 DEF UnstartedIsLast, LabelsUnder
<1> QED
  BY <1>7, <1>10, <1>11, <1>12, <1>13 DEF DeskInv

(* A task publishes its label, under the time it took.                     *)
LEMMA PublishInv == ASSUME DeskInv, NEW t \in feedback, Publish(t) PROVE DeskInv'
<1>1. t \in Task /\ t.ts > 0 /\ t.n \in LabelIds /\ t.ts <= clock /\ clock \in Nat
  BY DEF DeskInv, LabelsTyped, Publish
<1>2. PICK x \in LabelRecord : x = [n |-> t.n, ts |-> t.ts]
  BY <1>1 DEF Task, LabelRecord
<1>3. /\ topic' = Append(topic, x) /\ feedback' = feedback \ {t}
      /\ UNCHANGED <<requestVars, desk, audited, labelled, clock, notified, lost, mixed>>
  BY <1>2 DEF Publish
<1>4. UNCHANGED <<request, calls, crossed>>
  BY <1>3 DEF requestVars
<1>5. /\ RequestInv' /\ RowsTyped' /\ LastLabelKept' /\ StatusAudited' /\ LabelIds' = LabelIds
      /\ \A w \in Workers : DeskHeld(w)'
      /\ \A a : LabelsUnder(a) = {} => LabelsUnder(a)' = {}
  BY <1>3, <1>4, TaskStep
<1>6. PICK s \in Seq(LabelRecord), k \in Nat : s = topic /\ k = Len(s)
  BY LenProperties DEF DeskInv, LabelsTyped
<1>7. PICK z : z = Append(s, x)
  OBVIOUS
<1>8. z \in Seq(LabelRecord) /\ Len(z) = k + 1 /\ z[k + 1] = x /\ \A i \in 1..k : z[i] = s[i]
  BY <1>6, <1>7, AppendProperties
<1>9. topic' = z
  BY <1>3, <1>6, <1>7
<1>10. \A i : i \in 1..(k + 1) <=> i \in 1..k \/ i = k + 1
  BY <1>6
<1>11. x.n = t.n /\ x.ts = t.ts
  BY <1>2
<1>12. LabelsTyped'
  <2>1. \A i \in 1..(k + 1) : z[i].n \in LabelIds /\ z[i].ts \in 1..clock
    <3>1. \A i \in 1..k : s[i].n \in LabelIds /\ s[i].ts \in 1..clock
      BY <1>6 DEF DeskInv, LabelsTyped
    <3>2. \A i \in 1..k : z[i].n \in LabelIds /\ z[i].ts \in 1..clock
      BY <1>8, <3>1
    <3>3. t.ts \in Nat
      BY <1>1 DEF Task
    <3>4. z[k + 1].n \in LabelIds /\ z[k + 1].ts \in 1..clock
      BY <1>1, <1>8, <1>11, <3>3
    <3> QED
      BY <1>10, <3>2, <3>4
  <2> QED
    BY <1>3, <1>5, <1>8, <1>9, <2>1 DEF DeskInv, LabelsTyped
<1>13. Accounted'
  <2>1. \A n \in LabelIds : Published(n)' <=> Published(n) \/ n = t.n
    BY <1>6, <1>8, <1>9, <1>10, <1>11 DEF Published
  <2>2. \A n \in LabelIds : Pending(n)' <=> Pending(n) /\ n # t.n
    BY <1>3 DEF Pending, DeskInv, Accounted
  <2>3. Pending(t.n) /\ t.n \notin notified \cup lost
    BY <1>1 DEF Pending, DeskInv, Accounted
  <2>4. \A u, v \in feedback' : u.n = v.n => u = v
    BY <1>3 DEF DeskInv, Accounted
  <2> QED
    BY <1>3, <1>5, <2>1, <2>2, <2>3, <2>4 DEF DeskInv, Accounted
<1>14. ASSUME NEW n, NEW y, Taken(n, y)' PROVE Taken(n, y)
  <2>1. CASE \E i \in 1..(k + 1) : z[i].n = n /\ z[i].ts = y
    <3>1. PICK i \in 1..(k + 1) : z[i].n = n /\ z[i].ts = y
      BY <2>1
    <3>2. CASE i = k + 1
      BY <1>1, <1>8, <1>11, <3>1, <3>2 DEF Taken
    <3>3. CASE i \in 1..k
      BY <1>6, <1>8, <3>1, <3>3 DEF Taken
    <3> QED
      BY <1>10, <3>2, <3>3
  <2>2. CASE \E u \in feedback' : u.n = n /\ u.ts = y /\ y # 0
    BY <1>3, <2>2 DEF Taken
  <2> QED
    BY <1>8, <1>9, <1>14, <2>1, <2>2 DEF Taken
<1>15. TakenInOrder' /\ UnstartedIsLast'
  BY <1>3, <1>5, <1>14, TakenStays
<1> QED
  BY <1>5, <1>12, <1>13, <1>15 DEF DeskInv

(* An attempt fails.                                                       *)
LEMMA PublishFailsInv == ASSUME DeskInv, NEW t \in feedback, PublishFails(t) PROVE DeskInv'
<1>1. t \in Task /\ t.ts > 0 /\ t.n \in LabelIds
  BY DEF DeskInv, LabelsTyped, PublishFails
<1>2. PICK k \in Nat : k = t.fails + 1
  BY <1>1 DEF Task
<1>3. PICK u \in Task : u = [t EXCEPT !.fails = k] /\ u.n = t.n /\ u.ts = t.ts
  <2>1. PICK u : u = [t EXCEPT !.fails = k]
    OBVIOUS
  <2>2. u = [n |-> t.n, ts |-> t.ts, fails |-> k]
    BY <1>1, <2>1 DEF Task
  <2> QED
    BY <1>1, <2>1, <2>2 DEF Task
<1>4. /\ feedback' = (feedback \ {t}) \cup {u}
      /\ UNCHANGED <<requestVars, desk, audited, labelled, clock, topic, notified, lost, mixed>>
  <2>1. [t EXCEPT !.fails = @ + 1] = u
    BY <1>1, <1>2, <1>3 DEF Task
  <2> QED
    BY <2>1 DEF PublishFails
<1>5. UNCHANGED <<request, calls, crossed>>
  BY <1>4 DEF requestVars
<1>6. /\ RequestInv' /\ RowsTyped' /\ LastLabelKept' /\ StatusAudited' /\ LabelIds' = LabelIds
      /\ \A w \in Workers : DeskHeld(w)'
      /\ \A a : LabelsUnder(a) = {} => LabelsUnder(a)' = {}
  BY <1>4, <1>5, TaskStep
<1>7. LabelsTyped'
  BY <1>1, <1>3, <1>4, <1>6 DEF DeskInv, LabelsTyped
<1>8. Accounted'
  <2>1. \A n \in LabelIds : (Published(n)' <=> Published(n)) /\ (Pending(n)' <=> Pending(n))
    BY <1>3, <1>4 DEF Published, Pending
  <2>2. \A v, z \in feedback' : v.n = z.n => v = z
    <3>1. \A v, z \in feedback \ {t} : v.n # t.n /\ (v.n = z.n => v = z)
      BY DEF DeskInv, Accounted
    <3> QED
      BY <1>3, <1>4, <3>1
  <2> QED
    BY <1>4, <1>6, <2>1, <2>2 DEF DeskInv, Accounted
<1>9. \A n, x : Taken(n, x)' => Taken(n, x)
  BY <1>3, <1>4 DEF Taken
<1>10. \A v \in feedback' : v.ts = 0 => v \in feedback
  BY <1>1, <1>3, <1>4 DEF Task
<1>11. TakenInOrder' /\ UnstartedIsLast'
  BY <1>4, <1>6, <1>9, <1>10, TakenStays
<1> QED
  BY <1>6, <1>7, <1>8, <1>11 DEF DeskInv

(* The failure is notified, or lost with the database.                     *)
LEMMA NotifyFailureInv == ASSUME DeskInv, NEW t \in feedback, NotifyFailure(t) PROVE DeskInv'
<1>1. /\ t.n \in LabelIds /\ feedback' = feedback \ {t}
      /\ notified' \cup lost' = notified \cup lost \cup {t.n} /\ notified' \subseteq LabelIds /\ lost' \subseteq LabelIds
      /\ UNCHANGED <<requestVars, desk, audited, labelled, clock, topic, mixed>>
  BY DEF DeskInv, LabelsTyped, NotifyFailure
<1>2. UNCHANGED <<request, calls, crossed>>
  BY <1>1 DEF requestVars
<1>3. /\ RequestInv' /\ RowsTyped' /\ LastLabelKept' /\ StatusAudited' /\ LabelIds' = LabelIds
      /\ \A w \in Workers : DeskHeld(w)'
      /\ \A a : LabelsUnder(a) = {} => LabelsUnder(a)' = {}
  BY <1>1, <1>2, TaskStep
<1>4. LabelsTyped'
  BY <1>1, <1>3 DEF DeskInv, LabelsTyped
<1>5. Accounted'
  <2>1. \A n \in LabelIds : (Published(n)' <=> Published(n)) /\ (Pending(n)' <=> Pending(n) /\ n # t.n)
    BY <1>1 DEF Published, Pending, DeskInv, Accounted
  <2>2. Pending(t.n)
    BY DEF Pending
  <2>3. \A u, v \in feedback' : u.n = v.n => u = v
    BY <1>1 DEF DeskInv, Accounted
  <2> QED
    BY <1>1, <1>3, <2>1, <2>2, <2>3 DEF DeskInv, Accounted
<1>6. (\A n, x : Taken(n, x)' => Taken(n, x)) /\ feedback' \subseteq feedback
  BY <1>1 DEF Taken
<1>7. TakenInOrder' /\ UnstartedIsLast'
  BY <1>1, <1>3, <1>6, TakenStays
<1> QED
  BY <1>3, <1>4, <1>5, <1>7 DEF DeskInv

(* A replica crashes with its requests and tasks.                          *)
LEMMA DeskCrashInv == ASSUME DeskInv, Crash PROVE DeskInv'
<1>1. /\ feedback' = {} /\ lost' = lost \cup {t.n : t \in feedback}
      /\ calls < MaxCalls /\ calls' = calls + 1 /\ request' = [w \in Workers |-> None]
      /\ UNCHANGED <<crossed, desk, audited, labelled, clock, topic, notified, mixed>>
  BY DEF Crash
<1>2. /\ RequestInv' /\ RowsTyped' /\ LastLabelKept' /\ StatusAudited' /\ LabelIds' = LabelIds
      /\ \A w \in Workers : DeskHeld(w)'
      /\ \A a : LabelsUnder(a) = {} => LabelsUnder(a)' = {}
  BY <1>1, TaskStep
<1>3. \A n \in LabelIds : n \in lost' <=> n \in lost \/ Pending(n)
  BY <1>1 DEF Pending
<1>4. LabelsTyped'
  <2>1. lost' \subseteq LabelIds
    BY <1>1 DEF DeskInv, LabelsTyped
  <2> QED
    BY <1>1, <1>2, <2>1 DEF DeskInv, LabelsTyped
<1>5. Accounted'
  BY <1>1, <1>2, <1>3 DEF DeskInv, Accounted, Published, Pending
<1>6. \A n, x : Taken(n, x)' => Taken(n, x)
  BY <1>1 DEF Taken
<1>7. TakenInOrder' /\ UnstartedIsLast'
  BY <1>1, <1>2, <1>6, TakenStays
<1> QED
  BY <1>2, <1>4, <1>5, <1>7 DEF DeskInv

(* A task has three attempts; labels overlap of alerts.                    *)
AttemptsTyped == mixed \subseteq DeskAlerts /\ \A t \in feedback : t.fails \in 0..(MaxRetries + 1)

LEMMA AttemptsKept ==
  ASSUME DeskInv, AttemptsTyped, [DeskNext]_<<requestVars, deskVars>>
  PROVE  AttemptsTyped'
<1> USE DEF MaxRetries
<1>1. CASE UNCHANGED <<requestVars, deskVars>>
  BY <1>1 DEF deskVars, AttemptsTyped
<1>2. ASSUME NEW w \in Workers,
             \/ \E set \in SUBSET DeskAlerts, d \in Verdicts : TriageBegin(w, set, d)
             \/ \E a \in DeskAlerts : CloseBegin(w, a)
             \/ TriageCommit(w) \/ CloseCommit(w)
      PROVE  UNCHANGED <<mixed, feedback>>
  BY <1>2 DEF TriageBegin, CloseBegin, TriageCommit, CloseCommit, deskVars, feedbackVars
<1>3. ASSUME NEW w \in Workers, NEW a \in DeskAlerts, NEW l \in Labels, LabelBegin(w, a, l) PROVE AttemptsTyped'
  BY <1>3 DEF LabelBegin, AttemptsTyped
<1>4. ASSUME NEW w \in Workers, LabelCommit(w) PROVE AttemptsTyped'
  BY <1>4 DEF LabelCommit, AttemptsTyped
<1>5. ASSUME NEW t \in feedback, FeedbackStart(t) PROVE AttemptsTyped'
  <2> DEFINE u == [t EXCEPT !.ts = clock + 1]
  <2>1. t \in Task /\ t.fails \in 0..(MaxRetries + 1)
    BY DEF DeskInv, LabelsTyped, AttemptsTyped
  <2>2. u.fails = t.fails
    BY <2>1 DEF Task
  <2> QED
    BY <1>5, <2>1, <2>2 DEF FeedbackStart, AttemptsTyped
<1>6. ASSUME NEW t \in feedback, Publish(t) \/ NotifyFailure(t) PROVE AttemptsTyped'
  BY <1>6 DEF Publish, NotifyFailure, AttemptsTyped
<1>7. ASSUME NEW t \in feedback, PublishFails(t) PROVE AttemptsTyped'
  <2> DEFINE u == [t EXCEPT !.fails = @ + 1]
  <2>1. t \in Task /\ t.fails <= MaxRetries
    BY <1>7 DEF PublishFails, DeskInv, LabelsTyped
  <2>2. u.fails = t.fails + 1 /\ u.fails \in 0..(MaxRetries + 1)
    BY <2>1 DEF Task
  <2> QED
    BY <1>7, <2>2 DEF PublishFails, AttemptsTyped
<1>8. CASE Crash
  BY <1>8 DEF Crash, AttemptsTyped
<1> QED
  <2>1. CASE DeskNext
    BY <1>2, <1>3, <1>4, <1>5, <1>6, <1>7, <1>8, <2>1 DEF DeskNext, AttemptsTyped
  <2> QED
    BY <1>1, <2>1

DeskSpec == RequestInit /\ DeskInit /\ [][DeskNext]_<<requestVars, deskVars>>

(* What others learn of an alert agrees with its row: the status with the  *)
(* audit trail while no two requests have overlapped, and the label with   *)
(* the newest record of the topic; each label is accounted for. For any    *)
(* number of alerts, requests, retries and crashes.                        *)
THEOREM DeskIsSound == DeskSpec => []DeskSound
<1>1. RequestInit /\ DeskInit => DeskInv
  <2> SUFFICES ASSUME RequestInit, DeskInit PROVE DeskInv
    OBVIOUS
  <2>1. RequestInv /\ \A w \in Workers : request[w] = None
    BY RequestsInit
  <2>2. labelled = <<>> /\ topic = <<>> /\ Len(labelled) = 0 /\ LabelIds = {} /\ feedback = {} /\ 1..Len(topic) = {}
    BY DEF DeskInit, LabelIds
  <2>3. RowsTyped
    <3>1. [status |-> "OPEN", label |-> None] \in DeskRow
      BY DEF DeskRow, AlertStatuses
    <3> QED
      BY <3>1 DEF DeskInit, RowsTyped, AlertStatuses
  <2>4. LabelsTyped /\ Accounted /\ TakenInOrder /\ UnstartedIsLast /\ LastLabelKept
    BY <2>2 DEF DeskInit, LabelsTyped, Accounted, TakenInOrder, UnstartedIsLast, LastLabelKept
  <2>5. StatusAudited
    BY DEF DeskInit, StatusAudited
  <2> QED
    BY <2>1, <2>3, <2>4, <2>5 DEF DeskInv, DeskHeld, Doing
<1>2. DeskInv /\ [DeskNext]_<<requestVars, deskVars>> => DeskInv'
  <2> SUFFICES ASSUME DeskInv, [DeskNext]_<<requestVars, deskVars>> PROVE DeskInv'
    OBVIOUS
  <2>1. CASE UNCHANGED <<requestVars, deskVars>>
    <3>1. UNCHANGED <<request, calls, crossed, desk, audited, labelled, feedback, clock, topic, notified, lost, mixed>>
      BY <2>1 DEF requestVars, deskVars
    <3>2. /\ RequestInv' /\ RowsTyped' /\ LastLabelKept' /\ StatusAudited' /\ LabelIds' = LabelIds
          /\ \A w \in Workers : DeskHeld(w)'
          /\ \A a : LabelsUnder(a) = {} => LabelsUnder(a)' = {}
      BY <3>1, TaskStep
    <3>3. LabelsTyped' /\ Accounted'
      BY <3>1, <3>2 DEF DeskInv, LabelsTyped, Accounted, Published, Pending
    <3>4. \A n, x : Taken(n, x)' => Taken(n, x)
      BY <3>1 DEF Taken
    <3>5. TakenInOrder' /\ UnstartedIsLast'
      BY <3>1, <3>2, <3>4, TakenStays
    <3> QED
      BY <3>2, <3>3, <3>5 DEF DeskInv
  <2>2. CASE DeskNext
    BY <2>2, StatusBeginInv, LabelBeginInv, StatusCommitInv, LabelCommitInv, FeedbackStartInv,
       PublishInv, PublishFailsInv, NotifyFailureInv, DeskCrashInv DEF DeskNext
  <2> QED
    BY <2>1, <2>2
<1>3. ASSUME DeskInv, AttemptsTyped PROVE DeskSound
  <2>1. LabelsAccounted
    BY <1>3 DEF DeskInv, Accounted, LabelsAccounted, Published, Pending
  <2>2. feedback \subseteq [n : LabelIds, ts : 0..clock, fails : 0..MaxRetries + 1]
    <3> SUFFICES ASSUME NEW t \in feedback PROVE t \in [n : LabelIds, ts : 0..clock, fails : 0..MaxRetries + 1]
      OBVIOUS
    <3>1. t \in Task /\ t.n \in LabelIds /\ t.ts <= clock /\ clock \in Nat
      BY <1>3 DEF DeskInv, LabelsTyped
    <3>2. t.ts \in 0..clock
      BY <3>1 DEF Task
    <3>3. t.fails \in 0..(MaxRetries + 1)
      BY <1>3 DEF AttemptsTyped
    <3> QED
      BY <3>1, <3>2, <3>3 DEF Task
  <2>3. DeskTypeOK
    BY <1>3, <2>2 DEF DeskTypeOK, DeskInv, RowsTyped, LabelsTyped, DeskRow, LabelRow, LabelRecord, AttemptsTyped
  <2> QED
    BY <1>3, <2>1, <2>3, LastIsNewest DEF DeskInv, DeskSound
<1>4. RequestInit /\ DeskInit => AttemptsTyped
  BY DEF DeskInit, AttemptsTyped
<1>5. AttemptsTyped /\ DeskInv /\ [DeskNext]_<<requestVars, deskVars>> => AttemptsTyped'
  BY AttemptsKept
<1> QED
  BY <1>1, <1>2, <1>3, <1>4, <1>5, PTL DEF DeskSpec

-----------------------------------------------------------------------------
(* RuleEvaluation: what fires, and how severe.                             *)

(* A sum of numbers over a finite set is the size of this set.             *)
Units(f, S) == UNION {{i} \X (1..f[i]) : i \in S}

ChosenOf(s) == CHOOSE x \in s : TRUE

(* What the fold of the library computes for each subset.                  *)
IsSum(g, f, S) ==
  g = [s \in SUBSET S |-> IF s = {} THEN 0 ELSE f[ChosenOf(s)] + g[s \ {ChosenOf(s)}]]

(* The size is finite, and grows with the set by the number of what is     *)
(* added.                                                                  *)
LEMMA UnitsFinite ==
  ASSUME NEW D, NEW f \in [D -> Nat], NEW S \in SUBSET D, IsFiniteSet(S)
  PROVE  IsFiniteSet(Units(f, S)) /\ Cardinality(Units(f, S)) \in Nat
<1> DEFINE Of == {{i} \X (1..f[i]) : i \in S}
<1>1. IsFiniteSet(Of)
  <2>1. PICK e : e = [i \in S |-> {i} \X (1..f[i])]
    OBVIOUS
  <2>2. e \in [S -> Of] /\ \A t \in Of : \E i \in S : e[i] = t
    BY <2>1
  <2> HIDE DEF Of
  <2>3. e \in Surjection(S, Of)
    BY <2>2 DEF Surjection
  <2> QED
    BY <2>3, FS_Surjection
<1>2. ASSUME NEW i \in S PROVE IsFiniteSet({i} \X (1..f[i]))
  <2>1. PICK n \in Nat : n = f[i]
    OBVIOUS
  <2>2. IsFiniteSet({i})
    BY FS_Singleton
  <2>3. IsFiniteSet(1..n)
    BY FS_Interval
  <2>4. IsFiniteSet({i} \X (1..n))
    BY <2>2, <2>3, FS_Product
  <2> QED
    BY <2>1, <2>4
<1>3. \A s \in Of : IsFiniteSet(s)
  BY <1>2
<1>4. IsFiniteSet(UNION Of)
  <2> HIDE DEF Of
  <2> QED
    BY <1>1, <1>3, FS_UNION
<1> QED
  BY <1>4, FS_CardinalityType DEF Units

(* One more adds its number.                                               *)
LEMMA UnitsStep ==
  ASSUME NEW D, NEW f \in [D -> Nat], NEW S \in SUBSET D, IsFiniteSet(S), NEW x \in S
  PROVE  Cardinality(Units(f, S)) = f[x] + Cardinality(Units(f, S \ {x}))
<1>1. PICK n \in Nat : n = f[x]
  OBVIOUS
<1>2. PICK P : P = {x} \X (1..n)
  OBVIOUS
<1>3. IsFiniteSet(P) /\ Cardinality(P) = n
  <2>1. IsFiniteSet({x}) /\ Cardinality({x}) = 1
    BY FS_Singleton
  <2>2. IsFiniteSet(1..n) /\ Cardinality(1..n) = n
    BY FS_Interval
  <2>3. IsFiniteSet(P) /\ Cardinality(P) = 1 * n
    BY <1>2, <2>1, <2>2, FS_Product
  <2> QED
    BY <2>3
<1>4. PICK R : R = Units(f, S \ {x})
  OBVIOUS
<1>5. IsFiniteSet(R) /\ Cardinality(R) \in Nat
  <2>1. S \ {x} \in SUBSET D /\ IsFiniteSet(S \ {x})
    BY FS_Subset
  <2> QED
    BY <1>4, <2>1, UnitsFinite
<1>6. Units(f, S) = P \cup R /\ P \cap R = {}
  BY <1>1, <1>2, <1>4 DEF Units
<1>7. Cardinality(P \cup R) = Cardinality(P) + Cardinality(R) - Cardinality(P \cap R)
  BY <1>3, <1>5, FS_Union
<1>8. Cardinality(P \cap R) = 0
  BY <1>6, FS_EmptySet
<1> QED
  BY <1>1, <1>3, <1>4, <1>5, <1>6, <1>7, <1>8

(* The sizes are what the fold computes.                                   *)
LEMMA SizesAreSums ==
  ASSUME NEW D, NEW f \in [D -> Nat], IsFiniteSet(D)
  PROVE  IsSum([s \in SUBSET D |-> Cardinality(Units(f, s))], f, D)
<1> DEFINE g == [s \in SUBSET D |-> Cardinality(Units(f, s))]
<1>1. ASSUME NEW s \in SUBSET D
      PROVE  Cardinality(Units(f, s)) = IF s = {} THEN 0 ELSE f[ChosenOf(s)] + g[s \ {ChosenOf(s)}]
  <2>1. CASE s = {}
    <3>1. Units(f, s) = {}
      BY <2>1 DEF Units
    <3> QED
      BY <2>1, <3>1, FS_EmptySet
  <2>2. CASE s # {}
    <3>1. ChosenOf(s) \in s /\ IsFiniteSet(s)
      BY <2>2, FS_Subset DEF ChosenOf
    <3>2. PICK x \in s : x = ChosenOf(s)
      BY <3>1
    <3>3. g[s \ {x}] = Cardinality(Units(f, s \ {x}))
      OBVIOUS
    <3> QED
      BY <2>2, <3>1, <3>2, <3>3, UnitsStep
  <2> QED
    BY <2>1, <2>2
<1> QED
  BY <1>1 DEF IsSum

(* Two folds are one.                                                      *)
LEMMA SumsAreOne ==
  ASSUME NEW D, NEW f, IsFiniteSet(D), NEW g, NEW h, IsSum(g, f, D), IsSum(h, f, D)
  PROVE  g[D] = h[D]
<1> DEFINE Bad == {n \in Nat : \E s \in SUBSET D : Cardinality(s) = n /\ g[s] # h[s]}
<1> DEFINE Less == {p \in Nat \X Nat : p[1] < p[2]}
<1>1. SUFFICES ASSUME g[D] # h[D] PROVE FALSE
  OBVIOUS
<1>2. Bad \subseteq Nat /\ Bad # {}
  <2>1. Cardinality(D) \in Nat
    BY FS_CardinalityType
  <2> QED
    BY <1>1, <2>1
<1>3. PICK m \in Bad : \A n \in Bad : ~ (<<n, m>> \in Less)
  <2>1. IsWellFoundedOn(Less, Nat)
    BY NatLessThanWellFounded DEF OpToRel
  <2> HIDE DEF Less, Bad
  <2> QED
    BY <1>2, <2>1, WFMin
<1>4. PICK s \in SUBSET D : Cardinality(s) = m /\ g[s] # h[s]
  BY <1>3
<1>5. s # {}
  BY <1>4 DEF IsSum
<1>6. PICK x \in s : x = ChosenOf(s)
  BY <1>5 DEF ChosenOf
<1>7. IsFiniteSet(s) /\ Cardinality(s \ {x}) = m - 1 /\ m \in Nat /\ s \ {x} \in SUBSET D
  BY <1>4, FS_Subset, FS_RemoveElement
<1>8. IsFiniteSet(s \ {x}) /\ Cardinality(s \ {x}) \in Nat
  BY <1>7, FS_Subset, FS_CardinalityType
<1>9. g[s \ {x}] = h[s \ {x}]
  <2>1. m - 1 \in Nat /\ m - 1 < m
    BY <1>7, <1>8
  <2>2. m - 1 \notin Bad
    <3> HIDE DEF Bad
    <3> QED
      BY <1>2, <1>3, <1>7, <2>1
  <2> QED
    BY <1>7, <2>1, <2>2
<1>10. ASSUME NEW e, IsSum(e, f, D) PROVE e[s] = f[x] + e[s \ {x}]
  BY <1>5, <1>6, <1>10 DEF IsSum
<1>11. g[s] = f[x] + g[s \ {x}] /\ h[s] = f[x] + h[s \ {x}]
  BY <1>10
<1> QED
  BY <1>4, <1>9, <1>11

(* A fold that is what its choice is of: the size.                         *)
LEMMA SumIsSize ==
  ASSUME NEW D, NEW f \in [D -> Nat], IsFiniteSet(D)
  PROVE  (CHOOSE g : IsSum(g, f, D))[D] = Cardinality(Units(f, D))
<1>1. PICK h : h = [s \in SUBSET D |-> Cardinality(Units(f, s))]
  OBVIOUS
<1>2. IsSum(h, f, D)
  BY <1>1, SizesAreSums
<1>3. PICK g : g = CHOOSE e : IsSum(e, f, D)
  OBVIOUS
<1>4. IsSum(g, f, D)
  <2>1. \E e : IsSum(e, f, D)
    BY <1>2
  <2>2. IsSum(CHOOSE e : IsSum(e, f, D), f, D)
    BY <2>1
  <2> QED
    BY <1>3, <2>2
<1>5. h[D] = Cardinality(Units(f, D))
  BY <1>1
<1> QED
  BY <1>2, <1>3, <1>4, <1>5, SumsAreOne

(* The total weight of a compound rule is such a size.                     *)
LEMMA TotalIsSize ==
  ASSUME NEW c, NEW D, D = DOMAIN c.components, IsFiniteSet(D),
         NEW f \in [D -> Nat], \A i \in D : f[i] = WeightAt(c, i)
  PROVE  TotalWeight(c) = Cardinality(Units(f, D))
<1>1. PICK h : h = [s \in SUBSET D |-> Cardinality(Units(f, s))]
  OBVIOUS
<1>2. IsSum(h, f, D)
  BY <1>1, SizesAreSums
<1> DEFINE Body(iter) == [s \in SUBSET D |-> IF s = {} THEN 0 ELSE WeightAt(c, ChosenOf(s)) + iter[s \ {ChosenOf(s)}]]
<1>3. ASSUME NEW e
      PROVE  IsSum(e, f, D) <=> e = Body(e)
  <2>1. \A s \in SUBSET D : s # {} => f[ChosenOf(s)] = WeightAt(c, ChosenOf(s))
    BY DEF ChosenOf
  <2> QED
    BY <2>1 DEF IsSum
<1>4. PICK e : e = CHOOSE iter : iter = Body(iter)
  OBVIOUS
<1>5. e = Body(e)
  <2>1. h = Body(h)
    BY <1>2, <1>3
  <2> HIDE DEF Body
  <2> QED
    BY <1>4, <2>1
<1>6. TotalWeight(c) = e[D]
  BY <1>4 DEF TotalWeight, MapThenSumSet, MapThenFoldSet, ChosenOf
<1>7. IsSum(e, f, D)
  <2> HIDE DEF Body
  <2> QED
    BY <1>3, <1>5
<1>8. e[D] = h[D]
  BY <1>2, <1>7, SumsAreOne
<1> QED
  BY <1>1, <1>6, <1>8

(* So is the weighted score, of the components that matched.               *)
LEMMA ScoreIsSize ==
  ASSUME NEW c, NEW matched, NEW M, M = MatchedAt(c, matched), IsFiniteSet(M),
         NEW f \in [M -> Nat],
         \A i \in M : f[i] = EffectiveWeight(c.components[i]) * WeightAt(c, i)
  PROVE  WeightedScore(c, matched) = Cardinality(Units(f, M))
<1>1. PICK h : h = [s \in SUBSET M |-> Cardinality(Units(f, s))]
  OBVIOUS
<1>2. IsSum(h, f, M)
  BY <1>1, SizesAreSums
<1> DEFINE Term(i) == EffectiveWeight(c.components[i]) * WeightAt(c, i)
<1> DEFINE Body(iter) == [s \in SUBSET M |-> IF s = {} THEN 0 ELSE Term(ChosenOf(s)) + iter[s \ {ChosenOf(s)}]]
<1>3. ASSUME NEW e
      PROVE  IsSum(e, f, M) <=> e = Body(e)
  <2> HIDE DEF Term
  <2>1. \A s \in SUBSET M : s # {} => f[ChosenOf(s)] = Term(ChosenOf(s))
    BY DEF ChosenOf, Term
  <2> QED
    BY <2>1 DEF IsSum
<1>4. PICK e : e = CHOOSE iter : iter = Body(iter)
  OBVIOUS
<1>5. e = Body(e)
  <2>1. h = Body(h)
    <3> HIDE DEF Body
    <3> QED
      BY <1>2, <1>3
  <2> HIDE DEF Body
  <2> QED
    BY <1>4, <2>1
<1>6. WeightedScore(c, matched) = e[M]
  BY <1>4 DEF WeightedScore, MapThenSumSet, MapThenFoldSet, ChosenOf
<1>7. IsSum(e, f, M)
  <2> HIDE DEF Body
  <2> QED
    BY <1>3, <1>5
<1>8. e[M] = h[M]
  BY <1>2, <1>7, SumsAreOne
<1> QED
  BY <1>1, <1>6, <1>8

(* The positions of a compound rule's components.                          *)
LEMMA ComponentFacts ==
  ASSUME NEW c \in Compound, NEW m
  PROVE  /\ DOMAIN c.components = 1..Len(c.components) /\ Len(c.components) \in Nat
         /\ IsFiniteSet(DOMAIN c.components)
         /\ Cardinality(DOMAIN c.components) = Len(c.components)
         /\ \A i \in DOMAIN c.components : c.components[i] \in RuleIds
         /\ \A i \in DOMAIN c.components : WeightAt(c, i) \in Nat
         /\ MatchedAt(c, m) \subseteq DOMAIN c.components
         /\ IsFiniteSet(MatchedAt(c, m)) /\ Cardinality(MatchedAt(c, m)) \in Nat
<1>1. c.components \in Seq(RuleIds) /\ c.weights \in [RuleIds -> Nat]
  BY DEF Compound
<1>2. PICK n \in Nat : n = Len(c.components)
  BY <1>1
<1>3. DOMAIN c.components = 1..n /\ \A i \in 1..n : c.components[i] \in RuleIds
  BY <1>1, <1>2
<1>4. IsFiniteSet(1..n)
  BY FS_Interval
<1>5. Cardinality(1..n) = n
  <2>1. Cardinality(1..n) = IF 1 > n THEN 0 ELSE n - 1 + 1
    BY FS_Interval
  <2> QED
    BY <2>1
<1>6. MatchedAt(c, m) \subseteq 1..n
  BY <1>3 DEF MatchedAt
<1>7. IsFiniteSet(MatchedAt(c, m))
  BY <1>4, <1>6, FS_Subset
<1>8. Cardinality(MatchedAt(c, m)) \in Nat
  BY <1>7, FS_CardinalityType
<1>9. \A i \in DOMAIN c.components : WeightAt(c, i) \in Nat
  BY <1>1, <1>3 DEF WeightAt
<1> QED
  BY <1>2, <1>3, <1>4, <1>5, <1>6, <1>7, <1>8, <1>9

(* A weight that counts is positive.                                       *)
LEMMA WeightFacts ==
  \A r \in RuleIds : EffectiveWeight(r) \in Nat /\ EffectiveWeight(r) > 0
BY EvaluationAssumption DEF EffectiveWeight

(* The total weight is a natural number.                                   *)
LEMMA TotalFacts ==
  ASSUME NEW c \in Compound
  PROVE  TotalWeight(c) \in Nat
<1>1. PICK D : D = DOMAIN c.components
  OBVIOUS
<1>2. IsFiniteSet(D) /\ \A i \in D : WeightAt(c, i) \in Nat
  BY <1>1, ComponentFacts
<1>3. PICK f : f = [i \in D |-> WeightAt(c, i)]
  OBVIOUS
<1>4. f \in [D -> Nat] /\ \A i \in D : f[i] = WeightAt(c, i)
  BY <1>2, <1>3
<1>5. TotalWeight(c) = Cardinality(Units(f, D))
  BY <1>1, <1>2, <1>4, TotalIsSize
<1>6. Cardinality(Units(f, D)) \in Nat
  BY <1>2, <1>4, UnitsFinite
<1> QED
  BY <1>5, <1>6

(* The weighted score is a size, of units of the components that matched.  *)
LEMMA ScoreFacts ==
  ASSUME NEW c \in Compound, NEW m
  PROVE  \E f : /\ f \in [MatchedAt(c, m) -> Nat]
                /\ \A i \in MatchedAt(c, m) : f[i] = EffectiveWeight(c.components[i]) * WeightAt(c, i)
                /\ WeightedScore(c, m) = Cardinality(Units(f, MatchedAt(c, m)))
                /\ IsFiniteSet(Units(f, MatchedAt(c, m)))
                /\ WeightedScore(c, m) \in Nat
<1>1. PICK M : M = MatchedAt(c, m)
  OBVIOUS
<1>2. IsFiniteSet(M) /\ M \subseteq DOMAIN c.components
  BY <1>1, ComponentFacts
<1>3. \A i \in M : EffectiveWeight(c.components[i]) * WeightAt(c, i) \in Nat
  <2> TAKE i \in M
  <2>1. c.components[i] \in RuleIds /\ WeightAt(c, i) \in Nat
    BY <1>2, ComponentFacts
  <2>2. EffectiveWeight(c.components[i]) \in Nat
    BY <2>1, WeightFacts
  <2>3. PICK a \in Nat, b \in Nat : a = EffectiveWeight(c.components[i]) /\ b = WeightAt(c, i)
    BY <2>1, <2>2
  <2>4. a * b \in Nat
    OBVIOUS
  <2> QED
    BY <2>3, <2>4
<1>4. PICK f : f = [i \in M |-> EffectiveWeight(c.components[i]) * WeightAt(c, i)]
  OBVIOUS
<1>5. f \in [M -> Nat] /\ \A i \in M : f[i] = EffectiveWeight(c.components[i]) * WeightAt(c, i)
  BY <1>3, <1>4
<1>6. WeightedScore(c, m) = Cardinality(Units(f, M))
  BY <1>1, <1>2, <1>5, ScoreIsSize
<1>7. IsFiniteSet(Units(f, M)) /\ Cardinality(Units(f, M)) \in Nat
  BY <1>2, <1>5, UnitsFinite
<1> QED
  BY <1>1, <1>5, <1>6, <1>7

(* More rules that matched score no less.                                  *)
LEMMA ScoreGrows ==
  ASSUME NEW c \in Compound, NEW m, NEW n, m \subseteq n
  PROVE  /\ MatchedAt(c, m) \subseteq MatchedAt(c, n)
         /\ WeightedScore(c, m) \in Nat /\ WeightedScore(c, n) \in Nat
         /\ WeightedScore(c, m) <= WeightedScore(c, n)
<1>1. MatchedAt(c, m) \subseteq MatchedAt(c, n)
  BY DEF MatchedAt
<1>2. PICK M, N : M = MatchedAt(c, m) /\ N = MatchedAt(c, n)
  OBVIOUS
<1>3. PICK f : /\ f \in [M -> Nat]
               /\ \A i \in M : f[i] = EffectiveWeight(c.components[i]) * WeightAt(c, i)
               /\ WeightedScore(c, m) = Cardinality(Units(f, M))
               /\ IsFiniteSet(Units(f, M))
               /\ WeightedScore(c, m) \in Nat
  BY <1>2, ScoreFacts
<1>4. PICK g : /\ g \in [N -> Nat]
               /\ \A i \in N : g[i] = EffectiveWeight(c.components[i]) * WeightAt(c, i)
               /\ WeightedScore(c, n) = Cardinality(Units(g, N))
               /\ IsFiniteSet(Units(g, N))
               /\ WeightedScore(c, n) \in Nat
  BY <1>2, ScoreFacts
<1>5. Units(f, M) \subseteq Units(g, N)
  <2>1. \A i \in M : i \in N /\ f[i] = g[i]
    BY <1>1, <1>2, <1>3, <1>4
  <2> QED
    BY <2>1 DEF Units
<1>6. Cardinality(Units(f, M)) <= Cardinality(Units(g, N))
  BY <1>4, <1>5, FS_Subset
<1> QED
  BY <1>1, <1>3, <1>4, <1>6

(* None that matched scores nothing.                                       *)
LEMMA NoMatchNoScore ==
  ASSUME NEW c \in Compound, NEW m, MatchedAt(c, m) = {}
  PROVE  WeightedScore(c, m) = 0
<1>1. PICK f : WeightedScore(c, m) = Cardinality(Units(f, MatchedAt(c, m)))
  BY ScoreFacts
<1>2. Units(f, {}) = {}
  BY DEF Units
<1>3. Cardinality({}) = 0
  BY FS_EmptySet
<1> QED
  BY <1>1, <1>2, <1>3

(* The threshold is positive.                                              *)
LEMMA ThresholdFacts ==
  ASSUME NEW c \in Compound
  PROVE  Threshold(c) \in Nat /\ Threshold(c) > 0
<1>1. c.threshold \in Nat
  BY DEF Compound
<1> QED
  BY <1>1 DEF Threshold

(* A compound rule that fires has a component that matched, as many of     *)
(* them as its logic asks for, and fires with more.                        *)
LEMMA FiringIsExplained ==
  ASSUME NEW c \in Compound, NEW m, Fires(c, m)
  PROVE  /\ MatchedAt(c, m) # {}
         /\ c.logic = "AND" => Cardinality(MatchedAt(c, m)) >= Len(c.components)
         /\ c.logic = "OR" => Cardinality(MatchedAt(c, m)) >= 1
         /\ c.logic = "N_OF_M" => Cardinality(MatchedAt(c, m)) >= c.n
<1>1. PICK k \in Nat : k = Cardinality(MatchedAt(c, m))
  BY ComponentFacts
<1>2. Len(c.components) \in Nat /\ c.n \in Nat
  BY ComponentFacts DEF Compound
<1>3. MatchedAt(c, m) # {}
  <2>1. SUFFICES ASSUME MatchedAt(c, m) = {} PROVE FALSE
    OBVIOUS
  <2>2. WeightedScore(c, m) = 0
    BY <2>1, NoMatchNoScore
  <2>3. PICK t \in Nat, h \in Nat : t = TotalWeight(c) /\ h = Threshold(c) /\ h > 0
    BY TotalFacts, ThresholdFacts
  <2>4. t > 0 /\ 0 >= h * t
    BY <2>2, <2>3 DEF Fires, Reaches
  <2>5. h * t > 0
    BY <2>3, <2>4
  <2> QED
    BY <2>4, <2>5
<1>4. c.logic = "AND" => k = Len(c.components)
  BY <1>1 DEF Fires, Selected
<1>5. c.logic = "OR" => k >= 1
  BY <1>1 DEF Fires, Selected
<1>6. c.logic = "N_OF_M" => k >= c.n
  BY <1>1, <1>2 DEF Fires, Selected, Worse
<1> QED
  BY <1>1, <1>2, <1>3, <1>4, <1>5, <1>6

(* A compound rule that fires also fires with more rules that matched.     *)
LEMMA FiringGrows ==
  ASSUME NEW c \in Compound, NEW m, NEW n, m \subseteq n, Fires(c, m)
  PROVE  Fires(c, n)
<1>1. PICK j \in Nat, k \in Nat :
        j = Cardinality(MatchedAt(c, m)) /\ k = Cardinality(MatchedAt(c, n))
  BY ComponentFacts
<1>2. j <= k
  <2>1. IsFiniteSet(MatchedAt(c, n))
    BY ComponentFacts
  <2>2. MatchedAt(c, m) \subseteq MatchedAt(c, n)
    BY ScoreGrows
  <2>3. Cardinality(MatchedAt(c, m)) <= Cardinality(MatchedAt(c, n))
    BY <2>1, <2>2, FS_Subset
  <2> QED
    BY <1>1, <2>3
<1>3. PICK l \in Nat : l = Len(c.components)
  BY ComponentFacts
<1>4. k <= l
  <2>1. IsFiniteSet(DOMAIN c.components) /\ Cardinality(DOMAIN c.components) = l
    BY <1>3, ComponentFacts
  <2>2. MatchedAt(c, n) \subseteq DOMAIN c.components
    BY ComponentFacts
  <2>3. Cardinality(MatchedAt(c, n)) <= Cardinality(DOMAIN c.components)
    BY <2>1, <2>2, FS_Subset
  <2> QED
    BY <1>1, <2>1, <2>3
<1>5. c.n \in Nat
  BY DEF Compound
<1>6. Selected(c, n)
  <2>1. Selected(c, m)
    BY DEF Fires
  <2>2. CASE c.logic = "AND"
    <3>1. j = l /\ j > 0
      BY <1>1, <1>3, <2>1, <2>2 DEF Selected
    <3>2. k = l /\ k > 0
      BY <1>2, <1>4, <3>1
    <3> QED
      BY <1>1, <1>3, <2>2, <3>2 DEF Selected
  <2>3. CASE c.logic = "OR"
    <3>1. j >= 1
      BY <1>1, <2>1, <2>3 DEF Selected
    <3> QED
      BY <1>1, <1>2, <2>3, <3>1 DEF Selected
  <2>4. CASE c.logic = "N_OF_M"
    <3>1. j >= Worse(c.n, 1)
      BY <1>1, <2>1, <2>4 DEF Selected
    <3>2. k >= Worse(c.n, 1)
      BY <1>2, <1>5, <3>1 DEF Worse
    <3> QED
      BY <1>1, <2>4, <3>2 DEF Selected
  <2>5. CASE c.logic \notin {"AND", "OR", "N_OF_M"}
    BY <2>5 DEF Selected
  <2> QED
    BY <2>2, <2>3, <2>4, <2>5
<1>7. Reaches(c, n)
  <2>1. PICK t \in Nat, h \in Nat, v \in Nat, w \in Nat :
          /\ t = TotalWeight(c) /\ h = Threshold(c)
          /\ v = WeightedScore(c, m) /\ w = WeightedScore(c, n)
    BY TotalFacts, ThresholdFacts, ScoreGrows
  <2>2. v <= w
    BY <2>1, ScoreGrows
  <2>3. t > 0 /\ v >= h * t
    BY <2>1 DEF Fires, Reaches
  <2>4. h * t \in Nat
    OBVIOUS
  <2>5. w >= h * t
    BY <2>2, <2>3, <2>4
  <2> QED
    BY <2>1, <2>3, <2>5 DEF Reaches
<1> QED
  BY <1>6, <1>7 DEF Fires

(* The worst of some severities is one of them, and none is worse.         *)
LEMMA WorstOf ==
  ASSUME NEW S, S \subseteq 1..4, S # {}
  PROVE  Max(S) \in S /\ \A y \in S : y <= Max(S)
<1>1. S \subseteq Nat /\ \A x \in S : x <= 4
  OBVIOUS
<1>2. \E x \in S : \A y \in S : y <= x
  BY <1>1, GreatestExists
<1>3. \E x \in S : \A y \in S : x >= y
  BY <1>2
<1> QED
  BY <1>3 DEF Max

(* The severity of a compound match is that of a rule, or the fixed one.   *)
LEMMA SeverityFacts ==
  ASSUME NEW c \in Compound, NEW m
  PROVE  /\ CompoundSeverity(c, m) \in 1..4
         /\ c.mode = "MAX" =>
              \A i \in MatchedAt(c, m) : CompoundSeverity(c, m) >= Severity[c.components[i]]
<1> DEFINE S == {1} \cup {Severity[c.components[i]] : i \in MatchedAt(c, m)}
<1>1. \A i \in MatchedAt(c, m) : Severity[c.components[i]] \in 1..4
  BY ComponentFacts, EvaluationAssumption
<1>2. S \subseteq 1..4 /\ S # {}
  BY <1>1
<1>3. Max(S) \in 1..4 /\ \A y \in S : y <= Max(S)
  <2> HIDE DEF S
  <2> QED
    BY <1>2, WorstOf
<1>4. c.fixed \in 0..4
  BY DEF Compound
<1>5. CASE c.mode = "FIXED" /\ c.fixed # 0
  BY <1>4, <1>5 DEF CompoundSeverity
<1>6. CASE ~ (c.mode = "FIXED" /\ c.fixed # 0)
  <2>1. CompoundSeverity(c, m) = Max(S)
    BY <1>6 DEF CompoundSeverity
  <2>2. \A i \in MatchedAt(c, m) : Severity[c.components[i]] \in S
    OBVIOUS
  <2> HIDE DEF S
  <2>3. \A i \in MatchedAt(c, m) : Severity[c.components[i]] <= Max(S)
    BY <1>3, <2>2
  <2>4. \A i \in MatchedAt(c, m) : CompoundSeverity(c, m) >= Severity[c.components[i]]
    BY <1>1, <1>3, <2>1, <2>3
  <2> QED
    BY <1>3, <2>1, <2>4
<1> QED
  BY <1>5, <1>6

(* More rules that matched are no less severe.                             *)
LEMMA SeverityGrows ==
  ASSUME NEW c \in Compound, NEW m, NEW n, m \subseteq n
  PROVE  CompoundSeverity(c, m) <= CompoundSeverity(c, n)
<1> DEFINE S == {1} \cup {Severity[c.components[i]] : i \in MatchedAt(c, m)}
<1> DEFINE T == {1} \cup {Severity[c.components[i]] : i \in MatchedAt(c, n)}
<1>1. \A i \in MatchedAt(c, n) : Severity[c.components[i]] \in 1..4
  BY ComponentFacts, EvaluationAssumption
<1>2. MatchedAt(c, m) \subseteq MatchedAt(c, n)
  BY DEF MatchedAt
<1>3. S \subseteq T /\ T \subseteq 1..4 /\ S # {} /\ T # {}
  BY <1>1, <1>2
<1>4. Max(S) <= Max(T)
  <2> HIDE DEF S, T
  <2>1. Max(S) \in S
    BY <1>3, WorstOf
  <2>2. \A y \in T : y <= Max(T)
    BY <1>3, WorstOf
  <2> QED
    BY <1>3, <2>1, <2>2
<1>5. CASE c.mode = "FIXED" /\ c.fixed # 0
  <2>1. c.fixed \in Nat
    BY DEF Compound
  <2> QED
    BY <1>5, <2>1 DEF CompoundSeverity
<1>6. CASE ~ (c.mode = "FIXED" /\ c.fixed # 0)
  BY <1>4, <1>6 DEF CompoundSeverity
<1> QED
  BY <1>5, <1>6

(* The lesser of two numbers.                                              *)
LEMMA LesserOf ==
  ASSUME NEW a \in Nat, NEW b \in Nat
  PROVE  Min({a, b}) = IF a <= b THEN a ELSE b
<1>1. PICK x : x = IF a <= b THEN a ELSE b
  OBVIOUS
<1>2. x \in {a, b} /\ \A y \in {a, b} : x <= y
  BY <1>1
<1>3. \A z \in {a, b} : (\A y \in {a, b} : z <= y) => z = x
  BY <1>1
<1> QED
  BY <1>1, <1>2, <1>3 DEF Min

(* The tenant's percentages are natural numbers.                           *)
LEMMA ConfigFacts ==
  \A k \in {"rule", "ml", "network", "medium", "high", "critical", "auto"} : Config[k] \in Nat
<1>1. Config \in [{"rule", "ml", "network", "medium", "high", "critical", "auto"} -> 0..100]
  BY EvaluationAssumption
<1>2. \A k \in {"rule", "ml", "network", "medium", "high", "critical", "auto"} : Config[k] \in 0..100
  BY <1>1
<1> QED
  BY <1>2

(* The mix is a natural number, and the score is the mix cut off.          *)
LEMMA MixFacts ==
  ASSUME NEW w \in Nat, NEW a \in Levels, NEW p \in Levels
  PROVE  \E x \in Nat : /\ x = Min({w, 100}) * Config["rule"] + a * Config["ml"] + p * Config["network"]
                        /\ Score(w, a, p) = IF 10000 <= x THEN 10000 ELSE x
<1>1. PICK v \in Nat : v = Min({w, 100})
  BY LesserOf
<1>2. PICK r \in Nat, l \in Nat, k \in Nat :
        r = Config["rule"] /\ l = Config["ml"] /\ k = Config["network"]
  BY ConfigFacts
<1>3. a \in Nat /\ p \in Nat
  BY EvaluationAssumption
<1>4. v * r \in Nat /\ a * l \in Nat /\ p * k \in Nat
  BY <1>3
<1>5. PICK x \in Nat : x = v * r + a * l + p * k
  BY <1>4
<1>6. Score(w, a, p) = Min({10000, x})
  BY <1>1, <1>2, <1>5 DEF Score
<1> QED
  BY <1>1, <1>2, <1>5, <1>6, LesserOf

(* The score is at most the full one.                                      *)
LEMMA MixRange ==
  ASSUME NEW w \in Nat, NEW a \in Levels, NEW p \in Levels
  PROVE  Score(w, a, p) \in Nat /\ Score(w, a, p) <= 10000
<1>1. PICK x \in Nat :
        /\ x = Min({w, 100}) * Config["rule"] + a * Config["ml"] + p * Config["network"]
        /\ Score(w, a, p) = IF 10000 <= x THEN 10000 ELSE x
  BY MixFacts
<1> QED
  BY <1>1

(* Higher scores mix to no lower one.                                      *)
LEMMA MixGrows ==
  ASSUME NEW w \in Nat, NEW a \in Levels, NEW p \in Levels, NEW b \in Levels, NEW q \in Levels,
         a <= b, p <= q
  PROVE  Score(w, a, p) <= Score(w, b, q)
<1>1. PICK x \in Nat :
        /\ x = Min({w, 100}) * Config["rule"] + a * Config["ml"] + p * Config["network"]
        /\ Score(w, a, p) = IF 10000 <= x THEN 10000 ELSE x
  BY MixFacts
<1>2. PICK y \in Nat :
        /\ y = Min({w, 100}) * Config["rule"] + b * Config["ml"] + q * Config["network"]
        /\ Score(w, b, q) = IF 10000 <= y THEN 10000 ELSE y
  BY MixFacts
<1>3. x <= y
  <2>1. PICK v \in Nat : v = Min({w, 100})
    BY LesserOf
  <2>2. PICK r \in Nat, l \in Nat, k \in Nat :
          r = Config["rule"] /\ l = Config["ml"] /\ k = Config["network"]
    BY ConfigFacts
  <2>3. a \in Nat /\ b \in Nat /\ p \in Nat /\ q \in Nat
    BY EvaluationAssumption
  <2>4. a * l <= b * l /\ p * k <= q * k
    BY <2>3
  <2>5. v * r \in Nat /\ a * l \in Nat /\ b * l \in Nat /\ p * k \in Nat /\ q * k \in Nat
    BY <2>3
  <2> QED
    BY <1>1, <1>2, <2>1, <2>2, <2>4, <2>5
<1> QED
  BY <1>1, <1>2, <1>3

(* A higher score is graded no lower.                                      *)
LEMMA GradeFacts ==
  ASSUME NEW s \in Nat, NEW t \in Nat, s <= t
  PROVE  SeverityOfScore(s) \in 1..4 /\ SeverityOfScore(s) <= SeverityOfScore(t)
<1>1. PICK cr \in Nat, hi \in Nat, me \in Nat :
        cr = Config["critical"] /\ hi = Config["high"] /\ me = Config["medium"]
  BY ConfigFacts
<1> QED
  BY <1>1 DEF SeverityOfScore

(* An alert names its rule and is no less severe; it grows with the        *)
(* severity and the scores it is made of.                                  *)
LEMMA AlertFacts ==
  ASSUME NEW src \in RuleIds \cup CompoundIds, NEW w \in Nat, NEW g \in 1..4,
         NEW a \in Levels, NEW p \in Levels
  PROVE  /\ AlertOf(src, w, g, a, p).source = src
         /\ AlertOf(src, w, g, a, p).severity \in Nat
         /\ AlertOf(src, w, g, a, p).severity >= g
         /\ AlertOf(src, w, g, a, p) \in Alert
<1>1. Score(w, a, p) \in Nat /\ Score(w, a, p) <= 10000
  BY MixRange
<1>2. PICK s \in Nat : s = Score(w, a, p) /\ s <= 10000
  BY <1>1
<1>3. PICK v : v = Worse(SeverityOfScore(s), g)
  OBVIOUS
<1>4. v \in 1..4 /\ v >= g
  <2>1. s \in Nat /\ s <= s
    OBVIOUS
  <2>2. SeverityOfScore(s) \in 1..4
    BY <2>1, GradeFacts
  <2> QED
    BY <1>3, <2>2 DEF Worse
<1>5. PICK lo \in Nat : lo = 100 * Config["auto"]
  BY ConfigFacts
<1>6. AlertOf(src, w, g, a, p) =
        [source |-> src, score |-> s, severity |-> v, auto |-> v = 4 \/ s >= lo]
  BY <1>2, <1>3, <1>5 DEF AlertOf
<1>7. PICK x : x = [source |-> src, score |-> s, severity |-> v, auto |-> v = 4 \/ s >= lo]
  OBVIOUS
<1>8. x.source = src /\ x.severity = v
  BY <1>7
<1>9. x \in Alert
  <2>0. s <= 10000 /\ 0 <= s /\ s \in Int
    BY <1>2
  <2>1. s \in 0..10000
    BY <2>0
  <2>2. (v = 4 \/ s >= lo) \in BOOLEAN
    OBVIOUS
  <2> QED
    BY <1>4, <1>7, <2>1, <2>2 DEF Alert
<1> QED
  BY <1>4, <1>6, <1>7, <1>8, <1>9

Dominates(y, x) ==
  y.source = x.source /\ y.severity >= x.severity /\ y.score >= x.score /\ (x.auto => y.auto)

(* An alert of more evidence dominates.                                    *)
LEMMA AlertGrows ==
  ASSUME NEW src \in RuleIds \cup CompoundIds, NEW w \in Nat,
         NEW g \in 1..4, NEW h \in 1..4, g <= h,
         NEW a \in Levels, NEW p \in Levels, NEW b \in Levels, NEW q \in Levels, a <= b, p <= q
  PROVE  Dominates(AlertOf(src, w, h, b, q), AlertOf(src, w, g, a, p))
<1>0. Score(w, a, p) \in Nat /\ Score(w, b, q) \in Nat
  BY MixRange
<1>9. Score(w, a, p) <= Score(w, b, q)
  BY MixGrows
<1>1. PICK s \in Nat, t \in Nat : s = Score(w, a, p) /\ t = Score(w, b, q) /\ s <= t
  BY <1>0, <1>9
<1>2. PICK u \in 1..4, v \in 1..4 : u = SeverityOfScore(s) /\ v = SeverityOfScore(t) /\ u <= v
  BY <1>1, GradeFacts
<1>3. PICK y \in 1..4, z \in 1..4 : y = Worse(u, g) /\ z = Worse(v, h) /\ y <= z
  BY <1>2 DEF Worse
<1>4. PICK lo \in Nat : lo = 100 * Config["auto"]
  BY ConfigFacts
<1>5. AlertOf(src, w, g, a, p) =
        [source |-> src, score |-> s, severity |-> y, auto |-> y = 4 \/ s >= lo]
  BY <1>1, <1>2, <1>3, <1>4 DEF AlertOf
<1>6. AlertOf(src, w, h, b, q) =
        [source |-> src, score |-> t, severity |-> z, auto |-> z = 4 \/ t >= lo]
  BY <1>1, <1>2, <1>3, <1>4 DEF AlertOf
<1>7. (y = 4 \/ s >= lo) => (z = 4 \/ t >= lo)
  BY <1>1, <1>3
<1>8. PICK x, z1 :
        /\ x = [source |-> src, score |-> s, severity |-> y, auto |-> y = 4 \/ s >= lo]
        /\ z1 = [source |-> src, score |-> t, severity |-> z, auto |-> z = 4 \/ t >= lo]
  OBVIOUS
<1>10. z1.source = x.source /\ z1.severity >= x.severity /\ z1.score >= x.score
  BY <1>1, <1>3, <1>8
<1>11. x.auto => z1.auto
  <2>1. x.auto = (y = 4 \/ s >= lo) /\ z1.auto = (z = 4 \/ t >= lo)
    BY <1>8
  <2> QED
    BY <1>7, <2>1
<1>12. Dominates(z1, x)
  BY <1>10, <1>11 DEF Dominates
<1> QED
  BY <1>5, <1>6, <1>8, <1>12

(* The alerts of an event, one of each rule that matched and of each       *)
(* compound rule that fired.                                               *)
FiredOn(ev) == {k \in CompoundIds : ev.type # "DEVICE_EVENT" /\ Fires(Compounds[k], MatchedRules(ev))}

OfRule(ev, r) == AlertOf(r, EffectiveWeight(r), Severity[r], ev.anomaly, ev.network)

OfCompound(ev, k) ==
  AlertOf(k, 100, CompoundSeverity(Compounds[k], MatchedRules(ev)), ev.anomaly, 0)

(* The alerts of an event, in these names.                                 *)
LEMMA AlertsAre ==
  ASSUME NEW ev
  PROVE  AlertsOf(ev) = {OfRule(ev, r) : r \in MatchedRules(ev)} \cup {OfCompound(ev, k) : k \in FiredOn(ev)}
BY DEF AlertsOf, FiredOn, OfRule, OfCompound

(* What matches are simple rules.                                          *)
LEMMA MatchFacts ==
  ASSUME NEW ev \in Event
  PROVE  MatchedRules(ev) \subseteq RuleIds
BY DEF MatchedRules, Event

(* A compound rule is not a simple one.                                    *)
LEMMA CompoundFacts ==
  \A k \in CompoundIds : Compounds[k] \in Compound /\ k \notin RuleIds
BY EvaluationAssumption

(* Each alert names its rule, and covers the severity of its match.        *)
LEMMA OfFacts ==
  ASSUME NEW ev \in Event
  PROVE  /\ \A r \in MatchedRules(ev) : OfRule(ev, r).source = r /\ OfRule(ev, r) \in Alert
         /\ \A k \in FiredOn(ev) :
              /\ OfCompound(ev, k).source = k /\ OfCompound(ev, k) \in Alert
              /\ OfCompound(ev, k).severity \in Nat
              /\ OfCompound(ev, k).severity >= CompoundSeverity(Compounds[k], MatchedRules(ev))
<1>1. ev.anomaly \in Levels /\ ev.network \in Levels /\ 0 \in Levels
  BY EvaluationAssumption DEF Event
<1>2. ASSUME NEW r \in MatchedRules(ev) PROVE OfRule(ev, r).source = r /\ OfRule(ev, r) \in Alert
  <2>1. r \in RuleIds /\ EffectiveWeight(r) \in Nat /\ Severity[r] \in 1..4
    BY MatchFacts, WeightFacts, EvaluationAssumption
  <2> QED
    BY <1>1, <2>1, AlertFacts DEF OfRule
<1>3. ASSUME NEW k \in FiredOn(ev)
      PROVE  /\ OfCompound(ev, k).source = k /\ OfCompound(ev, k) \in Alert
             /\ OfCompound(ev, k).severity \in Nat
             /\ OfCompound(ev, k).severity >= CompoundSeverity(Compounds[k], MatchedRules(ev))
  <2>1. k \in CompoundIds /\ Compounds[k] \in Compound
    BY CompoundFacts DEF FiredOn
  <2>2. CompoundSeverity(Compounds[k], MatchedRules(ev)) \in 1..4
    BY <2>1, SeverityFacts
  <2>3. PICK g \in 1..4 : g = CompoundSeverity(Compounds[k], MatchedRules(ev))
    BY <2>2
  <2>4. 100 \in Nat
    OBVIOUS
  <2>5. /\ AlertOf(k, 100, g, ev.anomaly, 0).source = k
        /\ AlertOf(k, 100, g, ev.anomaly, 0) \in Alert
        /\ AlertOf(k, 100, g, ev.anomaly, 0).severity \in Nat
        /\ AlertOf(k, 100, g, ev.anomaly, 0).severity >= g
    BY <1>1, <2>1, <2>3, <2>4, AlertFacts
  <2> QED
    BY <2>3, <2>5 DEF OfCompound
<1> QED
  BY <1>2, <1>3

(* The alerts are those of the last event.                                 *)
EvalInv == event \in Event /\ alerts = AlertsOf(event)

(* The property follows.                                                   *)
LEMMA CompoundFollows ==
  ASSUME EvalInv
  PROVE  CompoundSound
<1>1. PICK ev \in Event : ev = event
  BY DEF EvalInv
<1>2. PICK m : m = MatchedRules(ev)
  OBVIOUS
<1>3. m \subseteq RuleIds
  BY <1>2, MatchFacts
<1>4. alerts = {OfRule(ev, r) : r \in m} \cup {OfCompound(ev, k) : k \in FiredOn(ev)}
  BY <1>1, <1>2, AlertsAre DEF EvalInv
<1>5. FiredOn(ev) \subseteq CompoundIds
  BY DEF FiredOn
<1>6. ASSUME NEW a \in alerts, a.source \in CompoundIds
      PROVE  a.source \in FiredOn(ev) /\ a = OfCompound(ev, a.source)
  <2>1. CASE \E r \in m : a = OfRule(ev, r)
    <3>1. PICK r \in m : a = OfRule(ev, r)
      BY <2>1
    <3>2. a.source = r
      BY <1>2, <3>1, OfFacts
    <3> QED
      BY <1>3, <1>6, <3>2, CompoundFacts
  <2>2. CASE \E k \in FiredOn(ev) : a = OfCompound(ev, k)
    <3>1. PICK k \in FiredOn(ev) : a = OfCompound(ev, k)
      BY <2>2
    <3>2. a.source = k
      BY <3>1, OfFacts
    <3> QED
      BY <3>1, <3>2
  <2> QED
    BY <1>4, <1>6, <2>1, <2>2
<1>7. ASSUME NEW r \in RuleIds PROVE r \in Sources <=> r \in m
  <2>1. ASSUME r \in m PROVE r \in Sources
    <3>1. OfRule(ev, r) \in alerts /\ OfRule(ev, r).source = r
      BY <1>2, <1>4, <2>1, OfFacts
    <3> QED
      BY <3>1 DEF Sources
  <2>2. ASSUME r \in Sources PROVE r \in m
    <3>1. PICK a \in alerts : a.source = r
      BY <2>2 DEF Sources
    <3>2. CASE \E q \in m : a = OfRule(ev, q)
      <4>1. PICK q \in m : a = OfRule(ev, q)
        BY <3>2
      <4>2. a.source = q
        BY <1>2, <4>1, OfFacts
      <4> QED
        BY <3>1, <4>2
    <3>3. CASE \E k \in FiredOn(ev) : a = OfCompound(ev, k)
      <4>1. PICK k \in FiredOn(ev) : a = OfCompound(ev, k)
        BY <3>3
      <4>2. a.source = k
        BY <4>1, OfFacts
      <4> QED
        BY <1>5, <3>1, <4>2, CompoundFacts
    <3> QED
      BY <1>4, <3>1, <3>2, <3>3
  <2> QED
    BY <2>1, <2>2
<1>8. ASSUME NEW k \in CompoundIds, NEW i \in DOMAIN Compounds[k].components
      PROVE  Compounds[k].components[i] \in Sources <=> i \in MatchedAt(Compounds[k], m)
  <2>1. Compounds[k].components[i] \in RuleIds
    BY CompoundFacts, ComponentFacts
  <2> QED
    BY <1>7, <2>1 DEF MatchedAt
<1>9. CompoundExplained
  <2> SUFFICES ASSUME NEW k \in Sources \cap CompoundIds
               PROVE  LET c == Compounds[k]
                          explained == {i \in DOMAIN c.components : c.components[i] \in Sources}
                          needed == [AND |-> Len(c.components), OR |-> 1, N_OF_M |-> c.n]
                      IN  /\ c.logic \in DOMAIN needed => Cardinality(explained) >= needed[c.logic]
                          /\ explained # {}
    BY DEF CompoundExplained
  <2>1. PICK c \in Compound : c = Compounds[k]
    BY CompoundFacts
  <2>2. PICK explained : explained = {i \in DOMAIN c.components : c.components[i] \in Sources}
    OBVIOUS
  <2>3. explained = MatchedAt(c, m)
    <3>1. MatchedAt(c, m) \subseteq DOMAIN c.components
      BY ComponentFacts
    <3> QED
      BY <1>8, <2>1, <2>2, <3>1
  <2>4. Fires(c, m)
    <3>1. PICK a \in alerts : a.source = k
      BY DEF Sources
    <3>2. k \in FiredOn(ev)
      BY <1>6, <3>1
    <3> QED
      BY <1>2, <2>1, <3>2 DEF FiredOn
  <2>5. /\ explained # {}
        /\ c.logic = "AND" => Cardinality(explained) >= Len(c.components)
        /\ c.logic = "OR" => Cardinality(explained) >= 1
        /\ c.logic = "N_OF_M" => Cardinality(explained) >= c.n
    BY <2>3, <2>4, FiringIsExplained
  <2>6. PICK needed : needed = [AND |-> Len(c.components), OR |-> 1, N_OF_M |-> c.n]
    OBVIOUS
  <2>7. c.logic \in DOMAIN needed => Cardinality(explained) >= needed[c.logic]
    <3>1. DOMAIN needed = {"AND", "OR", "N_OF_M"} /\ needed["AND"] = Len(c.components)
          /\ needed["OR"] = 1 /\ needed["N_OF_M"] = c.n
      BY <2>6
    <3> QED
      BY <2>5, <3>1
  <2> QED
    BY <2>1, <2>2, <2>5, <2>6, <2>7
<1>10. CompoundCoversComponents
  <2> SUFFICES ASSUME NEW a \in alerts, a.source \in CompoundIds,
                      Compounds[a.source].mode = "MAX",
                      NEW i \in DOMAIN Compounds[a.source].components,
                      Compounds[a.source].components[i] \in Sources
               PROVE  a.severity >= Severity[Compounds[a.source].components[i]]
    BY DEF CompoundCoversComponents
  <2>1. PICK k \in CompoundIds : k = a.source
    OBVIOUS
  <2>2. PICK c \in Compound : c = Compounds[k]
    BY CompoundFacts
  <2>3. k \in FiredOn(ev) /\ a = OfCompound(ev, k)
    BY <1>6, <2>1
  <2>4. i \in MatchedAt(c, m)
    BY <1>8, <2>1, <2>2
  <2>5. CompoundSeverity(c, m) \in 1..4 /\ CompoundSeverity(c, m) >= Severity[c.components[i]]
    BY <2>1, <2>2, <2>4, SeverityFacts
  <2>6. a.severity >= CompoundSeverity(c, m)
    BY <1>2, <2>2, <2>3, OfFacts
  <2>7. Severity[c.components[i]] \in 1..4
    <3>1. i \in DOMAIN c.components /\ c.components[i] \in RuleIds
      BY <2>1, <2>2, ComponentFacts
    <3> QED
      BY <3>1, EvaluationAssumption
  <2>8. a.severity \in Nat
    BY <1>2, <2>1, <2>3, OfFacts
  <2> QED
    BY <2>1, <2>2, <2>5, <2>6, <2>7, <2>8
<1>11. ASSUME NEW a \in alerts PROVE a \in Alert /\ (a.source \in RuleIds => a = OfRule(ev, a.source))
  <2>1. CASE \E r \in m : a = OfRule(ev, r)
    <3>1. PICK r \in m : a = OfRule(ev, r)
      BY <2>1
    <3> QED
      BY <1>2, <3>1, OfFacts
  <2>2. CASE \E k \in FiredOn(ev) : a = OfCompound(ev, k)
    <3>1. PICK k \in FiredOn(ev) : a = OfCompound(ev, k)
      BY <2>2
    <3>2. a.source = k /\ a \in Alert
      BY <3>1, OfFacts
    <3> QED
      BY <1>5, <3>2, CompoundFacts
  <2> QED
    BY <1>4, <2>1, <2>2
<1>12. TypeOK
  <2>1. ASSUME NEW a \in alerts, NEW b \in alerts, a.source = b.source PROVE a = b
    <3>1. a.source \in RuleIds \cup CompoundIds
      BY <1>11 DEF Alert
    <3> QED
      BY <1>6, <1>11, <2>1, <3>1
  <2> QED
    BY <1>11, <2>1 DEF TypeOK, EvalInv
<1> QED
  BY <1>9, <1>10, <1>12 DEF CompoundSound

(* More evidence has every alert of less, none of them weaker.             *)
LEMMA EvidenceDominates ==
  ASSUME NEW e \in Event, NEW f \in Event, f.type = e.type, e.holds \subseteq f.holds,
         e.anomaly <= f.anomaly, e.network <= f.network
  PROVE  \A x \in AlertsOf(e) : \E y \in AlertsOf(f) : Dominates(y, x)
<1>1. MatchedRules(e) \subseteq MatchedRules(f)
  BY DEF MatchedRules
<1>2. e.anomaly \in Levels /\ e.network \in Levels /\ f.anomaly \in Levels /\ f.network \in Levels
  BY DEF Event
<1>3. 0 \in Levels /\ 0 <= 0
  BY EvaluationAssumption
<1>4. ASSUME NEW r \in MatchedRules(e)
      PROVE  Dominates(OfRule(f, r), OfRule(e, r))
  <2>1. r \in RuleIds /\ EffectiveWeight(r) \in Nat
    BY MatchFacts, WeightFacts
  <2>2. PICK g \in 1..4 : g = Severity[r]
    BY <2>1, EvaluationAssumption
  <2>3. g <= g
    OBVIOUS
  <2>4. Dominates(AlertOf(r, EffectiveWeight(r), g, f.anomaly, f.network),
                  AlertOf(r, EffectiveWeight(r), g, e.anomaly, e.network))
    BY <1>2, <2>1, <2>3, AlertGrows
  <2> QED
    BY <2>2, <2>4 DEF OfRule
<1>5. ASSUME NEW k \in FiredOn(e)
      PROVE  k \in FiredOn(f) /\ Dominates(OfCompound(f, k), OfCompound(e, k))
  <2>1. k \in CompoundIds /\ Compounds[k] \in Compound /\ Fires(Compounds[k], MatchedRules(e))
        /\ e.type # "DEVICE_EVENT"
    BY CompoundFacts DEF FiredOn
  <2>2. Fires(Compounds[k], MatchedRules(f))
    BY <1>1, <2>1, FiringGrows
  <2>3. PICK g \in 1..4, h \in 1..4 :
          /\ g = CompoundSeverity(Compounds[k], MatchedRules(e))
          /\ h = CompoundSeverity(Compounds[k], MatchedRules(f))
    BY <2>1, SeverityFacts
  <2>4. g <= h
    BY <1>1, <2>1, <2>3, SeverityGrows
  <2>5. 100 \in Nat
    OBVIOUS
  <2>6. Dominates(AlertOf(k, 100, h, f.anomaly, 0), AlertOf(k, 100, g, e.anomaly, 0))
    BY <1>2, <1>3, <2>1, <2>4, <2>5, AlertGrows
  <2> QED
    BY <2>1, <2>2, <2>3, <2>6 DEF FiredOn, OfCompound
<1> SUFFICES ASSUME NEW x \in AlertsOf(e) PROVE \E y \in AlertsOf(f) : Dominates(y, x)
  OBVIOUS
<1>6. CASE \E r \in MatchedRules(e) : x = OfRule(e, r)
  <2>1. PICK r \in MatchedRules(e) : x = OfRule(e, r)
    BY <1>6
  <2>2. OfRule(f, r) \in AlertsOf(f)
    BY <1>1, AlertsAre
  <2> QED
    BY <1>4, <2>1, <2>2
<1>7. CASE \E k \in FiredOn(e) : x = OfCompound(e, k)
  <2>1. PICK k \in FiredOn(e) : x = OfCompound(e, k)
    BY <1>7
  <2>2. OfCompound(f, k) \in AlertsOf(f)
    BY <1>5, AlertsAre
  <2> QED
    BY <1>5, <2>1, <2>2
<1> QED
  BY <1>6, <1>7, AlertsAre

(* Before the first event there is no alert.                               *)
LEMMA EvalInit ==
  ASSUME Init
  PROVE  EvalInv
<1>1. PICK ev : ev = [type |-> "DEVICE_EVENT", holds |-> {}, anomaly |-> 0, network |-> 0]
  OBVIOUS
<1>2. ev \in Event /\ ev.type = "DEVICE_EVENT"
  BY <1>1, EvaluationAssumption DEF Event, EventTypes
<1>3. MatchedRules(ev) = {} /\ FiredOn(ev) = {}
  BY <1>2 DEF MatchedRules, FiredOn
<1>4. AlertsOf(ev) = {}
  BY <1>3, AlertsAre
<1> QED
  BY <1>1, <1>2, <1>4 DEF Init, EvalInv

(* Every step evaluates one event.                                         *)
LEMMA EvalNext ==
  ASSUME EvalInv, [Next]_vars
  PROVE  EvalInv'
<1>1. CASE \E ev \in Event : Evaluate(ev)
  <2>1. PICK ev \in Event : Evaluate(ev)
    BY <1>1
  <2>2. event' = ev /\ alerts' = AlertsOf(ev)
    BY <2>1 DEF Evaluate
  <2> QED
    BY <2>2 DEF EvalInv
<1>2. CASE UNCHANGED vars
  BY <1>2 DEF vars, EvalInv
<1> QED
  BY <1>1, <1>2 DEF Next

(* Of two events in a row, the one with more evidence dominates.           *)
LEMMA EvalDominates ==
  ASSUME EvalInv, EvalInv'
  PROVE  MoreEvidence => Dominated
<1> SUFFICES ASSUME MoreEvidence PROVE Dominated
  OBVIOUS
<1>0. PICK e \in Event, f \in Event :
        e = event /\ f = event' /\ alerts = AlertsOf(e) /\ alerts' = AlertsOf(f)
  BY DEF EvalInv
<1>1. PICK A, B :
        e = event /\ f = event' /\ A = alerts /\ B = alerts' /\ A = AlertsOf(e) /\ B = AlertsOf(f)
  BY <1>0
<1>2. \A x \in A : \E y \in B : Dominates(y, x)
  BY <1>1, EvidenceDominates DEF MoreEvidence
<1>3. \A x \in A : \E y \in B : /\ y.source = x.source
                                /\ y.severity >= x.severity
                                /\ y.score >= x.score
                                /\ x.auto => y.auto
  BY <1>2 DEF Dominates
<1> QED
  BY <1>1, <1>3 DEF Dominated

(* What an analyst reads of a compound alert is what made it fire: of      *)
(* every event evaluated, the alerts next to it are those of enough of its *)
(* components, and none of them is more severe than it, unless its rule    *)
(* fixes the severity.                                                     *)
THEOREM CompoundIsSound == Spec => []CompoundSound
<1>1. Init => EvalInv
  BY EvalInit
<1>2. EvalInv /\ [Next]_vars => EvalInv'
  BY EvalNext
<1>3. EvalInv => CompoundSound
  BY CompoundFollows
<1> QED
  BY <1>1, <1>2, <1>3, PTL DEF Spec

(* More evidence never weakens an alert: of two events of one type, that   *)
(* with more rules that hold and no lower scores has every alert of the    *)
(* other, as severe, as high and as eligible for a case, whatever the      *)
(* weights, the thresholds and the compound rules are.                     *)
THEOREM EvidenceIsMonotone == Spec => NeverLessOnMoreEvidence
<1>1. Init => EvalInv
  BY EvalInit
<1>2. EvalInv /\ [Next]_vars => EvalInv'
  BY EvalNext
<1>3. EvalInv /\ EvalInv' => [MoreEvidence => Dominated]_vars
  BY EvalDominates
<1> QED
  BY <1>1, <1>2, <1>3, PTL DEF Spec, NeverLessOnMoreEvidence

-----------------------------------------------------------------------------
(* PlayerFeatures: what is kept of a player's messages.                    *)

(* A message that is being handled, and not a start that warms.            *)
Carries(w) == request[w] # None /\ request[w].op # "warm"

(* No device has an entry, and every thing that is shared is there.        *)
StepFits(r) ==
  /\ r.op = "enter" => Inbox[r.message].kind # "DEVICE"
  /\ r.op = "share" => Inbox[r.message].kind # "BET" /\ Inbox[r.message].thing \in Things
  /\ r.op = "look" => Inbox[r.message].kind # "BET"

(* A message is handled by one worker, as the steps of its kind are.       *)
HandsSound ==
  /\ \A w \in Workers : Carries(w) =>
       /\ request[w] \in FeatureRequest /\ request[w].message \in taken /\ StepFits(request[w])
  /\ \A v, w \in Workers :
       Carries(v) /\ Carries(w) /\ request[v].message = request[w].message => v = w

EntryType == [kind : Movements \cup {"DEVICE"}, at : Nat, amount : Nat]

(* What the sets in Redis are, and what is known of their history.         *)
FeaturesTyped ==
  /\ instant \in Nat /\ taken \subseteq Messages /\ broken \subseteq taken
  /\ entries \in [Windows -> SUBSET EntryType] /\ entriesEnd \in [Windows -> Nat]
  /\ users \in [Things -> SUBSET Holders] /\ usersEnd \in [Things -> Nat]
  /\ owned \in [Belongings -> SUBSET (Things \cup {None})] /\ ownedEnd \in [Belongings -> Nat]
  /\ DOMAIN online = Holders /\ DOMAIN snapshots = Holders /\ writes \in [Holders -> Nat]
  /\ entered \subseteq [message : taken, at : Nat] /\ IsFiniteSet(entered)
  /\ uses \subseteq [thing : Things, holder : Holders, at : Nat] /\ IsFiniteSet(uses)

(* An entry is there until its window expires, and no other is.            *)
WindowsKept ==
  /\ \A k \in Windows : entriesEnd[k] <= instant + WindowTtl
  /\ \A e \in entered : instant < e.at + WindowTtl =>
       /\ Entry(e.message) \in entries[WindowOf(e.message)]
       /\ e.at + WindowTtl <= entriesEnd[WindowOf(e.message)]
  /\ \A k \in Windows : \A x \in entries[k] :
       \E e \in entered : WindowOf(e.message) = k /\ x = Entry(e.message)

(* A use is remembered on both sides for its time, and of the things of a  *)
(* player one is remembered as long as they are.                           *)
SharesKept ==
  /\ \A u \in uses : instant < u.at + SetTtl =>
       /\ u.holder \in users[u.thing] /\ u.at + SetTtl <= usersEnd[u.thing]
       /\ \E set \in {"devices", "banks"} :
            u.thing \in owned[<<u.holder, set>>] /\ u.at + SetTtl <= ownedEnd[<<u.holder, set>>]
  /\ \A t \in Things : users[t] \subseteq {u.holder : u \in uses} /\ usersEnd[t] <= instant + SetTtl
  /\ \A p \in Holders : \A set \in {"devices", "banks"} :
       /\ owned[<<p, set>>] \subseteq Things
       /\ ownedEnd[<<p, set>>] <= instant + SetTtl
       /\ owned[<<p, set>>] # {} =>
            \E t \in owned[<<p, set>>] : p \in users[t] /\ ownedEnd[<<p, set>>] <= usersEnd[t]

(* The facts of a message.                                                 *)
LEMMA MessageTyped ==
  ASSUME NEW m \in Messages
  PROVE  /\ Inbox[m].player \in Holders /\ Inbox[m].at \in Nat /\ Inbox[m].amount \in Nat
         /\ Inbox[m].kind \in {"DEPOSIT", "WITHDRAWAL", "BET", "DEVICE"}
         /\ Inbox[m].thing \in Things \cup {None} /\ Inbox[m].backfill \in BOOLEAN
         /\ Inbox[m].kind = "DEVICE" => Inbox[m].thing \in Things
         /\ WindowOf(m) \in Windows /\ Entry(m) \in EntryType
         /\ <<Inbox[m].player, "txn">> \in Windows /\ <<Inbox[m].player, "bet">> \in Windows
<1>1. PICK i \in FeatureMessage : i = Inbox[m]
  BY FeatureAssumption
<1>2. /\ i.player \in Holders /\ i.at \in Nat /\ i.amount \in Nat
      /\ i.kind \in {"DEPOSIT", "WITHDRAWAL", "BET", "DEVICE"}
      /\ i.thing \in Things \cup {None} /\ i.backfill \in BOOLEAN
  BY DEF FeatureMessage, Movements
<1>3. Inbox[m].kind = "DEVICE" => Inbox[m].thing \in Things
  BY FeatureAssumption
<1> QED
  BY <1>1, <1>2, <1>3 DEF WindowOf, Windows, Entry, EntryType, Movements

(* The amounts of finitely many entries have a sum.                        *)
LEMMA AmountsSum ==
  ASSUME NEW D \in SUBSET EntryType, IsFiniteSet(D)
  PROVE  MapThenSumSet(AmountOf, D) \in Nat
<1>1. PICK f : f = [e \in D |-> e.amount]
  OBVIOUS
<1>2. f \in [D -> Nat]
  BY <1>1 DEF EntryType
<1>3. PICK h : h = [s \in SUBSET D |-> Cardinality(Units(f, s))]
  OBVIOUS
<1>4. IsSum(h, f, D)
  BY <1>2, <1>3, SizesAreSums
<1> DEFINE Body(iter) == [s \in SUBSET D |-> IF s = {} THEN 0 ELSE AmountOf(ChosenOf(s)) + iter[s \ {ChosenOf(s)}]]
<1>5. ASSUME NEW e
      PROVE  IsSum(e, f, D) <=> e = Body(e)
  <2>1. \A s \in SUBSET D : s # {} => f[ChosenOf(s)] = AmountOf(ChosenOf(s))
    BY <1>1 DEF ChosenOf, AmountOf
  <2> QED
    BY <2>1 DEF IsSum
<1>6. PICK e : e = CHOOSE iter : iter = Body(iter)
  OBVIOUS
<1>7. e = Body(e)
  <2>1. h = Body(h)
    BY <1>4, <1>5
  <2> HIDE DEF Body
  <2> QED
    BY <1>6, <2>1
<1>8. MapThenSumSet(AmountOf, D) = e[D]
  BY <1>6 DEF MapThenSumSet, MapThenFoldSet, ChosenOf
<1>9. IsSum(e, f, D)
  <2> HIDE DEF Body
  <2> QED
    BY <1>5, <1>7
<1>10. e[D] = h[D]
  BY <1>4, <1>9, SumsAreOne
<1>11. h[D] = Cardinality(Units(f, D))
  BY <1>3
<1>12. Cardinality(Units(f, D)) \in Nat
  BY <1>2, UnitsFinite
<1> QED
  BY <1>8, <1>10, <1>11, <1>12

(* The entries of a window are finitely many.                              *)
LEMMA EntriesFinite ==
  ASSUME FeaturesTyped, WindowsKept, NEW k \in Windows
  PROVE  IsFiniteSet(entries[k])
<1>1. IsFiniteSet(entered)
  BY DEF FeaturesTyped
<1> DEFINE Told == {Entry(e.message) : e \in entered}
<1>2. IsFiniteSet(Told)
  <2>1. PICK f : f = [e \in entered |-> Entry(e.message)]
    OBVIOUS
  <2>2. f \in [entered -> Told] /\ \A x \in Told : \E e \in entered : f[e] = x
    BY <2>1
  <2> HIDE DEF Told
  <2>3. f \in Surjection(entered, Told)
    BY <2>2 DEF Surjection
  <2> QED
    BY <1>1, <2>3, FS_Surjection
<1>3. entries[k] \subseteq Told
  BY DEF WindowsKept
<1> QED
  BY <1>2, <1>3, FS_Subset

(* What is counted is a number.                                            *)
LEMMA TalliesTyped ==
  ASSUME NEW S \in SUBSET EntryType, IsFiniteSet(S)
  PROVE  Tallied(S) \in [Movements -> [Spans -> [count : Nat, amount : Nat]]]
<1>1. ASSUME NEW T \in SUBSET S
      PROVE  [count |-> Cardinality(T), amount |-> MapThenSumSet(AmountOf, T)] \in [count : Nat, amount : Nat]
  <2>1. IsFiniteSet(T) /\ T \in SUBSET EntryType
    BY FS_Subset
  <2>2. Cardinality(T) \in Nat
    BY <2>1, FS_CardinalityType
  <2>3. MapThenSumSet(AmountOf, T) \in Nat
    BY <2>1, AmountsSum
  <2> QED
    BY <2>2, <2>3
<1>2. \A k \in Movements, s \in Spans : {e \in S : e.kind = k /\ e.at > instant - s} \in SUBSET S
  OBVIOUS
<1>3. \A k \in Movements, s \in Spans :
        LET inside == {e \in S : e.kind = k /\ e.at > instant - s}
        IN [count |-> Cardinality(inside), amount |-> MapThenSumSet(AmountOf, inside)] \in [count : Nat, amount : Nat]
  BY <1>1, <1>2
<1> QED
  BY <1>3 DEF Tallied

(* A greatest number is one, and none is greater.                          *)
LEMMA MaxIsGreatest ==
  ASSUME NEW S, S \subseteq Nat, S # {}, NEW b \in Nat, \A x \in S : x <= b
  PROVE  Max(S) \in S /\ \A x \in S : x <= Max(S)
<1>1. \E x \in S : \A y \in S : y <= x
  BY GreatestExists
<1>2. \E x \in S : \A y \in S : x >= y
  BY <1>1
<1> QED
  BY <1>2 DEF Max

(* Those who share a thing are finitely many.                              *)
LEMMA UsersFinite ==
  ASSUME FeaturesTyped, SharesKept
  PROVE  \E b \in Nat : \A t \in Things :
           IsFiniteSet(users[t]) /\ Cardinality(users[t]) \in Nat /\ Cardinality(users[t]) <= b
<1> DEFINE Sharers == {u.holder : u \in uses}
<1>1. IsFiniteSet(Sharers)
  <2>1. PICK f : f = [u \in uses |-> u.holder]
    OBVIOUS
  <2>2. f \in [uses -> Sharers] /\ \A x \in Sharers : \E u \in uses : f[u] = x
    BY <2>1
  <2> HIDE DEF Sharers
  <2>3. f \in Surjection(uses, Sharers)
    BY <2>2 DEF Surjection
  <2> QED
    BY <2>3, FS_Surjection DEF FeaturesTyped
<1>2. \A t \in Things : users[t] \subseteq Sharers
  BY DEF SharesKept
<1>3. Cardinality(Sharers) \in Nat
  BY <1>1, FS_CardinalityType
<1>4. \A t \in Things : IsFiniteSet(users[t]) /\ Cardinality(users[t]) \in Nat /\ Cardinality(users[t]) <= Cardinality(Sharers)
  <2> HIDE DEF Sharers
  <2> TAKE t \in Things
  <2>1. users[t] \subseteq Sharers
    BY <1>2
  <2>2. IsFiniteSet(users[t]) /\ Cardinality(users[t]) <= Cardinality(Sharers)
    BY <1>1, <2>1, FS_Subset
  <2> QED
    BY <2>2, FS_CardinalityType
<1> QED
  BY <1>3, <1>4

(* Those that are counted with a player are not fewer than none, and than  *)
(* those of each thing of the player but one.                              *)
LEMMA SharedFacts ==
  ASSUME FeaturesTyped, SharesKept, NEW p \in Holders, NEW set \in {"devices", "banks"}
  PROVE  /\ SharedCount(p, set) \in Nat
         /\ \A t \in owned[<<p, set>>] :
              /\ t \in Things /\ IsFiniteSet(users[t]) /\ Cardinality(users[t]) \in Nat
              /\ Cardinality(users[t]) <= SharedCount(p, set) + 1
<1>1. PICK O : O = owned[<<p, set>>]
  OBVIOUS
<1>2. O \subseteq Things /\ (O # {} => \E t \in O : p \in users[t])
  BY <1>1 DEF SharesKept
<1>3. PICK b \in Nat : \A t \in Things :
        IsFiniteSet(users[t]) /\ Cardinality(users[t]) \in Nat /\ Cardinality(users[t]) <= b
  BY UsersFinite
<1>4. CASE O = {}
  BY <1>1, <1>4 DEF SharedCount
<1>5. CASE O # {}
  <2>1. PICK S : S = {Cardinality(users[t]) : t \in O}
    OBVIOUS
  <2>2. S \subseteq Nat /\ S # {} /\ \A x \in S : x <= b
    BY <1>2, <1>3, <1>5, <2>1
  <2>3. Max(S) \in S /\ \A x \in S : x <= Max(S)
    BY <2>2, MaxIsGreatest
  <2>4. PICK t \in O : p \in users[t]
    BY <1>2, <1>5
  <2>5. Cardinality(users[t]) # 0
    <3>1. t \in Things /\ IsFiniteSet(users[t]) /\ users[t] # {}
      BY <1>2, <1>3, <2>4
    <3> QED
      BY <3>1, FS_EmptySet
  <2>6. SharedCount(p, set) = Max(S) - 1
    BY <1>1, <1>5, <2>1 DEF SharedCount
  <2>7. Cardinality(users[t]) \in S
    BY <2>1
  <2>8. PICK n \in Nat : n = Max(S)
    BY <2>2, <2>3
  <2>9. n >= 1
    <3>1. PICK c \in Nat : c = Cardinality(users[t])
      BY <1>2, <1>3
    <3>2. c # 0 /\ c <= n
      BY <2>3, <2>5, <2>7, <2>8, <3>1
    <3> QED
      BY <3>2
  <2>10. SharedCount(p, set) \in Nat /\ SharedCount(p, set) + 1 = n
    BY <2>6, <2>8, <2>9
  <2>11. \A x \in O : Cardinality(users[x]) <= n
    BY <2>1, <2>3, <2>8
  <2> QED
    BY <1>1, <1>2, <1>3, <2>10, <2>11
<1> QED
  BY <1>4, <1>5

(* The features that are computed are features.                            *)
LEMMA ComputedTyped ==
  ASSUME FeaturesTyped, WindowsKept, SharesKept, NEW p \in Holders, NEW new \in BOOLEAN
  PROVE  Computed(p, new) \in Features /\ Computed(p, new).new = new
<1>1. PICK S : S = entries[<<p, "txn">>] \cup entries[<<p, "bet">>]
  OBVIOUS
<1>2. <<p, "txn">> \in Windows /\ <<p, "bet">> \in Windows
  BY DEF Windows
<1>3. S \in SUBSET EntryType
  BY <1>1, <1>2 DEF FeaturesTyped
<1>4. IsFiniteSet(S)
  <2>1. IsFiniteSet(entries[<<p, "txn">>]) /\ IsFiniteSet(entries[<<p, "bet">>])
    BY <1>2, EntriesFinite
  <2> QED
    BY <1>1, <2>1, FS_Union
<1>5. PICK T \in [Movements -> [Spans -> [count : Nat, amount : Nat]]] : T = Tallied(S)
  BY <1>3, <1>4, TalliesTyped
<1>6. PICK d \in Nat : d = SharedCount(p, "devices")
  BY SharedFacts
<1>7. PICK b \in Nat : b = SharedCount(p, "banks")
  BY SharedFacts
<1>8. Computed(p, new) = [tallies |-> T, devices |-> d, banks |-> b, new |-> new]
  BY <1>1, <1>5, <1>6, <1>7 DEF Computed
<1>9. d \in Int /\ b \in Int
  OBVIOUS
<1> QED
  BY <1>5, <1>8, <1>9 DEF Features

(* A worker that handles a message goes on with it, or is done with it.    *)
StepsTo(w, r) ==
  /\ Carries(w) /\ taken' = taken
  /\ request' = [request EXCEPT ![w] = r] /\ crossed' = crossed
  /\ calls' = calls \/ (calls < MaxCalls /\ calls' = calls + 1)
  /\ r # None => r \in FeatureRequest /\ r.message = request[w].message /\ StepFits(r)

(* What a request under way carries.                                       *)
LEMMA CarriedFacts ==
  ASSUME FeaturesTyped, HandsSound, NEW w \in Workers, NEW step, Doing(w, step), step # "warm"
  PROVE  /\ Carries(w) /\ request[w] \in FeatureRequest /\ request[w].op = step /\ StepFits(request[w])
         /\ request[w].message \in Messages /\ request[w].message \in taken
         /\ step \in {"enter", "share", "look", "read"} => request[w].new \in BOOLEAN
         /\ step \in {"write", "save"} => request[w].features \in Features
         /\ step = "save" => request[w].number \in Nat
<1>1. Carries(w) /\ request[w].op = step
  BY DEF Doing, Carries
<1>2. request[w] \in FeatureRequest /\ request[w].message \in taken /\ StepFits(request[w])
  BY <1>1 DEF HandsSound
<1>3. request[w].message \in Messages
  BY <1>2 DEF FeaturesTyped
<1> QED
  BY <1>1, <1>2, <1>3 DEF FeatureRequest

(* What comes after a step of a message.                                   *)
LEMMA ProceedsFacts ==
  ASSUME FeaturesTyped, HandsSound, NEW w \in Workers, NEW step \in {"enter", "share", "look"},
         Doing(w, step), NEW new \in BOOLEAN, Proceeds(w, new), taken' = taken
  PROVE  \E r : /\ StepsTo(w, r)
                /\ r = None => step = "enter" /\ Inbox[request[w].message].kind = "BET"
                /\ r # None => /\ r.new = new
                               /\ r.op = NextStep(request[w].message, step)
                /\ r # None /\ r.op = "read" /\ step = "enter" => Inbox[request[w].message].kind = "BET"
<1>1. PICK m \in Messages : m = request[w].message
  BY CarriedFacts
<1>2. /\ Carries(w) /\ request[w].op = step /\ StepFits(request[w])
  BY CarriedFacts
<1>3. PICK next : next = NextStep(m, step)
  OBVIOUS
<1>4. /\ Inbox[m].kind \in {"DEPOSIT", "WITHDRAWAL", "BET", "DEVICE"} /\ Inbox[m].thing \in Things \cup {None}
      /\ Inbox[m].kind = "DEVICE" => Inbox[m].thing \in Things
  BY MessageTyped
<1>5. /\ next \in {"share", "look", "read", "end"}
      /\ next = "end" => step = "enter" /\ Inbox[m].kind = "BET"
      /\ next = "read" /\ step = "enter" => Inbox[m].kind = "BET"
      /\ next = "share" => Inbox[m].kind # "BET" /\ Inbox[m].thing \in Things
      /\ next = "look" => Inbox[m].kind # "BET"
  BY <1>1, <1>2, <1>3, <1>4 DEF NextStep, StepFits
<1>6. CASE next = "end"
  <2>1. GoesOn(w, None)
    BY <1>1, <1>2, <1>3, <1>6 DEF Proceeds, Ends
  <2>2. StepsTo(w, None)
    BY <1>2, <2>1 DEF GoesOn, StepsTo
  <2> QED
    BY <1>1, <1>5, <1>6, <2>2
<1>7. CASE next # "end"
  <2>1. PICK r : r = [op |-> next, message |-> m, new |-> new]
    OBVIOUS
  <2>2. GoesOn(w, r)
    BY <1>1, <1>2, <1>3, <1>7, <2>1 DEF Proceeds
  <2>3. r \in FeatureRequest
    BY <1>5, <1>7, <2>1 DEF FeatureRequest
  <2>4. r # None /\ r.new = new /\ r.op = next /\ r.message = m
    BY <2>1, <2>3, FeatureAssumption
  <2>5. StepFits(r)
    BY <1>5, <1>7, <2>4 DEF StepFits
  <2>6. StepsTo(w, r)
    BY <1>1, <1>2, <2>2, <2>3, <2>4, <2>5 DEF GoesOn, StepsTo
  <2> QED
    BY <1>1, <1>3, <1>5, <2>4, <2>6
<1> QED
  BY <1>6, <1>7

(* The steps of the handlers.                                              *)
LEMMA EntersFacts ==
  ASSUME FeaturesTyped, HandsSound, NEW w \in Workers, Enters(w)
  PROVE  \E r : /\ StepsTo(w, r)
                /\ r = None => Inbox[request[w].message].kind = "BET"
                /\ r # None => r.op \in {"share", "look", "read"}
                /\ r # None /\ r.op = "read" => Inbox[request[w].message].kind = "BET"
<1>1. Doing(w, "enter") /\ Proceeds(w, FALSE) /\ taken' = taken
  BY DEF Enters, Handling
<1>2. PICK r : /\ StepsTo(w, r)
               /\ r = None => Inbox[request[w].message].kind = "BET"
               /\ r # None => r.op = NextStep(request[w].message, "enter")
               /\ r # None /\ r.op = "read" => Inbox[request[w].message].kind = "BET"
  BY <1>1, ProceedsFacts
<1>3. r # None => r.op \in {"share", "look", "read", "end"}
  BY <1>2 DEF NextStep
<1>4. r # None => r.op # "end"
  BY <1>2 DEF StepsTo, FeatureRequest
<1> QED
  BY <1>2, <1>3, <1>4

(* Sharing comes last for a device.                                        *)
LEMMA SharesFacts ==
  ASSUME FeaturesTyped, HandsSound, NEW w \in Workers, Shares(w)
  PROVE  \E r : /\ StepsTo(w, r) /\ r # None /\ r.new = request[w].new
                /\ r.op = IF Inbox[request[w].message].kind = "DEVICE" THEN "read" ELSE "look"
<1>1. Doing(w, "share") /\ Proceeds(w, request[w].new) /\ taken' = taken
  BY DEF Shares, Handling
<1>2. request[w].new \in BOOLEAN
  BY <1>1, CarriedFacts
<1>3. PICK r : /\ StepsTo(w, r) /\ r # None /\ r.new = request[w].new
               /\ r.op = NextStep(request[w].message, "share")
  BY <1>1, <1>2, ProceedsFacts
<1> QED
  BY <1>3 DEF NextStep

(* Looking comes first for a device.                                       *)
LEMMA LooksFacts ==
  ASSUME FeaturesTyped, HandsSound, NEW w \in Workers, Looks(w)
  PROVE  \E r : /\ StepsTo(w, r) /\ r # None /\ r.new = IsNew(request[w].message)
                /\ r.op = IF Inbox[request[w].message].kind = "DEVICE" THEN "share" ELSE "read"
<1>1. Doing(w, "look") /\ Proceeds(w, IsNew(request[w].message)) /\ taken' = taken
  BY DEF Looks, Handling
<1>2. PICK new \in BOOLEAN : new = IsNew(request[w].message)
  BY DEF IsNew
<1>3. PICK r : /\ StepsTo(w, r) /\ r # None /\ r.new = new
               /\ r.op = NextStep(request[w].message, "look")
  BY <1>1, <1>2, ProceedsFacts
<1> QED
  BY <1>2, <1>3 DEF NextStep

(* Features are computed with the flag that was found.                     *)
LEMMA ComputesFacts ==
  ASSUME FeaturesTyped, HandsSound, WindowsKept, SharesKept, NEW w \in Workers, ComputesFeatures(w)
  PROVE  \E r : StepsTo(w, r) /\ r # None /\ r.op = "write" /\ r.features.new = request[w].new
<1>1. PICK m \in Messages : m = request[w].message
  BY CarriedFacts DEF ComputesFeatures, Handling
<1>2. Carries(w) /\ request[w].new \in BOOLEAN
  BY CarriedFacts DEF ComputesFeatures, Handling
<1>3. Inbox[m].player \in Holders
  BY MessageTyped
<1>4. PICK f \in Features : f = Computed(Inbox[m].player, request[w].new) /\ f.new = request[w].new
  BY <1>2, <1>3, ComputedTyped
<1>5. PICK r : r = [op |-> "write", message |-> m, features |-> f]
  OBVIOUS
<1>6. r \in FeatureRequest
  BY <1>5 DEF FeatureRequest
<1>7. r # None /\ r.op = "write" /\ r.features = f /\ r.message = m
  BY <1>5, <1>6, FeatureAssumption
<1>8. GoesOn(w, r) /\ taken' = taken
  BY <1>1, <1>4, <1>5 DEF ComputesFeatures, featureVars
<1>9. StepsTo(w, r)
  BY <1>1, <1>2, <1>6, <1>7, <1>8 DEF GoesOn, StepsTo, StepFits
<1> QED
  BY <1>4, <1>7, <1>9

(* What is written is to be saved, with its number.                        *)
LEMMA WritesFacts ==
  ASSUME FeaturesTyped, HandsSound, NEW w \in Workers, WritesFeatures(w)
  PROVE  \E r : /\ StepsTo(w, r) /\ r # None /\ r.op = "save"
                /\ r.number = writes[Inbox[request[w].message].player] + 1
<1>1. PICK m \in Messages : m = request[w].message
  BY CarriedFacts DEF WritesFeatures, Handling
<1>2. Carries(w)
  BY CarriedFacts DEF WritesFeatures, Handling
<1>3. PICK f \in Features : f = request[w].features
  BY CarriedFacts DEF WritesFeatures, Handling
<1>4. PICK n \in Nat : n = writes[Inbox[m].player]
  BY MessageTyped DEF FeaturesTyped
<1>5. PICK r : r = [op |-> "save", message |-> m, features |-> f, number |-> n + 1]
  OBVIOUS
<1>6. r \in FeatureRequest
  BY <1>5 DEF FeatureRequest
<1>7. r # None /\ r.op = "save" /\ r.number = n + 1 /\ r.message = m
  BY <1>5, <1>6, FeatureAssumption
<1>8. GoesOn(w, r) /\ taken' = taken
  BY <1>1, <1>3, <1>4, <1>5 DEF WritesFeatures
<1>9. StepsTo(w, r)
  BY <1>1, <1>2, <1>6, <1>7, <1>8 DEF GoesOn, StepsTo, StepFits
<1> QED
  BY <1>1, <1>4, <1>7, <1>9

(* Then the message is done with.                                          *)
LEMMA SavesFacts ==
  ASSUME FeaturesTyped, HandsSound, NEW w \in Workers, SavesSnapshot(w)
  PROVE  StepsTo(w, None)
<1>1. Carries(w)
  BY CarriedFacts DEF SavesSnapshot, Handling
<1> QED
  BY <1>1 DEF SavesSnapshot, Ends, GoesOn, StepsTo

(* The first step of a message.                                            *)
LEMMA FirstFacts ==
  ASSUME NEW m \in Messages, NEW r, r = [op |-> FirstStep(m), message |-> m, new |-> FALSE]
  PROVE  /\ r \in FeatureRequest /\ r # None /\ r.message = m /\ StepFits(r) /\ r.op # "warm"
         /\ r.op = IF Inbox[m].kind = "DEVICE" THEN "look" ELSE "enter"
<1>1. r.message = m /\ r.op = IF Inbox[m].kind = "DEVICE" THEN "look" ELSE "enter"
  BY DEF FirstStep
<1>2. r \in FeatureRequest
  BY DEF FeatureRequest, FirstStep
<1> QED
  BY <1>1, <1>2, FeatureAssumption DEF StepFits

(* An attempt that breaks begins again, or waits.                          *)
LEMMA BreaksFacts ==
  ASSUME FeaturesTyped, HandsSound, NEW w \in Workers, AttemptBreaks(w)
  PROVE  \E r : /\ StepsTo(w, r) /\ broken' = {request[w].message}
                /\ r # None => r.op = FirstStep(request[w].message)
<1>1. PICK step \in {"enter", "look", "share", "read", "write"} : Doing(w, step)
  BY DEF AttemptBreaks, Handling
<1>2. PICK m \in Messages : m = request[w].message
  BY <1>1, CarriedFacts
<1>3. PICK r \in {None, [op |-> FirstStep(m), message |-> m, new |-> FALSE]} :
        request' = [request EXCEPT ![w] = r]
  BY <1>2 DEF AttemptBreaks
<1>4. r # None => r \in FeatureRequest /\ r.message = m /\ StepFits(r) /\ r.op = FirstStep(m)
  BY <1>3, FirstFacts DEF FirstStep
<1>5. Carries(w)
  BY <1>1, CarriedFacts
<1> QED
  BY <1>2, <1>3, <1>4, <1>5 DEF AttemptBreaks, StepsTo

(* Such a step leaves the other workers to what they carry.                *)
LEMMA HandStep ==
  ASSUME RequestInv, FeaturesTyped, HandsSound, NEW w \in Workers, NEW r, StepsTo(w, r)
  PROVE  /\ RequestInv' /\ HandsSound'
         /\ request'[w] = r /\ \A v \in Workers \ {w} : request'[v] = request[v]
         /\ crossed' = crossed /\ (~crossed => \A v \in Workers \ {w} : request'[v] = None)
<1>1. /\ request'[w] = r /\ \A v \in Workers \ {w} : request'[v] = request[v]
      /\ DOMAIN request' = Workers /\ crossed' = crossed
  BY DEF StepsTo, RequestInv, RequestTypeOK
<1>2. ~crossed => \A v \in Workers \ {w} : request'[v] = None
  BY <1>1 DEF RequestInv, OneAtATime, StepsTo, Carries
<1>3. RequestInv'
  <2>1. calls' \in Nat /\ calls' <= MaxCalls
    BY RequestAssumption DEF RequestInv, RequestTypeOK, StepsTo
  <2> QED
    BY <1>1, <1>2, <2>1 DEF RequestInv, RequestTypeOK, OneAtATime, StepsTo
<1>4. HandsSound'
  <2>1. r # None => r \in FeatureRequest /\ r.message = request[w].message /\ StepFits(r)
    BY DEF StepsTo
  <2>2. taken' = taken /\ Carries(w) /\ request[w].message \in taken
    BY DEF StepsTo, HandsSound
  <2>3. \A v \in Workers \ {w} : Carries(v)' <=> Carries(v)
    BY <1>1 DEF Carries
  <2>4. ASSUME NEW v \in Workers, Carries(v)'
        PROVE  /\ request'[v] \in FeatureRequest /\ request'[v].message \in taken' /\ StepFits(request'[v])
               /\ Carries(v) /\ request'[v].message = request[v].message
    <3>1. CASE v = w
      BY <1>1, <2>1, <2>2, <2>4, <3>1 DEF Carries
    <3>2. CASE v # w
      BY <1>1, <2>2, <2>3, <2>4, <3>2 DEF HandsSound
    <3> QED
      BY <3>1, <3>2
  <2>5. \A v \in Workers : Carries(v)' => StepFits(request[v])'
    BY <2>4 DEF StepFits
  <2> QED
    BY <2>4, <2>5 DEF HandsSound
<1> QED
  BY <1>1, <1>2, <1>3, <1>4

FeaturesBasis == RequestInv /\ FeaturesTyped /\ HandsSound /\ WindowsKept /\ SharesKept

(* A message is taken that no worker carries.                              *)
LEMMA TakesFacts ==
  ASSUME FeaturesBasis, NEW w \in Workers, NEW m \in Messages, Takes(w, m)
  PROVE  /\ RequestInv' /\ HandsSound' /\ m \notin taken /\ taken' = taken \cup {m}
         /\ request[w] = None /\ Carries(w)' /\ request'[w].message = m
         /\ request'[w].op = IF Inbox[m].kind = "DEVICE" THEN "look" ELSE "enter"
         /\ \A v \in Workers \ {w} : request'[v] = request[v]
         /\ ~crossed' => ~crossed /\ \A v \in Workers \ {w} : request'[v] = None
<1>1. PICK r : r = [op |-> FirstStep(m), message |-> m, new |-> FALSE]
  OBVIOUS
<1>2. /\ r \in FeatureRequest /\ r # None /\ r.message = m /\ StepFits(r) /\ r.op # "warm"
      /\ r.op = IF Inbox[m].kind = "DEVICE" THEN "look" ELSE "enter"
  BY <1>1, FirstFacts
<1>3. Begin(w, r) /\ m \notin taken /\ taken' = taken \cup {m} /\ request[w] = None
  BY <1>1 DEF Takes, Begin
<1>4. /\ RequestInv' /\ request'[w] = r /\ \A v \in Workers \ {w} : request'[v] = request[v]
      /\ ~crossed' => ~crossed /\ \A v \in Workers \ {w} : request'[v] = None
  BY <1>3, BeginStep DEF FeaturesBasis
<1>5. Carries(w)'
  BY <1>2, <1>4 DEF Carries
<1>6. \A v \in Workers \ {w} : (Carries(v)' <=> Carries(v)) /\ request'[v] = request[v]
  BY <1>4 DEF Carries
<1>7. \A v \in Workers : Carries(v) =>
        request[v] \in FeatureRequest /\ request[v].message \in taken /\ StepFits(request[v])
  BY DEF FeaturesBasis, HandsSound
<1>8. HandsSound'
  <2>1. ASSUME NEW v \in Workers, Carries(v)'
        PROVE  request'[v] \in FeatureRequest /\ request'[v].message \in taken' /\ StepFits(request[v])'
    <3>1. CASE v = w
      BY <1>2, <1>3, <1>4, <3>1 DEF StepFits
    <3>2. CASE v # w
      BY <1>3, <1>6, <1>7, <2>1, <3>2 DEF StepFits
    <3> QED
      BY <3>1, <3>2
  <2>2. ASSUME NEW v \in Workers, NEW x \in Workers, Carries(v)', Carries(x)', request'[v].message = request'[x].message
        PROVE  v = x
    <3>1. \A y \in Workers \ {w} : Carries(y)' => request'[y].message # m
      BY <1>3, <1>6, <1>7
    <3>2. CASE v = w \/ x = w
      BY <1>2, <1>4, <2>2, <3>1, <3>2
    <3>3. CASE v # w /\ x # w
      BY <1>6, <2>2, <3>3 DEF FeaturesBasis, HandsSound
    <3> QED
      BY <3>2, <3>3
  <2> QED
    BY <2>1, <2>2 DEF HandsSound
<1> QED
  BY <1>2, <1>3, <1>4, <1>5, <1>8

(* A worker begins to warm, and ends: it carries no message.               *)
LEMMA WarmFacts ==
  ASSUME FeaturesBasis, NEW w \in Workers, WarmBegin(w) \/ WarmEnds(w)
  PROVE  /\ RequestInv' /\ HandsSound' /\ ~Carries(w) /\ ~Carries(w)' /\ taken' = taken
         /\ \A v \in Workers \ {w} : request'[v] = request[v]
         /\ WarmBegin(w) => /\ request'[w] = [op |-> "warm", rows |-> snapshots]
                            /\ ~crossed' => ~crossed /\ \A v \in Workers \ {w} : request'[v] = None
         /\ WarmEnds(w) => /\ request'[w] = None /\ crossed' = crossed
                           /\ ~crossed => \A v \in Workers \ {w} : request'[v] = None
<1>1. taken' = taken
  BY DEF WarmBegin, WarmEnds, featureVars
<1>2. CASE WarmBegin(w)
  <2>1. PICK r : r = [op |-> "warm", rows |-> snapshots]
    OBVIOUS
  <2>2. Begin(w, r) /\ r.op = "warm" /\ request[w] = None
    BY <1>2, <2>1 DEF WarmBegin, Begin
  <2>3. /\ RequestInv' /\ request'[w] = r /\ \A v \in Workers \ {w} : request'[v] = request[v]
        /\ ~crossed' => ~crossed /\ \A v \in Workers \ {w} : request'[v] = None
    BY <2>2, BeginStep DEF FeaturesBasis
  <2>4. ~Carries(w) /\ ~Carries(w)' /\ \A v \in Workers \ {w} : Carries(v)' <=> Carries(v)
    BY <2>2, <2>3 DEF Carries
  <2>5. HandsSound'
    BY <1>1, <2>3, <2>4 DEF FeaturesBasis, HandsSound, StepFits
  <2>6. ~WarmEnds(w)
    BY <2>2 DEF WarmEnds, Doing
  <2> QED
    BY <1>1, <2>1, <2>3, <2>4, <2>5, <2>6
<1>3. CASE WarmEnds(w)
  <2>1. GoesOn(w, None) /\ request[w] # None /\ request[w].op = "warm"
    BY <1>3 DEF WarmEnds, Ends, Doing
  <2>2. /\ RequestInv' /\ request'[w] = None /\ \A v \in Workers \ {w} : request'[v] = request[v]
        /\ crossed' = crossed /\ (~crossed => \A v \in Workers \ {w} : request'[v] = None)
    BY <2>1, GoesOnStep DEF FeaturesBasis
  <2>3. ~Carries(w) /\ ~Carries(w)' /\ \A v \in Workers \ {w} : Carries(v)' <=> Carries(v)
    BY <2>1, <2>2 DEF Carries
  <2>4. HandsSound'
    BY <1>1, <2>2, <2>3 DEF FeaturesBasis, HandsSound, StepFits
  <2>5. ~WarmBegin(w)
    BY <2>1 DEF WarmBegin, Begin
  <2> QED
    BY <1>1, <2>2, <2>3, <2>4, <2>5
<1> QED
  BY <1>2, <1>3

(* A step of a handler is one of these.                                    *)
HandlerStep(w) ==
  \/ Enters(w) \/ Shares(w) \/ Looks(w) \/ ComputesFeatures(w) \/ WritesFeatures(w)
  \/ SavesSnapshot(w) \/ AttemptBreaks(w)

(* It goes on with its message.                                            *)
LEMMA HandlerSteps ==
  ASSUME FeaturesBasis, NEW w \in Workers, HandlerStep(w)
  PROVE  \E r : StepsTo(w, r)
<1>1. FeaturesTyped /\ HandsSound /\ WindowsKept /\ SharesKept
  BY DEF FeaturesBasis
<1>2. CASE Enters(w)
  BY <1>1, <1>2, EntersFacts
<1>3. CASE Shares(w)
  BY <1>1, <1>3, SharesFacts
<1>4. CASE Looks(w)
  BY <1>1, <1>4, LooksFacts
<1>5. CASE ComputesFeatures(w)
  BY <1>1, <1>5, ComputesFacts
<1>6. CASE WritesFeatures(w)
  BY <1>1, <1>6, WritesFacts
<1>7. CASE SavesSnapshot(w)
  BY <1>1, <1>7, SavesFacts
<1>8. CASE AttemptBreaks(w)
  BY <1>1, <1>8, BreaksFacts
<1> QED
  BY <1>2, <1>3, <1>4, <1>5, <1>6, <1>7, <1>8 DEF HandlerStep

(* The requests stay sound.                                                *)
LEMMA HandsNext ==
  ASSUME FeaturesBasis, [FeaturesNext]_<<requestVars, featureVars>>
  PROVE  RequestInv' /\ HandsSound'
<1>1. CASE UNCHANGED <<requestVars, featureVars>>
  <2>1. UNCHANGED <<request, calls, crossed, taken>>
    BY <1>1 DEF requestVars, featureVars
  <2> QED
    BY <2>1 DEF FeaturesBasis, RequestInv, RequestTypeOK, OneAtATime, HandsSound, Carries, StepFits
<1>2. CASE InstantPasses
  <2>1. UNCHANGED <<request, calls, crossed, taken>>
    BY <1>2 DEF InstantPasses, requestVars
  <2> QED
    BY <2>1 DEF FeaturesBasis, RequestInv, RequestTypeOK, OneAtATime, HandsSound, Carries, StepFits
<1>3. ASSUME NEW w \in Workers, NEW m \in Messages, Takes(w, m) PROVE RequestInv' /\ HandsSound'
  BY <1>3, TakesFacts
<1>4. ASSUME NEW w \in Workers, WarmBegin(w) \/ WarmEnds(w) PROVE RequestInv' /\ HandsSound'
  BY <1>4, WarmFacts
<1>5. ASSUME NEW w \in Workers, HandlerStep(w) PROVE RequestInv' /\ HandsSound'
  <2>1. PICK r : StepsTo(w, r)
    BY <1>5, HandlerSteps
  <2> QED
    BY <2>1, HandStep DEF FeaturesBasis
<1> QED
  BY <1>1, <1>2, <1>3, <1>4, <1>5 DEF FeaturesNext, HandlerStep

(* What a step leaves of the windows, and of what is shared.               *)
LEMMA WindowsLeft ==
  ASSUME [FeaturesNext]_<<requestVars, featureVars>>
  PROVE  InstantPasses \/ (\E w \in Workers : Enters(w)) \/ UNCHANGED <<instant, windowVars>>
BY DEF FeaturesNext, Takes, Shares, Looks, ComputesFeatures, WritesFeatures, SavesSnapshot,
       AttemptBreaks, WarmBegin, WarmEnds, featureVars, windowVars

(* The sets of things change when a thing is added, or when they expire.   *)
LEMMA SharesLeft ==
  ASSUME [FeaturesNext]_<<requestVars, featureVars>>
  PROVE  \/ InstantPasses \/ (\E w \in Workers : Shares(w)) \/ (\E w \in Workers : Looks(w))
         \/ UNCHANGED <<instant, sharingVars>>
BY DEF FeaturesNext, Takes, Enters, ComputesFeatures, WritesFeatures, SavesSnapshot,
       AttemptBreaks, WarmBegin, WarmEnds, featureVars, sharingVars

(* One more leaves a set finite.                                           *)
LEMMA OneMoreFinite ==
  ASSUME NEW S, IsFiniteSet(S), NEW x
  PROVE  IsFiniteSet(S \cup {x})
BY FS_AddElement

(* What an entry changes.                                                  *)
LEMMA EntersTyped ==
  ASSUME FeaturesBasis, NEW w \in Workers, Enters(w)
  PROVE  FeaturesTyped'
<1>1. PICK m \in taken : m = request[w].message /\ m \in Messages
  BY CarriedFacts DEF Enters, Handling, FeaturesBasis
<1>2. PICK k \in Windows : k = WindowOf(m)
  BY <1>1, MessageTyped
<1>3. PICK x \in EntryType : x = Entry(m)
  BY <1>1, MessageTyped
<1>4. /\ entries' = [entries EXCEPT ![k] = @ \cup {x}]
      /\ entriesEnd' = [entriesEnd EXCEPT ![k] = instant + WindowTtl]
      /\ entered' = entered \cup {[message |-> m, at |-> instant]}
      /\ UNCHANGED <<instant, taken, sharingVars, storeVars, broken>>
  BY <1>1, <1>2, <1>3 DEF Enters, EntriesLast
<1>5. FeaturesTyped /\ WindowTtl \in Nat
  BY FeatureAssumption DEF FeaturesBasis
<1>6. entries' \in [Windows -> SUBSET EntryType]
  BY <1>4, <1>5 DEF FeaturesTyped
<1>7. entriesEnd' \in [Windows -> Nat]
  BY <1>4, <1>5 DEF FeaturesTyped
<1>8. entered' \subseteq [message : taken, at : Nat] /\ IsFiniteSet(entered')
  <2>1. PICK n : n = [message |-> m, at |-> instant]
    OBVIOUS
  <2>2. n \in [message : taken, at : Nat]
    BY <1>5, <2>1 DEF FeaturesTyped
  <2>3. IsFiniteSet(entered \cup {n})
    BY <1>5, OneMoreFinite DEF FeaturesTyped
  <2> QED
    BY <1>4, <1>5, <2>1, <2>2, <2>3 DEF FeaturesTyped
<1> QED
  BY <1>4, <1>5, <1>6, <1>7, <1>8 DEF FeaturesTyped, sharingVars, storeVars

(* What a use changes.                                                     *)
UseOf(w, m, p, t, set) ==
  /\ m = request[w].message /\ p = Inbox[m].player /\ t = Inbox[m].thing
  /\ set = IF Inbox[m].kind = "DEVICE" THEN "devices" ELSE "banks"
  /\ users' = [users EXCEPT ![t] = @ \cup {p}]
  /\ usersEnd' = [usersEnd EXCEPT ![t] = instant + SetTtl]
  /\ owned' = [owned EXCEPT ![<<p, set>>] = @ \cup {t}]
  /\ ownedEnd' = [ownedEnd EXCEPT ![<<p, set>>] = instant + SetTtl]
  /\ uses' = uses \cup {[thing |-> t, holder |-> p, at |-> instant]}
  /\ instant' = instant /\ flagged' = flagged /\ broken' = broken

(* Each is of a player, a thing and a set.                                 *)
LEMMA SharesTyped ==
  ASSUME FeaturesBasis, NEW w \in Workers, Shares(w)
  PROVE  /\ \E m \in Messages, p \in Holders, t \in Things, set \in {"devices", "banks"} :
              UseOf(w, m, p, t, set)
         /\ FeaturesTyped'
<1>1. PICK m \in Messages : m = request[w].message
  BY CarriedFacts DEF Shares, Handling, FeaturesBasis
<1>2. PICK p \in Holders : p = Inbox[m].player
  BY MessageTyped
<1>3. PICK t \in Things : t = Inbox[m].thing
  BY <1>1, CarriedFacts DEF Shares, Handling, FeaturesBasis, StepFits
<1>4. PICK set \in {"devices", "banks"} : set = SetOf(m) /\ set = IF Inbox[m].kind = "DEVICE" THEN "devices" ELSE "banks"
  BY DEF SetOf
<1>5. PICK k \in Belongings : k = <<p, set>>
  BY DEF Belongings
<1>6. /\ users' = [users EXCEPT ![t] = @ \cup {p}]
      /\ usersEnd' = [usersEnd EXCEPT ![t] = instant + SetTtl]
      /\ owned' = [owned EXCEPT ![k] = @ \cup {t}]
      /\ ownedEnd' = [ownedEnd EXCEPT ![k] = instant + SetTtl]
      /\ uses' = uses \cup {[thing |-> t, holder |-> p, at |-> instant]}
      /\ UNCHANGED <<instant, taken, windowVars, storeVars, broken>>
  BY <1>1, <1>2, <1>3, <1>4, <1>5 DEF Shares, Added, Used
<1>7. FeaturesTyped /\ SetTtl \in Nat
  BY FeatureAssumption DEF FeaturesBasis
<1>8. users' \in [Things -> SUBSET Holders] /\ usersEnd' \in [Things -> Nat]
  BY <1>6, <1>7 DEF FeaturesTyped
<1>9. owned' \in [Belongings -> SUBSET (Things \cup {None})] /\ ownedEnd' \in [Belongings -> Nat]
  BY <1>6, <1>7 DEF FeaturesTyped
<1>10. uses' \subseteq [thing : Things, holder : Holders, at : Nat] /\ IsFiniteSet(uses')
  <2>1. PICK n : n = [thing |-> t, holder |-> p, at |-> instant]
    OBVIOUS
  <2>2. n \in [thing : Things, holder : Holders, at : Nat]
    BY <1>7, <2>1 DEF FeaturesTyped
  <2>3. IsFiniteSet(uses \cup {n})
    BY <1>7, OneMoreFinite DEF FeaturesTyped
  <2> QED
    BY <1>6, <1>7, <2>1, <2>2, <2>3 DEF FeaturesTyped
<1>11. FeaturesTyped'
  BY <1>6, <1>7, <1>8, <1>9, <1>10 DEF FeaturesTyped, windowVars, storeVars
<1>12. UseOf(w, m, p, t, set)
  BY <1>1, <1>2, <1>3, <1>4, <1>5, <1>6 DEF UseOf, storeVars
<1> QED
  BY <1>11, <1>12

(* What a question for a thing changes: the instruments, or nothing.       *)
LookOf(w, m, p, t) ==
  /\ m = request[w].message /\ p = Inbox[m].player /\ t = Inbox[m].thing
  /\ \/ Inbox[m].kind = "DEVICE" /\ owned' = owned /\ ownedEnd' = ownedEnd
     \/ /\ Inbox[m].kind # "DEVICE"
        /\ owned' = [owned EXCEPT ![<<p, "instruments">>] = @ \cup {t}]
        /\ ownedEnd' = [ownedEnd EXCEPT ![<<p, "instruments">>] = instant + SetTtl]
  /\ users' = users /\ usersEnd' = usersEnd /\ uses' = uses
  /\ instant' = instant /\ flagged' = flagged /\ broken' = broken

(* It is of a player and a thing.                                          *)
LEMMA LooksTyped ==
  ASSUME FeaturesBasis, NEW w \in Workers, Looks(w)
  PROVE  /\ \E m \in Messages, p \in Holders, t \in Things \cup {None} : LookOf(w, m, p, t)
         /\ FeaturesTyped'
<1>1. PICK m \in Messages : m = request[w].message
  BY CarriedFacts DEF Looks, Handling, FeaturesBasis
<1>2. PICK p \in Holders : p = Inbox[m].player
  BY MessageTyped
<1>3. PICK t \in Things \cup {None} : t = Inbox[m].thing
  BY MessageTyped
<1>4. PICK k \in Belongings : k = <<p, "instruments">>
  BY DEF Belongings
<1>5. /\ \/ Inbox[m].kind = "DEVICE" /\ UNCHANGED <<owned, ownedEnd>>
         \/ /\ Inbox[m].kind # "DEVICE"
            /\ owned' = [owned EXCEPT ![k] = @ \cup {t}]
            /\ ownedEnd' = [ownedEnd EXCEPT ![k] = instant + SetTtl]
      /\ UNCHANGED <<instant, taken, windowVars, users, usersEnd, uses, storeVars, broken>>
  BY <1>1, <1>2, <1>3, <1>4 DEF Looks, Added
<1>6. FeaturesTyped /\ SetTtl \in Nat
  BY FeatureAssumption DEF FeaturesBasis
<1>7. owned' \in [Belongings -> SUBSET (Things \cup {None})] /\ ownedEnd' \in [Belongings -> Nat]
  BY <1>5, <1>6 DEF FeaturesTyped
<1>8. FeaturesTyped'
  BY <1>5, <1>6, <1>7 DEF FeaturesTyped, windowVars, storeVars
<1>9. LookOf(w, m, p, t)
  BY <1>1, <1>2, <1>3, <1>4, <1>5 DEF LookOf, storeVars
<1> QED
  BY <1>8, <1>9

(* What time changes.                                                      *)
LEMMA PassesTyped ==
  ASSUME FeaturesBasis, InstantPasses
  PROVE  FeaturesTyped'
<1>1. /\ instant' = instant + 1
      /\ entries' = [k \in Windows |-> IF entriesEnd[k] <= instant + 1 THEN {} ELSE entries[k]]
      /\ users' = [t \in Things |-> IF usersEnd[t] <= instant + 1 THEN {} ELSE users[t]]
      /\ owned' = [k \in Belongings |-> IF ownedEnd[k] <= instant + 1 THEN {} ELSE owned[k]]
      /\ online' = [p \in Holders |-> None]
      /\ UNCHANGED <<taken, entriesEnd, entered, usersEnd, ownedEnd, uses, snapshots, writes, broken>>
  BY DEF InstantPasses
<1>2. FeaturesTyped
  BY DEF FeaturesBasis
<1>3. entries' \in [Windows -> SUBSET EntryType] /\ users' \in [Things -> SUBSET Holders]
  BY <1>1, <1>2 DEF FeaturesTyped
<1>4. owned' \in [Belongings -> SUBSET (Things \cup {None})]
  BY <1>1, <1>2 DEF FeaturesTyped
<1> QED
  BY <1>1, <1>2, <1>3, <1>4 DEF FeaturesTyped

(* What the steps of the stores change.                                    *)
LEMMA StoresTyped ==
  ASSUME FeaturesBasis, NEW w \in Workers,
         ComputesFeatures(w) \/ WritesFeatures(w) \/ SavesSnapshot(w) \/ AttemptBreaks(w)
           \/ WarmBegin(w) \/ WarmEnds(w)
  PROVE  FeaturesTyped'
<1>1. FeaturesTyped /\ HandsSound /\ WindowsKept /\ SharesKept
  BY DEF FeaturesBasis
<1>2. CASE ComputesFeatures(w) \/ WarmBegin(w)
  <2>1. UNCHANGED featureVars
    BY <1>2 DEF ComputesFeatures, WarmBegin
  <2> QED
    BY <1>1, <2>1 DEF FeaturesTyped, featureVars, windowVars, sharingVars, storeVars
<1>3. CASE WritesFeatures(w)
  <2>1. PICK p \in Holders : /\ writes' = [writes EXCEPT ![p] = @ + 1]
                             /\ \E row : online' = [online EXCEPT ![p] = row]
                             /\ UNCHANGED <<instant, taken, windowVars, sharingVars, snapshots, broken>>
    <3>1. Inbox[request[w].message].player \in Holders
      BY <1>1, <1>3, CarriedFacts, MessageTyped DEF WritesFeatures, Handling
    <3> QED
      BY <1>3, <3>1 DEF WritesFeatures
  <2>2. writes' \in [Holders -> Nat]
    BY <1>1, <2>1 DEF FeaturesTyped
  <2>3. DOMAIN online' = Holders
    BY <1>1, <2>1 DEF FeaturesTyped
  <2> QED
    BY <1>1, <2>1, <2>2, <2>3 DEF FeaturesTyped, windowVars, sharingVars
<1>4. CASE SavesSnapshot(w)
  <2>1. /\ UNCHANGED <<instant, taken, windowVars, sharingVars, online, writes, broken>>
        /\ DOMAIN snapshots' = DOMAIN snapshots
    BY <1>4 DEF SavesSnapshot
  <2> QED
    BY <1>1, <2>1 DEF FeaturesTyped, windowVars, sharingVars
<1>5. CASE AttemptBreaks(w)
  <2>1. PICK r : StepsTo(w, r) /\ broken' = {request[w].message}
    BY <1>1, <1>5, BreaksFacts
  <2>2. request[w].message \in taken
    BY <1>1, <2>1 DEF StepsTo, HandsSound
  <2>3. UNCHANGED <<instant, taken, windowVars, sharingVars, storeVars>>
    BY <1>5 DEF AttemptBreaks
  <2> QED
    BY <1>1, <2>1, <2>2, <2>3 DEF FeaturesTyped, windowVars, sharingVars, storeVars
<1>6. CASE WarmEnds(w)
  <2>1. /\ UNCHANGED <<instant, taken, windowVars, sharingVars, snapshots, writes, broken>>
        /\ DOMAIN online' = Holders
    BY <1>6 DEF WarmEnds
  <2> QED
    BY <1>1, <2>1 DEF FeaturesTyped, windowVars, sharingVars
<1> QED
  BY <1>2, <1>3, <1>4, <1>5, <1>6

(* The types are kept.                                                     *)
LEMMA TypedNext ==
  ASSUME FeaturesBasis, [FeaturesNext]_<<requestVars, featureVars>>
  PROVE  FeaturesTyped'
<1>1. CASE UNCHANGED <<requestVars, featureVars>>
  BY <1>1 DEF FeaturesBasis, FeaturesTyped, featureVars, windowVars, sharingVars, storeVars
<1>2. ASSUME NEW w \in Workers, NEW m \in Messages, Takes(w, m) PROVE FeaturesTyped'
  <2>1. taken' = taken \cup {m} /\ UNCHANGED <<instant, windowVars, sharingVars, storeVars, broken>>
    BY <1>2 DEF Takes
  <2> QED
    BY <2>1 DEF FeaturesBasis, FeaturesTyped, windowVars, sharingVars, storeVars
<1>3. ASSUME NEW w \in Workers, Enters(w) PROVE FeaturesTyped'
  BY <1>3, EntersTyped
<1>4. ASSUME NEW w \in Workers, Shares(w) PROVE FeaturesTyped'
  BY <1>4, SharesTyped
<1>5. ASSUME NEW w \in Workers, Looks(w) PROVE FeaturesTyped'
  BY <1>5, LooksTyped
<1>6. ASSUME NEW w \in Workers,
             ComputesFeatures(w) \/ WritesFeatures(w) \/ SavesSnapshot(w) \/ AttemptBreaks(w)
               \/ WarmBegin(w) \/ WarmEnds(w)
      PROVE  FeaturesTyped'
  BY <1>6, StoresTyped
<1>7. CASE InstantPasses
  BY <1>7, PassesTyped
<1> QED
  BY <1>1, <1>2, <1>3, <1>4, <1>5, <1>6, <1>7 DEF FeaturesNext

(* The windows have the entries of their time.                             *)
LEMMA WindowsNext ==
  ASSUME FeaturesBasis, [FeaturesNext]_<<requestVars, featureVars>>
  PROVE  WindowsKept'
<1> USE DEF FeaturesBasis
<1>1. CASE UNCHANGED <<instant, windowVars>>
  BY <1>1 DEF WindowsKept, windowVars, WindowOf, Entry
<1>2. \A e \in entered : /\ e.message \in Messages /\ e.at \in Nat
                         /\ WindowOf(e.message) \in Windows /\ Entry(e.message) \in EntryType
  <2> TAKE e \in entered
  <2>1. e.message \in Messages /\ e.at \in Nat
    BY DEF FeaturesTyped
  <2> QED
    BY <2>1, MessageTyped
<1>3. ASSUME NEW w \in Workers, Enters(w) PROVE WindowsKept'
  <2>1. PICK m \in Messages : m = request[w].message
    BY <1>3, CarriedFacts DEF Enters, Handling
  <2>2. PICK k \in Windows : k = WindowOf(m)
    BY MessageTyped
  <2>3. PICK x : x = Entry(m)
    OBVIOUS
  <2>4. PICK n : n = [message |-> m, at |-> instant]
    OBVIOUS
  <2>5. /\ entries' = [entries EXCEPT ![k] = @ \cup {x}]
        /\ entriesEnd' = [entriesEnd EXCEPT ![k] = instant + WindowTtl]
        /\ entered' = entered \cup {n} /\ instant' = instant
    BY <1>3, <2>1, <2>2, <2>3, <2>4 DEF Enters, EntriesLast
  <2>6. WindowTtl \in Nat /\ instant \in Nat
    BY FeatureAssumption DEF FeaturesTyped
  <2>7. /\ \A j \in Windows : entries[j] \subseteq entries'[j] /\ (j # k => entries'[j] = entries[j] /\ entriesEnd'[j] = entriesEnd[j])
        /\ entries'[k] = entries[k] \cup {x} /\ entriesEnd'[k] = instant + WindowTtl
    BY <2>5 DEF FeaturesTyped
  <2>8. ASSUME NEW e \in entered', instant' < e.at + WindowTtl
        PROVE  /\ Entry(e.message) \in entries'[WindowOf(e.message)]
               /\ e.at + WindowTtl <= entriesEnd'[WindowOf(e.message)]
    <3>1. CASE e = n
      BY <2>2, <2>3, <2>4, <2>6, <2>7, <3>1
    <3>2. CASE e \in entered
      <4>1. PICK j \in Windows : j = WindowOf(e.message)
        BY <1>2, <3>2
      <4>2. Entry(e.message) \in entries[j] /\ e.at + WindowTtl <= entriesEnd[j]
        BY <2>5, <2>8, <3>2, <4>1 DEF WindowsKept
      <4>3. entriesEnd[j] <= instant + WindowTtl /\ entriesEnd[j] \in Nat /\ e.at \in Nat
        BY <1>2, <3>2, <4>1 DEF WindowsKept, FeaturesTyped
      <4> QED
        BY <2>6, <2>7, <4>1, <4>2, <4>3
    <3> QED
      BY <2>5, <3>1, <3>2
  <2>9. ASSUME NEW j \in Windows, NEW y \in entries'[j]
        PROVE  \E e \in entered' : WindowOf(e.message) = j /\ y = Entry(e.message)
    <3>1. CASE y \in entries[j]
      BY <2>5, <3>1 DEF WindowsKept
    <3>2. CASE y \notin entries[j]
      <4>1. j = k /\ y = x
        BY <2>7, <2>9, <3>2
      <4>2. n \in entered' /\ n.message = m
        BY <2>4, <2>5
      <4> QED
        BY <2>2, <2>3, <4>1, <4>2
    <3> QED
      BY <3>1, <3>2
  <2>10. \A j \in Windows : entriesEnd'[j] <= instant + WindowTtl
    BY <2>6, <2>7 DEF WindowsKept
  <2>11. \A j : Entry(j)' = Entry(j) /\ WindowOf(j)' = WindowOf(j)
    BY DEF Entry, WindowOf
  <2> QED
    BY <2>5, <2>8, <2>9, <2>10, <2>11 DEF WindowsKept
<1>4. CASE InstantPasses
  <2>1. /\ instant' = instant + 1 /\ UNCHANGED <<entered, entriesEnd>>
        /\ entries' = [k \in Windows |-> IF entriesEnd[k] <= instant + 1 THEN {} ELSE entries[k]]
    BY <1>4 DEF InstantPasses
  <2>2. instant \in Nat /\ WindowTtl \in Nat /\ \A k \in Windows : entriesEnd[k] \in Nat
    BY FeatureAssumption DEF FeaturesTyped
  <2>3. ASSUME NEW e \in entered, instant + 1 < e.at + WindowTtl
        PROVE  /\ Entry(e.message) \in entries'[WindowOf(e.message)]
               /\ e.at + WindowTtl <= entriesEnd[WindowOf(e.message)]
    <3>1. PICK j \in Windows : j = WindowOf(e.message) /\ e.at \in Nat
      BY <1>2
    <3>2. Entry(e.message) \in entries[j] /\ e.at + WindowTtl <= entriesEnd[j]
      BY <2>2, <2>3, <3>1 DEF WindowsKept
    <3>3. ~(entriesEnd[j] <= instant + 1)
      BY <2>2, <2>3, <3>1, <3>2
    <3> QED
      BY <2>1, <3>1, <3>2, <3>3
  <2>4. \A k \in Windows : entries'[k] \subseteq entries[k]
    BY <2>1
  <2>5. \A j : Entry(j)' = Entry(j) /\ WindowOf(j)' = WindowOf(j)
    BY DEF Entry, WindowOf
  <2>6. \A k \in Windows : entriesEnd[k] <= instant + 1 + WindowTtl
    BY <2>2 DEF WindowsKept
  <2> QED
    BY <2>1, <2>3, <2>4, <2>5, <2>6 DEF WindowsKept
<1> QED
  BY <1>1, <1>3, <1>4, WindowsLeft

(* An instrument that is looked for is among no one's things.              *)
LEMMA LooksKept ==
  ASSUME FeaturesBasis, NEW w \in Workers, Looks(w)
  PROVE  SharesKept'
<1>1. PICK p \in Holders :
        /\ \A q \in Holders : \A set \in {"devices", "banks"} :
             owned'[<<q, set>>] = owned[<<q, set>>] /\ ownedEnd'[<<q, set>>] = ownedEnd[<<q, set>>]
        /\ UNCHANGED <<instant, users, usersEnd, uses>>
  <2>1. PICK m \in Messages, p \in Holders, t \in Things \cup {None} : LookOf(w, m, p, t)
    BY LooksTyped
  <2>2. \A q \in Holders : \A set \in {"devices", "banks"} :
          <<q, set>> \in Belongings /\ <<q, set>> # <<p, "instruments">>
    BY DEF Belongings
  <2>3. DOMAIN owned = Belongings /\ DOMAIN ownedEnd = Belongings
    BY DEF FeaturesBasis, FeaturesTyped
  <2> QED
    BY <2>1, <2>2, <2>3 DEF LookOf
<1>2. \A u \in uses : u.holder \in Holders
  BY DEF FeaturesBasis, FeaturesTyped
<1>3. SharesKept
  BY DEF FeaturesBasis
<1>4. \A u \in uses : instant < u.at + SetTtl =>
        /\ u.holder \in users[u.thing] /\ u.at + SetTtl <= usersEnd[u.thing]
        /\ \E set \in {"devices", "banks"} :
             u.thing \in owned'[<<u.holder, set>>] /\ u.at + SetTtl <= ownedEnd'[<<u.holder, set>>]
  BY <1>1, <1>2, <1>3 DEF SharesKept
<1>5. \A q \in Holders : \A set \in {"devices", "banks"} :
        /\ owned'[<<q, set>>] \subseteq Things /\ ownedEnd'[<<q, set>>] <= instant + SetTtl
        /\ owned'[<<q, set>>] # {} =>
            \E t \in owned'[<<q, set>>] : q \in users[t] /\ ownedEnd'[<<q, set>>] <= usersEnd[t]
  BY <1>1, <1>3 DEF SharesKept
<1>6. \A t \in Things : users[t] \subseteq {u.holder : u \in uses} /\ usersEnd[t] <= instant + SetTtl
  BY <1>3 DEF SharesKept
<1> QED
  BY <1>1, <1>4, <1>5, <1>6 DEF SharesKept

(* A use is added on both sides.                                           *)
LEMMA UsesKept ==
  ASSUME FeaturesBasis, NEW w \in Workers, Shares(w)
  PROVE  SharesKept'
<1>0. PICK m \in Messages, p \in Holders, t \in Things, kind \in {"devices", "banks"} : UseOf(w, m, p, t, kind)
  BY SharesTyped
<1>1. /\ users' = [users EXCEPT ![t] = @ \cup {p}]
      /\ usersEnd' = [usersEnd EXCEPT ![t] = instant + SetTtl]
      /\ owned' = [owned EXCEPT ![<<p, kind>>] = @ \cup {t}]
      /\ ownedEnd' = [ownedEnd EXCEPT ![<<p, kind>>] = instant + SetTtl]
      /\ uses' = uses \cup {[thing |-> t, holder |-> p, at |-> instant]}
      /\ instant' = instant
  BY <1>0 DEF UseOf
<1>2. PICK n : n = [thing |-> t, holder |-> p, at |-> instant]
  OBVIOUS
<1>3. PICK k \in Belongings : k = <<p, kind>>
  BY DEF Belongings
<1>4. SharesKept /\ FeaturesTyped /\ SetTtl \in Nat /\ instant \in Nat
  BY FeatureAssumption DEF FeaturesBasis, FeaturesTyped
<1>5. /\ users'[t] = users[t] \cup {p} /\ usersEnd'[t] = instant + SetTtl
      /\ \A s \in Things : s # t => users'[s] = users[s] /\ usersEnd'[s] = usersEnd[s]
  BY <1>1, <1>4 DEF FeaturesTyped
<1>6. /\ owned'[k] = owned[k] \cup {t} /\ ownedEnd'[k] = instant + SetTtl
      /\ \A j \in Belongings : j # k => owned'[j] = owned[j] /\ ownedEnd'[j] = ownedEnd[j]
  BY <1>1, <1>3, <1>4 DEF FeaturesTyped
<1>7. \A q \in Holders : \A set \in {"devices", "banks"} : <<q, set>> \in Belongings
  BY DEF Belongings
<1>8. \A s \in Things : usersEnd[s] <= instant + SetTtl /\ usersEnd[s] \in Nat
  BY <1>4 DEF SharesKept, FeaturesTyped
<1>9. \A q \in Holders : \A set \in {"devices", "banks"} :
        ownedEnd[<<q, set>>] <= instant + SetTtl /\ ownedEnd[<<q, set>>] \in Nat
  BY <1>4, <1>7 DEF SharesKept, FeaturesTyped
<1>10. ASSUME NEW u \in uses', instant < u.at + SetTtl
       PROVE  /\ u.holder \in users'[u.thing] /\ u.at + SetTtl <= usersEnd'[u.thing]
              /\ \E set \in {"devices", "banks"} :
                   u.thing \in owned'[<<u.holder, set>>] /\ u.at + SetTtl <= ownedEnd'[<<u.holder, set>>]
  <2>1. CASE u = n
    BY <1>2, <1>3, <1>4, <1>5, <1>6, <2>1
  <2>2. CASE u \in uses
    <3>1. PICK s \in Things, q \in Holders, a \in Nat : s = u.thing /\ q = u.holder /\ a = u.at
      BY <1>4, <2>2 DEF FeaturesTyped
    <3>2. PICK set \in {"devices", "banks"} :
            /\ q \in users[s] /\ a + SetTtl <= usersEnd[s]
            /\ s \in owned[<<q, set>>] /\ a + SetTtl <= ownedEnd[<<q, set>>]
      BY <1>4, <1>10, <2>2, <3>1 DEF SharesKept
    <3>3. q \in users'[s] /\ a + SetTtl <= usersEnd'[s]
      BY <1>4, <1>5, <1>8, <3>1, <3>2
    <3>4. s \in owned'[<<q, set>>] /\ a + SetTtl <= ownedEnd'[<<q, set>>]
      <4>1. PICK j \in Belongings : j = <<q, set>>
        BY <1>7
      <4>2. ownedEnd[j] <= instant + SetTtl /\ ownedEnd[j] \in Nat
        BY <1>9, <4>1
      <4> QED
        BY <1>4, <1>6, <3>1, <3>2, <4>1, <4>2
    <3> QED
      BY <3>1, <3>3, <3>4
  <2> QED
    BY <1>1, <1>2, <2>1, <2>2
<1>11. ASSUME NEW s \in Things
       PROVE  users'[s] \subseteq {u.holder : u \in uses'} /\ usersEnd'[s] <= instant + SetTtl
  <2>1. n \in uses' /\ n.holder = p /\ uses \subseteq uses'
    BY <1>1, <1>2
  <2>2. users[s] \subseteq {u.holder : u \in uses}
    BY <1>4 DEF SharesKept
  <2> QED
    BY <1>4, <1>5, <1>8, <2>1, <2>2
<1>12. ASSUME NEW q \in Holders, NEW set \in {"devices", "banks"}
       PROVE  /\ owned'[<<q, set>>] \subseteq Things /\ ownedEnd'[<<q, set>>] <= instant + SetTtl
              /\ owned'[<<q, set>>] # {} =>
                   \E s \in owned'[<<q, set>>] : q \in users'[s] /\ ownedEnd'[<<q, set>>] <= usersEnd'[s]
  <2>1. PICK j \in Belongings : j = <<q, set>>
    BY <1>7
  <2>2. owned[j] \subseteq Things /\ ownedEnd[j] <= instant + SetTtl /\ ownedEnd[j] \in Nat
    BY <1>4, <1>9, <2>1 DEF SharesKept
  <2>3. CASE j = k
    <3>1. p = q
      BY <1>3, <2>1, <2>3
    <3> QED
      BY <1>4, <1>5, <1>6, <2>1, <2>2, <2>3, <3>1
  <2>4. CASE j # k
    <3>1. owned'[j] = owned[j] /\ ownedEnd'[j] = ownedEnd[j]
      BY <1>6, <2>4
    <3>2. ASSUME owned[j] # {} PROVE \E s \in owned[j] : q \in users'[s] /\ ownedEnd[j] <= usersEnd'[s]
      <4>1. PICK s \in owned[j] : q \in users[s] /\ ownedEnd[j] <= usersEnd[s]
        BY <1>4, <2>1, <3>2 DEF SharesKept
      <4>2. s \in Things
        BY <2>2, <4>1
      <4>3. q \in users'[s] /\ ownedEnd[j] <= usersEnd'[s]
        BY <1>4, <1>5, <1>8, <2>2, <4>1, <4>2
      <4> QED
        BY <4>1, <4>3
    <3> QED
      BY <2>1, <2>2, <3>1, <3>2
  <2> QED
    BY <2>3, <2>4
<1> QED
  BY <1>1, <1>10, <1>11, <1>12 DEF SharesKept

(* Sets that expire together leave what is said of them.                   *)
LEMMA SharesExpire ==
  ASSUME FeaturesBasis, InstantPasses
  PROVE  SharesKept'
<1>1. /\ instant' = instant + 1 /\ UNCHANGED <<usersEnd, ownedEnd, uses>>
      /\ users' = [t \in Things |-> IF usersEnd[t] <= instant + 1 THEN {} ELSE users[t]]
      /\ owned' = [k \in Belongings |-> IF ownedEnd[k] <= instant + 1 THEN {} ELSE owned[k]]
  BY DEF InstantPasses
<1>2. SharesKept /\ FeaturesTyped /\ SetTtl \in Nat /\ instant \in Nat
  BY FeatureAssumption DEF FeaturesBasis, FeaturesTyped
<1>3. \A q \in Holders : \A set \in {"devices", "banks"} : <<q, set>> \in Belongings
  BY DEF Belongings
<1>4. /\ \A s \in Things : usersEnd[s] <= instant + SetTtl /\ usersEnd[s] \in Nat
      /\ \A j \in Belongings : ownedEnd[j] \in Nat
  BY <1>2 DEF SharesKept, FeaturesTyped
<1>5. ASSUME NEW u \in uses, instant + 1 < u.at + SetTtl
      PROVE  /\ u.holder \in users'[u.thing] /\ u.at + SetTtl <= usersEnd[u.thing]
             /\ \E set \in {"devices", "banks"} :
                  u.thing \in owned'[<<u.holder, set>>] /\ u.at + SetTtl <= ownedEnd[<<u.holder, set>>]
  <2>1. PICK s \in Things, q \in Holders, a \in Nat : s = u.thing /\ q = u.holder /\ a = u.at
    BY <1>2 DEF FeaturesTyped
  <2>2. PICK set \in {"devices", "banks"} :
          /\ q \in users[s] /\ a + SetTtl <= usersEnd[s]
          /\ s \in owned[<<q, set>>] /\ a + SetTtl <= ownedEnd[<<q, set>>]
    BY <1>2, <1>5, <2>1 DEF SharesKept
  <2>3. PICK j \in Belongings : j = <<q, set>>
    BY <1>3
  <2>4. ~(usersEnd[s] <= instant + 1) /\ ~(ownedEnd[j] <= instant + 1)
    BY <1>2, <1>4, <1>5, <2>1, <2>2, <2>3
  <2> QED
    BY <1>1, <2>1, <2>2, <2>3, <2>4
<1>6. \A s \in Things : users'[s] \subseteq {u.holder : u \in uses} /\ usersEnd[s] <= instant + 1 + SetTtl
  BY <1>1, <1>2, <1>4 DEF SharesKept
<1>7. ASSUME NEW q \in Holders, NEW set \in {"devices", "banks"}
      PROVE  /\ owned'[<<q, set>>] \subseteq Things /\ ownedEnd[<<q, set>>] <= instant + 1 + SetTtl
             /\ owned'[<<q, set>>] # {} =>
                  \E s \in owned'[<<q, set>>] : q \in users'[s] /\ ownedEnd[<<q, set>>] <= usersEnd[s]
  <2>1. PICK j \in Belongings : j = <<q, set>>
    BY <1>3
  <2>2. owned[j] \subseteq Things /\ ownedEnd[j] <= instant + SetTtl /\ ownedEnd[j] \in Nat
    BY <1>2, <1>4, <2>1 DEF SharesKept
  <2>3. CASE ownedEnd[j] <= instant + 1
    BY <1>1, <1>2, <2>1, <2>2, <2>3
  <2>4. CASE ~(ownedEnd[j] <= instant + 1)
    <3>1. owned'[j] = owned[j]
      BY <1>1, <2>4
    <3>2. ASSUME owned[j] # {} PROVE \E s \in owned[j] : q \in users'[s] /\ ownedEnd[j] <= usersEnd[s]
      <4>1. PICK s \in owned[j] : q \in users[s] /\ ownedEnd[j] <= usersEnd[s]
        BY <1>2, <2>1, <3>2 DEF SharesKept
      <4>2. s \in Things /\ usersEnd[s] \in Nat
        BY <1>4, <2>2, <4>1
      <4>3. ~(usersEnd[s] <= instant + 1)
        BY <1>2, <2>2, <2>4, <4>1, <4>2
      <4> QED
        BY <1>1, <4>1, <4>2, <4>3
    <3> QED
      BY <1>2, <2>1, <2>2, <3>1, <3>2
  <2> QED
    BY <2>3, <2>4
<1> QED
  BY <1>1, <1>5, <1>6, <1>7 DEF SharesKept

(* Who shares what is kept for its time.                                   *)
LEMMA SharesNext ==
  ASSUME FeaturesBasis, [FeaturesNext]_<<requestVars, featureVars>>
  PROVE  SharesKept'
<1>1. CASE UNCHANGED <<instant, sharingVars>>
  BY <1>1 DEF FeaturesBasis, SharesKept, sharingVars
<1> QED
  BY <1>1, SharesLeft, LooksKept, UsesKept, SharesExpire

(* No other message of the player names its thing.                         *)
Lonely(m) == \A n \in taken \ {m} : Inbox[n].player = Inbox[m].player => Inbox[n].thing # Inbox[m].thing

(* The worker that has a message has looked for its thing and shared it.   *)
PastLook(op) == op \in {"read", "write", "save"}
PastLooks(n) == \A w \in Workers : Carries(w) /\ request[w].message = n => PastLook(request[w].op)

(* What a worker that has looked goes on with has the flag.                *)
HasFlag(r) ==
  /\ r.op = "read" \/ (r.op = "share" /\ Inbox[r.message].kind = "DEVICE") => r.new = TRUE
  /\ r.op = "write" => r.features.new = TRUE
  /\ r.op = "save" => r.message \in flagged

(* What is remembered a message has named that has looked or broken off;   *)
(* one that names its thing alone has the flag, or will have.              *)
FlagsKept ==
  /\ \A p \in Holders : \A set \in {"devices", "instruments"} : \A t \in owned[<<p, set>>] :
       \E n \in taken : Inbox[n].player = p /\ Inbox[n].thing = t /\ (n \in broken \/ PastLooks(n))
  /\ \A w \in Workers :
       /\ Carries(w) /\ Inbox[request[w].message].kind # "BET"
       /\ Lonely(request[w].message) /\ request[w].message \notin broken
       => HasFlag(request[w])
  /\ \A m \in taken : Inbox[m].kind # "BET" /\ Lonely(m) =>
       m \in flagged \cup broken \/ \E w \in Workers : Carries(w) /\ request[w].message = m

(* Of what is remembered there is such a message.                          *)
LEMMA NamedByOne ==
  ASSUME FlagsKept, NEW p \in Holders, NEW set \in {"devices", "instruments"}, NEW t \in owned[<<p, set>>]
  PROVE  \E n \in taken : Inbox[n].player = p /\ Inbox[n].thing = t /\ (n \in broken \/ PastLooks(n))
BY DEF FlagsKept

(* What a step of a handler has to keep.                                   *)
LEMMA FlagsStep ==
  ASSUME FeaturesBasis, FlagsKept, NEW w \in Workers, NEW r, StepsTo(w, r),
         NEW m, m = request[w].message,
         broken \subseteq broken', flagged \subseteq flagged',
         \A p \in Holders : \A set \in {"devices", "instruments"} : \A t \in owned'[<<p, set>>] :
           \/ t \in owned[<<p, set>>]
           \/ Inbox[m].player = p /\ Inbox[m].thing = t /\ r # None /\ r.op = "read",
         r # None /\ Inbox[m].kind # "BET" /\ Lonely(m) /\ m \notin broken' => HasFlag(r)',
         r = None /\ Inbox[m].kind # "BET" /\ Lonely(m) => m \in flagged' \cup broken',
         PastLook(request[w].op) => r = None \/ PastLook(r.op) \/ m \in broken'
  PROVE  FlagsKept'
<1> DEFINE PastThen(n) == \A v \in Workers : Carries(v)' /\ request'[v].message = n => PastLook(request'[v].op)
<1>1. /\ request'[w] = r /\ \A v \in Workers \ {w} : request'[v] = request[v]
      /\ taken' = taken /\ Carries(w) /\ m \in taken
  BY HandStep DEF FeaturesBasis, StepsTo, HandsSound
<1>2. r # None => Carries(w)' /\ r.message = m
  <2>1. r # None => r \in FeatureRequest /\ r.message = m
    BY DEF StepsTo
  <2>2. r # None => r.op # "warm"
    BY <2>1 DEF FeatureRequest
  <2> QED
    BY <1>1, <2>1, <2>2 DEF Carries
<1>3. r = None => ~Carries(w)'
  BY <1>1 DEF Carries
<1>4. \A v \in Workers \ {w} : /\ Carries(v)' <=> Carries(v)
                               /\ Carries(v) => request[v].message # m /\ request[v].message \in taken
  BY <1>1 DEF Carries, FeaturesBasis, HandsSound
<1>5. \A n : Lonely(n)' <=> Lonely(n)
  BY <1>1 DEF Lonely
<1>6. ASSUME NEW n \in taken, n # m, PastLooks(n) PROVE PastThen(n)
  BY <1>1, <1>2, <1>3, <1>4, <1>6 DEF PastLooks
<1>7. ASSUME r = None \/ PastLook(r.op) PROVE PastThen(m)
  BY <1>1, <1>2, <1>3, <1>4, <1>7 DEF PastLooks, PastLook
<1>8. PastLooks(m) => PastLook(request[w].op)
  BY <1>1 DEF PastLooks
<1> HIDE DEF PastThen
<1>9. ASSUME NEW p \in Holders, NEW set \in {"devices", "instruments"}, NEW t, t \in owned'[<<p, set>>]
      PROVE  \E n \in taken : Inbox[n].player = p /\ Inbox[n].thing = t /\ (n \in broken' \/ PastThen(n))
  <2>1. CASE t \in owned[<<p, set>>]
    <3>1. PICK n \in taken : Inbox[n].player = p /\ Inbox[n].thing = t /\ (n \in broken \/ PastLooks(n))
      BY <2>1, NamedByOne
    <3>2. n \in broken' \/ PastThen(n)
      <4>1. CASE n \in broken
        BY <4>1
      <4>2. CASE n # m /\ PastLooks(n)
        BY <1>6, <4>2
      <4>3. CASE n = m /\ PastLooks(m)
        BY <1>7, <1>8, <4>3
      <4> QED
        BY <3>1, <4>1, <4>2, <4>3
    <3> QED
      BY <3>1, <3>2
  <2>2. CASE t \notin owned[<<p, set>>]
    <3>1. Inbox[m].player = p /\ Inbox[m].thing = t /\ r # None /\ r.op = "read"
      BY <1>9, <2>2
    <3> QED
      BY <1>1, <1>7, <3>1 DEF PastLook
  <2> QED
    BY <2>1, <2>2
<1>10. ASSUME NEW v \in Workers, Carries(v)', Inbox[request'[v].message].kind # "BET",
              Lonely(request'[v].message), request'[v].message \notin broken'
       PROVE  HasFlag(request[v])'
  <2>1. CASE v = w
    BY <1>1, <1>2, <1>3, <1>10, <2>1 DEF HasFlag
  <2>2. CASE v # w
    <3>1. HasFlag(request[v]) /\ request'[v] = request[v]
      BY <1>1, <1>4, <1>10, <2>2 DEF FlagsKept
    <3> QED
      BY <3>1 DEF HasFlag
  <2> QED
    BY <2>1, <2>2
<1>11. ASSUME NEW n \in taken, Inbox[n].kind # "BET", Lonely(n)
       PROVE  n \in flagged' \cup broken' \/ \E v \in Workers : Carries(v)' /\ request'[v].message = n
  <2>1. CASE n = m
    BY <1>1, <1>2, <1>11, <2>1
  <2>2. CASE n # m
    BY <1>1, <1>4, <1>11, <2>2 DEF FlagsKept
  <2> QED
    BY <2>1, <2>2
<1>12. \A v \in Workers :
         /\ Carries(v)' /\ Inbox[request'[v].message].kind # "BET"
         /\ Lonely(request[v].message)' /\ request'[v].message \notin broken'
         => HasFlag(request[v])'
  <2> TAKE v \in Workers
  <2>1. Lonely(request[v].message)' <=> Lonely(request'[v].message)
    BY <1>1 DEF Lonely
  <2> QED
    BY <1>10, <2>1
<1>14. ASSUME NEW n \in taken', Inbox[n].kind # "BET", Lonely(n)'
       PROVE  n \in flagged' \cup broken' \/ \E v \in Workers : Carries(v)' /\ request'[v].message = n
  <2>1. n \in taken /\ Lonely(n)
    BY <1>1, <1>5, <1>14
  <2> QED
    BY <1>11, <1>14, <2>1
<1>15. \A n : PastLooks(n)' <=> PastThen(n)
  BY DEF PastLooks, PastThen, PastLook
<1>16. \A p \in Holders : \A set \in {"devices", "instruments"} : \A t \in owned'[<<p, set>>] :
         \E n \in taken' : Inbox[n].player = p /\ Inbox[n].thing = t /\ (n \in broken' \/ PastLooks(n)')
  <2> SUFFICES ASSUME NEW p \in Holders, NEW set \in {"devices", "instruments"}, NEW t, t \in owned'[<<p, set>>]
               PROVE  \E n \in taken' : Inbox[n].player = p /\ Inbox[n].thing = t /\ (n \in broken' \/ PastLooks(n)')
    OBVIOUS
  <2>1. PICK n \in taken : Inbox[n].player = p /\ Inbox[n].thing = t /\ (n \in broken' \/ PastThen(n))
    BY <1>9
  <2>2. n \in taken' /\ (n \in broken' \/ PastLooks(n)')
    BY <1>1, <1>15, <2>1
  <2> QED
    BY <2>1, <2>2
<1> QED
  BY <1>12, <1>14, <1>16 DEF FlagsKept

(* A step that changes no set of things.                                   *)
LEMMA EntersFlags ==
  ASSUME FeaturesBasis, FlagsKept, NEW w \in Workers, Enters(w)
  PROVE  FlagsKept'
<1>1. PICK r : /\ StepsTo(w, r)
               /\ r = None => Inbox[request[w].message].kind = "BET"
               /\ r # None => r.op \in {"share", "look", "read"}
               /\ r # None /\ r.op = "read" => Inbox[request[w].message].kind = "BET"
  BY EntersFacts DEF FeaturesBasis
<1>2. PICK m : m = request[w].message
  OBVIOUS
<1>3. /\ request[w].op = "enter" /\ Inbox[m].kind # "DEVICE"
  BY <1>2, CarriedFacts DEF Enters, Handling, StepFits, FeaturesBasis
<1>4. UNCHANGED <<owned, flagged, broken>>
  BY DEF Enters, sharingVars, storeVars
<1>5. ~PastLook(request[w].op)
  BY <1>3 DEF PastLook
<1>6. r # None => r.message = m
  BY <1>1, <1>2 DEF StepsTo
<1>7. r # None /\ Inbox[m].kind # "BET" => HasFlag(r)'
  BY <1>1, <1>2, <1>3, <1>6 DEF HasFlag
<1> QED
  BY <1>1, <1>2, <1>4, <1>5, <1>7, FlagsStep

(* A device is shared last, with the flag that was found.                  *)
LEMMA SharesFlags ==
  ASSUME FeaturesBasis, FlagsKept, NEW w \in Workers, Shares(w)
  PROVE  FlagsKept'
<1>1. PICK r : /\ StepsTo(w, r) /\ r # None /\ r.new = request[w].new
               /\ r.op = IF Inbox[request[w].message].kind = "DEVICE" THEN "read" ELSE "look"
  BY SharesFacts DEF FeaturesBasis
<1>2. PICK m \in Messages, p \in Holders, t \in Things, kind \in {"devices", "banks"} : UseOf(w, m, p, t, kind)
  BY SharesTyped
<1>3. request[w].op = "share" /\ Carries(w)
  BY CarriedFacts DEF Shares, Handling, FeaturesBasis
<1>4. UNCHANGED <<flagged, broken>>
  BY <1>2 DEF UseOf
<1>5. ~PastLook(request[w].op)
  BY <1>3 DEF PastLook
<1>6. r.message = m
  BY <1>1, <1>2 DEF StepsTo, UseOf
<1>7. Inbox[m].kind # "BET" /\ Lonely(m) /\ m \notin broken => HasFlag(request[w])
  BY <1>2, <1>3 DEF FlagsKept, UseOf
<1>8. Inbox[m].kind # "BET" /\ Lonely(m) /\ m \notin broken' => HasFlag(r)'
  BY <1>1, <1>2, <1>3, <1>4, <1>6, <1>7 DEF HasFlag, UseOf
<1>9. ASSUME NEW q \in Holders, NEW set \in {"devices", "instruments"}, NEW s, s \in owned'[<<q, set>>]
      PROVE  \/ s \in owned[<<q, set>>]
             \/ Inbox[m].player = q /\ Inbox[m].thing = s /\ r # None /\ r.op = "read"
  <2>1. PICK j \in Belongings : j = <<q, set>>
    BY DEF Belongings
  <2>2. owned \in [Belongings -> SUBSET (Things \cup {None})]
    BY DEF FeaturesBasis, FeaturesTyped
  <2>3. CASE j = <<p, kind>>
    <3>1. p = q /\ kind = set
      BY <2>1, <2>3
    <3>2. kind = "devices" /\ r.op = "read"
      BY <1>1, <1>2, <3>1 DEF UseOf
    <3>3. owned'[j] = owned[j] \cup {t}
      BY <1>2, <2>2, <2>3 DEF UseOf
    <3> QED
      BY <1>1, <1>2, <1>9, <2>1, <3>1, <3>2, <3>3 DEF UseOf
  <2>4. CASE j # <<p, kind>>
    BY <1>2, <1>9, <2>1, <2>2, <2>4 DEF UseOf
  <2> QED
    BY <2>3, <2>4
<1>10. \A q \in Holders : \A set \in {"devices", "instruments"} : \A s \in owned'[<<q, set>>] :
         \/ s \in owned[<<q, set>>]
         \/ Inbox[m].player = q /\ Inbox[m].thing = s /\ r # None /\ r.op = "read"
  <2> SUFFICES ASSUME NEW q \in Holders, NEW set \in {"devices", "instruments"}, NEW s, s \in owned'[<<q, set>>]
               PROVE  \/ s \in owned[<<q, set>>]
                      \/ Inbox[m].player = q /\ Inbox[m].thing = s /\ r # None /\ r.op = "read"
    OBVIOUS
  <2> QED
    BY <1>9
<1> QED
  BY <1>1, <1>2, <1>4, <1>5, <1>8, <1>10, FlagsStep DEF UseOf

(* What is looked for is new to a message that names it alone.             *)
LEMMA LooksFlags ==
  ASSUME FeaturesBasis, FlagsKept, NEW w \in Workers, Looks(w)
  PROVE  FlagsKept'
<1>1. PICK r : /\ StepsTo(w, r) /\ r # None /\ r.new = IsNew(request[w].message)
               /\ r.op = IF Inbox[request[w].message].kind = "DEVICE" THEN "share" ELSE "read"
  BY LooksFacts DEF FeaturesBasis
<1>2. PICK m \in Messages, p \in Holders, t \in Things \cup {None} : LookOf(w, m, p, t)
  BY LooksTyped
<1>3. request[w].op = "look" /\ Carries(w)
  BY CarriedFacts DEF Looks, Handling, FeaturesBasis
<1>4. UNCHANGED <<flagged, broken>>
  BY <1>2 DEF LookOf
<1>5. ~PastLook(request[w].op)
  BY <1>3 DEF PastLook
<1>6. r.message = m
  BY <1>1, <1>2 DEF StepsTo, LookOf
<1>7. ASSUME Lonely(m), m \notin broken PROVE IsNew(m)
  <2>1. PICK set \in {"devices", "instruments"} :
          set = IF Inbox[m].kind = "DEVICE" THEN "devices" ELSE "instruments"
    OBVIOUS
  <2>2. SUFFICES ASSUME t \in owned[<<p, set>>] PROVE FALSE
    BY <1>2, <2>1 DEF IsNew, LookOf
  <2>3. PICK n \in taken : Inbox[n].player = p /\ Inbox[n].thing = t /\ (n \in broken \/ PastLooks(n))
    BY <2>2, NamedByOne
  <2>4. n = m
    BY <1>2, <1>7, <2>3 DEF Lonely, LookOf
  <2> QED
    BY <1>2, <1>3, <1>5, <1>7, <2>3, <2>4 DEF PastLooks, LookOf
<1>8. Lonely(m) /\ m \notin broken' => HasFlag(r)'
  BY <1>1, <1>2, <1>4, <1>7 DEF HasFlag, LookOf
<1>9. ASSUME NEW q \in Holders, NEW set \in {"devices", "instruments"}, NEW s, s \in owned'[<<q, set>>]
      PROVE  \/ s \in owned[<<q, set>>]
             \/ Inbox[m].player = q /\ Inbox[m].thing = s /\ r # None /\ r.op = "read"
  <2>1. PICK j \in Belongings : j = <<q, set>>
    BY DEF Belongings
  <2>2. owned \in [Belongings -> SUBSET (Things \cup {None})]
    BY DEF FeaturesBasis, FeaturesTyped
  <2>3. CASE UNCHANGED owned
    BY <1>9, <2>3
  <2>4. CASE /\ Inbox[m].kind # "DEVICE"
             /\ owned' = [owned EXCEPT ![<<p, "instruments">>] = @ \cup {t}]
    <3>1. r.op = "read"
      BY <1>1, <1>2, <2>4 DEF LookOf
    <3>2. CASE j = <<p, "instruments">>
      <4>1. p = q /\ owned'[j] = owned[j] \cup {t}
        BY <2>1, <2>2, <2>4, <3>2
      <4> QED
        BY <1>1, <1>2, <1>9, <2>1, <3>1, <4>1 DEF LookOf
    <3>3. CASE j # <<p, "instruments">>
      BY <1>9, <2>1, <2>2, <2>4, <3>3
    <3> QED
      BY <3>2, <3>3
  <2> QED
    BY <1>2, <2>3, <2>4 DEF LookOf
<1>10. \A q \in Holders : \A set \in {"devices", "instruments"} : \A s \in owned'[<<q, set>>] :
         \/ s \in owned[<<q, set>>]
         \/ Inbox[m].player = q /\ Inbox[m].thing = s /\ r # None /\ r.op = "read"
  <2> SUFFICES ASSUME NEW q \in Holders, NEW set \in {"devices", "instruments"}, NEW s, s \in owned'[<<q, set>>]
               PROVE  \/ s \in owned[<<q, set>>]
                      \/ Inbox[m].player = q /\ Inbox[m].thing = s /\ r # None /\ r.op = "read"
    OBVIOUS
  <2> QED
    BY <1>9
<1> QED
  BY <1>1, <1>2, <1>4, <1>5, <1>8, <1>10, FlagsStep DEF LookOf

(* The flag goes with the features, and is recorded with them.             *)
LEMMA ComputesFlags ==
  ASSUME FeaturesBasis, FlagsKept, NEW w \in Workers, ComputesFeatures(w)
  PROVE  FlagsKept'
<1>1. PICK r : StepsTo(w, r) /\ r # None /\ r.op = "write" /\ r.features.new = request[w].new
  BY ComputesFacts DEF FeaturesBasis
<1>2. PICK m : m = request[w].message
  OBVIOUS
<1>3. request[w].op = "read" /\ Carries(w)
  BY CarriedFacts DEF ComputesFeatures, Handling, FeaturesBasis
<1>4. UNCHANGED <<owned, flagged, broken>>
  BY DEF ComputesFeatures, featureVars, sharingVars, storeVars
<1>5. Inbox[m].kind # "BET" /\ Lonely(m) /\ m \notin broken => HasFlag(request[w])
  BY <1>2, <1>3 DEF FlagsKept
<1>6. Inbox[m].kind # "BET" /\ Lonely(m) /\ m \notin broken' => HasFlag(r)'
  BY <1>1, <1>3, <1>4, <1>5 DEF HasFlag
<1>7. PastLook(r.op)
  BY <1>1 DEF PastLook
<1> QED
  BY <1>1, <1>2, <1>4, <1>6, <1>7, FlagsStep

(* It is recorded when they are written.                                   *)
LEMMA WritesFlags ==
  ASSUME FeaturesBasis, FlagsKept, NEW w \in Workers, WritesFeatures(w)
  PROVE  FlagsKept'
<1>1. PICK r : StepsTo(w, r) /\ r # None /\ r.op = "save"
  BY WritesFacts DEF FeaturesBasis
<1>2. PICK m : m = request[w].message
  OBVIOUS
<1>3. request[w].op = "write" /\ Carries(w)
  BY CarriedFacts DEF WritesFeatures, Handling, FeaturesBasis
<1>4. /\ UNCHANGED <<owned, broken>> /\ flagged \subseteq flagged'
      /\ request[w].features.new => m \in flagged'
  BY <1>2 DEF WritesFeatures, sharingVars
<1>5. Inbox[m].kind # "BET" /\ Lonely(m) /\ m \notin broken => HasFlag(request[w])
  BY <1>2, <1>3 DEF FlagsKept
<1>6. r.message = m
  BY <1>1, <1>2 DEF StepsTo
<1>7. Inbox[m].kind # "BET" /\ Lonely(m) /\ m \notin broken' => HasFlag(r)'
  BY <1>1, <1>3, <1>4, <1>5, <1>6 DEF HasFlag
<1>8. PastLook(r.op)
  BY <1>1 DEF PastLook
<1> QED
  BY <1>1, <1>2, <1>4, <1>7, <1>8, FlagsStep

(* A message that is done with has the flag.                               *)
LEMMA SavesFlags ==
  ASSUME FeaturesBasis, FlagsKept, NEW w \in Workers, SavesSnapshot(w)
  PROVE  FlagsKept'
<1>1. PICK r : r = None /\ StepsTo(w, r)
  BY SavesFacts DEF FeaturesBasis
<1>2. PICK m : m = request[w].message
  OBVIOUS
<1>3. request[w].op = "save" /\ Carries(w)
  BY CarriedFacts DEF SavesSnapshot, Handling, FeaturesBasis
<1>4. UNCHANGED <<owned, flagged, broken>>
  BY DEF SavesSnapshot, sharingVars
<1>5. Inbox[m].kind # "BET" /\ Lonely(m) /\ m \notin broken => m \in flagged
  BY <1>2, <1>3 DEF FlagsKept, HasFlag
<1> QED
  BY <1>1, <1>2, <1>4, <1>5, FlagsStep

(* One that broke off need not have it.                                    *)
LEMMA BreaksFlags ==
  ASSUME FeaturesBasis, FlagsKept, NEW w \in Workers, AttemptBreaks(w)
  PROVE  FlagsKept'
<1>1. PICK r : StepsTo(w, r) /\ broken' = {request[w].message}
  BY BreaksFacts DEF FeaturesBasis
<1>2. PICK m : m = request[w].message
  OBVIOUS
<1>3. UNCHANGED <<owned, flagged>> /\ broken = {}
  BY DEF AttemptBreaks, sharingVars, storeVars
<1> QED
  BY <1>1, <1>2, <1>3, FlagsStep

(* What leaves the messages and what is remembered, or forgets some of it, *)
(* leaves what is said of the flags.                                       *)
LEMMA FlagsLeft ==
  ASSUME FlagsKept, UNCHANGED <<taken, flagged, broken>>,
         \A p \in Holders : \A set \in {"devices", "instruments"} : owned'[<<p, set>>] \subseteq owned[<<p, set>>],
         \A w \in Workers : (Carries(w)' <=> Carries(w)) /\ (Carries(w) => request'[w] = request[w])
  PROVE  FlagsKept'
<1>1. \A n : Lonely(n)' <=> Lonely(n)
  BY DEF Lonely
<1>2. \A n : PastLooks(n) => PastLooks(n)'
  BY DEF PastLooks, PastLook
<1>3. \A p \in Holders : \A set \in {"devices", "instruments"} : \A t \in owned'[<<p, set>>] :
         \E n \in taken' : Inbox[n].player = p /\ Inbox[n].thing = t /\ (n \in broken' \/ PastLooks(n)')
  <2> SUFFICES ASSUME NEW p \in Holders, NEW set \in {"devices", "instruments"}, NEW t, t \in owned'[<<p, set>>]
               PROVE  \E n \in taken : Inbox[n].player = p /\ Inbox[n].thing = t /\ (n \in broken \/ PastLooks(n)')
    OBVIOUS
  <2>1. t \in owned[<<p, set>>]
    OBVIOUS
  <2>2. PICK n \in taken : Inbox[n].player = p /\ Inbox[n].thing = t /\ (n \in broken \/ PastLooks(n))
    BY <2>1, NamedByOne
  <2> QED
    BY <1>2, <2>2
<1>4. ASSUME NEW w \in Workers, Carries(w)', Inbox[request'[w].message].kind # "BET",
             Lonely(request[w].message)', request'[w].message \notin broken'
      PROVE  HasFlag(request[w])'
  <2>1. Carries(w) /\ request'[w] = request[w]
    BY <1>4
  <2>2. Lonely(request[w].message)
    BY <1>4, <2>1 DEF Lonely
  <2>3. HasFlag(request[w])
    BY <1>4, <2>1, <2>2 DEF FlagsKept
  <2> QED
    BY <2>1, <2>3 DEF HasFlag
<1>5. ASSUME NEW n \in taken', Inbox[n].kind # "BET", Lonely(n)'
      PROVE  n \in flagged' \cup broken' \/ \E w \in Workers : Carries(w)' /\ request'[w].message = n
  <2>1. Lonely(n)
    BY <1>1, <1>5
  <2> QED
    BY <1>5, <2>1 DEF FlagsKept
<1> QED
  BY <1>3, <1>4, <1>5 DEF FlagsKept

(* A message that is taken names its thing alone no more than before, and  *)
(* has not looked for it.                                                  *)
LEMMA TakesFlags ==
  ASSUME FeaturesBasis, FlagsKept, NEW w \in Workers, NEW m \in Messages, Takes(w, m)
  PROVE  FlagsKept'
<1>1. /\ m \notin taken /\ taken' = taken \cup {m}
      /\ request[w] = None /\ Carries(w)' /\ request'[w].message = m
      /\ request'[w].op = IF Inbox[m].kind = "DEVICE" THEN "look" ELSE "enter"
      /\ \A v \in Workers \ {w} : request'[v] = request[v]
  BY TakesFacts
<1>2. UNCHANGED <<owned, flagged, broken>>
  BY DEF Takes, sharingVars, storeVars
<1>3. \A v \in Workers \ {w} : Carries(v)' <=> Carries(v)
  BY <1>1 DEF Carries
<1>4. \A v \in Workers : Carries(v) => request[v].message \in taken
  BY DEF FeaturesBasis, HandsSound
<1>5. ~Carries(w)
  BY <1>1 DEF Carries
<1>6. \A n : Lonely(n)' => Lonely(n)
  BY <1>1 DEF Lonely
<1>7. \A n \in taken : PastLooks(n) => PastLooks(n)'
  BY <1>1, <1>3, <1>5 DEF PastLooks, PastLook
<1>8. \A p \in Holders : \A set \in {"devices", "instruments"} : \A t \in owned'[<<p, set>>] :
         \E n \in taken' : Inbox[n].player = p /\ Inbox[n].thing = t /\ (n \in broken' \/ PastLooks(n)')
  <2> SUFFICES ASSUME NEW p \in Holders, NEW set \in {"devices", "instruments"}, NEW t, t \in owned'[<<p, set>>]
               PROVE  \E n \in taken' : Inbox[n].player = p /\ Inbox[n].thing = t /\ (n \in broken \/ PastLooks(n)')
    BY <1>2
  <2>1. t \in owned[<<p, set>>]
    BY <1>2
  <2>2. PICK n \in taken : Inbox[n].player = p /\ Inbox[n].thing = t /\ (n \in broken \/ PastLooks(n))
    BY <2>1, NamedByOne
  <2> QED
    BY <1>1, <1>7, <2>2
<1>9. ASSUME NEW v \in Workers, Carries(v)', Inbox[request'[v].message].kind # "BET",
             Lonely(request[v].message)', request'[v].message \notin broken'
      PROVE  HasFlag(request[v])'
  <2>1. CASE v = w
    BY <1>1, <2>1 DEF HasFlag
  <2>2. CASE v # w
    <3>1. Carries(v) /\ request'[v] = request[v]
      BY <1>1, <1>3, <1>9, <2>2
    <3>2. Lonely(request[v].message)
      BY <1>1, <1>9, <3>1 DEF Lonely
    <3>3. HasFlag(request[v])
      BY <1>2, <1>9, <3>1, <3>2 DEF FlagsKept
    <3> QED
      BY <1>2, <3>1, <3>3 DEF HasFlag
  <2> QED
    BY <2>1, <2>2
<1>10. ASSUME NEW n \in taken', Inbox[n].kind # "BET", Lonely(n)'
       PROVE  n \in flagged' \cup broken' \/ \E v \in Workers : Carries(v)' /\ request'[v].message = n
  <2>1. CASE n = m
    BY <1>1, <2>1
  <2>2. CASE n # m
    <3>1. n \in taken /\ Lonely(n)
      BY <1>1, <1>6, <1>10, <2>2
    <3>2. n \in flagged \cup broken \/ \E v \in Workers : Carries(v) /\ request[v].message = n
      BY <1>10, <3>1 DEF FlagsKept
    <3>3. \A v \in Workers : Carries(v) => Carries(v)' /\ request'[v] = request[v]
      BY <1>1, <1>3, <1>5
    <3> QED
      BY <1>2, <3>2, <3>3
  <2> QED
    BY <2>1, <2>2
<1> QED
  BY <1>8, <1>9, <1>10 DEF FlagsKept

(* The flags are kept.                                                     *)
LEMMA FlagsNext ==
  ASSUME FeaturesBasis, FlagsKept, [FeaturesNext]_<<requestVars, featureVars>>
  PROVE  FlagsKept'
<1>1. CASE UNCHANGED <<requestVars, featureVars>>
  <2>1. UNCHANGED <<request, taken, flagged, broken, owned>>
    BY <1>1 DEF requestVars, featureVars, sharingVars, storeVars
  <2> QED
    BY <2>1, FlagsLeft DEF Carries
<1>2. CASE InstantPasses
  <2>1. /\ UNCHANGED <<request, taken, flagged, broken>>
        /\ owned' = [k \in Belongings |-> IF ownedEnd[k] <= instant + 1 THEN {} ELSE owned[k]]
    BY <1>2 DEF InstantPasses, requestVars
  <2>2. \A p \in Holders : \A set \in {"devices", "instruments"} : <<p, set>> \in Belongings
    BY DEF Belongings
  <2>3. \A p \in Holders : \A set \in {"devices", "instruments"} : owned'[<<p, set>>] \subseteq owned[<<p, set>>]
    BY <2>1, <2>2
  <2> QED
    BY <2>1, <2>3, FlagsLeft DEF Carries
<1>3. ASSUME NEW w \in Workers, WarmBegin(w) \/ WarmEnds(w) PROVE FlagsKept'
  <2>1. /\ ~Carries(w) /\ ~Carries(w)' /\ taken' = taken
        /\ \A v \in Workers \ {w} : request'[v] = request[v]
    BY <1>3, WarmFacts
  <2>2. UNCHANGED <<flagged, broken, owned>>
    BY <1>3 DEF WarmBegin, WarmEnds, featureVars, sharingVars, storeVars
  <2>3. \A v \in Workers \ {w} : Carries(v)' <=> Carries(v)
    BY <2>1 DEF Carries
  <2>4. \A v \in Workers : (Carries(v)' <=> Carries(v)) /\ (Carries(v) => request'[v] = request[v])
    BY <2>1, <2>3
  <2> QED
    BY <2>1, <2>2, <2>4, FlagsLeft
<1>4. ASSUME NEW w \in Workers, NEW m \in Messages, Takes(w, m) PROVE FlagsKept'
  BY <1>4, TakesFlags
<1>5. ASSUME NEW w \in Workers, Enters(w) PROVE FlagsKept'
  BY <1>5, EntersFlags
<1>6. ASSUME NEW w \in Workers, Shares(w) PROVE FlagsKept'
  BY <1>6, SharesFlags
<1>7. ASSUME NEW w \in Workers, Looks(w) PROVE FlagsKept'
  BY <1>7, LooksFlags
<1>8. ASSUME NEW w \in Workers, ComputesFeatures(w) PROVE FlagsKept'
  BY <1>8, ComputesFlags
<1>9. ASSUME NEW w \in Workers, WritesFeatures(w) PROVE FlagsKept'
  BY <1>9, WritesFlags
<1>10. ASSUME NEW w \in Workers, SavesSnapshot(w) PROVE FlagsKept'
  BY <1>10, SavesFlags
<1>11. ASSUME NEW w \in Workers, AttemptBreaks(w) PROVE FlagsKept'
  BY <1>11, BreaksFlags
<1> QED
  BY <1>1, <1>2, <1>3, <1>4, <1>5, <1>6, <1>7, <1>8, <1>9, <1>10, <1>11 DEF FeaturesNext

(* A row that has the features that were computed last, unless those were  *)
(* not saved.                                                              *)
IsLatest(p, row) == row # None => row.number = writes[p] \/ p \in unsaved

(* A worker warms with what is saved; what it is to save is what is online.*)
HasLatest(r) ==
  /\ r.op = "warm" => r.rows = snapshots
  /\ r.op = "save" =>
       LET p == Inbox[r.message].player
       IN r.number = writes[p] /\ (online[p] # None => online[p].number = writes[p])

LatestKept ==
  ~crossed =>
    /\ \A p \in Holders : IsLatest(p, online[p]) /\ IsLatest(p, snapshots[p])
    /\ \A w \in Workers : request[w] # None => HasLatest(request[w])

(* A worker alone that goes on with something else than to save.           *)
LEMMA LatestStep ==
  ASSUME LatestKept, NEW w \in Workers, UNCHANGED <<online, snapshots, writes, unsaved>>,
         ~crossed' => ~crossed /\ \A v \in Workers \ {w} : request'[v] = None,
         request'[w] # None => request'[w].op # "save" /\ (request'[w].op = "warm" => request'[w].rows = snapshots)
  PROVE  LatestKept'
BY DEF LatestKept, IsLatest, HasLatest

(* Handlers that do not write features.                                    *)
LEMMA ReadersGoOn ==
  ASSUME FeaturesBasis, NEW w \in Workers,
         Enters(w) \/ Shares(w) \/ Looks(w) \/ ComputesFeatures(w) \/ AttemptBreaks(w)
  PROVE  \E r : StepsTo(w, r) /\ (r # None => r.op \in {"enter", "share", "look", "read", "write"})
<1>1. FeaturesTyped /\ HandsSound /\ WindowsKept /\ SharesKept
  BY DEF FeaturesBasis
<1>2. CASE Enters(w)
  BY <1>1, <1>2, EntersFacts
<1>3. CASE Shares(w)
  BY <1>1, <1>3, SharesFacts
<1>4. CASE Looks(w)
  BY <1>1, <1>4, LooksFacts
<1>5. CASE ComputesFeatures(w)
  BY <1>1, <1>5, ComputesFacts
<1>6. CASE AttemptBreaks(w)
  <2>1. \A m : FirstStep(m) \in {"look", "enter"}
    BY DEF FirstStep
  <2> QED
    BY <1>1, <1>6, <2>1, BreaksFacts
<1> QED
  BY <1>2, <1>3, <1>4, <1>5, <1>6

(* What is online stays the last of them.                                  *)
LEMMA ReadersLatest ==
  ASSUME FeaturesBasis, LatestKept, NEW w \in Workers,
         Enters(w) \/ Shares(w) \/ Looks(w) \/ ComputesFeatures(w) \/ AttemptBreaks(w)
  PROVE  LatestKept'
<1>1. FeaturesTyped /\ HandsSound /\ RequestInv
  BY DEF FeaturesBasis
<1>2. UNCHANGED <<online, snapshots, writes, unsaved>>
  BY DEF Enters, Shares, Looks, ComputesFeatures, AttemptBreaks, featureVars, storeVars
<1>3. PICK r : StepsTo(w, r) /\ (r # None => r.op \in {"enter", "share", "look", "read", "write"})
  BY ReadersGoOn
<1>4. request'[w] = r /\ crossed' = crossed /\ (~crossed => \A v \in Workers \ {w} : request'[v] = None)
  BY <1>1, <1>3, HandStep
<1> QED
  BY <1>2, <1>3, <1>4, LatestStep

(* What is written is online, and to be saved.                             *)
LEMMA WritesLatest ==
  ASSUME FeaturesBasis, LatestKept, NEW w \in Workers, WritesFeatures(w)
  PROVE  LatestKept'
<1>1. FeaturesTyped /\ HandsSound /\ RequestInv
  BY DEF FeaturesBasis
<1>2. PICK m \in Messages : m = request[w].message
  BY <1>1, CarriedFacts DEF WritesFeatures, Handling
<1>3. PICK p \in Holders : p = Inbox[m].player
  BY MessageTyped
<1>4. PICK n \in Nat : n = writes[p]
  BY <1>1 DEF FeaturesTyped
<1>5. PICK r : StepsTo(w, r) /\ r # None /\ r.op = "save" /\ r.number = n + 1 /\ r.message = m
  BY <1>1, <1>2, <1>3, <1>4, WritesFacts DEF StepsTo
<1>6. request'[w] = r /\ crossed' = crossed /\ (~crossed => \A v \in Workers \ {w} : request'[v] = None)
  BY <1>1, <1>5, HandStep
<1>7. PICK row : row = [features |-> request[w].features, number |-> n + 1]
  OBVIOUS
<1>8. /\ writes' = [writes EXCEPT ![p] = n + 1] /\ online' = [online EXCEPT ![p] = row]
      /\ unsaved' = unsaved \cup {p} /\ snapshots' = snapshots
  BY <1>2, <1>3, <1>4, <1>7 DEF WritesFeatures
<1>9. /\ writes'[p] = n + 1 /\ online'[p] = row
      /\ \A q \in Holders \ {p} : writes'[q] = writes[q] /\ online'[q] = online[q]
  BY <1>1, <1>8 DEF FeaturesTyped
<1>10. ASSUME ~crossed', NEW q \in Holders PROVE IsLatest(q, online[q])' /\ IsLatest(q, snapshots[q])'
  <2>1. IsLatest(q, online[q]) /\ IsLatest(q, snapshots[q])
    BY <1>6, <1>10 DEF LatestKept
  <2>2. CASE q = p
    BY <1>8, <2>2 DEF IsLatest
  <2>3. CASE q # p
    BY <1>8, <1>9, <2>1, <2>3 DEF IsLatest
  <2> QED
    BY <2>2, <2>3
<1>11. HasLatest(request[w])'
  BY <1>3, <1>5, <1>6, <1>7, <1>9 DEF HasLatest
<1> QED
  BY <1>6, <1>10, <1>11 DEF LatestKept

(* What is saved is what is online.                                        *)
LEMMA SavesLatest ==
  ASSUME FeaturesBasis, LatestKept, NEW w \in Workers, SavesSnapshot(w)
  PROVE  LatestKept'
<1>1. FeaturesTyped /\ HandsSound /\ RequestInv
  BY DEF FeaturesBasis
<1>2. PICK m \in Messages : m = request[w].message
  BY <1>1, CarriedFacts DEF SavesSnapshot, Handling
<1>3. PICK p \in Holders : p = Inbox[m].player
  BY MessageTyped
<1>4. /\ request[w].op = "save" /\ request[w] # None
  BY <1>1, CarriedFacts DEF SavesSnapshot, Handling, Carries
<1>5. /\ request'[w] = None /\ crossed' = crossed
      /\ ~crossed => \A v \in Workers \ {w} : request'[v] = None
  <2>1. StepsTo(w, None)
    BY <1>1, SavesFacts
  <2> QED
    BY <1>1, <2>1, HandStep
<1>6. PICK row : row = [day |-> instant, features |-> request[w].features, number |-> request[w].number]
  OBVIOUS
<1>7. /\ UNCHANGED <<online, writes>>
      /\ \/ snapshots' = [snapshots EXCEPT ![p] = row] /\ unsaved' = unsaved \ {p}
         \/ UNCHANGED <<snapshots, unsaved>>
  BY <1>2, <1>3, <1>6 DEF SavesSnapshot, Upserted
<1>8. CASE UNCHANGED <<snapshots, unsaved>>
  BY <1>5, <1>7, <1>8, LatestStep
<1>9. CASE snapshots' = [snapshots EXCEPT ![p] = row] /\ unsaved' = unsaved \ {p}
  <2>1. snapshots'[p] = row /\ \A q \in Holders \ {p} : snapshots'[q] = snapshots[q]
    BY <1>1, <1>9 DEF FeaturesTyped
  <2>2. ASSUME ~crossed', NEW q \in Holders PROVE IsLatest(q, online[q])' /\ IsLatest(q, snapshots[q])'
    <3>1. IsLatest(q, online[q]) /\ IsLatest(q, snapshots[q])
      BY <1>5, <2>2 DEF LatestKept
    <3>2. CASE q = p
      <4>1. request[w].number = writes[p] /\ (online[p] # None => online[p].number = writes[p])
        BY <1>2, <1>3, <1>4, <1>5, <2>2 DEF LatestKept, HasLatest
      <4> QED
        BY <1>6, <1>7, <2>1, <3>2, <4>1 DEF IsLatest
    <3>3. CASE q # p
      BY <1>7, <1>9, <2>1, <3>1, <3>3 DEF IsLatest
    <3> QED
      BY <3>2, <3>3
  <2> QED
    BY <1>5, <2>2 DEF LatestKept
<1> QED
  BY <1>7, <1>8, <1>9

(* What was saved is warmed.                                               *)
LEMMA WarmLatest ==
  ASSUME FeaturesBasis, LatestKept, NEW w \in Workers, WarmBegin(w) \/ WarmEnds(w)
  PROVE  LatestKept'
<1>1. CASE WarmBegin(w)
  <2>1. /\ request'[w] = [op |-> "warm", rows |-> snapshots]
        /\ ~crossed' => ~crossed /\ \A v \in Workers \ {w} : request'[v] = None
    BY <1>1, WarmFacts
  <2>2. UNCHANGED <<online, snapshots, writes, unsaved>>
    BY <1>1 DEF WarmBegin, featureVars, storeVars
  <2> QED
    BY <2>1, <2>2, LatestStep
<1>2. CASE WarmEnds(w)
  <2>1. /\ request'[w] = None /\ crossed' = crossed
        /\ ~crossed => \A v \in Workers \ {w} : request'[v] = None
    BY <1>2, WarmFacts
  <2>2. PICK rows : rows = request[w].rows
    OBVIOUS
  <2>3. /\ UNCHANGED <<snapshots, writes, unsaved>>
        /\ \A p \in Holders : \/ online'[p] = online[p]
                              \/ rows[p] # None /\ online'[p] = [features |-> rows[p].features, number |-> rows[p].number]
    BY <1>2, <2>2 DEF WarmEnds
  <2>4. ASSUME ~crossed', NEW p \in Holders PROVE IsLatest(p, online[p])' /\ IsLatest(p, snapshots[p])'
    <3>1. IsLatest(p, online[p]) /\ IsLatest(p, snapshots[p]) /\ rows = snapshots
      BY <1>2, <2>1, <2>2, <2>4 DEF LatestKept, HasLatest, WarmEnds, Doing
    <3>2. CASE online'[p] = online[p]
      BY <2>3, <3>1, <3>2 DEF IsLatest
    <3>3. CASE /\ rows[p] # None
               /\ online'[p] = [features |-> rows[p].features, number |-> rows[p].number]
      <4>1. online'[p].number = snapshots[p].number /\ snapshots[p] # None
        BY <3>1, <3>3
      <4> QED
        BY <2>3, <3>1, <4>1 DEF IsLatest
    <3> QED
      BY <2>3, <3>2, <3>3
  <2> QED
    BY <2>1, <2>4 DEF LatestKept
<1> QED
  BY <1>1, <1>2

(* The features online and those saved are the last.                       *)
LEMMA LatestNext ==
  ASSUME FeaturesBasis, LatestKept, [FeaturesNext]_<<requestVars, featureVars>>
  PROVE  LatestKept'
<1>1. CASE UNCHANGED <<requestVars, featureVars>>
  <2>1. UNCHANGED <<request, crossed, online, snapshots, writes, unsaved>>
    BY <1>1 DEF requestVars, featureVars, storeVars
  <2> QED
    BY <2>1 DEF LatestKept, IsLatest, HasLatest
<1>2. CASE InstantPasses
  <2>1. /\ UNCHANGED <<request, crossed, snapshots, writes, unsaved>>
        /\ online' = [p \in Holders |-> None] /\ \A w \in Workers : request[w] = None
    BY <1>2 DEF InstantPasses, requestVars, UnderWay
  <2> QED
    BY <2>1 DEF LatestKept, IsLatest
<1>3. ASSUME NEW w \in Workers, NEW m \in Messages, Takes(w, m) PROVE LatestKept'
  <2>1. UNCHANGED <<online, snapshots, writes, unsaved>>
    BY <1>3 DEF Takes, storeVars
  <2>2. request'[w].op \in {"look", "enter"} /\ (~crossed' => ~crossed /\ \A v \in Workers \ {w} : request'[v] = None)
    BY <1>3, TakesFacts
  <2> QED
    BY <2>1, <2>2, LatestStep
<1>4. ASSUME NEW w \in Workers,
             Enters(w) \/ Shares(w) \/ Looks(w) \/ ComputesFeatures(w) \/ AttemptBreaks(w)
      PROVE  LatestKept'
  BY <1>4, ReadersLatest
<1>5. ASSUME NEW w \in Workers, WritesFeatures(w) PROVE LatestKept'
  BY <1>5, WritesLatest
<1>6. ASSUME NEW w \in Workers, SavesSnapshot(w) PROVE LatestKept'
  BY <1>6, SavesLatest
<1>7. ASSUME NEW w \in Workers, WarmBegin(w) \/ WarmEnds(w) PROVE LatestKept'
  BY <1>7, WarmLatest
<1> QED
  BY <1>1, <1>2, <1>3, <1>4, <1>5, <1>6, <1>7 DEF FeaturesNext

(* A row has the number of a write of its player.                          *)
IsNumbered(p, row) == row # None => row.number \in 1..writes[p]

(* So have the rows that a worker warms, and what it is to save.           *)
HoldsNumbers(r) ==
  /\ r.op = "warm" => \A p \in Holders : IsNumbered(p, r.rows[p])
  /\ r.op = "save" => r.number \in 1..writes[Inbox[r.message].player]

NumbersKept ==
  /\ \A p \in Holders : IsNumbered(p, online[p]) /\ IsNumbered(p, snapshots[p])
  /\ \A w \in Workers : request[w] # None => HoldsNumbers(request[w])

(* A worker that goes on with something else than to save.                 *)
LEMMA NumbersStep ==
  ASSUME NumbersKept, NEW w \in Workers, UNCHANGED <<online, snapshots, writes>>,
         \A v \in Workers \ {w} : request'[v] = request[v],
         request'[w] # None =>
           request'[w].op # "save" /\ (request'[w].op = "warm" => request'[w].rows = snapshots)
  PROVE  NumbersKept'
<1>1. \A p \in Holders : IsNumbered(p, online[p])' /\ IsNumbered(p, snapshots[p])'
  BY DEF NumbersKept, IsNumbered
<1>2. ASSUME NEW v \in Workers, request'[v] # None PROVE HoldsNumbers(request[v])'
  <2>1. CASE v = w
    BY <1>2, <2>1 DEF NumbersKept, HoldsNumbers, IsNumbered
  <2>2. CASE v # w
    <3>1. request'[v] = request[v] /\ HoldsNumbers(request[v])
      BY <1>2, <2>2 DEF NumbersKept
    <3> QED
      BY <3>1 DEF HoldsNumbers, IsNumbered
  <2> QED
    BY <2>1, <2>2
<1> QED
  BY <1>1, <1>2 DEF NumbersKept

(* Handlers that do not write features.                                    *)
LEMMA ReadersNumbers ==
  ASSUME FeaturesBasis, NumbersKept, NEW w \in Workers,
         Enters(w) \/ Shares(w) \/ Looks(w) \/ ComputesFeatures(w) \/ AttemptBreaks(w)
  PROVE  NumbersKept'
<1>1. FeaturesTyped /\ HandsSound /\ RequestInv
  BY DEF FeaturesBasis
<1>2. UNCHANGED <<online, snapshots, writes>>
  BY DEF Enters, Shares, Looks, ComputesFeatures, AttemptBreaks, featureVars, storeVars
<1>3. PICK r : StepsTo(w, r) /\ (r # None => r.op \in {"enter", "share", "look", "read", "write"})
  BY ReadersGoOn
<1>4. request'[w] = r /\ \A v \in Workers \ {w} : request'[v] = request[v]
  BY <1>1, <1>3, HandStep
<1> QED
  BY <1>2, <1>3, <1>4, NumbersStep

(* What is written has the next number.                                    *)
LEMMA WritesNumbers ==
  ASSUME FeaturesBasis, NumbersKept, NEW w \in Workers, WritesFeatures(w)
  PROVE  NumbersKept'
<1>1. FeaturesTyped /\ HandsSound /\ RequestInv
  BY DEF FeaturesBasis
<1>2. PICK m \in Messages : m = request[w].message
  BY <1>1, CarriedFacts DEF WritesFeatures, Handling
<1>3. PICK p \in Holders : p = Inbox[m].player
  BY MessageTyped
<1>4. PICK n \in Nat : n = writes[p]
  BY <1>1 DEF FeaturesTyped
<1>5. PICK r : StepsTo(w, r) /\ r # None /\ r.op = "save" /\ r.number = n + 1 /\ r.message = m
  BY <1>1, <1>2, <1>3, <1>4, WritesFacts DEF StepsTo
<1>6. request'[w] = r /\ \A v \in Workers \ {w} : request'[v] = request[v]
  BY <1>1, <1>5, HandStep
<1>7. PICK row : row = [features |-> request[w].features, number |-> n + 1]
  OBVIOUS
<1>8. /\ writes' = [writes EXCEPT ![p] = n + 1] /\ online' = [online EXCEPT ![p] = row]
      /\ snapshots' = snapshots
  BY <1>2, <1>3, <1>4, <1>7 DEF WritesFeatures
<1>9. /\ writes'[p] = n + 1 /\ online'[p] = row
      /\ \A q \in Holders \ {p} : writes'[q] = writes[q] /\ online'[q] = online[q]
  BY <1>1, <1>8 DEF FeaturesTyped
<1>10. \A q \in Holders : 1..writes[q] \subseteq 1..writes'[q]
  <2>1. 1..n \subseteq 1..(n + 1)
    OBVIOUS
  <2> QED
    BY <1>4, <1>9, <2>1
<1>11. n + 1 \in 1..(n + 1)
  OBVIOUS
<1>12. ASSUME NEW q \in Holders PROVE IsNumbered(q, online[q])' /\ IsNumbered(q, snapshots[q])'
  <2>1. IsNumbered(q, online[q]) /\ IsNumbered(q, snapshots[q])
    BY DEF NumbersKept
  <2>2. IsNumbered(q, snapshots[q])'
    BY <1>8, <1>10, <2>1 DEF IsNumbered
  <2>3. IsNumbered(q, online[q])'
    <3>1. CASE q = p
      BY <1>7, <1>9, <1>11, <3>1 DEF IsNumbered
    <3>2. CASE q # p
      BY <1>9, <2>1, <3>2 DEF IsNumbered
    <3> QED
      BY <3>1, <3>2
  <2> QED
    BY <2>2, <2>3
<1>13. ASSUME NEW v \in Workers, request'[v] # None PROVE HoldsNumbers(request[v])'
  <2>1. CASE v = w
    BY <1>3, <1>5, <1>6, <1>9, <1>11, <2>1 DEF HoldsNumbers
  <2>2. CASE v # w
    <3>1. request'[v] = request[v] /\ HoldsNumbers(request[v])
      BY <1>6, <1>13, <2>2 DEF NumbersKept
    <3>2. request[v].op = "warm" => \A q \in Holders : IsNumbered(q, request[v].rows[q])'
      BY <1>10, <3>1 DEF HoldsNumbers, IsNumbered
    <3>3. request[v].op = "save" => Inbox[request[v].message].player \in Holders
      <4>1. request[v].op = "save" => Carries(v) /\ request[v].message \in taken
        BY <1>1, <1>13, <3>1 DEF HandsSound, Carries
      <4> QED
        BY <1>1, <4>1, MessageTyped DEF FeaturesTyped
    <3>4. request[v].op = "save" => request[v].number \in 1..writes'[Inbox[request[v].message].player]
      BY <1>10, <3>1, <3>3 DEF HoldsNumbers
    <3> QED
      BY <3>1, <3>2, <3>4 DEF HoldsNumbers, IsNumbered
  <2> QED
    BY <2>1, <2>2
<1> QED
  BY <1>12, <1>13 DEF NumbersKept

(* What is saved was written.                                              *)
LEMMA SavesNumbers ==
  ASSUME FeaturesBasis, NumbersKept, NEW w \in Workers, SavesSnapshot(w)
  PROVE  NumbersKept'
<1>1. FeaturesTyped /\ HandsSound /\ RequestInv
  BY DEF FeaturesBasis
<1>2. PICK m \in Messages : m = request[w].message
  BY <1>1, CarriedFacts DEF SavesSnapshot, Handling
<1>3. PICK p \in Holders : p = Inbox[m].player
  BY MessageTyped
<1>4. /\ request[w].op = "save" /\ request[w] # None
  BY <1>1, CarriedFacts DEF SavesSnapshot, Handling, Carries
<1>5. request'[w] = None /\ \A v \in Workers \ {w} : request'[v] = request[v]
  <2>1. StepsTo(w, None)
    BY <1>1, SavesFacts
  <2> QED
    BY <1>1, <2>1, HandStep
<1>6. PICK row : row = [day |-> instant, features |-> request[w].features, number |-> request[w].number]
  OBVIOUS
<1>7. /\ UNCHANGED <<online, writes>>
      /\ \/ snapshots' = [snapshots EXCEPT ![p] = row]
         \/ UNCHANGED snapshots
  BY <1>2, <1>3, <1>6 DEF SavesSnapshot, Upserted
<1>8. CASE UNCHANGED snapshots
  BY <1>5, <1>7, <1>8, NumbersStep
<1>9. CASE snapshots' = [snapshots EXCEPT ![p] = row]
  <2>1. snapshots'[p] = row /\ \A q \in Holders \ {p} : snapshots'[q] = snapshots[q]
    BY <1>1, <1>9 DEF FeaturesTyped
  <2>2. row.number \in 1..writes[p]
    BY <1>2, <1>3, <1>4, <1>6 DEF NumbersKept, HoldsNumbers
  <2>3. \A q \in Holders : IsNumbered(q, online[q])' /\ IsNumbered(q, snapshots[q])'
    BY <1>7, <2>1, <2>2 DEF NumbersKept, IsNumbered
  <2>4. \A v \in Workers : request'[v] # None => HoldsNumbers(request[v])'
    BY <1>5, <1>7 DEF NumbersKept, HoldsNumbers, IsNumbered
  <2> QED
    BY <2>3, <2>4 DEF NumbersKept
<1> QED
  BY <1>7, <1>8, <1>9

(* What is warmed was saved.                                               *)
LEMMA WarmNumbers ==
  ASSUME FeaturesBasis, NumbersKept, NEW w \in Workers, WarmBegin(w) \/ WarmEnds(w)
  PROVE  NumbersKept'
<1>0. \A v \in Workers \ {w} : request'[v] = request[v]
  BY WarmFacts
<1>1. CASE WarmBegin(w)
  <2>1. request'[w] = [op |-> "warm", rows |-> snapshots]
    BY <1>1, WarmFacts
  <2>2. UNCHANGED <<online, snapshots, writes>>
    BY <1>1 DEF WarmBegin, featureVars, storeVars
  <2> QED
    BY <1>0, <2>1, <2>2, NumbersStep
<1>2. CASE WarmEnds(w)
  <2>1. request'[w] = None
    BY <1>2, WarmFacts
  <2>2. PICK rows : rows = request[w].rows
    OBVIOUS
  <2>3. /\ UNCHANGED <<snapshots, writes>>
        /\ \A p \in Holders : \/ online'[p] = online[p]
                              \/ rows[p] # None /\ online'[p] = [features |-> rows[p].features, number |-> rows[p].number]
    BY <1>2, <2>2 DEF WarmEnds
  <2>4. ASSUME NEW p \in Holders PROVE IsNumbered(p, online[p])' /\ IsNumbered(p, snapshots[p])'
    <3>1. IsNumbered(p, online[p]) /\ IsNumbered(p, snapshots[p]) /\ IsNumbered(p, rows[p])
      BY <1>2, <2>2 DEF NumbersKept, HoldsNumbers, WarmEnds, Doing
    <3>2. CASE online'[p] = online[p]
      BY <2>3, <3>1, <3>2 DEF IsNumbered
    <3>3. CASE /\ rows[p] # None
               /\ online'[p] = [features |-> rows[p].features, number |-> rows[p].number]
      <4>1. online'[p].number = rows[p].number
        BY <3>3
      <4> QED
        BY <2>3, <3>1, <3>3, <4>1 DEF IsNumbered
    <3> QED
      BY <2>3, <3>2, <3>3
  <2>5. \A v \in Workers : request'[v] # None => HoldsNumbers(request[v])'
    BY <1>0, <2>1, <2>3 DEF NumbersKept, HoldsNumbers, IsNumbered
  <2> QED
    BY <2>4, <2>5 DEF NumbersKept
<1> QED
  BY <1>1, <1>2

(* The numbers of the features are those of writes.                        *)
LEMMA NumbersNext ==
  ASSUME FeaturesBasis, NumbersKept, [FeaturesNext]_<<requestVars, featureVars>>
  PROVE  NumbersKept'
<1>1. CASE UNCHANGED <<requestVars, featureVars>>
  <2>1. UNCHANGED <<request, online, snapshots, writes>>
    BY <1>1 DEF requestVars, featureVars, storeVars
  <2> QED
    BY <2>1 DEF NumbersKept, IsNumbered, HoldsNumbers
<1>2. CASE InstantPasses
  <2>1. /\ UNCHANGED <<request, snapshots, writes>>
        /\ online' = [p \in Holders |-> None]
    BY <1>2 DEF InstantPasses, requestVars
  <2> QED
    BY <2>1 DEF NumbersKept, IsNumbered, HoldsNumbers
<1>3. ASSUME NEW w \in Workers, NEW m \in Messages, Takes(w, m) PROVE NumbersKept'
  <2>1. UNCHANGED <<online, snapshots, writes>>
    BY <1>3 DEF Takes, storeVars
  <2>2. request'[w].op \in {"look", "enter"} /\ \A v \in Workers \ {w} : request'[v] = request[v]
    BY <1>3, TakesFacts
  <2> QED
    BY <2>1, <2>2, NumbersStep
<1>4. ASSUME NEW w \in Workers,
             Enters(w) \/ Shares(w) \/ Looks(w) \/ ComputesFeatures(w) \/ AttemptBreaks(w)
      PROVE  NumbersKept'
  BY <1>4, ReadersNumbers
<1>5. ASSUME NEW w \in Workers, WritesFeatures(w) PROVE NumbersKept'
  BY <1>5, WritesNumbers
<1>6. ASSUME NEW w \in Workers, SavesSnapshot(w) PROVE NumbersKept'
  BY <1>6, SavesNumbers
<1>7. ASSUME NEW w \in Workers, WarmBegin(w) \/ WarmEnds(w) PROVE NumbersKept'
  BY <1>7, WarmNumbers
<1> QED
  BY <1>1, <1>2, <1>3, <1>4, <1>5, <1>6, <1>7 DEF FeaturesNext

(* Its types follow.                                                       *)
LEMMA FeaturesAreTyped == ASSUME FeaturesBasis, NumbersKept PROVE FeaturesTypeOK
<1>1. FeaturesTyped /\ WindowsKept
  BY DEF FeaturesBasis
<1>2. ASSUME NEW k \in Windows, NEW x \in entries[k] PROVE x \in {Entry(m) : m \in Messages}
  <2>1. PICK e \in entered : x = Entry(e.message)
    BY <1>1, <1>2 DEF WindowsKept
  <2>2. e.message \in Messages
    BY <1>1 DEF FeaturesTyped
  <2> QED
    BY <2>1, <2>2
<1> QED
  BY <1>1, <1>2 DEF FeaturesTyped, FeaturesTypeOK, NumbersKept, IsNumbered

FeaturesInv == FeaturesBasis /\ FlagsKept /\ LatestKept /\ NumbersKept

(* In the beginning nothing is known.                                      *)
LEMMA FeaturesInitInv == ASSUME RequestInit, FeaturesInit PROVE FeaturesInv
<1>1. RequestInv /\ \A w \in Workers : request[w] = None
  BY RequestsInit
<1>2. WindowTtl \in Nat /\ SetTtl \in Nat
  BY FeatureAssumption
<1>3. FeaturesTyped
  BY FS_EmptySet DEF FeaturesInit, FeaturesTyped
<1>4. HandsSound
  BY <1>1 DEF HandsSound, Carries
<1>5. WindowsKept
  BY <1>2 DEF FeaturesInit, WindowsKept
<1>6. \A p \in Holders : \A set \in {"devices", "banks", "instruments"} : owned[<<p, set>>] = {} /\ ownedEnd[<<p, set>>] = 0
  BY DEF FeaturesInit, Belongings
<1>7. SharesKept
  <2>1. uses = {} /\ instant = 0
    BY DEF FeaturesInit
  <2>2. \A t \in Things : users[t] = {} /\ usersEnd[t] = 0
    BY DEF FeaturesInit
  <2>3. \A p \in Holders : \A set \in {"devices", "banks"} :
           owned[<<p, set>>] = {} /\ ownedEnd[<<p, set>>] = 0
    BY <1>6
  <2>4. \A t \in Things : users[t] \subseteq {u.holder : u \in uses} /\ usersEnd[t] <= instant + SetTtl
    BY <1>2, <2>1, <2>2
  <2> QED
    BY <1>2, <2>1, <2>3, <2>4 DEF SharesKept
<1>8. FlagsKept
  BY <1>1, <1>6 DEF FeaturesInit, FlagsKept, Carries
<1>9. LatestKept
  BY <1>1 DEF FeaturesInit, LatestKept, IsLatest
<1>10. NumbersKept
  BY <1>1 DEF FeaturesInit, NumbersKept, IsNumbered
<1> QED
  BY <1>1, <1>3, <1>4, <1>5, <1>7, <1>8, <1>9, <1>10 DEF FeaturesInv, FeaturesBasis

(* What is counted online are the messages of the player in each window.   *)
LEMMA OnlineIsHistory == ASSUME FeaturesBasis PROVE OnlineIsOffline
<1> SUFFICES ASSUME NEW p \in Holders, \A e \in entered : Inbox[e.message].at <= e.at
             PROVE  Computed(p, FALSE).tallies = Tallied(History(p))
  BY DEF OnlineIsOffline
<1>1. PICK S : S = entries[<<p, "txn">>] \cup entries[<<p, "bet">>]
  OBVIOUS
<1>2. PICK H : H = History(p)
  OBVIOUS
<1>3. <<p, "txn">> \in Windows /\ <<p, "bet">> \in Windows
  BY DEF Windows
<1>4. \A m \in Messages : WindowOf(m) \in {<<p, "txn">>, <<p, "bet">>} <=> Inbox[m].player = p
  BY DEF WindowOf
<1>5. entered \subseteq [message : taken, at : Nat] /\ taken \subseteq Messages /\ instant \in Nat
  BY DEF FeaturesBasis, FeaturesTyped
<1>6. S \subseteq H
  <2> SUFFICES ASSUME NEW x \in S PROVE x \in H
    OBVIOUS
  <2>1. PICK k \in {<<p, "txn">>, <<p, "bet">>} : x \in entries[k]
    BY <1>1
  <2>2. PICK e \in entered : WindowOf(e.message) = k /\ x = Entry(e.message)
    BY <1>3, <2>1 DEF FeaturesBasis, WindowsKept
  <2>3. e.message \in Messages /\ Inbox[e.message].player = p
    BY <1>4, <1>5, <2>2
  <2> QED
    BY <1>2, <2>2, <2>3 DEF History
<1>7. ASSUME NEW s \in Spans, NEW x \in H, x.at > instant - s PROVE x \in S
  <2>1. PICK m : m \in {e.message : e \in entered} /\ m \in Messages /\ Inbox[m].player = p /\ x = Entry(m)
    BY <1>2 DEF History
  <2>2. PICK e \in entered : m = e.message
    BY <2>1
  <2>3. PICK a \in Nat : a = x.at /\ a = Inbox[m].at
    BY <2>1, MessageTyped DEF Entry
  <2>4. e.at \in Nat /\ a <= e.at
    BY <1>5, <2>2, <2>3
  <2>5. s \in Nat /\ WindowTtl \in Nat /\ s <= WindowTtl
    BY FeatureAssumption
  <2>6. instant < e.at + WindowTtl
    BY <1>5, <1>7, <2>3, <2>4, <2>5
  <2>7. Entry(m) \in entries[WindowOf(m)]
    BY <2>2, <2>6 DEF FeaturesBasis, WindowsKept
  <2> QED
    BY <1>1, <1>4, <2>1, <2>7
<1>8. \A k \in Movements, s \in Spans :
        {x \in S : x.kind = k /\ x.at > instant - s} = {x \in H : x.kind = k /\ x.at > instant - s}
  BY <1>6, <1>7
<1>9. Tallied(S) = Tallied(H)
  BY <1>8 DEF Tallied
<1>10. Computed(p, FALSE).tallies = Tallied(S)
  BY <1>1 DEF Computed
<1> QED
  BY <1>2, <1>9, <1>10

(* Who shares a thing with a player in its time is counted.                *)
LEMMA SharingIsCounted == ASSUME FeaturesBasis PROVE SharingCounted
<1>1. FeaturesTyped /\ SharesKept
  BY DEF FeaturesBasis
<1> SUFFICES ASSUME NEW p \in Holders
             PROVE  LET recent == {u \in uses : instant < u.at + SetTtl}
                        others(t) == {u.holder : u \in {v \in recent : v.thing = t}} \ {p}
                    IN /\ \A set \in {"devices", "banks"} : SharedCount(p, set) >= 0
                       /\ \A u \in recent :
                            u.holder = p =>
                              Max({SharedCount(p, "devices"), SharedCount(p, "banks")}) >= Cardinality(others(u.thing))
  BY DEF SharingCounted
<1>2. PICK d \in Nat : d = SharedCount(p, "devices")
  BY <1>1, SharedFacts
<1>3. PICK b \in Nat : b = SharedCount(p, "banks")
  BY <1>1, SharedFacts
<1>4. \A set \in {"devices", "banks"} : SharedCount(p, set) >= 0
  BY <1>2, <1>3
<1>5. PICK M : M = Max({d, b})
  OBVIOUS
<1>6. M \in Nat /\ d <= M /\ b <= M
  <2>1. \E c \in Nat : d <= c /\ b <= c
    BY <1>2, <1>3
  <2>2. PICK c \in Nat : \A x \in {d, b} : x <= c
    BY <2>1
  <2>3. {d, b} \subseteq Nat /\ {d, b} # {}
    BY <1>2, <1>3
  <2>4. M \in {d, b} /\ \A x \in {d, b} : x <= M
    BY <1>5, <2>2, <2>3, MaxIsGreatest
  <2> QED
    BY <2>3, <2>4
<1> DEFINE recent == {u \in uses : instant < u.at + SetTtl}
<1> DEFINE others(t) == {u.holder : u \in {v \in recent : v.thing = t}} \ {p}
<1>7. ASSUME NEW u \in recent, u.holder = p PROVE M >= Cardinality(others(u.thing))
  <2>1. PICK t \in Things : t = u.thing
    BY <1>1 DEF FeaturesTyped
  <2>2. PICK set \in {"devices", "banks"} : t \in owned[<<p, set>>] /\ p \in users[t]
    BY <1>1, <1>7, <2>1 DEF SharesKept
  <2>3. /\ IsFiniteSet(users[t]) /\ Cardinality(users[t]) \in Nat
        /\ Cardinality(users[t]) <= SharedCount(p, set) + 1
    BY <1>1, <2>2, SharedFacts
  <2>4. PICK O : O = others(t)
    OBVIOUS
  <2>5. O \subseteq users[t] \ {p}
    BY <1>1, <2>4 DEF SharesKept
  <2>6. IsFiniteSet(users[t] \ {p}) /\ Cardinality(users[t] \ {p}) = Cardinality(users[t]) - 1
    BY <2>2, <2>3, FS_RemoveElement
  <2>7. IsFiniteSet(O) /\ Cardinality(O) <= Cardinality(users[t] \ {p})
    BY <2>5, <2>6, FS_Subset
  <2>8. Cardinality(O) \in Nat
    BY <2>7, FS_CardinalityType
  <2>9. SharedCount(p, set) \in Nat /\ SharedCount(p, set) <= M
    BY <1>2, <1>3, <1>6, <2>2
  <2>10. Cardinality(O) <= M
    BY <1>6, <2>3, <2>6, <2>7, <2>8, <2>9
  <2> HIDE DEF others
  <2> QED
    BY <1>6, <2>1, <2>4, <2>8, <2>10
<1> QED
  BY <1>2, <1>3, <1>4, <1>5, <1>7

FeaturesSpec == RequestInit /\ FeaturesInit /\ [][FeaturesNext]_<<requestVars, featureVars>>

(* The features that the rules read are those of the player's history: the *)
(* windows lose no entry, whoever shares a thing is counted, a new one has *)
(* its flag, and what is online was computed last: for any messages and    *)
(* replicas, any windows and however long a player was away.               *)
THEOREM FeaturesAreSound == FeaturesSpec => []FeaturesSound
<1>1. RequestInit /\ FeaturesInit => FeaturesInv
  BY FeaturesInitInv
<1>2. FeaturesInv /\ [FeaturesNext]_<<requestVars, featureVars>> => FeaturesInv'
  <2> SUFFICES ASSUME FeaturesInv, [FeaturesNext]_<<requestVars, featureVars>> PROVE FeaturesInv'
    OBVIOUS
  <2>1. FeaturesBasis /\ FlagsKept /\ LatestKept /\ NumbersKept
    BY DEF FeaturesInv
  <2>2. RequestInv' /\ HandsSound'
    BY <2>1, HandsNext
  <2>3. FeaturesTyped' /\ WindowsKept' /\ SharesKept'
    BY <2>1, TypedNext, WindowsNext, SharesNext
  <2>4. FlagsKept' /\ LatestKept' /\ NumbersKept'
    BY <2>1, FlagsNext, LatestNext, NumbersNext
  <2> QED
    BY <2>2, <2>3, <2>4 DEF FeaturesInv, FeaturesBasis
<1>3. FeaturesInv => FeaturesSound
  <2> SUFFICES ASSUME FeaturesInv PROVE FeaturesSound
    OBVIOUS
  <2>1. FeaturesBasis /\ FlagsKept /\ LatestKept /\ NumbersKept
    BY DEF FeaturesInv
  <2>2. FeaturesTypeOK /\ OnlineIsOffline /\ SharingCounted
    BY <2>1, FeaturesAreTyped, OnlineIsHistory, SharingIsCounted
  <2>3. NewIsFlagged
    <3>1. \A e \in entered : e.message \in taken
      BY <2>1 DEF FeaturesBasis, FeaturesTyped
    <3> SUFFICES ASSUME NEW m \in taken, Inbox[m].kind # "BET", Lonely(m)
                 PROVE  \/ m \in flagged \cup broken
                        \/ \E w \in Workers : request[w] # None /\ request[w].op # "warm" /\ request[w].message = m
      BY <3>1 DEF NewIsFlagged, Lonely
    <3> QED
      BY <2>1 DEF FlagsKept, Carries
  <2>4. OnlineIsLatest
    BY <2>1 DEF OnlineIsLatest, LatestKept, IsLatest
  <2> QED
    BY <2>2, <2>3, <2>4 DEF FeaturesSound
<1> QED
  BY <1>1, <1>2, <1>3, PTL DEF FeaturesSpec
=============================================================================
