--------------------------- MODULE CaseFiling_proofs ---------------------------
(***************************************************************************)
(* Proofs about CaseFiling for any number of cases, alerts, packages and   *)
(* users with requests in flight.  The handlers check and commit apart, so *)
(* that the invariant has to say what a commit may still rely on: what the *)
(* other requests cannot undo (InFlightSound), and what nobody can undo    *)
(* while no two requests overlap (Undisturbed).                            *)
(***************************************************************************)
EXTENDS CaseFiling, SequenceTheorems, TLAPS

(* What stays true of a request's checks until it commits, whoever else    *)
(* commits in between.                                                     *)
SoundRequest(u) ==
  LET r == request[u]
  IN  r # None =>
        /\ r.op \in {"status", "link"} => Exists(r.case)
        /\ r.op = "submit" =>
             /\ packages[r.package].case = r.case
             /\ packages[r.package].maker # u
             /\ packages[r.package].decision = "FILE_SAR"
             /\ r.closer # None => cases[r.case].closedBy # None
        /\ r.op = "protocol" => packages[r.package].status = "FILED"

InFlightSound == \A u \in Users : SoundRequest(u)

(* Packages and links are of cases that were created.                      *)
OfExistingCases ==
  /\ \A i \in Ids : Exists(packages[i].case)
  /\ \A a \in Alerts : caseOf[a] # None => Exists(caseOf[a])

(* What stays true only while the request is alone.                        *)
FreshRequest(u) ==
  LET r == request[u]
  IN  r # None =>
        /\ \A v \in Users : request[v] # None => v = u
        /\ r.op = "status" => r.status \in Transitions[cases[r.case].status]
        /\ r.op = "link" => r.player = cases[r.case].player /\ r.player \in {None, PlayerOf[r.alert]}
        /\ r.op = "submit" => packages[r.package].status # "FILED"

Undisturbed == ~raced => \A u \in Users : FreshRequest(u)

IInv ==
  /\ TypeOK
  /\ InFlightSound
  /\ OfExistingCases
  /\ SubmissionsSound
  /\ FilingFinal
  /\ ClosedHasCloser
  /\ Undisturbed
  /\ SequentiallySound

(* The initial state satisfies the invariant.                              *)
LEMMA InitInv == Init => IInv
<1> SUFFICES ASSUME Init PROVE IInv
  OBVIOUS
<1> USE CaseAssumption DEF Init, Ids
<1>1. TypeOK
  <2>1. cases \in [Cases -> Case]
    BY DEF Case
  <2>2. packages \in Seq(Package) /\ submitted \in Seq([package : Ids, by : Users])
    BY EmptySeq
  <2> QED
    BY <2>1, <2>2 DEF TypeOK
<1>2. InFlightSound /\ Undisturbed
  BY DEF InFlightSound, SoundRequest, Undisturbed, FreshRequest
<1>3. OfExistingCases /\ SubmissionsSound /\ FilingFinal
  BY DEF OfExistingCases, SubmissionsSound, FilingFinal
<1>4. ClosedHasCloser
  BY DEF ClosedHasCloser, Statuses
<1>5. SequentiallySound
  BY DEF SequentiallySound, SubmittedOnce, AlertsOfOnePlayer
<1> QED
  BY <1>1, <1>2, <1>3, <1>4, <1>5 DEF IInv

-----------------------------------------------------------------------------
(* What the actions do to the table of packages.                           *)

(* The fields of a request in flight are typed.                            *)
LEMMA RequestFields ==
  ASSUME TypeOK, NEW u \in Users, request[u] # None
  PROVE  LET r == request[u]
         IN  /\ r \in Request
             /\ r.op = "status" => r.case \in Cases /\ r.status \in Statuses
             /\ r.op = "link" => /\ r.case \in Cases /\ r.alert \in Alerts
                                 /\ r.player \in Players \cup {None}
                                 /\ r.source \in Alerts \cup {None}
             /\ r.op = "unlink" => r.alert \in Alerts
             /\ r.op = "submit" => /\ r.package \in Ids /\ r.case \in Cases
                                   /\ r.closer \in Users \cup {None}
                                   /\ r.reported \in BOOLEAN
             /\ r.op \in {"file", "protocol"} => r.package \in Ids
BY DEF TypeOK, Request

(* Marking a package filed.                                                *)
LEMMA FilePackage ==
  ASSUME TypeOK, NEW i \in Ids, NEW u \in Users,
         packages' = [packages EXCEPT ![i].status = "FILED", ![i].filer = u]
  PROVE  /\ packages' \in Seq(Package)
         /\ Ids' = Ids
         /\ \A j \in Ids : packages'[j] =
              IF j = i THEN [packages[i] EXCEPT !.status = "FILED", !.filer = u] ELSE packages[j]
<1> DEFINE p == [packages[i] EXCEPT !.status = "FILED", !.filer = u]
<1>1. packages[i] \in Package /\ packages \in Seq(Package)
  BY DEF TypeOK, Ids
<1>2. p \in Package
  BY <1>1 DEF Package
<1>3. packages' = [packages EXCEPT ![i] = p]
  BY <1>1 DEF Package, Ids
<1> HIDE DEF p
<1>4. /\ [packages EXCEPT ![i] = p] \in Seq(Package)
      /\ Len([packages EXCEPT ![i] = p]) = Len(packages)
      /\ \A j \in 1..Len(packages) : [packages EXCEPT ![i] = p][j] = IF j = i THEN p ELSE packages[j]
  BY <1>1, <1>2, ExceptSeq DEF Ids
<1> QED
  BY <1>3, <1>4 DEF Ids, p

(* Registering a protocol number.                                          *)
LEMMA NumberPackage ==
  ASSUME TypeOK, NEW i \in Ids, packages' = [packages EXCEPT ![i].protocol = TRUE]
  PROVE  /\ packages' \in Seq(Package)
         /\ Ids' = Ids
         /\ \A j \in Ids : packages'[j] =
              IF j = i THEN [packages[i] EXCEPT !.protocol = TRUE] ELSE packages[j]
<1> DEFINE p == [packages[i] EXCEPT !.protocol = TRUE]
<1>1. packages[i] \in Package /\ packages \in Seq(Package)
  BY DEF TypeOK, Ids
<1>2. p \in Package
  BY <1>1 DEF Package
<1>3. packages' = [packages EXCEPT ![i] = p]
  BY <1>1 DEF Package, Ids
<1> HIDE DEF p
<1>4. /\ [packages EXCEPT ![i] = p] \in Seq(Package)
      /\ Len([packages EXCEPT ![i] = p]) = Len(packages)
      /\ \A j \in 1..Len(packages) : [packages EXCEPT ![i] = p][j] = IF j = i THEN p ELSE packages[j]
  BY <1>1, <1>2, ExceptSeq DEF Ids
<1> QED
  BY <1>3, <1>4 DEF Ids, p

(* A new package.                                                          *)
LEMMA AddPackage ==
  ASSUME TypeOK, NEW u \in Users, NEW c \in Cases, NEW d \in Decisions, Generate(u, c, d)
  PROVE  /\ packages' \in Seq(Package)
         /\ Ids' = Ids \cup {Len(packages) + 1}
         /\ \A j \in Ids : packages'[j] = packages[j]
         /\ LET p == packages'[Len(packages) + 1]
            IN  p.case = c /\ p.filer = None /\ p.protocol = FALSE /\ p.status # "FILED"
<1> DEFINE p == [case |-> c, maker |-> u, decision |-> d, filer |-> None, protocol |-> FALSE,
                 status |-> IF d = "PENDING" THEN "DRAFT" ELSE "FINAL"]
<1>1. p \in Package /\ packages \in Seq(Package)
  BY DEF TypeOK, Package
<1>2. packages' = Append(packages, p)
  BY DEF Generate
<1>3. p.case = c /\ p.filer = None /\ p.protocol = FALSE /\ p.status # "FILED"
  OBVIOUS
<1> HIDE DEF p
<1>4. /\ packages' \in Seq(Package)
      /\ Len(packages') = Len(packages) + 1
      /\ \A j \in 1..Len(packages) : packages'[j] = packages[j]
      /\ packages'[Len(packages) + 1] = p
  BY <1>1, <1>2, AppendProperties
<1> QED
  BY <1>1, <1>3, <1>4 DEF Ids

-----------------------------------------------------------------------------
(* Typing is inductive on its own.                                         *)

(* New packages leave the references to the old ones typed.                *)
LEMMA ReferencesKept ==
  ASSUME Ids \subseteq Ids'
  PROVE  /\ Request \subseteq Request'
         /\ \A s \in Seq([package : Ids, by : Users]) : s \in Seq([package : Ids', by : Users])
<1>1. Request \subseteq Request'
  BY DEF Request
<1>2. [package : Ids, by : Users] \subseteq [package : Ids', by : Users]
  OBVIOUS
<1> HIDE DEF Ids
<1>3. ASSUME NEW s \in Seq([package : Ids, by : Users])
      PROVE  s \in Seq([package : Ids', by : Users])
  BY <1>2, SeqMonotonic
<1> QED
  BY <1>1, <1>3

(* A request begins: only the requests in flight change.                   *)
LEMMA BeginType ==
  ASSUME TypeOK, NEW u \in Users, NEW r \in Request, Begin(u, r)
  PROVE  TypeOK'
<1>1. Ids' = Ids /\ Request' = Request
  BY DEF Begin, Ids, Request
<1>2. request' \in [Users -> Request \cup {None}] /\ raced' \in BOOLEAN
  BY DEF Begin, TypeOK
<1> QED
  BY <1>1, <1>2 DEF Begin, TypeOK

(* A request is answered: its commit has to keep the tables typed.         *)
LEMMA CommitType ==
  ASSUME TypeOK, NEW u \in Users, Done(u), raced' = raced, failures' = failures,
         Ids' = Ids, cases' \in [Cases -> Case],
         caseOf' \in [Alerts -> Cases \cup {None}], packages' \in Seq(Package),
         submitted' \in Seq([package : Ids, by : Users])
  PROVE  TypeOK'
<1>1. Request' = Request
  BY DEF Request
<1>2. request' \in [Users -> Request \cup {None}]
  BY DEF Done, TypeOK
<1> QED
  BY <1>1, <1>2 DEF TypeOK

LEMMA TypeStep == TypeOK /\ [Next]_vars => TypeOK'
<1> SUFFICES ASSUME TypeOK, [Next]_vars PROVE TypeOK'
  OBVIOUS
<1> USE CaseAssumption
<1>1. ASSUME NEW u \in Users, CaseStep(u) PROVE TypeOK'
  <2>1. ASSUME NEW c \in Cases, NEW y \in Players \cup {None}, CreateCase(u, c, y) PROVE TypeOK'
    <3>1. cases' = [cases EXCEPT ![c] = [cases[c] EXCEPT !.status = "OPEN", !.player = y]]
      BY <2>1 DEF CreateCase, TypeOK, Case
    <3>2. cases' \in [Cases -> Case]
      BY ZenonT(60), <3>1 DEF TypeOK, Case, Statuses
    <3>3. Ids' = Ids /\ Request' = Request
      BY <2>1 DEF CreateCase, Ids, Request
    <3> QED
      BY <2>1, <3>2, <3>3 DEF CreateCase, TypeOK
  <2>2. ASSUME NEW c \in Cases, NEW s \in Statuses, ChangeStatusBegin(u, c, s) PROVE TypeOK'
    <3> DEFINE r == [op |-> "status", case |-> c, status |-> s]
    <3>1. r \in Request
      BY DEF Request
    <3> QED
      BY <2>2, <3>1, BeginType DEF ChangeStatusBegin
  <2>3. ASSUME NEW c \in Cases, NEW a \in Alerts, LinkBegin(u, c, a) PROVE TypeOK'
    <3> DEFINE r == [op |-> "link", case |-> c, alert |-> a, player |-> cases[c].player,
                     source |-> cases[c].source]
    <3>1. r \in Request
      BY DEF Request, TypeOK, Case
    <3> QED
      BY <2>3, <3>1, BeginType DEF LinkBegin
  <2>4. ASSUME NEW c \in Cases, NEW a \in Alerts, UnlinkBegin(u, c, a) PROVE TypeOK'
    <3> DEFINE r == [op |-> "unlink", alert |-> a]
    <3>1. r \in Request
      BY DEF Request
    <3> QED
      BY <2>4, <3>1, BeginType DEF UnlinkBegin
  <2>5. ASSUME ChangeStatusCommit(u) PROVE TypeOK'
    <3> DEFINE c == request[u].case
               s == request[u].status
    <3>1. c \in Cases /\ s \in Statuses
      BY <2>5, RequestFields DEF ChangeStatusCommit, Handling
    <3>2. cases' = [cases EXCEPT ![c] = [cases[c] EXCEPT !.status = s, !.closedBy =
                       IF s \in {"CLOSED", "REPORTED"} THEN u ELSE cases[c].closedBy]]
      BY <2>5, <3>1 DEF ChangeStatusCommit, TypeOK, Case
    <3> DEFINE x == IF s \in {"CLOSED", "REPORTED"} THEN u ELSE cases[c].closedBy
               k == [cases[c] EXCEPT !.status = s, !.closedBy = x]
    <3> HIDE DEF c, s
    <3>3. cases' \in [Cases -> Case]
      <4>1. cases[c] \in Case /\ x \in Users \cup {None}
        BY <3>1 DEF TypeOK, Case
      <4> HIDE DEF x
      <4>2. k \in Case
        BY <3>1, <4>1 DEF Case
      <4>3. cases' = [cases EXCEPT ![c] = k]
        BY <3>2 DEF x
      <4> HIDE DEF k
      <4> QED
        BY <3>1, <4>2, <4>3 DEF TypeOK
    <3>4. Ids' = Ids
      BY <2>5 DEF ChangeStatusCommit, Ids
    <3> QED
      BY <2>5, <3>3, <3>4, CommitType DEF ChangeStatusCommit, TypeOK
  <2>6. ASSUME LinkCommit(u) PROVE TypeOK'
    <3> DEFINE r == request[u]
    <3>1. r.case \in Cases /\ r.alert \in Alerts
      BY <2>6, RequestFields DEF LinkCommit, Handling
    <3>2. cases' = [cases EXCEPT ![r.case] = [cases[r.case] EXCEPT
                       !.player = IF r.player = None THEN PlayerOf[r.alert] ELSE cases[r.case].player,
                       !.source = IF r.source = None THEN r.alert ELSE cases[r.case].source]]
      BY <2>6, <3>1 DEF LinkCommit, TypeOK, Case
    <3>3. caseOf' = [caseOf EXCEPT ![r.alert] = r.case]
      BY <2>6 DEF LinkCommit
    <3> HIDE DEF r
    <3>4. cases' \in [Cases -> Case]
      <4> DEFINE y == IF r.player = None THEN PlayerOf[r.alert] ELSE cases[r.case].player
                 a == IF r.source = None THEN r.alert ELSE cases[r.case].source
                 k == [cases[r.case] EXCEPT !.player = y, !.source = a]
      <4>1. cases[r.case] \in Case /\ PlayerOf[r.alert] \in Players
        BY <3>1 DEF TypeOK
      <4>2. y \in Players \cup {None} /\ a \in Alerts \cup {None}
        BY <3>1, <4>1 DEF Case
      <4>3. cases' = [cases EXCEPT ![r.case] = k]
        BY <3>2
      <4> HIDE DEF y, a
      <4>4. k \in Case
        BY <4>1, <4>2 DEF Case
      <4> HIDE DEF k
      <4> QED
        BY <3>1, <4>3, <4>4 DEF TypeOK
    <3>5. caseOf' \in [Alerts -> Cases \cup {None}]
      BY <3>1, <3>3 DEF TypeOK
    <3>6. Ids' = Ids
      BY <2>6 DEF LinkCommit, Ids
    <3> QED
      BY <2>6, <3>4, <3>5, <3>6, CommitType DEF LinkCommit, TypeOK
  <2>7. ASSUME UnlinkCommit(u) PROVE TypeOK'
    <3>1. caseOf' \in [Alerts -> Cases \cup {None}]
      BY <2>7 DEF UnlinkCommit, TypeOK
    <3>2. Ids' = Ids
      BY <2>7 DEF UnlinkCommit, Ids
    <3> QED
      BY <2>7, <3>1, <3>2, CommitType DEF UnlinkCommit, TypeOK
  <2> QED
    BY <1>1, <2>1, <2>2, <2>3, <2>4, <2>5, <2>6, <2>7 DEF CaseStep
<1>2. ASSUME NEW u \in Users, FilingStep(u) PROVE TypeOK'
  <2>1. ASSUME NEW c \in Cases, NEW d \in Decisions, Generate(u, c, d) PROVE TypeOK'
    <3>1. packages' \in Seq(Package) /\ Ids \subseteq Ids'
      BY <2>1, AddPackage
    <3> QED
      BY <2>1, <3>1, ReferencesKept DEF Generate, TypeOK
  <2>2. ASSUME NEW c \in Cases, SubmitBegin(u, c) PROVE TypeOK'
    <3>1. PICK i \in PackagesOf(c) :
            Begin(u, [op |-> "submit", package |-> i, case |-> c, closer |-> cases[c].closedBy,
                      reported |-> cases[c].status = "REPORTED"])
      BY <2>2 DEF SubmitBegin
    <3> DEFINE r == [op |-> "submit", package |-> i, case |-> c, closer |-> cases[c].closedBy,
                     reported |-> cases[c].status = "REPORTED"]
    <3>2. r \in Request
      BY DEF Request, TypeOK, Case, PackagesOf, Ids
    <3> QED
      BY <3>1, <3>2, BeginType
  <2>3. ASSUME NEW c \in Cases, SubmitRaises(u, c) PROVE TypeOK'
    <3>1. Ids' = Ids /\ Request' = Request
      BY <2>3 DEF SubmitRaises, Ids, Request
    <3> QED
      BY <2>3, <3>1 DEF SubmitRaises, TypeOK
  <2>4. ASSUME NEW i \in 1..MaxPackages, FileBegin(u, i) PROVE TypeOK'
    <3> DEFINE r == [op |-> "file", package |-> i]
    <3>1. r \in Request
      BY <2>4 DEF Request, FileBegin, Ids
    <3> QED
      BY <2>4, <3>1, BeginType DEF FileBegin
  <2>5. ASSUME NEW i \in 1..MaxPackages, RegisterBegin(u, i) PROVE TypeOK'
    <3> DEFINE r == [op |-> "protocol", package |-> i]
    <3>1. r \in Request
      BY <2>5 DEF Request, RegisterBegin, Ids
    <3> QED
      BY <2>5, <3>1, BeginType DEF RegisterBegin
  <2>6. ASSUME SubmitCommit(u) PROVE TypeOK'
    <3> DEFINE r == request[u]
    <3>1. r.package \in Ids /\ r.case \in Cases
      BY <2>6, RequestFields DEF SubmitCommit, Handling
    <3>2. packages' \in Seq(Package) /\ Ids' = Ids
      BY <2>6, <3>1, FilePackage DEF SubmitCommit
    <3>3. cases' = [cases EXCEPT ![r.case] = [cases[r.case] EXCEPT
                       !.status = IF r.reported THEN cases[r.case].status ELSE "REPORTED",
                       !.closedBy = IF r.closer = None THEN u ELSE cases[r.case].closedBy]]
      BY <2>6, <3>1 DEF SubmitCommit, TypeOK, Case
    <3>4. submitted' = Append(submitted, [package |-> r.package, by |-> u])
      BY <2>6 DEF SubmitCommit
    <3> HIDE DEF r
    <3>5. cases' \in [Cases -> Case]
      <4> DEFINE s == IF r.reported THEN cases[r.case].status ELSE "REPORTED"
                 x == IF r.closer = None THEN u ELSE cases[r.case].closedBy
                 k == [cases[r.case] EXCEPT !.status = s, !.closedBy = x]
      <4>1. cases[r.case] \in Case
        BY <3>1 DEF TypeOK
      <4>2. s \in Statuses \cup {None} /\ x \in Users \cup {None}
        BY <4>1 DEF Case, Statuses
      <4>3. cases' = [cases EXCEPT ![r.case] = k]
        BY <3>3
      <4> HIDE DEF s, x
      <4>4. k \in Case
        BY <4>1, <4>2 DEF Case
      <4> HIDE DEF k
      <4> QED
        BY <3>1, <4>3, <4>4 DEF TypeOK
    <3>6. submitted' \in Seq([package : Ids, by : Users])
      BY <3>1, <3>4 DEF TypeOK
    <3> QED
      BY <2>6, <3>2, <3>5, <3>6, CommitType DEF SubmitCommit, TypeOK
  <2>7. ASSUME FileCommit(u) PROVE TypeOK'
    <3>1. request[u].package \in Ids
      BY <2>7, RequestFields DEF FileCommit, Handling
    <3>2. packages' \in Seq(Package) /\ Ids' = Ids
      BY <2>7, <3>1, FilePackage DEF FileCommit
    <3> QED
      BY <2>7, <3>2, CommitType DEF FileCommit, TypeOK
  <2>8. ASSUME RegisterCommit(u) PROVE TypeOK'
    <3>1. request[u].package \in Ids
      BY <2>8, RequestFields DEF RegisterCommit, Handling
    <3>2. packages' \in Seq(Package) /\ Ids' = Ids
      BY <2>8, <3>1, NumberPackage DEF RegisterCommit
    <3> QED
      BY <2>8, <3>2, CommitType DEF RegisterCommit, TypeOK
  <2> QED
    BY <1>2, <2>1, <2>2, <2>3, <2>4, <2>5, <2>6, <2>7, <2>8 DEF FilingStep
<1>3. ASSUME UNCHANGED vars PROVE TypeOK'
  <2>1. Ids' = Ids /\ Request' = Request
    BY <1>3 DEF vars, Ids, Request
  <2> QED
    BY <1>3, <2>1 DEF vars, TypeOK
<1> QED
  BY <1>1, <1>2, <1>3 DEF Next

-----------------------------------------------------------------------------
(* What a step does to the tables, field by field.                         *)

Begins(u) ==
  \/ \E c \in Cases, s \in Statuses : ChangeStatusBegin(u, c, s)
  \/ \E c \in Cases, a \in Alerts : LinkBegin(u, c, a) \/ UnlinkBegin(u, c, a)
  \/ \E c \in Cases : SubmitBegin(u, c)
  \/ \E i \in Nat : FileBegin(u, i) \/ RegisterBegin(u, i)

(* A request that begins leaves the tables alone.                          *)
LEMMA BeginsQuiet ==
  ASSUME TypeOK, NEW u \in Users, Begins(u)
  PROVE  /\ UNCHANGED <<cases, caseOf, packages, submitted, failures>>
         /\ request[u] = None
         /\ raced' = (raced \/ InFlight # {})
         /\ \A v \in Users \ {u} : request'[v] = request[v]
<1>1. PICK r : Begin(u, r)
  BY DEF Begins, ChangeStatusBegin, LinkBegin, UnlinkBegin, SubmitBegin, FileBegin, RegisterBegin
<1> QED
  BY <1>1 DEF Begin, TypeOK

(* An answered request leaves the others alone.                            *)
LEMMA DoneOne ==
  ASSUME TypeOK, NEW u \in Users, Done(u)
  PROVE  request'[u] = None /\ \A v \in Users \ {u} : request'[v] = request[v]
BY DEF Done, TypeOK

LEMMA CreateEffect ==
  ASSUME TypeOK, NEW u \in Users, NEW c \in Cases, NEW y, CreateCase(u, c, y)
  PROVE  /\ ~Exists(c) /\ cases'[c].status = "OPEN"
         /\ cases'[c].closedBy = cases[c].closedBy
         /\ \A d \in Cases \ {c} : cases'[d] = cases[d]
         /\ UNCHANGED <<caseOf, packages, submitted, request, raced>>
BY DEF CreateCase, TypeOK, Case

LEMMA StatusEffect ==
  ASSUME TypeOK, NEW u \in Users, ChangeStatusCommit(u)
  PROVE  /\ request[u] # None /\ request[u].op = "status"
         /\ request[u].case \in Cases /\ request[u].status \in Statuses
         /\ LET c == request[u].case
            IN  /\ cases'[c].status = request[u].status
                /\ request[u].status \in {"CLOSED", "REPORTED"} => cases'[c].closedBy = u
                /\ request[u].status \notin {"CLOSED", "REPORTED"} =>
                      cases'[c].closedBy = cases[c].closedBy
                /\ cases'[c].player = cases[c].player
                /\ \A d \in Cases \ {c} : cases'[d] = cases[d]
         /\ Done(u)
         /\ UNCHANGED <<caseOf, packages, submitted, raced>>
<1>1. request[u] # None /\ request[u].op = "status"
  BY DEF ChangeStatusCommit, Handling
<1>2. request[u].case \in Cases /\ request[u].status \in Statuses
  BY <1>1, RequestFields
<1> DEFINE c == request[u].case
           s == request[u].status
<1>3. cases' = [cases EXCEPT ![c].status = s,
                             ![c].closedBy = IF s \in {"CLOSED", "REPORTED"} THEN u ELSE @]
  BY DEF ChangeStatusCommit
<1>4. cases \in [Cases -> Case]
  BY DEF TypeOK
<1> HIDE DEF c, s
<1>5. /\ cases'[c].status = s
      /\ s \in {"CLOSED", "REPORTED"} => cases'[c].closedBy = u
      /\ s \notin {"CLOSED", "REPORTED"} => cases'[c].closedBy = cases[c].closedBy
      /\ cases'[c].player = cases[c].player
      /\ \A d \in Cases \ {c} : cases'[d] = cases[d]
  <2>1. c \in Cases /\ cases[c] \in Case
    BY <1>2, <1>4 DEF c
  <2> QED
    BY <2>1, <1>3, <1>4 DEF Case
<1> QED
  BY <1>1, <1>2, <1>5 DEF ChangeStatusCommit, c, s

LEMMA LinkEffect ==
  ASSUME TypeOK, NEW u \in Users, LinkCommit(u)
  PROVE  /\ request[u] # None /\ request[u].op = "link"
         /\ request[u].case \in Cases /\ request[u].alert \in Alerts
         /\ LET r == request[u]
            IN  /\ cases'[r.case].status = cases[r.case].status
                /\ cases'[r.case].closedBy = cases[r.case].closedBy
                /\ r.player = None => cases'[r.case].player = PlayerOf[r.alert]
                /\ r.player # None => cases'[r.case].player = cases[r.case].player
                /\ \A d \in Cases \ {r.case} : cases'[d] = cases[d]
                /\ caseOf'[r.alert] = r.case
                /\ \A a \in Alerts \ {r.alert} : caseOf'[a] = caseOf[a]
         /\ Done(u)
         /\ UNCHANGED <<packages, submitted, raced>>
<1> DEFINE r == request[u]
<1>1. r # None /\ r.op = "link"
  BY DEF LinkCommit, Handling
<1>2. r.case \in Cases /\ r.alert \in Alerts
  BY <1>1, RequestFields
<1>3. /\ cases' = [cases EXCEPT ![r.case].player = IF r.player = None THEN PlayerOf[r.alert] ELSE @,
                                ![r.case].source = IF r.source = None THEN r.alert ELSE @]
      /\ caseOf' = [caseOf EXCEPT ![r.alert] = r.case]
  BY DEF LinkCommit
<1>4. cases \in [Cases -> Case] /\ caseOf \in [Alerts -> Cases \cup {None}]
  BY DEF TypeOK
<1> HIDE DEF r
<1>5. /\ cases'[r.case].status = cases[r.case].status
      /\ cases'[r.case].closedBy = cases[r.case].closedBy
      /\ r.player = None => cases'[r.case].player = PlayerOf[r.alert]
      /\ r.player # None => cases'[r.case].player = cases[r.case].player
      /\ \A d \in Cases \ {r.case} : cases'[d] = cases[d]
  BY <1>2, <1>3, <1>4 DEF Case
<1>6. caseOf'[r.alert] = r.case /\ \A a \in Alerts \ {r.alert} : caseOf'[a] = caseOf[a]
  BY <1>2, <1>3, <1>4
<1> QED
  BY <1>1, <1>2, <1>5, <1>6 DEF LinkCommit, r

LEMMA SubmitEffect ==
  ASSUME TypeOK, NEW u \in Users, SubmitCommit(u)
  PROVE  /\ request[u] # None /\ request[u].op = "submit"
         /\ request[u].package \in Ids /\ request[u].case \in Cases
         /\ LET r == request[u]
            IN  /\ r.reported => cases'[r.case].status = cases[r.case].status
                /\ ~r.reported => cases'[r.case].status = "REPORTED"
                /\ r.closer = None => cases'[r.case].closedBy = u
                /\ r.closer # None => cases'[r.case].closedBy = cases[r.case].closedBy
                /\ cases'[r.case].player = cases[r.case].player
                /\ \A d \in Cases \ {r.case} : cases'[d] = cases[d]
         /\ Done(u)
         /\ UNCHANGED <<caseOf, raced>>
<1> DEFINE r == request[u]
<1>1. r # None /\ r.op = "submit"
  BY DEF SubmitCommit, Handling
<1>2. r.package \in Ids /\ r.case \in Cases
  BY <1>1, RequestFields
<1>4. cases' = [cases EXCEPT ![r.case].status = IF r.reported THEN @ ELSE "REPORTED",
                             ![r.case].closedBy = IF r.closer = None THEN u ELSE @]
  BY DEF SubmitCommit
<1>5. cases \in [Cases -> Case]
  BY DEF TypeOK
<1> HIDE DEF r
<1>7. /\ r.reported => cases'[r.case].status = cases[r.case].status
      /\ ~r.reported => cases'[r.case].status = "REPORTED"
      /\ r.closer = None => cases'[r.case].closedBy = u
      /\ r.closer # None => cases'[r.case].closedBy = cases[r.case].closedBy
      /\ cases'[r.case].player = cases[r.case].player
      /\ \A d \in Cases \ {r.case} : cases'[d] = cases[d]
  BY <1>2, <1>4, <1>5 DEF Case
<1> QED
  BY <1>1, <1>2, <1>7 DEF SubmitCommit, r

(* Both ways of filing a package.                                          *)
LEMMA FilesEffect ==
  ASSUME TypeOK, NEW u \in Users, SubmitCommit(u) \/ FileCommit(u)
  PROVE  /\ request[u] # None /\ request[u].package \in Ids
         /\ Ids' = Ids
         /\ \A j \in Ids \ {request[u].package} : packages'[j] = packages[j]
         /\ LET p == packages[request[u].package]
                q == packages'[request[u].package]
            IN  /\ q.status = "FILED" /\ q.filer = u
                /\ q.case = p.case /\ q.maker = p.maker /\ q.decision = p.decision
                /\ q.protocol = p.protocol
<1> DEFINE k == request[u].package
<1>1. request[u] # None /\ k \in Ids
  BY RequestFields DEF SubmitCommit, FileCommit, Handling
<1>2. packages' = [packages EXCEPT ![k].status = "FILED", ![k].filer = u]
  BY DEF SubmitCommit, FileCommit
<1>3. packages[k] \in Package
  BY <1>1 DEF TypeOK, Ids
<1> HIDE DEF k
<1>4. /\ Ids' = Ids
      /\ \A j \in Ids : packages'[j] =
           IF j = k THEN [packages[k] EXCEPT !.status = "FILED", !.filer = u] ELSE packages[j]
  BY <1>1, <1>2, FilePackage
<1>5. packages'[k] = [packages[k] EXCEPT !.status = "FILED", !.filer = u]
  BY <1>1, <1>4
<1>6. \A j \in Ids \ {k} : packages'[j] = packages[j]
  BY <1>4
<1> QED
  BY <1>1, <1>3, <1>4, <1>5, <1>6 DEF Package, k

LEMMA RegisterEffect ==
  ASSUME TypeOK, NEW u \in Users, RegisterCommit(u)
  PROVE  /\ request[u] # None /\ request[u].op = "protocol" /\ request[u].package \in Ids
         /\ Ids' = Ids
         /\ \A j \in Ids \ {request[u].package} : packages'[j] = packages[j]
         /\ LET p == packages[request[u].package]
                q == packages'[request[u].package]
            IN  /\ q.status = p.status /\ q.filer = p.filer
                /\ q.case = p.case /\ q.maker = p.maker /\ q.decision = p.decision
         /\ Done(u)
         /\ UNCHANGED <<cases, caseOf, submitted, raced>>
<1> DEFINE k == request[u].package
<1>1. request[u] # None /\ request[u].op = "protocol"
  BY DEF RegisterCommit, Handling
<1>2. k \in Ids
  BY <1>1, RequestFields
<1>3. packages' = [packages EXCEPT ![k].protocol = TRUE]
  BY DEF RegisterCommit
<1>4. packages[k] \in Package
  BY <1>2 DEF TypeOK, Ids
<1> HIDE DEF k
<1>5. /\ Ids' = Ids
      /\ \A j \in Ids : packages'[j] =
           IF j = k THEN [packages[k] EXCEPT !.protocol = TRUE] ELSE packages[j]
  BY <1>2, <1>3, NumberPackage
<1>6. packages'[k] = [packages[k] EXCEPT !.protocol = TRUE]
  BY <1>2, <1>5
<1>7. \A j \in Ids \ {k} : packages'[j] = packages[j]
  BY <1>5
<1> QED
  BY <1>1, <1>2, <1>4, <1>5, <1>6, <1>7 DEF Package, k, RegisterCommit

(* The steps there are; a beginning request is one kind.                   *)
LEMMA Kinds ==
  ASSUME [Next]_vars
  PROVE  \/ UNCHANGED vars
         \/ \E u \in Users :
              \/ Begins(u)
              \/ \E c \in Cases, y \in Players \cup {None} : CreateCase(u, c, y)
              \/ \E c \in Cases, d \in Decisions : Generate(u, c, d)
              \/ \E c \in Cases : SubmitRaises(u, c)
              \/ ChangeStatusCommit(u) \/ LinkCommit(u) \/ UnlinkCommit(u)
              \/ SubmitCommit(u) \/ FileCommit(u) \/ RegisterCommit(u)
<1> SUFFICES ASSUME NEW u \in Users, CaseStep(u) \/ FilingStep(u)
             PROVE  \/ Begins(u)
                    \/ \E c \in Cases, y \in Players \cup {None} : CreateCase(u, c, y)
                    \/ \E c \in Cases, d \in Decisions : Generate(u, c, d)
                    \/ \E c \in Cases : SubmitRaises(u, c)
                    \/ ChangeStatusCommit(u) \/ LinkCommit(u) \/ UnlinkCommit(u)
                    \/ SubmitCommit(u) \/ FileCommit(u) \/ RegisterCommit(u)
  BY DEF Next
<1>1. 1..MaxPackages \subseteq Nat
  BY CaseAssumption
<1>2. CASE CaseStep(u)
  BY <1>2 DEF CaseStep, Begins
<1>3. CASE FilingStep(u)
  BY <1>1, <1>3 DEF FilingStep, Begins
<1> QED
  BY <1>2, <1>3

(* A case that exists goes on existing, and a closer is not forgotten.     *)
LEMMA CasesAdvance ==
  ASSUME TypeOK, [Next]_vars, NEW c \in Cases
  PROVE  /\ Exists(c) => cases'[c].status # None
         /\ cases[c].closedBy # None => cases'[c].closedBy # None
<1> USE CaseAssumption DEF Exists
<1>1. CASE UNCHANGED vars
  BY <1>1 DEF vars
<1>2. ASSUME NEW u \in Users, Begins(u) PROVE cases' = cases
  BY <1>2, BeginsQuiet
<1>3. ASSUME NEW u \in Users, NEW d \in Cases, NEW y, CreateCase(u, d, y)
      PROVE  /\ Exists(c) => cases'[c].status # None
             /\ cases[c].closedBy # None => cases'[c].closedBy # None
  BY <1>3, CreateEffect
<1>4. ASSUME NEW u \in Users, ChangeStatusCommit(u)
      PROVE  /\ Exists(c) => cases'[c].status # None
             /\ cases[c].closedBy # None => cases'[c].closedBy # None
  <2>1. CASE c = request[u].case
    BY <1>4, <2>1, StatusEffect
  <2>2. CASE c # request[u].case
    BY <1>4, <2>2, StatusEffect
  <2> QED
    BY <2>1, <2>2
<1>5. ASSUME NEW u \in Users, LinkCommit(u)
      PROVE  /\ Exists(c) => cases'[c].status # None
             /\ cases[c].closedBy # None => cases'[c].closedBy # None
  BY <1>5, LinkEffect
<1>6. ASSUME NEW u \in Users, SubmitCommit(u)
      PROVE  /\ Exists(c) => cases'[c].status # None
             /\ cases[c].closedBy # None => cases'[c].closedBy # None
  <2>1. "REPORTED" # None
    BY DEF Statuses
  <2>2. CASE c = request[u].case
    BY <1>6, <2>1, <2>2, SubmitEffect
  <2>3. CASE c # request[u].case
    BY <1>6, <2>3, SubmitEffect
  <2> QED
    BY <2>2, <2>3
<1>7. ASSUME NEW u \in Users,
             \/ \E d \in Cases, x \in Decisions : Generate(u, d, x)
             \/ \E d \in Cases : SubmitRaises(u, d)
             \/ UnlinkCommit(u) \/ FileCommit(u) \/ RegisterCommit(u)
      PROVE  cases' = cases
  BY <1>7 DEF Generate, SubmitRaises, UnlinkCommit, FileCommit, RegisterCommit
<1> QED
  BY <1>1, <1>2, <1>3, <1>4, <1>5, <1>6, <1>7, Kinds

(* Packages are added, keep what they are about and stay filed.            *)
LEMMA PackagesAdvance ==
  ASSUME TypeOK, [Next]_vars, NEW i \in Ids
  PROVE  /\ i \in Ids'
         /\ packages'[i].case = packages[i].case
         /\ packages'[i].maker = packages[i].maker
         /\ packages'[i].decision = packages[i].decision
         /\ packages[i].status = "FILED" => packages'[i].status = "FILED"
<1>1. CASE packages' = packages
  BY <1>1 DEF Ids
<1>2. ASSUME NEW u \in Users, NEW c \in Cases, NEW d \in Decisions, Generate(u, c, d)
      PROVE  i \in Ids' /\ packages'[i] = packages[i]
  BY <1>2, AddPackage
<1>3. ASSUME NEW u \in Users, SubmitCommit(u) \/ FileCommit(u)
      PROVE  /\ i \in Ids'
             /\ packages'[i].case = packages[i].case
             /\ packages'[i].maker = packages[i].maker
             /\ packages'[i].decision = packages[i].decision
             /\ packages[i].status = "FILED" => packages'[i].status = "FILED"
  <2>1. CASE i = request[u].package
    BY <1>3, <2>1, FilesEffect
  <2>2. CASE i # request[u].package
    BY <1>3, <2>2, FilesEffect
  <2> QED
    BY <2>1, <2>2
<1>4. ASSUME NEW u \in Users, RegisterCommit(u)
      PROVE  /\ i \in Ids'
             /\ packages'[i].case = packages[i].case
             /\ packages'[i].maker = packages[i].maker
             /\ packages'[i].decision = packages[i].decision
             /\ packages[i].status = "FILED" => packages'[i].status = "FILED"
  <2>1. CASE i = request[u].package
    BY <1>4, <2>1, RegisterEffect
  <2>2. CASE i # request[u].package
    BY <1>4, <2>2, RegisterEffect
  <2> QED
    BY <2>1, <2>2
<1>5. ASSUME NEW u \in Users,
             \/ Begins(u)
             \/ \E c \in Cases, y \in Players \cup {None} : CreateCase(u, c, y)
             \/ \E c \in Cases : SubmitRaises(u, c)
             \/ ChangeStatusCommit(u) \/ LinkCommit(u) \/ UnlinkCommit(u)
      PROVE  packages' = packages
  BY <1>5, BeginsQuiet DEF CreateCase, SubmitRaises, ChangeStatusCommit, LinkCommit, UnlinkCommit
<1>6. CASE UNCHANGED vars
  BY <1>1, <1>6 DEF vars
<1> QED
  BY <1>1, <1>2, <1>3, <1>4, <1>5, <1>6, Kinds

-----------------------------------------------------------------------------
(* The parts of the invariant, one after the other.                        *)

(* The case of a package exists, and still does after a step.              *)
LEMMA PackageCaseLives ==
  ASSUME TypeOK, OfExistingCases, [Next]_vars, NEW i \in Ids
  PROVE  cases'[packages'[i].case].status # None
<1> DEFINE c == packages[i].case
<1>1. packages[i] \in Package
  BY DEF TypeOK, Ids
<1>2. c \in Cases
  BY <1>1 DEF Package
<1>3. Exists(c)
  BY DEF OfExistingCases
<1>4. packages'[i].case = c
  BY PackagesAdvance
<1> HIDE DEF c
<1> QED
  BY <1>2, <1>3, <1>4, CasesAdvance

LEMMA ExistingStep ==
  ASSUME TypeOK, InFlightSound, OfExistingCases, [Next]_vars
  PROVE  OfExistingCases'
<1>1. ASSUME NEW i \in Ids' PROVE Exists(packages[i].case)'
  <2>1. CASE i \in Ids
    BY <2>1, PackageCaseLives DEF Exists
  <2>2. ASSUME NEW u \in Users, NEW c \in Cases, NEW d \in Decisions, Generate(u, c, d),
               i \notin Ids
        PROVE  Exists(packages[i].case)'
    <3>1. packages'[i].case = c
      BY <2>2, AddPackage
    <3> QED
      BY <2>2, <3>1 DEF Generate, Exists
  <2>3. (\A u \in Users, c \in Cases, d \in Decisions : ~Generate(u, c, d)) => Ids' = Ids
    <3>1. packages' = packages => Ids' = Ids
      BY DEF Ids
    <3>2. ASSUME NEW u \in Users, SubmitCommit(u) \/ FileCommit(u) \/ RegisterCommit(u)
          PROVE  Ids' = Ids
      BY <3>2, FilesEffect, RegisterEffect
    <3>3. ASSUME NEW u \in Users,
                 \/ Begins(u)
                 \/ \E c \in Cases, y \in Players \cup {None} : CreateCase(u, c, y)
                 \/ \E c \in Cases : SubmitRaises(u, c)
                 \/ ChangeStatusCommit(u) \/ LinkCommit(u) \/ UnlinkCommit(u)
          PROVE  packages' = packages
      BY <3>3, BeginsQuiet DEF CreateCase, SubmitRaises, ChangeStatusCommit, LinkCommit, UnlinkCommit
    <3> QED
      BY <3>1, <3>2, <3>3, Kinds DEF vars
  <2> QED
    BY <2>1, <2>2, <2>3
<1>2. ASSUME NEW a \in Alerts, caseOf'[a] # None PROVE Exists(caseOf[a])'
  <2>1. CASE caseOf'[a] = caseOf[a]
    <3>1. caseOf[a] \in Cases /\ Exists(caseOf[a])
      BY <1>2, <2>1 DEF OfExistingCases, TypeOK
    <3> QED
      BY <2>1, <3>1, CasesAdvance DEF Exists
  <2>2. ASSUME NEW u \in Users, LinkCommit(u), caseOf'[a] # caseOf[a] PROVE Exists(caseOf[a])'
    <3>1. caseOf'[a] = request[u].case /\ request[u].case \in Cases
      BY <2>2, LinkEffect
    <3>2. Exists(request[u].case)
      BY <2>2, LinkEffect DEF InFlightSound, SoundRequest
    <3> QED
      BY <3>1, <3>2, CasesAdvance DEF Exists
  <2>3. ASSUME NEW u \in Users, UnlinkCommit(u) PROVE caseOf'[a] = caseOf[a]
    BY <1>2, <2>3 DEF UnlinkCommit, TypeOK
  <2>4. (\A u \in Users : ~LinkCommit(u) /\ ~UnlinkCommit(u)) => caseOf' = caseOf
    BY Kinds, BeginsQuiet
    DEF vars, CreateCase, SubmitRaises, ChangeStatusCommit, Generate, SubmitCommit, FileCommit, RegisterCommit
  <2> QED
    BY <2>1, <2>2, <2>3, <2>4
<1> QED
  BY <1>1, <1>2 DEF OfExistingCases

(* What a request checked before stays true while others commit.           *)
LEMMA SoundStays ==
  ASSUME TypeOK, [Next]_vars, NEW v \in Users, SoundRequest(v), request'[v] = request[v]
  PROVE  SoundRequest(v)'
<1> SUFFICES ASSUME request[v] # None PROVE SoundRequest(v)'
  BY DEF SoundRequest
<1>1. CASE request[v].op \in {"status", "link"}
  <2>1. request[v].case \in Cases
    BY <1>1, RequestFields
  <2> QED
    BY <1>1, <2>1, CasesAdvance DEF SoundRequest, Exists
<1>2. CASE request[v].op = "submit"
  <2>1. request[v].case \in Cases /\ request[v].package \in Ids
    BY <1>2, RequestFields
  <2> QED
    BY <1>2, <2>1, CasesAdvance, PackagesAdvance DEF SoundRequest
<1>3. CASE request[v].op = "protocol"
  <2>1. request[v].package \in Ids
    BY <1>3, RequestFields
  <2> QED
    BY <1>3, <2>1, PackagesAdvance DEF SoundRequest
<1>4. CASE request[v].op \notin {"status", "link", "submit", "protocol"}
  BY <1>4 DEF SoundRequest
<1> QED
  BY <1>1, <1>2, <1>3, <1>4

(* What a request checks when it begins.                                   *)
LEMMA SoundBegins ==
  ASSUME TypeOK, NEW u \in Users, Begins(u)
  PROVE  SoundRequest(u)'
<1> USE DEF Begin, TypeOK
<1>0. UNCHANGED <<cases, packages>>
  BY BeginsQuiet
<1>1. ASSUME NEW c \in Cases, NEW s \in Statuses, ChangeStatusBegin(u, c, s) PROVE SoundRequest(u)'
  <2>1. request'[u] = [op |-> "status", case |-> c, status |-> s] /\ Exists(c)
    BY <1>1 DEF ChangeStatusBegin
  <2> QED
    BY <1>0, <2>1 DEF SoundRequest, Exists
<1>2. ASSUME NEW c \in Cases, NEW a \in Alerts, LinkBegin(u, c, a) PROVE SoundRequest(u)'
  <2>1. request'[u] = [op |-> "link", case |-> c, alert |-> a, player |-> cases[c].player,
                       source |-> cases[c].source] /\ Exists(c)
    BY <1>2 DEF LinkBegin
  <2> QED
    BY <1>0, <2>1 DEF SoundRequest, Exists
<1>3. ASSUME NEW c \in Cases, NEW a \in Alerts, UnlinkBegin(u, c, a) PROVE SoundRequest(u)'
  <2>1. request'[u] = [op |-> "unlink", alert |-> a]
    BY <1>3 DEF UnlinkBegin
  <2> QED
    BY <2>1 DEF SoundRequest
<1>4. ASSUME NEW c \in Cases, SubmitBegin(u, c) PROVE SoundRequest(u)'
  <2>1. PICK i \in PackagesOf(c) :
          /\ Submittable(u, i)
          /\ request'[u] = [op |-> "submit", package |-> i, case |-> c, closer |-> cases[c].closedBy,
                            reported |-> cases[c].status = "REPORTED"]
    BY <1>4 DEF SubmitBegin
  <2>2. packages[i].case = c /\ packages[i].maker # u /\ packages[i].decision = "FILE_SAR"
    BY <2>1 DEF Submittable, PackagesOf
  <2> QED
    BY <1>0, <2>1, <2>2 DEF SoundRequest
<1>5. ASSUME NEW i \in Nat, FileBegin(u, i) PROVE SoundRequest(u)'
  <2>1. request'[u] = [op |-> "file", package |-> i]
    BY <1>5 DEF FileBegin
  <2> QED
    BY <2>1 DEF SoundRequest
<1>6. ASSUME NEW i \in Nat, RegisterBegin(u, i) PROVE SoundRequest(u)'
  <2>1. request'[u] = [op |-> "protocol", package |-> i] /\ packages[i].status = "FILED"
    BY <1>6 DEF RegisterBegin
  <2> QED
    BY <1>0, <2>1 DEF SoundRequest
<1> QED
  BY <1>1, <1>2, <1>3, <1>4, <1>5, <1>6 DEF Begins

(* How the requests in flight change in a step.                            *)
LEMMA RequestKinds ==
  ASSUME TypeOK, [Next]_vars, NEW v \in Users
  PROVE  request'[v] = request[v] \/ request'[v] = None \/ Begins(v)
<1>1. ASSUME NEW u \in Users, Done(u) PROVE request'[v] = request[v] \/ request'[v] = None
  BY <1>1, DoneOne
<1>2. ASSUME NEW u \in Users, Begins(u) PROVE request'[v] = request[v] \/ Begins(v)
  BY <1>2, BeginsQuiet
<1> QED
  BY <1>1, <1>2, Kinds
  DEF vars, CreateCase, Generate, SubmitRaises, ChangeStatusCommit, LinkCommit, UnlinkCommit,
      SubmitCommit, FileCommit, RegisterCommit

LEMMA InFlightStep ==
  ASSUME TypeOK, InFlightSound, [Next]_vars
  PROVE  InFlightSound'
<1> SUFFICES ASSUME NEW v \in Users PROVE SoundRequest(v)'
  BY DEF InFlightSound
<1>1. CASE request'[v] = request[v]
  BY <1>1, SoundStays DEF InFlightSound
<1>2. CASE request'[v] = None
  BY <1>2 DEF SoundRequest
<1>3. CASE Begins(v)
  BY <1>3, SoundBegins
<1> QED
  BY <1>1, <1>2, <1>3, RequestKinds

(* Only a submission adds to the timeline, and it had checked its package. *)
LEMMA SubmissionsStep ==
  ASSUME TypeOK, TypeOK', InFlightSound, OfExistingCases, SubmissionsSound, [Next]_vars
  PROVE  SubmissionsSound'
<1> DEFINE Good(i, u) ==
      /\ packages'[i].status = "FILED" /\ packages'[i].decision = "FILE_SAR"
      /\ packages'[i].maker # u /\ cases'[packages'[i].case].status # None
<1>1. ASSUME NEW j \in 1..Len(submitted)
      PROVE  Good(submitted[j].package, submitted[j].by)
  <2> DEFINE x == submitted[j]
  <2>1. x \in [package : Ids, by : Users]
    <3> HIDE DEF Ids
    <3> QED
      BY ElementOfSeq DEF TypeOK
  <2>2. x.package \in Ids
    BY <2>1
  <2>3. /\ packages[x.package].status = "FILED" /\ packages[x.package].decision = "FILE_SAR"
        /\ packages[x.package].maker # x.by
    BY DEF SubmissionsSound
  <2> HIDE DEF x
  <2>4. Good(x.package, x.by)
    BY <2>2, <2>3, PackagesAdvance, PackageCaseLives
  <2> QED
    BY <2>4 DEF x
<1>2. CASE submitted' = submitted
  BY <1>1, <1>2 DEF SubmissionsSound, Exists
<1>3. ASSUME NEW u \in Users, SubmitCommit(u) PROVE SubmissionsSound'
  <2> DEFINE k == request[u].package
             x == [package |-> k, by |-> u]
  <2>1. /\ k \in Ids /\ request[u] # None /\ request[u].op = "submit"
    BY <1>3, SubmitEffect
  <2>2. packages[k].maker # u /\ packages[k].decision = "FILE_SAR"
    BY <2>1 DEF InFlightSound, SoundRequest
  <2>4. packages'[k].status = "FILED"
    BY <1>3, FilesEffect
  <2>5. Good(k, u)
    <3> HIDE DEF k
    <3> QED
      BY <2>1, <2>2, <2>4, PackagesAdvance, PackageCaseLives
  <2>6. submitted' = Append(submitted, x)
    BY <1>3 DEF SubmitCommit
  <2>7. x.package = k /\ x.by = u
    OBVIOUS
  <2>8. submitted \in Seq([package : Ids, by : Users]) /\ x \in [package : Ids, by : Users]
    BY <2>1 DEF TypeOK
  <2> HIDE DEF x, k
  <2>9. /\ Len(submitted') = Len(submitted) + 1
        /\ \A j \in 1..Len(submitted) : submitted'[j] = submitted[j]
        /\ submitted'[Len(submitted) + 1] = x
    BY <2>6, <2>8, AppendProperties
  <2> HIDE DEF Good
  <2>10. ASSUME NEW j \in 1..Len(submitted') PROVE Good(submitted'[j].package, submitted'[j].by)
    <3>1. CASE j \in 1..Len(submitted)
      BY <1>1, <2>9, <3>1
    <3>2. CASE j = Len(submitted) + 1
      BY <2>5, <2>7, <2>9, <3>2
    <3> QED
      BY <2>8, <2>9, <3>1, <3>2
  <2> QED
    BY <2>10 DEF SubmissionsSound, Good, Exists
<1>4. (\A u \in Users : ~SubmitCommit(u)) => submitted' = submitted
  BY Kinds, BeginsQuiet
  DEF vars, CreateCase, SubmitRaises, ChangeStatusCommit, LinkCommit, UnlinkCommit, Generate,
      FileCommit, RegisterCommit
<1> QED
  BY <1>2, <1>3, <1>4

LEMMA FinalStep ==
  ASSUME TypeOK, InFlightSound, FilingFinal, [Next]_vars
  PROVE  FilingFinal'
<1> USE CaseAssumption
<1> DEFINE Good(p) == /\ p.protocol => p.status = "FILED"
                      /\ p.status = "FILED" <=> p.filer # None
<1>1. \A i \in Ids : Good(packages[i]) /\ packages[i] \in Package
  BY DEF FilingFinal, TypeOK, Ids
<1>2. ASSUME NEW u \in Users, SubmitCommit(u) \/ FileCommit(u), NEW i \in Ids
      PROVE  Ids' = Ids /\ Good(packages'[i])
  <2>1. CASE i = request[u].package
    BY <1>2, <2>1, FilesEffect
  <2>2. CASE i # request[u].package
    BY <1>1, <1>2, <2>2, FilesEffect
  <2> QED
    BY <2>1, <2>2
<1>3. ASSUME NEW u \in Users, RegisterCommit(u), NEW i \in Ids
      PROVE  Ids' = Ids /\ Good(packages'[i])
  <2>1. CASE i = request[u].package
    <3>1. packages[i].status = "FILED"
      BY <1>3, <2>1, RegisterEffect DEF InFlightSound, SoundRequest
    <3> QED
      BY <1>1, <1>3, <2>1, <3>1, RegisterEffect
  <2>2. CASE i # request[u].package
    BY <1>1, <1>3, <2>2, RegisterEffect
  <2> QED
    BY <2>1, <2>2
<1>4. ASSUME NEW u \in Users, NEW c \in Cases, NEW d \in Decisions, Generate(u, c, d), NEW i \in Ids'
      PROVE  Good(packages'[i])
  BY <1>1, <1>4, AddPackage
<1>5. packages' = packages => Ids' = Ids
  BY DEF Ids
<1>6. ASSUME NEW u \in Users,
             \/ Begins(u)
             \/ \E c \in Cases, y \in Players \cup {None} : CreateCase(u, c, y)
             \/ \E c \in Cases : SubmitRaises(u, c)
             \/ ChangeStatusCommit(u) \/ LinkCommit(u) \/ UnlinkCommit(u)
      PROVE  packages' = packages
  BY <1>6, BeginsQuiet DEF CreateCase, SubmitRaises, ChangeStatusCommit, LinkCommit, UnlinkCommit
<1>7. SUFFICES ASSUME NEW i \in Ids' PROVE Good(packages'[i])
  BY DEF FilingFinal
<1>8. CASE packages' = packages
  BY <1>1, <1>5, <1>8
<1>9. ASSUME NEW u \in Users, SubmitCommit(u) \/ FileCommit(u) PROVE Good(packages'[i])
  <2>1. i \in Ids
    BY <1>9, FilesEffect
  <2> QED
    BY <1>2, <1>9, <2>1
<1>10. ASSUME NEW u \in Users, RegisterCommit(u) PROVE Good(packages'[i])
  <2>1. i \in Ids
    BY <1>10, RegisterEffect
  <2> QED
    BY <1>3, <1>10, <2>1
<1> HIDE DEF Good
<1> QED
  BY <1>4, <1>6, <1>8, <1>9, <1>10, Kinds DEF vars

LEMMA CloserStep ==
  ASSUME TypeOK, InFlightSound, ClosedHasCloser, [Next]_vars
  PROVE  ClosedHasCloser'
<1> USE CaseAssumption
<1> SUFFICES ASSUME NEW c \in Cases, cases'[c].status \in {"CLOSED", "REPORTED"}
             PROVE  cases'[c].closedBy # None
  BY DEF ClosedHasCloser
<1>1. CASE cases' = cases
  BY <1>1 DEF ClosedHasCloser
<1>2. ASSUME NEW u \in Users, NEW d \in Cases, NEW y, CreateCase(u, d, y)
      PROVE  cases'[c].closedBy # None
  BY <1>2, CreateEffect DEF ClosedHasCloser
<1>3. ASSUME NEW u \in Users, ChangeStatusCommit(u) PROVE cases'[c].closedBy # None
  <2>1. CASE c = request[u].case
    BY <1>3, <2>1, StatusEffect
  <2>2. CASE c # request[u].case
    BY <1>3, <2>2, StatusEffect DEF ClosedHasCloser
  <2> QED
    BY <2>1, <2>2
<1>4. ASSUME NEW u \in Users, LinkCommit(u) PROVE cases'[c].closedBy # None
  BY <1>4, LinkEffect DEF ClosedHasCloser
<1>5. ASSUME NEW u \in Users, SubmitCommit(u) PROVE cases'[c].closedBy # None
  <2>1. CASE c = request[u].case
    <3>1. request[u] # None /\ request[u].op = "submit"
      BY <1>5, SubmitEffect
    <3>2. request[u].closer # None => cases[c].closedBy # None
      BY <2>1, <3>1 DEF InFlightSound, SoundRequest
    <3> QED
      BY <1>5, <2>1, <3>2, SubmitEffect
  <2>2. CASE c # request[u].case
    BY <1>5, <2>2, SubmitEffect DEF ClosedHasCloser
  <2> QED
    BY <2>1, <2>2
<1>6. ASSUME NEW u \in Users,
             \/ Begins(u)
             \/ \E d \in Cases, x \in Decisions : Generate(u, d, x)
             \/ \E d \in Cases : SubmitRaises(u, d)
             \/ UnlinkCommit(u) \/ FileCommit(u) \/ RegisterCommit(u)
      PROVE  cases' = cases
  BY <1>6, BeginsQuiet DEF Generate, SubmitRaises, UnlinkCommit, FileCommit, RegisterCommit
<1> QED
  BY <1>1, <1>2, <1>3, <1>4, <1>5, <1>6, Kinds DEF vars

-----------------------------------------------------------------------------
(* While no two requests overlap.                                          *)

(* Once two requests have overlapped, they have.                           *)
LEMMA RacedStays ==
  ASSUME TypeOK, [Next]_vars, ~raced'
  PROVE  ~raced
BY Kinds, BeginsQuiet
DEF TypeOK, vars, CreateCase, Generate, SubmitRaises, ChangeStatusCommit, LinkCommit, UnlinkCommit,
    SubmitCommit, FileCommit, RegisterCommit

(* What a lone request checks when it begins.                              *)
LEMMA FreshBegins ==
  ASSUME TypeOK, NEW u \in Users, Begins(u), InFlight = {}
  PROVE  FreshRequest(u)'
<1> USE DEF Begin, TypeOK
<1>1. UNCHANGED <<cases, packages>>
  BY BeginsQuiet
<1>2. \A v \in Users : request'[v] # None => v = u
  BY BeginsQuiet DEF InFlight
<1>3. ASSUME NEW c \in Cases, NEW s \in Statuses, ChangeStatusBegin(u, c, s) PROVE FreshRequest(u)'
  <2>1. request'[u] = [op |-> "status", case |-> c, status |-> s] /\ s \in Transitions[cases[c].status]
    BY <1>3 DEF ChangeStatusBegin
  <2> QED
    BY <1>1, <1>2, <2>1 DEF FreshRequest
<1>4. ASSUME NEW c \in Cases, NEW a \in Alerts, LinkBegin(u, c, a) PROVE FreshRequest(u)'
  <2>1. /\ request'[u] = [op |-> "link", case |-> c, alert |-> a, player |-> cases[c].player,
                          source |-> cases[c].source]
        /\ cases[c].player \in {None, PlayerOf[a]}
    BY <1>4 DEF LinkBegin
  <2> QED
    BY <1>1, <1>2, <2>1 DEF FreshRequest
<1>5. ASSUME NEW c \in Cases, NEW a \in Alerts, UnlinkBegin(u, c, a) PROVE FreshRequest(u)'
  <2>1. request'[u] = [op |-> "unlink", alert |-> a]
    BY <1>5 DEF UnlinkBegin
  <2> QED
    BY <1>2, <2>1 DEF FreshRequest
<1>6. ASSUME NEW c \in Cases, SubmitBegin(u, c) PROVE FreshRequest(u)'
  <2>1. PICK i \in PackagesOf(c) :
          /\ Submittable(u, i)
          /\ request'[u] = [op |-> "submit", package |-> i, case |-> c, closer |-> cases[c].closedBy,
                            reported |-> cases[c].status = "REPORTED"]
    BY <1>6 DEF SubmitBegin
  <2>2. packages[i].status # "FILED"
    BY <2>1 DEF Submittable
  <2> QED
    BY <1>1, <1>2, <2>1, <2>2 DEF FreshRequest
<1>7. ASSUME NEW i \in Nat, FileBegin(u, i) \/ RegisterBegin(u, i) PROVE FreshRequest(u)'
  <2>1. request'[u] \in {[op |-> "file", package |-> i], [op |-> "protocol", package |-> i]}
    BY <1>7 DEF FileBegin, RegisterBegin
  <2> QED
    BY <1>2, <2>1 DEF FreshRequest
<1> QED
  BY <1>3, <1>4, <1>5, <1>6, <1>7 DEF Begins

(* A lone request is not disturbed by the handlers that never wait.        *)
LEMMA FreshStays ==
  ASSUME TypeOK, NEW u \in Users, NEW v \in Users, SoundRequest(v), FreshRequest(v),
         \/ \E c \in Cases, y \in Players \cup {None} : CreateCase(u, c, y)
         \/ \E c \in Cases, d \in Decisions : Generate(u, c, d)
         \/ \E c \in Cases : SubmitRaises(u, c)
  PROVE  FreshRequest(v)'
<1>1. request' = request
  BY DEF CreateCase, Generate, SubmitRaises
<1> SUFFICES ASSUME request[v] # None PROVE FreshRequest(v)'
  BY <1>1 DEF FreshRequest
<1>2. CASE request[v].op \in {"status", "link"}
  <2>1. request[v].case \in Cases /\ Exists(request[v].case)
    BY <1>2, RequestFields DEF SoundRequest
  <2>2. cases'[request[v].case] = cases[request[v].case]
    BY <2>1, CreateEffect DEF Generate, SubmitRaises
  <2> QED
    BY <1>1, <1>2, <2>2 DEF FreshRequest
<1>3. CASE request[v].op = "submit"
  <2>1. request[v].package \in Ids
    BY <1>3, RequestFields
  <2>2. packages'[request[v].package] = packages[request[v].package]
    BY <2>1, AddPackage DEF CreateCase, SubmitRaises
  <2> QED
    BY <1>1, <1>3, <2>2 DEF FreshRequest
<1>4. CASE request[v].op \notin {"status", "link", "submit"}
  BY <1>1, <1>4 DEF FreshRequest
<1> QED
  BY <1>2, <1>3, <1>4

LEMMA UndisturbedStep ==
  ASSUME TypeOK, InFlightSound, Undisturbed, [Next]_vars
  PROVE  Undisturbed'
<1> SUFFICES ASSUME ~raced', NEW v \in Users PROVE FreshRequest(v)'
  BY DEF Undisturbed
<1>1. \A u \in Users : FreshRequest(u)
  BY RacedStays DEF Undisturbed
<1>2. ASSUME NEW u \in Users, Begins(u) PROVE FreshRequest(v)'
  <2>1. InFlight = {}
    BY <1>2, BeginsQuiet
  <2>2. CASE v = u
    BY <1>2, <2>1, <2>2, FreshBegins
  <2>3. CASE v # u
    BY <1>2, <2>1, <2>3, BeginsQuiet DEF InFlight, FreshRequest
  <2> QED
    BY <2>2, <2>3
<1>3. ASSUME NEW u \in Users, request[u] # None, Done(u) PROVE FreshRequest(v)'
  <2>1. \A w \in Users : request[w] # None => w = u
    BY <1>1, <1>3 DEF FreshRequest
  <2>2. request'[v] = None
    BY <1>3, <2>1, DoneOne
  <2> QED
    BY <2>2 DEF FreshRequest
<1>4. ASSUME NEW u \in Users,
             \/ ChangeStatusCommit(u) \/ LinkCommit(u) \/ UnlinkCommit(u)
             \/ SubmitCommit(u) \/ FileCommit(u) \/ RegisterCommit(u)
      PROVE  request[u] # None /\ Done(u)
  BY <1>4 DEF Handling, ChangeStatusCommit, LinkCommit, UnlinkCommit, SubmitCommit, FileCommit,
              RegisterCommit
<1>5. ASSUME NEW u \in Users,
             \/ \E c \in Cases, y \in Players \cup {None} : CreateCase(u, c, y)
             \/ \E c \in Cases, d \in Decisions : Generate(u, c, d)
             \/ \E c \in Cases : SubmitRaises(u, c)
      PROVE  FreshRequest(v)'
  BY <1>1, <1>5, FreshStays DEF InFlightSound
<1>6. CASE UNCHANGED vars
  BY <1>1, <1>6 DEF vars, FreshRequest
<1> QED
  BY <1>2, <1>3, <1>4, <1>5, <1>6, Kinds

(* A lone submission finds a package that was not submitted before.        *)
LEMMA OnceStep ==
  ASSUME TypeOK, SubmissionsSound, SubmittedOnce, \A v \in Users : FreshRequest(v), [Next]_vars
  PROVE  SubmittedOnce'
<1>1. CASE submitted' = submitted
  BY <1>1 DEF SubmittedOnce
<1>2. ASSUME NEW u \in Users, SubmitCommit(u) PROVE SubmittedOnce'
  <2> DEFINE k == request[u].package
             x == [package |-> k, by |-> u]
  <2>1. k \in Ids /\ request[u] # None /\ request[u].op = "submit"
    BY <1>2, SubmitEffect
  <2>2. packages[k].status # "FILED"
    BY <2>1 DEF FreshRequest
  <2>3. \A j \in 1..Len(submitted) : submitted[j].package # k
    BY <2>2 DEF SubmissionsSound
  <2>4. submitted' = Append(submitted, x)
    BY <1>2 DEF SubmitCommit
  <2>5. x.package = k
    OBVIOUS
  <2>6. submitted \in Seq([package : Ids, by : Users]) /\ x \in [package : Ids, by : Users]
    BY <2>1 DEF TypeOK
  <2> HIDE DEF x, k
  <2>7. /\ Len(submitted) \in Nat
        /\ Len(submitted') = Len(submitted) + 1
        /\ \A j \in 1..Len(submitted) : submitted'[j] = submitted[j]
        /\ submitted'[Len(submitted) + 1] = x
    BY <2>4, <2>6, AppendProperties
  <2>8. ASSUME NEW i \in 1..Len(submitted'), NEW j \in 1..Len(submitted'),
               submitted'[i].package = submitted'[j].package
        PROVE  i = j
    <3>1. CASE i \in 1..Len(submitted) /\ j \in 1..Len(submitted)
      BY <2>7, <2>8, <3>1 DEF SubmittedOnce
    <3>2. CASE i = Len(submitted) + 1 \/ j = Len(submitted) + 1
      BY <2>3, <2>5, <2>7, <2>8, <3>2
    <3> QED
      BY <2>7, <3>1, <3>2
  <2> QED
    BY <2>8 DEF SubmittedOnce
<1>3. (\A u \in Users : ~SubmitCommit(u)) => submitted' = submitted
  BY Kinds, BeginsQuiet
  DEF vars, CreateCase, SubmitRaises, ChangeStatusCommit, LinkCommit, UnlinkCommit, Generate,
      FileCommit, RegisterCommit
<1> QED
  BY <1>1, <1>2, <1>3

(* A lone link finds the player that the case has when it commits.         *)
LEMMA OnePlayerStep ==
  ASSUME TypeOK, OfExistingCases, AlertsOfOnePlayer, \A v \in Users : FreshRequest(v), [Next]_vars
  PROVE  AlertsOfOnePlayer'
<1> USE CaseAssumption
<1> SUFFICES ASSUME NEW a \in Alerts, caseOf'[a] # None
             PROVE  cases'[caseOf'[a]].player = PlayerOf[a]
  BY DEF AlertsOfOnePlayer
<1>1. ASSUME caseOf[a] # None
      PROVE  caseOf[a] \in Cases /\ Exists(caseOf[a]) /\ cases[caseOf[a]].player = PlayerOf[a]
  BY <1>1 DEF TypeOK, OfExistingCases, AlertsOfOnePlayer
<1>2. CASE cases' = cases /\ caseOf' = caseOf
  BY <1>1, <1>2
<1>3. ASSUME NEW u \in Users, NEW c \in Cases, NEW y, CreateCase(u, c, y)
      PROVE  cases'[caseOf'[a]].player = PlayerOf[a]
  BY <1>1, <1>3, CreateEffect
<1>4. ASSUME NEW u \in Users, ChangeStatusCommit(u) PROVE cases'[caseOf'[a]].player = PlayerOf[a]
  <2>1. caseOf' = caseOf
    BY <1>4, StatusEffect
  <2>2. CASE caseOf[a] = request[u].case
    BY <1>1, <1>4, <2>1, <2>2, StatusEffect
  <2>3. CASE caseOf[a] # request[u].case
    BY <1>1, <1>4, <2>1, <2>3, StatusEffect
  <2> QED
    BY <2>2, <2>3
<1>5. ASSUME NEW u \in Users, SubmitCommit(u) PROVE cases'[caseOf'[a]].player = PlayerOf[a]
  <2>1. caseOf' = caseOf
    BY <1>5, SubmitEffect
  <2>2. CASE caseOf[a] = request[u].case
    BY <1>1, <1>5, <2>1, <2>2, SubmitEffect
  <2>3. CASE caseOf[a] # request[u].case
    BY <1>1, <1>5, <2>1, <2>3, SubmitEffect
  <2> QED
    BY <2>2, <2>3
<1>6. ASSUME NEW u \in Users, LinkCommit(u) PROVE cases'[caseOf'[a]].player = PlayerOf[a]
  <2> DEFINE r == request[u]
  <2>1. r # None /\ r.op = "link" /\ r.case \in Cases /\ r.alert \in Alerts
    BY <1>6, LinkEffect
  <2>2. r.player = cases[r.case].player /\ r.player \in {None, PlayerOf[r.alert]}
    BY <2>1 DEF FreshRequest
  <2>3. /\ r.player = None => cases'[r.case].player = PlayerOf[r.alert]
        /\ r.player # None => cases'[r.case].player = cases[r.case].player
        /\ \A d \in Cases \ {r.case} : cases'[d] = cases[d]
        /\ caseOf'[r.alert] = r.case
        /\ \A b \in Alerts \ {r.alert} : caseOf'[b] = caseOf[b]
    BY <1>6, LinkEffect
  <2>4. PlayerOf[a] # None
    OBVIOUS
  <2> HIDE DEF r
  <2>5. CASE a = r.alert
    BY <2>2, <2>3, <2>5
  <2>6. CASE a # r.alert /\ caseOf[a] = r.case
    BY <1>1, <2>2, <2>3, <2>4, <2>6
  <2>7. CASE a # r.alert /\ caseOf[a] # r.case
    BY <1>1, <2>3, <2>7
  <2> QED
    BY <2>5, <2>6, <2>7
<1>7. ASSUME NEW u \in Users, UnlinkCommit(u) PROVE cases'[caseOf'[a]].player = PlayerOf[a]
  <2>1. caseOf'[a] = caseOf[a] /\ cases' = cases
    BY <1>7 DEF UnlinkCommit, TypeOK
  <2> QED
    BY <1>1, <2>1
<1>8. ASSUME NEW u \in Users,
             \/ Begins(u)
             \/ \E d \in Cases, x \in Decisions : Generate(u, d, x)
             \/ \E d \in Cases : SubmitRaises(u, d)
             \/ FileCommit(u) \/ RegisterCommit(u)
      PROVE  cases' = cases /\ caseOf' = caseOf
  BY <1>8, BeginsQuiet DEF Generate, SubmitRaises, FileCommit, RegisterCommit
<1> QED
  BY <1>2, <1>3, <1>4, <1>5, <1>6, <1>7, <1>8, Kinds DEF vars

LEMMA SequentialStep ==
  ASSUME TypeOK, OfExistingCases, SubmissionsSound, Undisturbed, SequentiallySound, [Next]_vars
  PROVE  SequentiallySound'
<1> SUFFICES ASSUME ~raced' PROVE SubmittedOnce' /\ AlertsOfOnePlayer'
  BY DEF SequentiallySound
<1>1. ~raced
  BY RacedStays
<1> QED
  BY <1>1, OnceStep, OnePlayerStep DEF Undisturbed, SequentiallySound

(* No lone request takes a case out of REPORTED.                           *)
LEMMA ReportedStep ==
  ASSUME TypeOK, Undisturbed, [Next]_vars, ~raced',
         NEW c \in Cases, cases[c].status = "REPORTED"
  PROVE  cases'[c].status = "REPORTED"
<1> USE CaseAssumption
<1>1. CASE cases' = cases
  BY <1>1
<1>2. ASSUME NEW u \in Users, NEW d \in Cases, NEW y, CreateCase(u, d, y)
      PROVE  cases'[c].status = "REPORTED"
  BY <1>2, CreateEffect DEF Exists, Statuses
<1>3. ASSUME NEW u \in Users, ChangeStatusCommit(u) PROVE cases'[c].status = "REPORTED"
  <2>1. request[u] # None /\ request[u].op = "status"
    BY <1>3, StatusEffect
  <2>2. request[u].status \in Transitions[cases[request[u].case].status]
    BY <2>1, RacedStays DEF Undisturbed, FreshRequest
  <2>3. c # request[u].case
    BY <2>2 DEF Transitions
  <2> QED
    BY <1>3, <2>3, StatusEffect
<1>4. ASSUME NEW u \in Users, LinkCommit(u) PROVE cases'[c].status = "REPORTED"
  BY <1>4, LinkEffect
<1>5. ASSUME NEW u \in Users, SubmitCommit(u) PROVE cases'[c].status = "REPORTED"
  <2>1. CASE c = request[u].case
    BY <1>5, <2>1, SubmitEffect
  <2>2. CASE c # request[u].case
    BY <1>5, <2>2, SubmitEffect
  <2> QED
    BY <2>1, <2>2
<1>6. ASSUME NEW u \in Users,
             \/ Begins(u)
             \/ \E d \in Cases, x \in Decisions : Generate(u, d, x)
             \/ \E d \in Cases : SubmitRaises(u, d)
             \/ UnlinkCommit(u) \/ FileCommit(u) \/ RegisterCommit(u)
      PROVE  cases' = cases
  BY <1>6, BeginsQuiet DEF Generate, SubmitRaises, UnlinkCommit, FileCommit, RegisterCommit
<1> QED
  BY <1>1, <1>2, <1>3, <1>4, <1>5, <1>6, Kinds DEF vars

-----------------------------------------------------------------------------
(* Every step preserves the invariant.                                     *)
LEMMA InvStep == IInv /\ [Next]_vars => IInv'
<1> SUFFICES ASSUME IInv, [Next]_vars PROVE IInv'
  OBVIOUS
<1>1. TypeOK'
  BY TypeStep DEF IInv
<1>2. InFlightSound' /\ OfExistingCases'
  BY InFlightStep, ExistingStep DEF IInv
<1>3. SubmissionsSound'
  BY <1>1, SubmissionsStep DEF IInv
<1>4. FilingFinal' /\ ClosedHasCloser'
  BY FinalStep, CloserStep DEF IInv
<1>5. Undisturbed' /\ SequentiallySound'
  BY UndisturbedStep, SequentialStep DEF IInv
<1> QED
  BY <1>1, <1>2, <1>3, <1>4, <1>5 DEF IInv

(* The invariant holds of every reachable state of the case handlers.      *)
THEOREM Invariance == Spec => []IInv
BY InitInv, InvStep, PTL DEF Spec

(* Tables and requests in flight keep their types.                         *)
THEOREM TypeCorrect == Spec => []TypeOK
<1>1. IInv => TypeOK
  BY DEF IInv
<1> QED
  BY <1>1, Invariance, PTL

(* Under any interleaving of the handlers of cases.py, what was submitted  *)
(* is a filed FILE_SAR package of another maker, stays filed, and a closed *)
(* or reported case has a closer: FilingSound.                             *)
THEOREM FilingIsSound == Spec => []FilingSound
<1>1. IInv => FilingSound
  BY DEF IInv, FilingSound
<1> QED
  BY <1>1, Invariance, PTL

(* While no two requests have overlapped, a package is submitted once and  *)
(* the alerts of a case are of its player.                                 *)
THEOREM SoundInSequence == Spec => []SequentiallySound
<1>1. IInv => SequentiallySound
  BY DEF IInv
<1> QED
  BY <1>1, Invariance, PTL

(* While no two requests have overlapped, REPORTED is a terminal status.   *)
THEOREM ReportedIsTerminal == Spec => ReportedTerminal
<1> DEFINE Stays == \A c \in Cases :
             (cases[c].status = "REPORTED" /\ ~raced') => cases'[c].status = "REPORTED"
<1>1. IInv /\ [Next]_vars => [Stays]_vars
  BY ReportedStep DEF IInv
<1> QED
  BY <1>1, Invariance, PTL DEF Spec, ReportedTerminal
=============================================================================
