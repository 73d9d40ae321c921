------------------------------- MODULE FilingDesk -------------------------------
(***************************************************************************)
(* The three readings of what is left to report to COAF that managers      *)
(* work from, services/api/routers/cases.py: filing-queue, filing-overview *)
(* and filing-hotlist (and report-filing-status for one case).  They take  *)
(* the packages of the tenant from the newest to the oldest.               *)
(***************************************************************************)
EXTENDS Naturals, Sequences, FiniteSets, FiniteSetsExt

CONSTANTS
  Packages,    \* inputs: sequences of Package, newest first
  QueueLimit,  \* `limit` of the queue
  QueueScan    \* packages it reads: five times the limit, 1000 at most

(* sar: the decision is FILE_SAR (REPORT); age in days.                    *)
Package == [case : Nat, sar : BOOLEAN, filed : BOOLEAN, registered : BOOLEAN, age : Nat]

ASSUME QueueAssumption ==
  /\ QueueLimit \in Nat /\ QueueScan \in Nat /\ QueueLimit <= QueueScan
  /\ Packages \subseteq Seq(Package)

VARIABLE pile

FilingInit == pile \in Packages

Lines == DOMAIN pile

-----------------------------------------------------------------------------
(* _compute_filing_state_for_report_package                                *)
RequiresSubmission(i) == pile[i].sar /\ ~pile[i].filed
MissingProtocol(i) == pile[i].filed /\ ~pile[i].registered

DeadlineState(i) ==
  CASE RequiresSubmission(i) /\ pile[i].age >= 30 -> "BREACH"
    [] RequiresSubmission(i) /\ pile[i].age \in 23..29 -> "WARNING"
    [] OTHER -> "OK"

(* The newest package of each case, or all, of the first scan.             *)
Listed(scan, all) ==
  {i \in Lines : i <= scan /\ (all \/ ~\E j \in 1..(i - 1) : pile[j].case = pile[i].case)}

(* The first n in an order by rank, then by age, then by case.             *)
Before(rank, i, j) ==
  \/ rank[i] < rank[j]
  \/ rank[i] = rank[j] /\ pile[i].age > pile[j].age
  \/ /\ rank[i] = rank[j] /\ pile[i].age = pile[j].age
     /\ \/ pile[i].case < pile[j].case
        \/ pile[i].case = pile[j].case /\ i < j
First(n, set, rank) ==
  {i \in set : Cardinality({j \in set : Before(rank, j, i)}) < n}

-----------------------------------------------------------------------------
DeadlineRank ==
  [i \in Lines |-> [BREACH |-> 0, WARNING |-> 1, OK |-> 2][DeadlineState(i)]]

(* get_report_filing_queue                                                 *)
Queue(all) == First(QueueLimit, Listed(QueueScan, all), DeadlineRank)

(* get_report_filing_overview                                              *)
Overview(all) ==
  LET set == Listed(Len(pile), all)
      pending == {i \in set : RequiresSubmission(i)}
  IN  [submissions |-> Cardinality(pending),
       protocols   |-> Cardinality({i \in set : MissingProtocol(i)}),
       breaches    |-> Cardinality({i \in set : DeadlineState(i) = "BREACH"}),
       oldest      |-> IF pending = {} THEN 0 ELSE Max({pile[i].age : i \in pending})]

(* get_report_filing_hotlist: a package to submit before one that has no   *)
(* protocol number.                                                        *)
HotRank ==
  [i \in Lines |-> IF RequiresSubmission(i) THEN DeadlineRank[i] ELSE 3]
Actionable(all) == {i \in Listed(Len(pile), all) : RequiresSubmission(i) \/ MissingProtocol(i)}
Hotlist(n, all) == First(n, Actionable(all), HotRank)

-----------------------------------------------------------------------------
(* "Lista fila operacional, priorizada por risco de prazo": a package that *)
(* is overdue is in the queue, unless the queue is full of overdue ones, a *)
(* newer package of the case hides it, or more packages are newer than the *)
(* queue reads, when it is the overdue ones that are left out.             *)
OverdueQueued ==
  \A all \in BOOLEAN, i \in Lines :
    DeadlineState(i) = "BREACH" /\ i \notin Queue(all) =>
      \/ i > QueueScan
      \/ ~all /\ \E j \in 1..(i - 1) : pile[j].case = pile[i].case
      \/ /\ Cardinality(Queue(all)) = QueueLimit
         /\ \A j \in Queue(all) : DeadlineState(j) = "BREACH" /\ pile[j].age >= pile[i].age

(* Overview and hotlist count the same work: a submission or a protocol    *)
(* number for each line, and all the overdue ones come first.              *)
ViewsAgree ==
  \A all \in BOOLEAN :
    LET hot == Hotlist(Len(pile), all)
        view == Overview(all)
    IN  /\ Cardinality(hot) = view.submissions + view.protocols
        /\ \A n \in Lines : \/ n < view.breaches
                           \/ Cardinality({i \in Hotlist(n, all) : DeadlineState(i) = "BREACH"}) = view.breaches
        /\ view.breaches > 0 => \E i \in Hotlist(1, all) : pile[i].age = view.oldest
=============================================================================
