-------------------------- MODULE ApiRequests_proofs ---------------------------
(***************************************************************************)
(* What the proofs about the handlers share: how the steps of a request    *)
(* change the table of requests, what holds of requests as long as no two  *)
(* were under way at once, and two facts about numbers.                    *)
(***************************************************************************)
EXTENDS ApiRequests, WellFoundedInduction, TLAPS

RequestTypeOK ==
  /\ DOMAIN request = Workers
  /\ calls \in Nat /\ calls <= MaxCalls
  /\ crossed \in BOOLEAN

(* Until two requests overlap, a request is alone.                         *)
OneAtATime ==
  ~crossed => \A v, w \in Workers : request[v] # None /\ request[w] # None => v = w

RequestInv == RequestTypeOK /\ OneAtATime

(* No request is under way at first.                                       *)
LEMMA RequestsInit ==
  ASSUME RequestInit PROVE RequestInv /\ \A w \in Workers : request[w] = None
<1>1. \A w \in Workers : request[w] = None
  BY DEF RequestInit
<1>2. RequestTypeOK
  <2>1. DOMAIN request = Workers /\ crossed \in BOOLEAN
    BY DEF RequestInit
  <2>2. calls \in Nat /\ calls <= MaxCalls
    BY RequestAssumption DEF RequestInit
  <2> QED
    BY <2>1, <2>2 DEF RequestTypeOK
<1> QED
  BY <1>1, <1>2 DEF RequestInv, OneAtATime

(* The step that begins a request.                                         *)
LEMMA BeginStep ==
  ASSUME RequestInv, NEW w \in Workers, NEW r, Begin(w, r)
  PROVE  /\ RequestInv'
         /\ request'[w] = r /\ \A v \in Workers \ {w} : request'[v] = request[v]
         /\ calls' = calls + 1
         /\ ~crossed' => ~crossed /\ \A v \in Workers \ {w} : request'[v] = None
<1>1. RequestTypeOK'
  BY RequestAssumption DEF Begin, RequestInv, RequestTypeOK
<1>2. request'[w] = r /\ \A v \in Workers \ {w} : request'[v] = request[v]
  BY DEF Begin, RequestInv, RequestTypeOK
<1>3. ~crossed' => ~crossed /\ \A v \in Workers : request[v] = None
  BY DEF Begin, UnderWay, RequestInv, RequestTypeOK
<1>4. OneAtATime'
  BY <1>2, <1>3 DEF OneAtATime
<1> QED
  BY <1>1, <1>2, <1>3, <1>4 DEF RequestInv, Begin

(* A step in which a request that is under way goes on or ends.            *)
LEMMA GoesOnStep ==
  ASSUME RequestInv, NEW w \in Workers, NEW r, request[w] # None, GoesOn(w, r)
  PROVE  /\ RequestInv'
         /\ request'[w] = r /\ \A v \in Workers \ {w} : request'[v] = request[v]
         /\ UNCHANGED <<calls, crossed>>
         /\ ~crossed => \A v \in Workers \ {w} : request'[v] = None
<1>1. RequestTypeOK'
  BY DEF GoesOn, RequestInv, RequestTypeOK
<1>2. request'[w] = r /\ \A v \in Workers \ {w} : request'[v] = request[v]
  BY DEF GoesOn, RequestInv, RequestTypeOK
<1>3. ~crossed => \A v \in Workers \ {w} : request[v] = None
  BY DEF RequestInv, OneAtATime
<1>4. OneAtATime'
  BY <1>2, <1>3 DEF OneAtATime, GoesOn
<1> QED
  BY <1>1, <1>2, <1>3, <1>4 DEF RequestInv, GoesOn

(* A step that leaves the requests, counted or not.                        *)
LEMMA StatementStep ==
  ASSUME RequestInv, Statement \/ UNCHANGED requestVars
  PROVE  RequestInv' /\ UNCHANGED <<request, crossed>> /\ calls' \in {calls, calls + 1}
BY RequestAssumption DEF RequestInv, RequestTypeOK, OneAtATime, Statement, requestVars

(* A set of numbers that has a bound has a greatest.                       *)
LEMMA GreatestExists ==
  ASSUME NEW S, S \subseteq Nat, S # {}, NEW b \in Nat, \A x \in S : x <= b
  PROVE  \E x \in S : \A y \in S : y <= x
<1> DEFINE T == {n \in Nat : \A x \in S : x <= n}
<1> DEFINE Less == {p \in Nat \X Nat : p[1] < p[2]}
<1>1. IsWellFoundedOn(Less, Nat)
  BY NatLessThanWellFounded DEF OpToRel
<1>2. T \subseteq Nat /\ T # {}
  OBVIOUS
<1> HIDE DEF T
<1>3. PICK m \in T : \A n \in T : ~ (<<n, m>> \in Less)
  <2> HIDE DEF Less
  <2> QED
    BY <1>1, <1>2, WFMin
<1>4. \A n \in T : ~ (n < m)
  BY <1>3, <1>2
<1>5. CASE m \in S
  BY <1>5 DEF T
<1>6. CASE m \notin S
  <2>1. \A x \in S : x <= m - 1
    BY <1>2, <1>6 DEF T
  <2>2. m \in Nat /\ m # 0
    <3>1. PICK x \in S : TRUE
      OBVIOUS
    <3>2. m \in Nat /\ x \in Nat /\ x <= m /\ x # m
      BY <3>1, <1>6 DEF T
    <3> QED
      BY <3>2
  <2>3. m - 1 \in T
    BY <2>1, <2>2 DEF T
  <2> QED
    BY <2>2, <2>3, <1>4
<1> QED
  BY <1>5, <1>6
=============================================================================
