------------------------------ MODULE ApiRequests -------------------------------
(***************************************************************************)
(* How a handler or a job of services/api meets the database: a session of *)
(* its own (database.py get_db, AsyncSessionLocal), READ COMMITTED, no row *)
(* locks.  What is read is held in Python objects while others commit; the *)
(* commit writes back the columns that were assigned another value than    *)
(* the one read.  Without a commit nothing is written, a flush included.   *)
(***************************************************************************)
EXTENDS Naturals, FiniteSets

CONSTANTS
  Workers,   \* the requests and jobs that can be under way at once
  MaxCalls,  \* bound: requests and jobs begun
  None

ASSUME RequestAssumption == MaxCalls \in Nat

VARIABLES
  request,   \* [Workers -> what the request has read, or None]
  calls,     \* requests and jobs begun
  crossed    \* history: two were under way at once

requestVars == <<request, calls, crossed>>

RequestInit ==
  /\ request = [w \in Workers |-> None]
  /\ calls = 0
  /\ crossed = FALSE

UnderWay == {w \in Workers : request[w] # None}

(* A request has read what it needs; Workers bounds how many are at once.  *)
Begin(w, r) ==
  /\ request[w] = None /\ calls < MaxCalls
  /\ calls' = calls + 1
  /\ request' = [request EXCEPT ![w] = r]
  /\ crossed' = (crossed \/ UnderWay # {})

(* A step of a request that ends it, or that goes on with r.               *)
GoesOn(w, r) ==
  /\ request' = [request EXCEPT ![w] = r]
  /\ UNCHANGED <<calls, crossed>>

Ends(w) == GoesOn(w, None)

Doing(w, op) == request[w] # None /\ request[w].op = op

(* One statement of its own: a consumer's UPDATE, another service's write. *)
Statement ==
  /\ calls < MaxCalls
  /\ calls' = calls + 1
  /\ UNCHANGED <<request, crossed>>

(* The row after the commit of one that was read as before and assigned    *)
(* after.                                                                  *)
Flushed(row, before, after) ==
  [column \in DOMAIN row |->
     IF after[column] # before[column] THEN after[column] ELSE row[column]]
=============================================================================
