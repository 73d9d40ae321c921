--------------------------- MODULE Ingestion_proofs ----------------------------
(***************************************************************************)
(* Proofs about ingestion, for any events, payloads, clients and faults.   *)
(* Four invariants are kept by every step: the types, the answers (every   *)
(* one has an envelope of its own), the replays and the jobs.              *)
(***************************************************************************)
EXTENDS Ingestion, SequenceTheorems, FiniteSetTheorems, WellFoundedInduction, TLAPS

JobOps == {"webhook", "parse", "file", "reprocess", "backfill"}

-----------------------------------------------------------------------------
(* Answers.  What a request in flight will vouch for.                      *)
Held(c, r) ==
  IF request[c] = None THEN {}
  ELSE IF request[c].op \in {"event", "batch"}
  THEN {0 : x \in {r} \cap request[c].sent}
  ELSE IF request[c].op \in {"webhook", "parse"} /\ jobs[request[c].job].via
  THEN {i \in DOMAIN request[c].processed : request[c].processed[i] = r}
  ELSE IF request[c].op = "replay" /\ request[c].step = "commit" /\ request[c].record = r
  THEN {0} ELSE {}

Pending(r) == {x \in Clients \X Nat : x[2] \in Held(x[1], r)}

Vouched(r) == IsFiniteSet(Pending(r)) /\ acked[r] + Cardinality(Pending(r)) <= topic[r]

(* Replays.  Those that are about to send, each under a claim of its own.  *)
Sending(r) == {c \in Clients : Replaying(c, "send") /\ request[c].record = r}

Excuses == faults \cap {"expiry", "redis"}

Claimed(r) ==
  /\ IsFiniteSet(Sending(r))
  /\ replayed[r] + Cardinality(Sending(r)) <= (IF r \in keys THEN 1 ELSE 0) + Cardinality(Excuses)

WasReplayed(i) == replayed[errors[i].record] + replayed[Fresh] > 0

(* What a request has read of a row still holds when it writes it back.    *)
ReadSound(c) ==
  request[c] # None /\ request[c].op \in {"resolve", "replay"} =>
    LET q == request[c]
    IN  /\ q.row \in DOMAIN errors
        /\ "replay" \in q.detail => WasReplayed(q.row)
        /\ q.op = "replay" => /\ q.record \in {errors[q.row].record, Fresh}
                              /\ q.step = "commit" => replayed[q.record] > 0

ReplayInv ==
  /\ \A r \in Records \ {Fresh} : Claimed(r)
  /\ \A c \in Clients : ReadSound(c)
  /\ ReplayMarkTrue

-----------------------------------------------------------------------------
(* Sequences and selections.                                               *)

(* A sequence with one element more.                                       *)
LEMMA AppendShape ==
  ASSUME NEW S, NEW q \in Seq(S), NEW x \in S
  PROVE  /\ Append(q, x) \in Seq(S) /\ Len(Append(q, x)) = Len(q) + 1
         /\ Len(q) \in Nat /\ DOMAIN Append(q, x) = (DOMAIN q) \cup {Len(q) + 1}
         /\ DOMAIN q = 1..Len(q) /\ Len(q) + 1 \notin DOMAIN q
         /\ \A i \in DOMAIN q : Append(q, x)[i] = q[i]
         /\ Append(q, x)[Len(q) + 1] = x
<1>1. /\ Append(q, x) \in Seq(S) /\ Len(Append(q, x)) = Len(q) + 1
      /\ Len(q) \in Nat /\ \A i \in 1..Len(q) : Append(q, x)[i] = q[i]
      /\ Append(q, x)[Len(q) + 1] = x /\ DOMAIN q = 1..Len(q)
      /\ DOMAIN Append(q, x) = 1..(Len(q) + 1)
  BY AppendProperties, LenProperties
<1> QED
  BY <1>1

(* A sequence with another one after it.                                   *)
LEMMA ConcatShape ==
  ASSUME NEW S, NEW q \in Seq(S), NEW t \in Seq(S)
  PROVE  /\ q \o t \in Seq(S) /\ Len(q) \in Nat /\ Len(t) \in Nat
         /\ DOMAIN q = 1..Len(q) /\ DOMAIN t = 1..Len(t)
         /\ DOMAIN (q \o t) = 1..(Len(q) + Len(t)) /\ Len(q \o t) = Len(q) + Len(t)
         /\ \A i \in DOMAIN q : (q \o t)[i] = q[i]
         /\ \A i \in DOMAIN t : (q \o t)[Len(q) + i] = t[i]
<1>1. /\ q \o t \in Seq(S) /\ Len(q \o t) = Len(q) + Len(t)
      /\ \A i \in 1..(Len(q) + Len(t)) : (q \o t)[i] = IF i <= Len(q) THEN q[i] ELSE t[i - Len(q)]
  BY ConcatProperties
<1>2. Len(q) \in Nat /\ Len(t) \in Nat /\ DOMAIN q = 1..Len(q) /\ DOMAIN t = 1..Len(t)
      /\ DOMAIN (q \o t) = 1..Len(q \o t)
  BY <1>1, LenProperties
<1>3. ASSUME NEW i \in 1..Len(q) PROVE (q \o t)[i] = q[i]
  BY <1>1, <1>2
<1>4. ASSUME NEW i \in 1..Len(t) PROVE (q \o t)[Len(q) + i] = t[i]
  <2>1. Len(q) + i \in 1..(Len(q) + Len(t)) /\ ~ (Len(q) + i <= Len(q)) /\ (Len(q) + i) - Len(q) = i
    BY <1>2
  <2> QED
    BY <1>1, <2>1
<1> QED
  BY <1>1, <1>2, <1>3, <1>4

(* Taking the head of what is left to the end of what is done.             *)
LEMMA HeadToEnd ==
  ASSUME NEW S, NEW q \in Seq(S), NEW t \in Seq(S), t # <<>>
  PROVE  Append(q, Head(t)) \o Tail(t) = q \o t
<1>1. /\ Head(t) \in S /\ Tail(t) \in Seq(S) /\ Len(Tail(t)) = Len(t) - 1 /\ Len(t) \in Nat \ {0}
      /\ Len(q) \in Nat /\ Head(t) = t[1] /\ \A i \in 1..Len(Tail(t)) : Tail(t)[i] = t[i + 1]
  BY HeadTailProperties, LenProperties
<1>2. /\ Append(q, Head(t)) \in Seq(S) /\ Len(Append(q, Head(t))) = Len(q) + 1
      /\ \A i \in 1..Len(q) : Append(q, Head(t))[i] = q[i]
      /\ Append(q, Head(t))[Len(q) + 1] = Head(t)
  BY <1>1, AppendProperties
<1> DEFINE l == Append(q, Head(t)) \o Tail(t)
           r == q \o t
<1>3. /\ l \in Seq(S) /\ Len(l) = Len(q) + Len(t)
      /\ \A i \in 1..(Len(q) + Len(t)) :
           l[i] = IF i <= Len(q) + 1 THEN Append(q, Head(t))[i] ELSE Tail(t)[i - (Len(q) + 1)]
  BY <1>1, <1>2, ConcatProperties
<1>4. /\ r \in Seq(S) /\ Len(r) = Len(q) + Len(t)
      /\ \A i \in 1..(Len(q) + Len(t)) : r[i] = IF i <= Len(q) THEN q[i] ELSE t[i - Len(q)]
  BY ConcatProperties
<1> HIDE DEF l, r
<1>5. ASSUME NEW i \in 1..(Len(q) + Len(t)) PROVE l[i] = r[i]
  <2>1. CASE i <= Len(q)
    BY <1>1, <1>2, <1>3, <1>4, <2>1
  <2>2. CASE i = Len(q) + 1
    BY <1>1, <1>2, <1>3, <1>4, <2>2
  <2>3. CASE i > Len(q) + 1
    <3>1. i - (Len(q) + 1) \in 1..Len(Tail(t)) /\ (i - (Len(q) + 1)) + 1 = i - Len(q)
      BY <1>1, <2>3
    <3>2. Tail(t)[i - (Len(q) + 1)] = t[i - Len(q)]
      BY <1>1, <3>1
    <3> QED
      BY <1>1, <1>3, <1>4, <2>3, <3>2
  <2> QED
    BY <1>1, <2>1, <2>2, <2>3
<1>6. l = r
  BY <1>3, <1>4, <1>5, SeqEqual
<1> QED
  BY <1>6 DEF l, r

(* What is selected from a sequence is a sequence over the same set.       *)
LEMMA SelectedType ==
  ASSUME NEW S, NEW s \in Seq(S), NEW kinds
  PROVE  Selected(s, kinds) \in Seq(S)
<1> DEFINE I == {i \in DOMAIN s : Kind[s[i]] \in kinds}
           Upto(n) == {j \in I : j <= n}
           Nth(k) == CHOOSE i \in I : Cardinality({j \in I : j <= i}) = k
<1>1. Len(s) \in Nat /\ DOMAIN s = 1..Len(s)
  BY LenProperties
<1>2. I \subseteq 1..Len(s)
  BY <1>1
<1>3. IsFiniteSet(I) /\ Cardinality(I) \in Nat
  <2>1. IsFiniteSet(1..Len(s))
    BY <1>1, FS_Interval
  <2> HIDE DEF I
  <2>2. IsFiniteSet(I)
    BY <1>2, <2>1, FS_Subset
  <2> QED
    BY <2>2, FS_CardinalityType
<1>4. ASSUME NEW k \in 1..Cardinality(I) PROVE Nth(k) \in I
  <2> DEFINE T == {n \in Nat : Cardinality(Upto(n)) >= k}
             Less == {p \in Nat \X Nat : p[1] < p[2]}
  <2>1. Upto(Len(s)) = I /\ Upto(0) = {} /\ \A n \in Nat : Upto(n) \subseteq I
    BY <1>1, <1>2
  <2>2. \A n \in Nat : n + 1 \in I => Upto(n + 1) = Upto(n) \cup {n + 1}
    BY <1>2
  <2>3. \A n \in Nat : n + 1 \notin I => Upto(n + 1) = Upto(n)
    BY <1>2
  <2>4. k \in Nat \ {0} /\ Cardinality(I) >= k
    BY <1>3
  <2>5. \A n : n \in I /\ Cardinality(Upto(n)) = k => Nth(k) \in I
    OBVIOUS
  <2> HIDE DEF I, Upto, Nth
  <2>6. \A n \in Nat : IsFiniteSet(Upto(n)) /\ Cardinality(Upto(n)) \in Nat
    BY <1>3, <2>1, FS_Subset, FS_CardinalityType
  <2>7. IsWellFoundedOn(Less, Nat)
    BY NatLessThanWellFounded DEF OpToRel
  <2>8. T \subseteq Nat /\ T # {}
    BY <1>1, <2>1, <2>4
  <2> HIDE DEF T
  <2>9. PICK m \in T : \A n \in T : ~ (<<n, m>> \in Less)
    <3> HIDE DEF Less
    <3> QED
      BY <2>7, <2>8, WFMin
  <2>10. m \in Nat /\ (\A n \in T : ~ (n < m)) /\ Cardinality(Upto(m)) >= k
    BY <2>8, <2>9 DEF T
  <2>11. m # 0
    <3>1. Cardinality(Upto(0)) = 0
      BY <2>1, FS_EmptySet
    <3> QED
      BY <2>4, <2>10, <3>1
  <2>12. PICK n \in Nat : m = n + 1
    BY <2>10, <2>11
  <2>13. Cardinality(Upto(n)) < k
    <3>1. n \notin T
      BY <2>10, <2>12
    <3> QED
      BY <2>4, <2>6, <3>1 DEF T
  <2>14. m \in I
    BY <2>3, <2>4, <2>6, <2>10, <2>12, <2>13
  <2>15. Upto(m) = Upto(n) \cup {m}
    BY <2>2, <2>12, <2>14
  <2>16. PICK x, y : x = Cardinality(Upto(m)) /\ y = Cardinality(Upto(n))
    OBVIOUS
  <2>17. x \in Nat /\ y \in Nat /\ x >= k /\ y < k
    BY <2>6, <2>10, <2>13, <2>16
  <2>18. x = y + 1 \/ x = y
    <3>1. IsFiniteSet(Upto(n))
      BY <2>6
    <3>2. Cardinality(Upto(n) \cup {m}) = IF m \in Upto(n) THEN y ELSE y + 1
      BY <2>16, <3>1, FS_AddElement
    <3> QED
      BY <2>15, <2>16, <3>2
  <2>19. Cardinality(Upto(m)) = k
    BY <2>4, <2>16, <2>17, <2>18
  <2> QED
    BY <2>5, <2>14, <2>19
<1>5. Selected(s, kinds) = [k \in 1..Cardinality(I) |-> s[Nth(k)]]
  BY DEF Selected
<1>6. \A i \in I : s[i] \in S
  BY <1>1, ElementOfSeq
<1> HIDE DEF I, Nth
<1>7. \A k \in 1..Cardinality(I) : s[Nth(k)] \in S
  BY <1>4, <1>6
<1> QED
  BY <1>3, <1>5, <1>7, IsASeq
-----------------------------------------------------------------------------
(* What the common steps do.                                               *)

(* A fault is remembered.                                                  *)
LEMMA FaultEffect ==
  ASSUME faults \subseteq FaultKinds, NEW f \in FaultKinds, Fault(f)
  PROVE  faults' \subseteq FaultKinds /\ faults' = faults \cup {f}
BY DEF Fault

(* A send adds an envelope, or fails and may have added one.               *)
LEMMA PublishEffect ==
  ASSUME TypeOK, NEW r \in Records, NEW sent \in BOOLEAN, Publish(r, sent)
  PROVE  /\ topic' \in [Records -> Nat] /\ \A x \in Records : topic'[x] >= topic[x]
         /\ sent => topic'[r] = topic[r] + 1 /\ faults' = faults
         /\ ~ sent => faults' = faults \cup {"publish"}
         /\ faults' \subseteq FaultKinds
<1>1. topic \in [Records -> Nat] /\ faults \subseteq FaultKinds
  BY DEF TypeOK, StoreTypeOK
<1>2. CASE sent
  BY <1>1, <1>2 DEF Publish
<1>3. CASE ~ sent
  <2>1. Fault("publish") /\ topic' \in {topic, [topic EXCEPT ![r] = @ + 1]}
    BY <1>3 DEF Publish
  <2>2. faults' = faults \cup {"publish"} /\ faults' \subseteq FaultKinds
    BY <1>1, <2>1, FaultEffect DEF FaultKinds
  <2>3. topic' \in [Records -> Nat] /\ \A x \in Records : topic'[x] >= topic[x]
    BY <1>1, <2>1
  <2> QED
    BY <1>3, <2>2, <2>3
<1> QED
  BY <1>2, <1>3

(* Asking for a producer costs a fault at most.                            *)
LEMMA ProducerEffect ==
  ASSUME TypeOK, NEW got \in BOOLEAN, GetProducer(got)
  PROVE  producer' \in BOOLEAN /\ faults \subseteq faults' /\ faults' \subseteq FaultKinds
<1>1. CASE got
  BY <1>1 DEF GetProducer, TypeOK, StoreTypeOK
<1>2. CASE ~ got
  BY <1>2, FaultEffect DEF GetProducer, TypeOK, StoreTypeOK, FaultKinds
<1> QED
  BY <1>1, <1>2

(* The request of c becomes q, and the others stay.                        *)
Only(c, q) == /\ DOMAIN request' = Clients /\ request'[c] = q
              /\ \A d \in Clients \ {c} : request'[d] = request[d]

(* A request is replaced, the others stay.                                 *)
LEMMA RequestEffect ==
  ASSUME TypeOK, NEW c \in Clients, NEW q, request' = [request EXCEPT ![c] = q]
  PROVE  Only(c, q)
BY DEF TypeOK, StoreTypeOK, Only

(* A request is accepted of a client that had none in flight.              *)
LEMMA AcceptEffect ==
  ASSUME TypeOK, NEW c \in Clients, NEW q, Accept(c, q)
  PROVE  Only(c, q) /\ request[c] = None /\ accepted' \in 0..MaxRequests
<1>1. Only(c, q)
  BY RequestEffect DEF Accept
<1> QED
  BY <1>1, StoreAssumption DEF Accept, TypeOK, StoreTypeOK

(* A request in flight goes on, or is answered.                            *)
LEMMA UpdateEffect ==
  ASSUME TypeOK, NEW c \in Clients, NEW q, Update(c, q)
  PROVE  Only(c, q) /\ accepted' = accepted
BY RequestEffect DEF Update

(* A request in flight is of the kind its op names.                        *)
LEMMA RequestKind ==
  ASSUME TypeOK, NEW c \in Clients, request[c] # None
  PROVE  /\ request[c].op \in {"event", "batch"} => request[c] \in EventRequest
         /\ request[c].op = "resolve" => request[c] \in ResolveRequest
         /\ request[c].op = "replay" => request[c] \in ReplayRequest
         /\ request[c].op \in {"webhook", "parse"} => request[c] \in InlineRequest
         /\ request[c].op \in {"file", "reprocess", "backfill"} => request[c] \in QueueRequest
BY DEF TypeOK, Request, EventRequest, ResolveRequest, ReplayRequest, InlineRequest, QueueRequest

(* A new row of ingest_errors.                                             *)
LEMMA NewRowType ==
  ASSUME NEW r \in Records, NEW j \in Nat \cup {None}
  PROVE  /\ NewRow(r, j) \in Row /\ NewRow(r, j).record = r /\ NewRow(r, j).job = j
         /\ NewRow(r, j).detail = {}
BY DEF NewRow, Row, Detail

(* A row of ingest_errors.                                                 *)
LEMMA RowAt ==
  ASSUME TypeOK, NEW i \in DOMAIN errors
  PROVE  errors[i] \in Row /\ i \in Nat
<1>1. errors \in Seq(Row)
  BY DEF TypeOK, StoreTypeOK
<1>2. DOMAIN errors = 1..Len(errors)
  BY <1>1, LenProperties
<1> QED
  BY <1>1, <1>2, ElementOfSeq

(* A row is added to ingest_errors.                                        *)
LEMMA RowAdded ==
  ASSUME TypeOK, NEW r \in Records, NEW j \in Nat \cup {None}, errors' = Append(errors, NewRow(r, j))
  PROVE  /\ errors' \in Seq(Row) /\ DOMAIN errors' = DOMAIN errors \cup {Len(errors) + 1}
         /\ Len(errors) + 1 \notin DOMAIN errors
         /\ \A i \in DOMAIN errors : errors'[i] = errors[i]
         /\ errors'[Len(errors) + 1].job = j /\ errors'[Len(errors) + 1].detail = {}
<1>1. errors \in Seq(Row) /\ NewRow(r, j) \in Row /\ NewRow(r, j).job = j /\ NewRow(r, j).detail = {}
  BY NewRowType DEF TypeOK, StoreTypeOK
<1> QED
  BY <1>1, AppendShape

(* The rows for the records of a job.                                      *)
LEMMA RowsOfType ==
  ASSUME NEW rs \in Seq(Records), NEW j \in Nat
  PROVE  /\ RowsOf(rs, j) \in Seq(Row) /\ Len(RowsOf(rs, j)) = Len(rs) /\ DOMAIN RowsOf(rs, j) = DOMAIN rs
         /\ \A i \in DOMAIN rs : RowsOf(rs, j)[i].job = j /\ RowsOf(rs, j)[i].detail = {}
<1>1. Len(rs) \in Nat /\ DOMAIN rs = 1..Len(rs) /\ \A i \in 1..Len(rs) : rs[i] \in Records
  BY LenProperties, ElementOfSeq
<1>2. \A i \in 1..Len(rs) : /\ NewRow(rs[i], j) \in Row /\ NewRow(rs[i], j).job = j
                            /\ NewRow(rs[i], j).detail = {}
  BY <1>1, NewRowType
<1>3. RowsOf(rs, j) = [i \in 1..Len(rs) |-> NewRow(rs[i], j)]
  BY <1>1 DEF RowsOf
<1>4. RowsOf(rs, j) \in Seq(Row) /\ Len(RowsOf(rs, j)) = Len(rs)
  BY <1>1, <1>2, <1>3, IsASeq
<1> QED
  BY <1>1, <1>2, <1>3, <1>4

(* Rows are added to ingest_errors.                                        *)
LEMMA RowsAdded ==
  ASSUME TypeOK, NEW rs \in Seq(Records), NEW j \in Nat, errors' = errors \o RowsOf(rs, j)
  PROVE  /\ errors' \in Seq(Row) /\ Len(errors) \in Nat /\ Len(rs) \in Nat
         /\ DOMAIN errors = 1..Len(errors) /\ DOMAIN errors' = 1..(Len(errors) + Len(rs))
         /\ \A i \in DOMAIN errors : errors'[i] = errors[i]
         /\ \A i \in DOMAIN errors' \ DOMAIN errors : errors'[i].job = j /\ errors'[i].detail = {}
<1>1. errors \in Seq(Row)
  BY DEF TypeOK, StoreTypeOK
<1>2. /\ RowsOf(rs, j) \in Seq(Row) /\ Len(RowsOf(rs, j)) = Len(rs) /\ DOMAIN RowsOf(rs, j) = DOMAIN rs
      /\ \A i \in DOMAIN rs : RowsOf(rs, j)[i].job = j /\ RowsOf(rs, j)[i].detail = {}
  BY RowsOfType
<1>3. /\ errors' \in Seq(Row) /\ Len(errors) \in Nat /\ Len(rs) \in Nat
      /\ DOMAIN errors = 1..Len(errors) /\ DOMAIN rs = 1..Len(rs)
      /\ DOMAIN errors' = 1..(Len(errors) + Len(rs))
      /\ \A i \in DOMAIN errors : errors'[i] = errors[i]
      /\ \A i \in DOMAIN rs : errors'[Len(errors) + i] = RowsOf(rs, j)[i]
  <2>1. PICK t : t = RowsOf(rs, j)
    OBVIOUS
  <2>2. Len(rs) \in Nat /\ DOMAIN rs = 1..Len(rs)
    BY LenProperties
  <2>3. t \in Seq(Row) /\ Len(t) = Len(rs) /\ errors' = errors \o t
    BY <1>2, <2>1
  <2>4. /\ errors \o t \in Seq(Row) /\ Len(errors) \in Nat /\ Len(t) \in Nat
        /\ DOMAIN errors = 1..Len(errors) /\ DOMAIN t = 1..Len(t)
        /\ DOMAIN (errors \o t) = 1..(Len(errors) + Len(t)) /\ Len(errors \o t) = Len(errors) + Len(t)
        /\ \A i \in DOMAIN errors : (errors \o t)[i] = errors[i]
        /\ \A i \in DOMAIN t : (errors \o t)[Len(errors) + i] = t[i]
    <3>1. t \in Seq(Row)
      BY <2>3
    <3> QED
      BY <1>1, <3>1, ConcatShape
  <2> QED
    BY <2>1, <2>2, <2>3, <2>4
<1>4. ASSUME NEW i \in DOMAIN errors' \ DOMAIN errors
      PROVE  errors'[i].job = j /\ errors'[i].detail = {}
  <2>1. PICK k \in DOMAIN rs : i = Len(errors) + k
    <3>1. i \in Int /\ i > Len(errors) /\ i <= Len(errors) + Len(rs)
      BY <1>3
    <3>2. i - Len(errors) \in 1..Len(rs) /\ i = Len(errors) + (i - Len(errors))
      BY <1>3, <3>1
    <3> QED
      BY <1>3, <3>2
  <2> QED
    BY <1>2, <1>3, <2>1
<1> QED
  BY <1>3, <1>4
-----------------------------------------------------------------------------
(* What a step of the channels does to the rest, and one of the jobs.      *)
JobRequest(q) == q # None /\ q.op \in JobOps

Grows ==
  /\ faults \subseteq faults'
  /\ topic' \in [Records -> Nat] /\ \A r \in Records : topic'[r] >= topic[r]

ChannelFrame ==
  /\ Grows /\ DOMAIN errors \subseteq DOMAIN errors'
  /\ \A i \in DOMAIN errors : errors'[i].record = errors[i].record /\ errors'[i].job = errors[i].job
  /\ \A i \in DOMAIN errors' \ DOMAIN errors : errors'[i].job = None
  /\ \A c \in Clients : request'[c] = request[c] \/ ~ (JobRequest(request[c]) \/ JobRequest(request'[c]))

JobFrame ==
  /\ Grows /\ DOMAIN errors \subseteq DOMAIN errors'
  /\ \A i \in DOMAIN errors : errors'[i] = errors[i]
  /\ \A i \in DOMAIN errors' \ DOMAIN errors : errors'[i].detail = {}
  /\ \A c \in Clients : \/ request'[c] = request[c]
                        \/ /\ request[c] = None \/ JobRequest(request[c])
                           /\ request'[c] = None \/ JobRequest(request'[c])

(* A step that leaves the topics, the faults and the quarantine alone.     *)
LEMMA NothingGrows ==
  ASSUME TypeOK, topic' = topic, faults \subseteq faults'
  PROVE  Grows
BY DEF TypeOK, StoreTypeOK, Grows

(* The request of one client changes, of the rest of the state what has    *)
(* nothing to do with requests.                                            *)
LEMMA OneRequest ==
  ASSUME TypeOK, NEW c \in Clients, NEW q, Only(c, q), q = None \/ q \in Request,
         UNCHANGED channelVars, UNCHANGED jobVars,
         topic' \in [Records -> Nat], errors' \in Seq(Row), producer' \in BOOLEAN,
         accepted' \in 0..MaxRequests, acked' \in [Records -> Nat], faults' \subseteq FaultKinds
  PROVE  TypeOK'
<1>1. DOMAIN request' = Clients /\ \A d \in Clients : request'[d] # None => request'[d] \in Request
  BY DEF TypeOK, Only
<1> QED
  BY <1>1 DEF TypeOK, StoreTypeOK, channelVars, jobVars

(* POST /ingest/event of a forbidden payment method.                       *)
LEMMA EventQuarantinedType ==
  ASSUME TypeOK, NEW c \in Clients, NEW r \in Events, EventQuarantined(c, r), UNCHANGED jobVars
  PROVE  TypeOK' /\ ChannelFrame
<1>1. r \in Records
  BY DEF Events
<1>2. /\ errors' \in Seq(Row) /\ DOMAIN errors' = DOMAIN errors \cup {Len(errors) + 1}
      /\ Len(errors) + 1 \notin DOMAIN errors
      /\ \A i \in DOMAIN errors : errors'[i] = errors[i]
      /\ errors'[Len(errors) + 1].job = None
  BY <1>1, RowAdded DEF EventQuarantined
<1>3. accepted' \in 0..MaxRequests
  BY StoreAssumption DEF EventQuarantined, TypeOK, StoreTypeOK
<1>4. TypeOK'
  BY <1>2, <1>3 DEF EventQuarantined, TypeOK, StoreTypeOK, channelVars, jobVars
<1>5. Grows
  BY NothingGrows DEF EventQuarantined
<1> QED
  BY <1>2, <1>4, <1>5 DEF ChannelFrame, EventQuarantined

(* A request begins that sends events.                                     *)
LEMMA SendingBegins ==
  ASSUME TypeOK, NEW c \in Clients, NEW q, NEW got \in BOOLEAN, q = None \/ q \in EventRequest,
         Accept(c, q), GetProducer(got), UNCHANGED <<topic, errors, acked, channelVars, jobVars>>
  PROVE  TypeOK' /\ ChannelFrame
<1>1. Only(c, q) /\ request[c] = None /\ accepted' \in 0..MaxRequests
  BY AcceptEffect
<1>2. producer' \in BOOLEAN /\ faults \subseteq faults' /\ faults' \subseteq FaultKinds
  BY ProducerEffect
<1>3. TypeOK'
  BY <1>1, <1>2, OneRequest DEF TypeOK, StoreTypeOK, Request
<1>4. Grows
  BY <1>2, NothingGrows
<1>5. ~ JobRequest(request[c]) /\ ~ JobRequest(request'[c])
  BY <1>1 DEF JobRequest, JobOps, EventRequest, Only
<1> QED
  BY <1>1, <1>3, <1>4, <1>5 DEF ChannelFrame, Only

(* ingest_event and ingest_batch up to the sends.                          *)
LEMMA EventBeginType ==
  ASSUME TypeOK, NEW c \in Clients, NEW r \in Events, NEW got \in BOOLEAN, EventBegin(c, r, got),
         UNCHANGED jobVars
  PROVE  TypeOK' /\ ChannelFrame
<1>1. PICK q : q = IF got THEN [op |-> "event", left |-> <<r>>, sent |-> {}] ELSE None
  OBVIOUS
<1>2. <<r>> \in Seq(Records)
  BY DEF Events
<1>3. q = None \/ q \in EventRequest
  BY <1>1, <1>2 DEF EventRequest
<1> QED
  BY <1>1, <1>3, SendingBegins DEF EventBegin

(* A batch is accepted.                                                    *)
LEMMA BatchBeginType ==
  ASSUME TypeOK, NEW c \in Clients, NEW r \in Events, NEW s \in Events, NEW got \in BOOLEAN,
         BatchBegin(c, <<r, s>>, got), UNCHANGED jobVars
  PROVE  TypeOK' /\ ChannelFrame
<1>1. PICK q : q = IF got THEN [op |-> "batch", sent |-> {}, left |-> Selected(<<r, s>>, Kinds \ {"card"})]
                   ELSE None
  OBVIOUS
<1>2. <<r, s>> \in Seq(Records)
  BY DEF Events
<1>3. Selected(<<r, s>>, Kinds \ {"card"}) \in Seq(Records)
  BY <1>2, SelectedType
<1>4. q = None \/ q \in EventRequest
  BY <1>1, <1>3 DEF EventRequest
<1> QED
  BY <1>1, <1>4, SendingBegins DEF BatchBegin

(* One send of either loop.                                                *)
LEMMA EventSendEffect ==
  ASSUME TypeOK, NEW c \in Clients, NEW sent \in BOOLEAN, EventSend(c, sent)
  PROVE  \E r \in Records, q \in EventRequest :
           /\ request[c] \in EventRequest /\ Publish(r, sent) /\ Only(c, q)
           /\ q.sent = IF sent THEN request[c].sent \cup {r} ELSE request[c].sent
           /\ q.op = request[c].op
           /\ accepted' = accepted /\ UNCHANGED <<errors, producer, acked, channelVars>>
<1>1. /\ request[c] # None /\ request[c] \in EventRequest /\ request[c].left # <<>>
  BY RequestKind DEF EventSend
<1>2. PICK r : r = Head(request[c].left)
  OBVIOUS
<1>3. PICK q : q = [request[c] EXCEPT !.left = Tail(@), !.sent = IF sent THEN @ \cup {r} ELSE @]
  OBVIOUS
<1>4. r \in Records /\ Tail(request[c].left) \in Seq(Records)
  BY <1>1, <1>2, HeadTailProperties DEF EventRequest
<1>5. /\ q \in EventRequest /\ q.op = request[c].op
      /\ q.sent = IF sent THEN request[c].sent \cup {r} ELSE request[c].sent
  BY <1>1, <1>3, <1>4 DEF EventRequest
<1>6. Publish(r, sent) /\ Update(c, q) /\ UNCHANGED <<errors, producer, acked, channelVars>>
  BY <1>2, <1>3 DEF EventSend
<1>7. Only(c, q) /\ accepted' = accepted
  BY <1>6, UpdateEffect
<1> QED
  BY <1>1, <1>4, <1>5, <1>6, <1>7

(* One send of the endpoints for events.                                   *)
LEMMA EventSendType ==
  ASSUME TypeOK, NEW c \in Clients, NEW sent \in BOOLEAN, EventSend(c, sent), UNCHANGED jobVars
  PROVE  TypeOK' /\ ChannelFrame
<1>1. PICK r \in Records, q \in EventRequest :
           /\ request[c] \in EventRequest /\ Publish(r, sent) /\ Only(c, q)
           /\ accepted' = accepted /\ UNCHANGED <<errors, producer, acked, channelVars>>
  BY EventSendEffect
<1>2. /\ topic' \in [Records -> Nat] /\ \A x \in Records : topic'[x] >= topic[x]
      /\ faults \subseteq faults' /\ faults' \subseteq FaultKinds
  BY <1>1, PublishEffect
<1>3. TypeOK'
  BY <1>1, <1>2, OneRequest DEF TypeOK, StoreTypeOK, Request
<1>4. ~ JobRequest(request[c]) /\ ~ JobRequest(request'[c])
  BY <1>1 DEF JobRequest, JobOps, EventRequest, Only
<1> QED
  BY <1>1, <1>2, <1>3, <1>4 DEF ChannelFrame, Only, Grows

(* The answer of either.                                                   *)
LEMMA EventAnswerType ==
  ASSUME TypeOK, NEW c \in Clients, EventAnswer(c), UNCHANGED jobVars
  PROVE  TypeOK' /\ ChannelFrame
<1>1. request[c] # None /\ request[c].op \in {"event", "batch"}
  BY DEF EventAnswer
<1>2. Only(c, None) /\ accepted' = accepted
  BY UpdateEffect DEF EventAnswer, Answer
<1>3. acked' \in [Records -> Nat]
  BY DEF EventAnswer, TypeOK, StoreTypeOK
<1>4. TypeOK'
  BY <1>2, <1>3, OneRequest DEF EventAnswer, TypeOK, StoreTypeOK
<1>5. Grows
  BY NothingGrows DEF EventAnswer
<1>6. ~ JobRequest(request[c]) /\ ~ JobRequest(request'[c])
  BY <1>1, <1>2 DEF JobRequest, JobOps, Only
<1> QED
  BY <1>2, <1>4, <1>5, <1>6 DEF ChannelFrame, Only, EventAnswer
-----------------------------------------------------------------------------
(* The websocket.                                                          *)

(* A step that leaves requests and quarantine alone.                       *)
LEMMA SocketStep ==
  ASSUME TypeOK, UNCHANGED <<errors, request, keys, replayed, jobVars>>, producer' \in BOOLEAN,
         accepted' \in 0..MaxRequests, acked' \in [Records -> Nat],
         topic' \in [Records -> Nat], \A r \in Records : topic'[r] >= topic[r],
         faults \subseteq faults', faults' \subseteq FaultKinds,
         socket' \in [open : BOOLEAN, queue : Seq(Records), sending : Records \cup {None}]
  PROVE  TypeOK' /\ ChannelFrame
<1>1. TypeOK'
  BY DEF TypeOK, StoreTypeOK, jobVars
<1> QED
  BY <1>1 DEF ChannelFrame, Grows

(* The websocket opens.                                                    *)
LEMMA SocketOpensType ==
  ASSUME TypeOK, SocketOpens, UNCHANGED jobVars
  PROVE  TypeOK' /\ ChannelFrame
<1>1. producer' \in BOOLEAN /\ faults \subseteq faults' /\ faults' \subseteq FaultKinds
  BY ProducerEffect DEF SocketOpens
<1>2. accepted' \in 0..MaxRequests
  BY StoreAssumption DEF SocketOpens, TypeOK, StoreTypeOK
<1>3. socket' \in [open : BOOLEAN, queue : Seq(Records), sending : Records \cup {None}]
  <2>1. Closed \in [open : BOOLEAN, queue : Seq(Records), sending : Records \cup {None}]
    BY EmptySeq DEF Closed
  <2>2. [Closed EXCEPT !.open = TRUE] \in [open : BOOLEAN, queue : Seq(Records), sending : Records \cup {None}]
    BY <2>1
  <2> QED
    BY <2>2 DEF SocketOpens
<1>4. \A r \in Records : topic[r] >= topic[r]
  BY DEF TypeOK, StoreTypeOK
<1> QED
  BY <1>1, <1>2, <1>3, <1>4, SocketStep DEF SocketOpens, TypeOK, StoreTypeOK

(* It receives a message.                                                  *)
LEMMA SocketReceivesType ==
  ASSUME TypeOK, NEW r \in Events, SocketReceives(r), UNCHANGED jobVars
  PROVE  TypeOK' /\ ChannelFrame
<1>1. accepted' \in 0..MaxRequests
  BY StoreAssumption DEF SocketReceives, TypeOK, StoreTypeOK
<1>2. Append(socket.queue, r) \in Seq(Records)
  BY AppendProperties DEF TypeOK, Events
<1>3. socket' \in [open : BOOLEAN, queue : Seq(Records), sending : Records \cup {None}]
  BY <1>2 DEF SocketReceives, TypeOK
<1>4. \A x \in Records : topic[x] >= topic[x]
  BY DEF TypeOK, StoreTypeOK
<1> QED
  BY <1>1, <1>3, <1>4, SocketStep DEF SocketReceives, TypeOK, StoreTypeOK

(* Its worker takes one.                                                   *)
LEMMA SocketTakesType ==
  ASSUME TypeOK, SocketTakes, UNCHANGED jobVars
  PROVE  TypeOK' /\ ChannelFrame
<1>1. Head(socket.queue) \in Records /\ Tail(socket.queue) \in Seq(Records)
  BY HeadTailProperties DEF SocketTakes, TypeOK
<1>2. socket' \in [open : BOOLEAN, queue : Seq(Records), sending : Records \cup {None}]
  BY <1>1 DEF SocketTakes, TypeOK
<1>3. \A x \in Records : topic[x] >= topic[x]
  BY DEF TypeOK, StoreTypeOK
<1> QED
  BY <1>2, <1>3, SocketStep DEF SocketTakes, TypeOK, StoreTypeOK, storeVars

(* Its worker sends it.                                                    *)
LEMMA SocketSendsType ==
  ASSUME TypeOK, NEW sent \in BOOLEAN, SocketSends(sent), UNCHANGED jobVars
  PROVE  TypeOK' /\ ChannelFrame
<1>1. socket.sending \in Records /\ Publish(socket.sending, sent)
  BY DEF SocketSends, TypeOK
<1>2. /\ topic' \in [Records -> Nat] /\ \A x \in Records : topic'[x] >= topic[x]
      /\ faults \subseteq faults' /\ faults' \subseteq FaultKinds
  BY <1>1, PublishEffect
<1>3. socket' \in [open : BOOLEAN, queue : Seq(Records), sending : Records \cup {None}]
  BY DEF SocketSends, TypeOK
<1>4. acked' \in [Records -> Nat]
  <2>1. acked \in [Records -> Nat]
    BY DEF TypeOK, StoreTypeOK
  <2>2. acked' = acked \/ acked' = [acked EXCEPT ![socket.sending] = @ + 1]
    BY DEF SocketSends, Ack
  <2> QED
    BY <1>1, <2>1, <2>2
<1> QED
  BY <1>2, <1>3, <1>4, SocketStep DEF SocketSends, TypeOK, StoreTypeOK

(* The client leaves.                                                      *)
LEMMA SocketClosesType ==
  ASSUME TypeOK, SocketCloses, UNCHANGED jobVars
  PROVE  TypeOK' /\ ChannelFrame
<1>1. topic' \in [Records -> Nat] /\ \A x \in Records : topic'[x] >= topic[x]
  <2>1. topic \in [Records -> Nat] /\ socket.sending \in Records \cup {None}
    BY DEF TypeOK, StoreTypeOK
  <2>2. topic' = topic \/ (socket.sending # None /\ topic' = [topic EXCEPT ![socket.sending] = @ + 1])
    BY DEF SocketCloses
  <2> QED
    BY <2>1, <2>2
<1>2. socket' \in [open : BOOLEAN, queue : Seq(Records), sending : Records \cup {None}]
  BY DEF SocketCloses, Closed
<1> QED
  BY <1>1, <1>2, SocketStep DEF SocketCloses, TypeOK, StoreTypeOK

-----------------------------------------------------------------------------
(* The quarantine.                                                         *)

(* A request of the quarantine goes on: errors may lose nothing.           *)
LEMMA QuarantineStep ==
  ASSUME TypeOK, NEW c \in Clients, NEW q, Only(c, q), q = None \/ q \in ResolveRequest \cup ReplayRequest,
         request[c] = None \/ request[c].op \in {"resolve", "replay"},
         accepted' \in 0..MaxRequests, producer' \in BOOLEAN, acked' \in [Records -> Nat],
         topic' \in [Records -> Nat], \A r \in Records : topic'[r] >= topic[r],
         faults \subseteq faults', faults' \subseteq FaultKinds,
         keys' \subseteq Records, replayed' \in [Records -> Nat], socket' = socket, UNCHANGED jobVars,
         errors' \in Seq(Row), DOMAIN errors' = DOMAIN errors,
         \A i \in DOMAIN errors : errors'[i].record = errors[i].record /\ errors'[i].job = errors[i].job
  PROVE  TypeOK' /\ ChannelFrame
<1>1. DOMAIN request' = Clients /\ \A d \in Clients : request'[d] # None => request'[d] \in Request
  BY DEF TypeOK, Only, Request
<1>2. TypeOK'
  BY <1>1 DEF TypeOK, StoreTypeOK, jobVars
<1>3. ~ JobRequest(request[c]) /\ ~ JobRequest(request'[c])
  BY DEF JobRequest, JobOps, ResolveRequest, ReplayRequest, Only
<1> QED
  BY <1>2, <1>3 DEF ChannelFrame, Only, Grows

(* A row of the quarantine is rewritten, but for its record and its job.   *)
LEMMA RowRewritten ==
  ASSUME TypeOK, NEW i \in DOMAIN errors, NEW b \in BOOLEAN, NEW d \in Detail,
         errors' = [errors EXCEPT ![i].resolved = b, ![i].detail = d]
  PROVE  /\ errors' \in Seq(Row) /\ DOMAIN errors' = DOMAIN errors
         /\ \A k \in DOMAIN errors : errors'[k].record = errors[k].record /\ errors'[k].job = errors[k].job
         /\ errors'[i].detail = d /\ \A k \in DOMAIN errors \ {i} : errors'[k] = errors[k]
<1>1. errors \in Seq(Row) /\ DOMAIN errors = 1..Len(errors) /\ errors[i] \in Row
  BY LenProperties, ElementOfSeq DEF TypeOK, StoreTypeOK
<1>2. PICK w : w = [errors[i] EXCEPT !.resolved = b, !.detail = d]
  OBVIOUS
<1>3. w \in Row /\ w.record = errors[i].record /\ w.job = errors[i].job /\ w.detail = d
  BY <1>1, <1>2 DEF Row
<1>4. errors' = [errors EXCEPT ![i] = w]
  BY <1>1, <1>2
<1>5. errors' \in Seq(Row) /\ Len(errors') = Len(errors)
  <2>1. [errors EXCEPT ![i] = w] \in Seq(Row) /\ Len([errors EXCEPT ![i] = w]) = Len(errors)
    <3>1. errors \in Seq(Row) /\ i \in 1..Len(errors) /\ w \in Row
      BY <1>1, <1>3
    <3> QED
      BY <3>1, ExceptSeq
  <2> QED
    BY <1>4, <2>1
<1>6. DOMAIN errors' = DOMAIN errors /\ errors'[i] = w /\ \A k \in DOMAIN errors \ {i} : errors'[k] = errors[k]
  BY <1>4
<1> QED
  BY <1>3, <1>5, <1>6

(* resolve_ingest_error and replay_ingest_error read the row.              *)
LEMMA ReadBegins ==
  ASSUME TypeOK, NEW c \in Clients, NEW q \in ResolveRequest \cup ReplayRequest, Accept(c, q),
         UNCHANGED <<topic, errors, producer, acked, faults, channelVars, jobVars>>
  PROVE  TypeOK' /\ ChannelFrame
<1>1. Only(c, q) /\ request[c] = None /\ accepted' \in 0..MaxRequests
  BY AcceptEffect
<1>2. \A r \in Records : topic[r] >= topic[r]
  BY DEF TypeOK, StoreTypeOK
<1> QED
  BY <1>1, <1>2, QuarantineStep DEF TypeOK, StoreTypeOK, channelVars

(* The requests that read a row.                                           *)
LEMMA ReadBeginsAs ==
  ASSUME TypeOK, NEW i \in DOMAIN errors, NEW r \in Records, NEW resolve \in BOOLEAN
  PROVE  /\ [op |-> "resolve", row |-> i, detail |-> errors[i].detail] \in ResolveRequest
         /\ [op |-> "replay", row |-> i, detail |-> errors[i].detail, record |-> r,
             resolve |-> resolve, step |-> "claim"] \in ReplayRequest
<1>1. errors \in Seq(Row)
  BY DEF TypeOK, StoreTypeOK
<1>2. DOMAIN errors = 1..Len(errors) /\ Len(errors) \in Nat
  BY <1>1, LenProperties
<1>3. errors[i] \in Row /\ i \in Nat
  BY <1>1, <1>2, ElementOfSeq
<1> QED
  BY <1>3 DEF ResolveRequest, ReplayRequest, Row

(* A resolution reads its row.                                             *)
LEMMA ResolveBeginType ==
  ASSUME TypeOK, NEW c \in Clients, NEW i \in DOMAIN errors, ResolveBegin(c, i), UNCHANGED jobVars
  PROVE  TypeOK' /\ ChannelFrame
<1>1. PICK q : q = [op |-> "resolve", row |-> i, detail |-> errors[i].detail]
  OBVIOUS
<1>2. q \in ResolveRequest
  BY <1>1, ReadBeginsAs, StoreAssumption, ChannelAssumption
<1> QED
  BY <1>1, <1>2, ReadBegins DEF ResolveBegin

(* A replay reads its row.                                                 *)
LEMMA ReplayBeginType ==
  ASSUME TypeOK, NEW c \in Clients, NEW i \in DOMAIN errors, NEW r \in Records, NEW resolve \in BOOLEAN,
         ReplayBegin(c, i, r, resolve), UNCHANGED jobVars
  PROVE  TypeOK' /\ ChannelFrame
<1>1. PICK q : q = [op |-> "replay", row |-> i, detail |-> errors[i].detail, record |-> r,
                    resolve |-> resolve, step |-> "claim"]
  OBVIOUS
<1>2. q \in ReplayRequest
  BY <1>1, ReadBeginsAs
<1> QED
  BY <1>1, <1>2, ReadBegins DEF ReplayBegin

(* A row is written back.                                                  *)
LEMMA ResolveCommitType ==
  ASSUME TypeOK, ReplayInv, NEW c \in Clients, ResolveCommit(c), UNCHANGED jobVars
  PROVE  /\ TypeOK' /\ ChannelFrame /\ Only(c, None)
         /\ errors'[request[c].row].detail = request[c].detail \cup {"note"}
         /\ \A k \in DOMAIN errors \ {request[c].row} : errors'[k] = errors[k]
         /\ DOMAIN errors' = DOMAIN errors
<1>1. request[c] \in ResolveRequest /\ request[c].row \in DOMAIN errors /\ request[c].op = "resolve"
  BY RequestKind DEF ResolveCommit, ReplayInv, ReadSound
<1>2. PICK i, d : i = request[c].row /\ d = request[c].detail \cup {"note"}
  OBVIOUS
<1>3. i \in DOMAIN errors /\ d \in Detail
  BY <1>1, <1>2 DEF ResolveRequest, Detail
<1>4. errors' = [errors EXCEPT ![i].resolved = TRUE, ![i].detail = d]
  BY <1>2 DEF ResolveCommit
<1>5. /\ errors' \in Seq(Row) /\ DOMAIN errors' = DOMAIN errors
      /\ \A k \in DOMAIN errors : errors'[k].record = errors[k].record /\ errors'[k].job = errors[k].job
      /\ errors'[i].detail = d /\ \A k \in DOMAIN errors \ {i} : errors'[k] = errors[k]
  BY <1>3, <1>4, RowRewritten
<1>6. Only(c, None) /\ accepted' = accepted
  BY UpdateEffect DEF ResolveCommit, Answer
<1>7. TypeOK' /\ ChannelFrame
  <2>1. \A r \in Records : topic[r] >= topic[r]
    BY DEF TypeOK, StoreTypeOK
  <2> QED
    BY <1>1, <1>5, <1>6, <2>1, QuarantineStep DEF ResolveCommit, TypeOK, StoreTypeOK, channelVars
<1> QED
  BY <1>2, <1>5, <1>6, <1>7

(* A replay marks its row.                                                 *)
LEMMA ReplayCommitType ==
  ASSUME TypeOK, ReplayInv, NEW c \in Clients, ReplayCommit(c), UNCHANGED jobVars
  PROVE  /\ TypeOK' /\ ChannelFrame /\ Only(c, None)
         /\ errors'[request[c].row].detail = request[c].detail \cup {"replay"}
         /\ \A k \in DOMAIN errors \ {request[c].row} : errors'[k] = errors[k]
         /\ DOMAIN errors' = DOMAIN errors
<1>1. request[c] \in ReplayRequest /\ request[c].row \in DOMAIN errors /\ request[c].op = "replay"
  BY RequestKind DEF ReplayCommit, Replaying, ReplayInv, ReadSound
<1>2. PICK i, b, d : i = request[c].row /\ b = (errors[i].resolved \/ request[c].resolve)
                     /\ d = request[c].detail \cup {"replay"}
  OBVIOUS
<1>3. i \in DOMAIN errors /\ d \in Detail /\ b \in BOOLEAN
  BY <1>1, <1>2 DEF ReplayRequest, Detail
<1>4. errors' = [errors EXCEPT ![i].resolved = b, ![i].detail = d]
  BY <1>2 DEF ReplayCommit
<1>5. /\ errors' \in Seq(Row) /\ DOMAIN errors' = DOMAIN errors
      /\ \A k \in DOMAIN errors : errors'[k].record = errors[k].record /\ errors'[k].job = errors[k].job
      /\ errors'[i].detail = d /\ \A k \in DOMAIN errors \ {i} : errors'[k] = errors[k]
  BY <1>3, <1>4, RowRewritten
<1>6. Only(c, None) /\ accepted' = accepted
  BY UpdateEffect DEF ReplayCommit, Answer
<1>7. acked' \in [Records -> Nat]
  <2>1. request[c].record \in Records /\ acked \in [Records -> Nat]
    BY <1>1 DEF ReplayRequest, TypeOK, StoreTypeOK
  <2>2. acked' = [acked EXCEPT ![request[c].record] = @ + 1]
    BY DEF ReplayCommit, Ack
  <2> QED
    BY <2>1, <2>2
<1>8. TypeOK' /\ ChannelFrame
  <2>1. \A r \in Records : topic[r] >= topic[r]
    BY DEF TypeOK, StoreTypeOK
  <2> QED
    BY <1>1, <1>5, <1>6, <1>7, <2>1, QuarantineStep DEF ReplayCommit, TypeOK, StoreTypeOK, channelVars
<1> QED
  BY <1>2, <1>5, <1>6, <1>8

(* A replay goes on to its next step.                                      *)
LEMMA NextStepType ==
  ASSUME TypeOK, NEW c \in Clients, request[c] \in ReplayRequest, NEW s \in {"send", "commit"}
  PROVE  LET q == [request[c] EXCEPT !.step = s]
         IN  /\ q \in ReplayRequest /\ q.step = s /\ q.op = "replay" /\ q.row = request[c].row
             /\ q.record = request[c].record /\ q.detail = request[c].detail
BY DEF ReplayRequest

(* The claim on the event of a replay.                                     *)
LEMMA ReplayClaimEffect ==
  ASSUME TypeOK, NEW c \in Clients, NEW known \in BOOLEAN, ReplayClaim(c, known)
  PROVE  LET r == request[c].record
         IN  /\ request[c] \in ReplayRequest /\ Replaying(c, "claim")
             /\ \E q : /\ Only(c, q) /\ accepted' = accepted
                       /\ q = None \/ (q \in ReplayRequest /\ q.step = "send" /\ q.row = request[c].row
                                       /\ q.record = r /\ q.detail = request[c].detail)
                       /\ \/ faults' = faults /\ keys' = keys /\ q = None
                          \/ faults' = faults \cup {"redis"} /\ "redis" \notin faults /\ keys' = keys
                          \/ r \notin keys /\ faults' = faults /\ (r = Fresh \/ keys' = keys \cup {r})
                             /\ keys' \in {keys, keys \cup {r}}
<1>1. request[c] \in ReplayRequest /\ Replaying(c, "claim")
  BY RequestKind DEF ReplayClaim, Replaying
<1>2. PICK r : r = request[c].record
  OBVIOUS
<1>3. PICK q : q = [request[c] EXCEPT !.step = "send"]
  OBVIOUS
<1>4. /\ q \in ReplayRequest /\ q.step = "send" /\ q.row = request[c].row
      /\ q.record = r /\ q.detail = request[c].detail
  BY <1>1, <1>2, <1>3, NextStepType
<1>5. CASE ~ known
  <2>1. Fault("redis") /\ Update(c, q) /\ keys' = keys
    BY <1>3, <1>5 DEF ReplayClaim
  <2>2. Only(c, q) /\ accepted' = accepted /\ faults' = faults \cup {"redis"} /\ "redis" \notin faults
    BY <2>1, UpdateEffect DEF Fault
  <2> QED
    BY <1>1, <1>2, <1>4, <2>1, <2>2
<1>6. CASE known /\ r \in keys
  <2>1. Update(c, None) /\ keys' = keys /\ faults' = faults
    BY <1>2, <1>6 DEF ReplayClaim, Answer
  <2>2. Only(c, None) /\ accepted' = accepted
    BY <2>1, UpdateEffect
  <2> QED
    BY <1>1, <2>1, <2>2
<1>7. CASE known /\ r \notin keys
  <2>1. Update(c, q) /\ faults' = faults /\ keys' = IF r = Fresh THEN keys ELSE keys \cup {r}
    BY <1>2, <1>3, <1>7 DEF ReplayClaim
  <2>2. Only(c, q) /\ accepted' = accepted
    BY <2>1, UpdateEffect
  <2> QED
    BY <1>1, <1>2, <1>4, <1>7, <2>1, <2>2
<1> QED
  BY <1>5, <1>6, <1>7

(* A replay claims its event.                                              *)
LEMMA ReplayClaimType ==
  ASSUME TypeOK, NEW c \in Clients, NEW known \in BOOLEAN, ReplayClaim(c, known), UNCHANGED jobVars
  PROVE  TypeOK' /\ ChannelFrame
<1>1. PICK r : r = request[c].record
  OBVIOUS
<1>2. request[c] \in ReplayRequest /\ r \in Records /\ Replaying(c, "claim")
  BY <1>1, ReplayClaimEffect DEF ReplayRequest
<1>3. PICK q : /\ Only(c, q) /\ accepted' = accepted
               /\ q = None \/ q \in ReplayRequest
               /\ faults' \in {faults, faults \cup {"redis"}} /\ keys' \in {keys, keys \cup {r}}
  BY <1>1, ReplayClaimEffect
<1>4. faults' \subseteq FaultKinds /\ faults \subseteq faults'
  BY <1>3 DEF TypeOK, StoreTypeOK, FaultKinds
<1>5. \A x \in Records : topic[x] >= topic[x]
  BY DEF TypeOK, StoreTypeOK
<1> QED
  BY <1>2, <1>3, <1>4, <1>5, QuarantineStep DEF ReplayClaim, Replaying, TypeOK, StoreTypeOK

(* 503 without a producer.                                                 *)
LEMMA ReplayWithoutKafkaType ==
  ASSUME TypeOK, NEW c \in Clients, ReplayWithoutKafka(c), UNCHANGED jobVars
  PROVE  TypeOK' /\ ChannelFrame /\ Only(c, None)
<1>1. Only(c, None) /\ accepted' = accepted
  BY UpdateEffect DEF ReplayWithoutKafka, Answer
<1>2. producer' \in BOOLEAN /\ faults \subseteq faults' /\ faults' \subseteq FaultKinds
  BY ProducerEffect DEF ReplayWithoutKafka
<1>3. \A x \in Records : topic[x] >= topic[x]
  BY DEF TypeOK, StoreTypeOK
<1> QED
  BY <1>1, <1>2, <1>3, QuarantineStep DEF ReplayWithoutKafka, Replaying, TypeOK, StoreTypeOK, channelVars

(* The send.                                                               *)
LEMMA ReplaySendEffect ==
  ASSUME TypeOK, NEW c \in Clients, NEW sent \in BOOLEAN, ReplaySend(c, sent)
  PROVE  LET r == request[c].record
         IN  /\ request[c] \in ReplayRequest /\ Replaying(c, "send") /\ r \in Records
             /\ \E q : /\ Only(c, q) /\ accepted' = accepted
                       /\ IF sent
                          THEN /\ q \in ReplayRequest /\ q.step = "commit" /\ q.row = request[c].row
                               /\ q.record = r /\ q.detail = request[c].detail
                          ELSE q = None
             /\ Publish(r, sent)
             /\ replayed' = IF sent THEN [replayed EXCEPT ![r] = @ + 1] ELSE replayed
<1>1. request[c] \in ReplayRequest /\ Replaying(c, "send")
  BY RequestKind DEF ReplaySend, Replaying
<1>2. PICK r : r = request[c].record
  OBVIOUS
<1>3. PICK q : q = IF sent THEN [request[c] EXCEPT !.step = "commit"] ELSE None
  OBVIOUS
<1>4. IF sent THEN /\ q \in ReplayRequest /\ q.step = "commit" /\ q.row = request[c].row
                   /\ q.record = r /\ q.detail = request[c].detail
      ELSE q = None
  BY <1>1, <1>2, <1>3, NextStepType
<1>5. Update(c, q)
  BY <1>3 DEF ReplaySend, Answer
<1>6. Only(c, q) /\ accepted' = accepted
  BY <1>5, UpdateEffect
<1>7. Publish(r, sent) /\ replayed' = IF sent THEN [replayed EXCEPT ![r] = @ + 1] ELSE replayed
  BY <1>2 DEF ReplaySend
<1>8. r \in Records
  BY <1>1, <1>2 DEF ReplayRequest
<1> QED
  BY <1>1, <1>2, <1>4, <1>6, <1>7, <1>8

(* A replay sends its event.                                               *)
LEMMA ReplaySendType ==
  ASSUME TypeOK, NEW c \in Clients, NEW sent \in BOOLEAN, ReplaySend(c, sent), UNCHANGED jobVars
  PROVE  TypeOK' /\ ChannelFrame
<1>1. PICK r : r = request[c].record
  OBVIOUS
<1>2. /\ request[c] \in ReplayRequest /\ Replaying(c, "send") /\ r \in Records /\ Publish(r, sent)
      /\ replayed' = IF sent THEN [replayed EXCEPT ![r] = @ + 1] ELSE replayed
  BY <1>1, ReplaySendEffect
<1>3. PICK q : Only(c, q) /\ accepted' = accepted /\ (q = None \/ q \in ReplayRequest)
  BY ReplaySendEffect
<1>4. /\ topic' \in [Records -> Nat] /\ \A x \in Records : topic'[x] >= topic[x]
      /\ faults \subseteq faults' /\ faults' \subseteq FaultKinds
  BY <1>2, PublishEffect
<1>5. replayed' \in [Records -> Nat]
  BY <1>2 DEF TypeOK
<1> QED
  BY <1>2, <1>3, <1>4, <1>5, QuarantineStep DEF ReplaySend, Replaying, TypeOK, StoreTypeOK

(* A key expires.                                                          *)
LEMMA ExpireKeyType ==
  ASSUME TypeOK, NEW r \in Records, ExpireKey(r), UNCHANGED jobVars
  PROVE  TypeOK' /\ ChannelFrame /\ faults' = faults \cup {"expiry"} /\ "expiry" \notin faults
<1>1. faults' \subseteq FaultKinds /\ faults' = faults \cup {"expiry"} /\ "expiry" \notin faults
  BY FaultEffect DEF ExpireKey, TypeOK, StoreTypeOK, FaultKinds, Fault
<1>2. TypeOK'
  BY <1>1 DEF ExpireKey, TypeOK, StoreTypeOK, jobVars
<1>3. Grows
  BY <1>1, NothingGrows DEF ExpireKey
<1> QED
  BY <1>1, <1>2, <1>3 DEF ChannelFrame, ExpireKey

(* Every step of the channels.                                             *)
LEMMA ChannelType ==
  ASSUME TypeOK, ReplayInv, ChannelNext, UNCHANGED jobVars
  PROVE  TypeOK' /\ ChannelFrame
BY EventQuarantinedType, EventBeginType, BatchBeginType, EventSendType, EventAnswerType,
   SocketOpensType, SocketReceivesType, SocketTakesType, SocketSendsType, SocketClosesType,
   ResolveBeginType, ReplayBeginType, ResolveCommitType, ReplayCommitType, ReplayClaimType,
   ReplayWithoutKafkaType, ReplaySendType, ExpireKeyType DEF ChannelNext
-----------------------------------------------------------------------------
(* Replays.                                                                *)

(* The faults that excuse a second replay are counted.                     *)
LEMMA ExcusesFinite ==
  ASSUME NEW E, E \subseteq {"expiry", "redis"}
  PROVE  IsFiniteSet(E) /\ Cardinality(E) \in Nat
<1>1. IsFiniteSet({"expiry", "redis"})
  <2>1. IsFiniteSet({"expiry"})
    BY FS_Singleton
  <2>2. IsFiniteSet({"expiry"} \cup {"redis"})
    BY <2>1, FS_AddElement
  <2>3. {"expiry"} \cup {"redis"} = {"expiry", "redis"}
    OBVIOUS
  <2> QED
    BY <2>2, <2>3
<1>2. IsFiniteSet(E)
  BY <1>1, FS_Subset
<1> QED
  BY <1>2, FS_CardinalityType

(* A new excuse counts one more, and none is forgotten.                    *)
LEMMA ExcusesGrow ==
  ASSUME faults \subseteq faults'
  PROVE  /\ Cardinality(Excuses) \in Nat /\ Cardinality(Excuses') \in Nat
         /\ Cardinality(Excuses') >= Cardinality(Excuses)
         /\ \A f \in {"expiry", "redis"} : faults' = faults \cup {f} /\ f \notin faults
              => Cardinality(Excuses') = Cardinality(Excuses) + 1
<1>1. PICK A, B : A = Excuses /\ B = Excuses'
  OBVIOUS
<1>2. IsFiniteSet(A) /\ Cardinality(A) \in Nat
  BY <1>1, ExcusesFinite DEF Excuses
<1>3. IsFiniteSet(B) /\ Cardinality(B) \in Nat
  BY <1>1, ExcusesFinite DEF Excuses
<1>4. Cardinality(B) >= Cardinality(A)
  <2>1. A \subseteq B
    BY <1>1 DEF Excuses
  <2> QED
    BY <1>2, <1>3, <2>1, FS_Subset
<1>5. ASSUME NEW f \in {"expiry", "redis"}, faults' = faults \cup {f}, f \notin faults
      PROVE  Cardinality(B) = Cardinality(A) + 1
  <2>1. B = A \cup {f} /\ f \notin A
    BY <1>1, <1>5 DEF Excuses
  <2> QED
    BY <1>2, <2>1, FS_AddElement
<1> QED
  BY <1>1, <1>2, <1>3, <1>4, <1>5

(* A step that does not replay the event and at most ends its replays.     *)
LEMMA ClaimedKept ==
  ASSUME TypeOK, NEW r \in Records, Claimed(r), faults \subseteq faults', Sending(r)' \subseteq Sending(r),
         replayed'[r] = replayed[r], r \in keys => r \in keys'
  PROVE  Claimed(r)'
<1>1. PICK S, T : S = Sending(r) /\ T = Sending(r)'
  OBVIOUS
<1>2. IsFiniteSet(S) /\ T \subseteq S
  BY <1>1 DEF Claimed
<1>3. IsFiniteSet(T) /\ Cardinality(T) <= Cardinality(S)
  BY <1>2, FS_Subset
<1>4. Cardinality(S) \in Nat /\ Cardinality(T) \in Nat
  BY <1>2, <1>3, FS_CardinalityType
<1>5. /\ Cardinality(Excuses) \in Nat /\ Cardinality(Excuses') \in Nat
      /\ Cardinality(Excuses') >= Cardinality(Excuses)
  BY ExcusesGrow
<1>6. replayed[r] \in Nat
  BY DEF TypeOK
<1>7. replayed[r] + Cardinality(S) <= (IF r \in keys THEN 1 ELSE 0) + Cardinality(Excuses)
  BY <1>1 DEF Claimed
<1>8. replayed'[r] + Cardinality(T) <= (IF r \in keys' THEN 1 ELSE 0) + Cardinality(Excuses')
  BY <1>3, <1>4, <1>5, <1>6, <1>7
<1> QED
  BY <1>1, <1>3, <1>8 DEF Claimed

(* The history of replays and the rows that are read go on.                *)
RowsKept ==
  /\ DOMAIN errors \subseteq DOMAIN errors'
  /\ \A i \in DOMAIN errors : errors'[i].record = errors[i].record
  /\ replayed' \in [Records -> Nat] /\ \A r \in Records : replayed'[r] >= replayed[r]

(* What was replayed stays so.                                             *)
LEMMA WasReplayedKept ==
  ASSUME TypeOK, RowsKept, NEW i \in DOMAIN errors, WasReplayed(i)
  PROVE  WasReplayed(i)'
<1>1. errors[i].record \in Records
  BY RowAt DEF Row
<1>2. replayed \in [Records -> Nat] /\ Fresh \in Records
  BY ChannelAssumption DEF TypeOK
<1> QED
  BY <1>1, <1>2 DEF WasReplayed, RowsKept

(* What a request has read still holds.                                    *)
LEMMA ReadKept ==
  ASSUME TypeOK, ReplayInv, RowsKept, NEW c \in Clients, request'[c] = request[c]
  PROVE  ReadSound(c)'
<1>1. SUFFICES ASSUME request[c] # None, request[c].op \in {"resolve", "replay"}
               PROVE  LET q == request[c]
                      IN  /\ q.row \in DOMAIN errors'
                          /\ "replay" \in q.detail => WasReplayed(q.row)'
                          /\ q.op = "replay" => /\ q.record \in {errors'[q.row].record, Fresh}
                                                /\ q.step = "commit" => replayed'[q.record] > 0
  BY DEF ReadSound, WasReplayed
<1>2. ReadSound(c)
  BY DEF ReplayInv
<1>3. request[c].row \in DOMAIN errors /\ request[c].row \in DOMAIN errors'
  BY <1>1, <1>2 DEF ReadSound, RowsKept
<1>4. "replay" \in request[c].detail => WasReplayed(request[c].row)'
  BY <1>1, <1>2, <1>3, WasReplayedKept DEF ReadSound
<1>5. ASSUME request[c].op = "replay"
      PROVE  /\ request[c].record \in {errors'[request[c].row].record, Fresh}
             /\ request[c].step = "commit" => replayed'[request[c].record] > 0
  <2>1. request[c].record \in Records
    BY <1>1, <1>5, RequestKind DEF ReplayRequest
  <2>2. replayed[request[c].record] \in Nat
    BY <2>1 DEF TypeOK
  <2> QED
    BY <1>1, <1>2, <1>3, <1>5, <2>1, <2>2 DEF ReadSound, RowsKept
<1> QED
  BY <1>3, <1>4, <1>5

(* The marks on the rows stay true.                                        *)
LEMMA MarkKept ==
  ASSUME TypeOK, ReplayInv, RowsKept,
         \A i \in DOMAIN errors' : "replay" \in errors'[i].detail =>
           i \in DOMAIN errors /\ ("replay" \in errors[i].detail \/ WasReplayed(i))
  PROVE  ReplayMarkTrue'
<1>1. ASSUME NEW i \in DOMAIN errors', "replay" \in errors'[i].detail PROVE WasReplayed(i)'
  <2>1. i \in DOMAIN errors /\ WasReplayed(i)
    BY <1>1 DEF ReplayInv, ReplayMarkTrue, WasReplayed
  <2> QED
    BY <2>1, WasReplayedKept
<1> QED
  BY <1>1 DEF ReplayMarkTrue, WasReplayed
(* A step of the jobs.                                                     *)
LEMMA ReplayInvJobs ==
  ASSUME TypeOK, ReplayInv, JobFrame, UNCHANGED channelVars
  PROVE  ReplayInv'
<1>1. keys' = keys /\ replayed' = replayed /\ faults \subseteq faults'
  BY DEF channelVars, JobFrame, Grows
<1>2. \A r \in Records : replayed[r] >= replayed[r]
  BY DEF TypeOK
<1>3. RowsKept
  BY <1>1, <1>2 DEF JobFrame, RowsKept, TypeOK
<1>4. ASSUME NEW c \in Clients, request'[c] # request[c]
      PROVE  /\ request[c] = None \/ request[c].op \notin {"resolve", "replay"}
             /\ request'[c] = None \/ request'[c].op \notin {"resolve", "replay"}
  BY <1>4 DEF JobFrame, JobRequest, JobOps
<1>5. ASSUME NEW r \in Records PROVE Sending(r)' \subseteq Sending(r)
  BY <1>4 DEF Sending, Replaying
<1>6. \A r \in Records \ {Fresh} : Claimed(r)'
  BY <1>1, <1>5, ClaimedKept DEF ReplayInv
<1>7. ASSUME NEW c \in Clients PROVE ReadSound(c)'
  <2>1. CASE request'[c] = request[c]
    BY <1>3, <2>1, ReadKept
  <2>2. CASE request'[c] # request[c]
    BY <1>4, <2>2 DEF ReadSound
  <2> QED
    BY <2>1, <2>2
<1>8. ReplayMarkTrue'
  <2>1. \A i \in DOMAIN errors' : "replay" \in errors'[i].detail =>
          i \in DOMAIN errors /\ "replay" \in errors[i].detail
    BY DEF JobFrame
  <2> QED
    BY <1>3, <2>1, MarkKept
<1> QED
  BY <1>6, <1>7, <1>8 DEF ReplayInv

(* A step of the channels that claims, sends and marks nothing: a request  *)
(* at most ends or is not one of the quarantine.                           *)
LEMMA ReplayInvKept ==
  ASSUME TypeOK, ReplayInv, ChannelFrame, keys' = keys, replayed' = replayed,
         \A i \in DOMAIN errors' : "replay" \in errors'[i].detail =>
           i \in DOMAIN errors /\ "replay" \in errors[i].detail,
         \A c \in Clients : \/ request'[c] = request[c] \/ request'[c] = None
                            \/ request'[c].op \notin {"resolve", "replay"}
  PROVE  ReplayInv'
<1>1. faults \subseteq faults'
  BY DEF ChannelFrame, Grows
<1>2. \A r \in Records : replayed[r] >= replayed[r]
  BY DEF TypeOK
<1>3. RowsKept
  BY <1>2 DEF ChannelFrame, RowsKept, TypeOK
<1>4. ASSUME NEW r \in Records PROVE Sending(r)' \subseteq Sending(r)
  BY DEF Sending, Replaying
<1>5. \A r \in Records \ {Fresh} : Claimed(r)'
  BY <1>1, <1>4, ClaimedKept DEF ReplayInv
<1>6. ASSUME NEW c \in Clients PROVE ReadSound(c)'
  <2>1. CASE request'[c] = request[c]
    BY <1>3, <2>1, ReadKept
  <2>2. CASE request'[c] # request[c]
    BY <2>2 DEF ReadSound
  <2> QED
    BY <2>1, <2>2
<1>7. ReplayMarkTrue'
  BY <1>3, MarkKept
<1> QED
  BY <1>5, <1>6, <1>7 DEF ReplayInv

(* The channels but for the quarantine.                                    *)
LEMMA ReplayInvEvents ==
  ASSUME TypeOK, ReplayInv, ChannelFrame,
         \/ \E c \in Clients, r \in Events, ok \in BOOLEAN : EventQuarantined(c, r) \/ EventBegin(c, r, ok)
         \/ \E c \in Clients, r \in Events, ok \in BOOLEAN : \E s \in Events \ {r} : BatchBegin(c, <<r, s>>, ok)
         \/ \E c \in Clients, ok \in BOOLEAN : EventSend(c, ok)
         \/ \E c \in Clients : EventAnswer(c) \/ ReplayWithoutKafka(c)
         \/ SocketOpens \/ SocketTakes \/ SocketCloses
         \/ \E r \in Events : SocketReceives(r)
         \/ \E ok \in BOOLEAN : SocketSends(ok)
  PROVE  ReplayInv'
<1>1. keys' = keys /\ replayed' = replayed
  BY DEF EventQuarantined, EventBegin, BatchBegin, EventSend, EventAnswer, ReplayWithoutKafka, SocketOpens,
         SocketTakes, SocketCloses, SocketReceives, SocketSends, channelVars
<1>2. \A i \in DOMAIN errors' : "replay" \in errors'[i].detail =>
        i \in DOMAIN errors /\ "replay" \in errors[i].detail
  <2>1. CASE \E c \in Clients, r \in Events : EventQuarantined(c, r)
    <3>1. PICK c \in Clients, r \in Events : EventQuarantined(c, r)
      BY <2>1
    <3>2. r \in Records /\ errors' = Append(errors, NewRow(r, None))
      BY <3>1 DEF EventQuarantined, Events
    <3>3. /\ DOMAIN errors' = DOMAIN errors \cup {Len(errors) + 1}
          /\ \A i \in DOMAIN errors : errors'[i] = errors[i]
          /\ errors'[Len(errors) + 1].detail = {}
      BY <3>2, RowAdded
    <3> QED
      BY <3>3
  <2>2. CASE errors' = errors
    BY <2>2
  <2> QED
    BY <2>1, <2>2 DEF EventBegin, BatchBegin, EventSend, EventAnswer, ReplayWithoutKafka, SocketOpens,
         SocketTakes, SocketCloses, SocketReceives, SocketSends, storeVars
<1>3. \A c \in Clients : \/ request'[c] = request[c] \/ request'[c] = None
                         \/ request'[c].op \notin {"resolve", "replay"}
  <2>1. ASSUME NEW c \in Clients, NEW r \in Events, NEW ok \in BOOLEAN, EventBegin(c, r, ok)
        PROVE  \E q : Only(c, q) /\ (q = None \/ q.op = "event")
    <3>1. PICK q : q = IF ok THEN [op |-> "event", left |-> <<r>>, sent |-> {}] ELSE None
      OBVIOUS
    <3>2. Only(c, q)
      BY <2>1, <3>1, AcceptEffect DEF EventBegin
    <3> QED
      BY <3>1, <3>2
  <2>2. ASSUME NEW c \in Clients, NEW b, NEW ok \in BOOLEAN, BatchBegin(c, b, ok)
        PROVE  \E q : Only(c, q) /\ (q = None \/ q.op = "batch")
    <3>1. PICK q : q = IF ok THEN [op |-> "batch", sent |-> {}, left |-> Selected(b, Kinds \ {"card"})] ELSE None
      OBVIOUS
    <3>2. Only(c, q)
      BY <2>2, <3>1, AcceptEffect DEF BatchBegin
    <3> QED
      BY <3>1, <3>2
  <2>3. ASSUME NEW c \in Clients, NEW ok \in BOOLEAN, EventSend(c, ok)
        PROVE  \E q : Only(c, q) /\ q.op \in {"event", "batch"}
    <3>1. PICK q \in EventRequest : Only(c, q)
      BY <2>3, EventSendEffect
    <3> QED
      BY <3>1 DEF EventRequest
  <2>4. ASSUME NEW c \in Clients, EventAnswer(c) \/ ReplayWithoutKafka(c) PROVE Only(c, None)
    BY <2>4, UpdateEffect DEF EventAnswer, ReplayWithoutKafka, Answer
  <2>5. CASE request' = request
    BY <2>5
  <2>6. ASSUME NEW c \in Clients, \E q : Only(c, q) /\ (q = None \/ q.op \in {"event", "batch"})
        PROVE  \A d \in Clients : \/ request'[d] = request[d] \/ request'[d] = None
                                  \/ request'[d].op \notin {"resolve", "replay"}
    BY <2>6 DEF Only
  <2> QED
    BY <2>1, <2>2, <2>3, <2>4, <2>5, <2>6 DEF EventQuarantined, SocketOpens, SocketTakes, SocketCloses,
         SocketReceives, SocketSends, storeVars
<1> QED
  BY <1>1, <1>2, <1>3, ReplayInvKept
(* The quarantine: what a step of one replay or resolution must show.      *)
LEMMA ReplayInvOne ==
  ASSUME TypeOK, ReplayInv, ChannelFrame, RowsKept, NEW c \in Clients, NEW q, Only(c, q),
         q = None \/ ReadSound(c)',
         \A i \in DOMAIN errors' : "replay" \in errors'[i].detail =>
           i \in DOMAIN errors /\ ("replay" \in errors[i].detail \/ WasReplayed(i)),
         \A r \in Records \ {Fresh} : Claimed(r)'
  PROVE  ReplayInv'
<1>1. ASSUME NEW d \in Clients PROVE ReadSound(d)'
  <2>1. CASE d = c
    BY <2>1 DEF Only, ReadSound
  <2>2. CASE d # c
    BY <2>2, ReadKept DEF Only
  <2> QED
    BY <2>1, <2>2
<1>2. ReplayMarkTrue'
  BY MarkKept
<1> QED
  BY <1>1, <1>2 DEF ReplayInv

(* A request reads a row.                                                  *)
LEMMA ReplayInvRead ==
  ASSUME TypeOK, ReplayInv, ChannelFrame, NEW c \in Clients, NEW i \in DOMAIN errors, NEW q,
         Accept(c, q), UNCHANGED <<errors, channelVars>>, q \in ResolveRequest \cup ReplayRequest,
         q.row = i, q.detail = errors[i].detail,
         q.op = "replay" => q.record \in {errors[i].record, Fresh} /\ q.step = "claim"
  PROVE  ReplayInv'
<1>1. Only(c, q) /\ request[c] = None
  BY AcceptEffect
<1>2. keys' = keys /\ replayed' = replayed /\ faults \subseteq faults' /\ errors' = errors
  BY DEF channelVars, ChannelFrame, Grows
<1>3. \A r \in Records : replayed[r] >= replayed[r]
  BY DEF TypeOK
<1>4. RowsKept
  BY <1>2, <1>3 DEF ChannelFrame, RowsKept, TypeOK
<1>5. \A r \in Records : Sending(r)' \subseteq Sending(r)
  BY <1>1 DEF Sending, Replaying, Only, ResolveRequest
<1>6. \A r \in Records \ {Fresh} : Claimed(r)'
  BY <1>2, <1>5, ClaimedKept DEF ReplayInv
<1>7. "replay" \in q.detail => WasReplayed(i)'
  BY <1>2 DEF ReplayInv, ReplayMarkTrue, WasReplayed
<1>8. ReadSound(c)'
  BY <1>1, <1>2, <1>7 DEF ReadSound, Only, WasReplayed
<1> QED
  BY <1>1, <1>2, <1>4, <1>6, <1>8, ReplayInvOne

(* A resolution reads its row: what it reads is true.                      *)
LEMMA ReplayInvResolveBegin ==
  ASSUME TypeOK, ReplayInv, ChannelFrame, NEW c \in Clients, NEW i \in DOMAIN errors, ResolveBegin(c, i)
  PROVE  ReplayInv'
<1>1. PICK q : q = [op |-> "resolve", row |-> i, detail |-> errors[i].detail]
  OBVIOUS
<1>2. q \in ResolveRequest
  BY <1>1, ReadBeginsAs, StoreAssumption, ChannelAssumption
<1>3. Accept(c, q) /\ UNCHANGED <<errors, channelVars>>
  BY <1>1 DEF ResolveBegin
<1> QED
  BY <1>1, <1>2, <1>3, ReplayInvRead

(* A replay reads its row: what it reads is true.                          *)
LEMMA ReplayInvReplayBegin ==
  ASSUME TypeOK, ReplayInv, ChannelFrame, NEW c \in Clients, NEW i \in DOMAIN errors, NEW r \in Records,
         NEW resolve \in BOOLEAN, ReplayBegin(c, i, r, resolve)
  PROVE  ReplayInv'
<1>1. PICK q : q = [op |-> "replay", row |-> i, detail |-> errors[i].detail, record |-> r,
                    resolve |-> resolve, step |-> "claim"]
  OBVIOUS
<1>2. q \in ReplayRequest
  BY <1>1, ReadBeginsAs
<1>3. Accept(c, q) /\ UNCHANGED <<errors, channelVars>> /\ r \in {errors[i].record, Fresh}
  BY <1>1 DEF ReplayBegin
<1> QED
  BY <1>1, <1>2, <1>3, ReplayInvRead

(* A resolution writes back what it has read.                              *)
LEMMA ReplayInvResolveCommit ==
  ASSUME TypeOK, ReplayInv, NEW c \in Clients, ResolveCommit(c), UNCHANGED jobVars
  PROVE  ReplayInv'
<1>1. /\ ChannelFrame /\ Only(c, None) /\ DOMAIN errors' = DOMAIN errors
      /\ errors'[request[c].row].detail = request[c].detail \cup {"note"}
      /\ \A k \in DOMAIN errors \ {request[c].row} : errors'[k] = errors[k]
  BY ResolveCommitType
<1>2. keys' = keys /\ replayed' = replayed /\ faults \subseteq faults'
  BY DEF ResolveCommit, channelVars
<1>3. \A r \in Records : replayed[r] >= replayed[r]
  BY DEF TypeOK
<1>4. RowsKept
  BY <1>1, <1>2, <1>3 DEF ChannelFrame, RowsKept, TypeOK
<1>5. \A r \in Records : Sending(r)' \subseteq Sending(r)
  BY <1>1 DEF Sending, Replaying, Only
<1>6. \A r \in Records \ {Fresh} : Claimed(r)'
  BY <1>2, <1>5, ClaimedKept DEF ReplayInv
<1>7. "replay" \in request[c].detail => WasReplayed(request[c].row)
  BY DEF ReplayInv, ReadSound, ResolveCommit
<1> QED
  BY <1>1, <1>4, <1>6, <1>7, ReplayInvOne

(* A replay writes back what it has read, and its mark, which is true.     *)
LEMMA ReplayInvReplayCommit ==
  ASSUME TypeOK, ReplayInv, NEW c \in Clients, ReplayCommit(c), UNCHANGED jobVars
  PROVE  ReplayInv'
<1>1. /\ ChannelFrame /\ Only(c, None) /\ DOMAIN errors' = DOMAIN errors
      /\ errors'[request[c].row].detail = request[c].detail \cup {"replay"}
      /\ \A k \in DOMAIN errors \ {request[c].row} : errors'[k] = errors[k]
  BY ReplayCommitType
<1>2. keys' = keys /\ replayed' = replayed /\ faults \subseteq faults'
  BY DEF ReplayCommit, channelVars
<1>3. \A r \in Records : replayed[r] >= replayed[r]
  BY DEF TypeOK
<1>4. RowsKept
  BY <1>1, <1>2, <1>3 DEF ChannelFrame, RowsKept, TypeOK
<1>5. \A r \in Records : Sending(r)' \subseteq Sending(r)
  BY <1>1 DEF Sending, Replaying, Only
<1>6. \A r \in Records \ {Fresh} : Claimed(r)'
  BY <1>2, <1>5, ClaimedKept DEF ReplayInv
<1>7. /\ request[c].row \in DOMAIN errors /\ request[c].record \in {errors[request[c].row].record, Fresh}
      /\ replayed[request[c].record] > 0
  BY DEF ReplayInv, ReadSound, ReplayCommit, Replaying
<1>8. WasReplayed(request[c].row)
  <2>1. errors[request[c].row].record \in Records
    BY <1>7, RowAt DEF Row
  <2>2. replayed[errors[request[c].row].record] \in Nat /\ replayed[Fresh] \in Nat
    BY <2>1, ChannelAssumption DEF TypeOK
  <2> QED
    BY <1>7, <2>2 DEF WasReplayed
<1> QED
  BY <1>1, <1>4, <1>6, <1>8, ReplayInvOne

(* The set of claims under way with c in it or not.                        *)
LEMMA SendingOne ==
  ASSUME NEW c \in Clients, NEW q, Only(c, q), NEW r
  PROVE  Sending(r)' = (Sending(r) \ {c}) \cup
                         {d \in {c} : q # None /\ q.op = "replay" /\ q.step = "send" /\ q.record = r}
BY DEF Sending, Replaying, Only

(* A replay claims its event: under a new key, or excused.                 *)
LEMMA ReplayInvClaim ==
  ASSUME TypeOK, ReplayInv, ChannelFrame, NEW c \in Clients, NEW known \in BOOLEAN, ReplayClaim(c, known)
  PROVE  ReplayInv'
<1>1. PICK x : x = request[c].record
  OBVIOUS
<1>2. request[c] \in ReplayRequest /\ x \in Records /\ Replaying(c, "claim")
  BY <1>1, ReplayClaimEffect DEF ReplayRequest
<1>3. PICK q : /\ Only(c, q)
               /\ q = None \/ (q \in ReplayRequest /\ q.step = "send" /\ q.row = request[c].row
                               /\ q.record = x /\ q.detail = request[c].detail)
               /\ \/ faults' = faults /\ keys' = keys /\ q = None
                  \/ faults' = faults \cup {"redis"} /\ "redis" \notin faults /\ keys' = keys
                  \/ x \notin keys /\ faults' = faults /\ (x = Fresh \/ keys' = keys \cup {x})
                     /\ keys' \in {keys, keys \cup {x}}
  BY <1>1, ReplayClaimEffect
<1>4. replayed' = replayed /\ errors' = errors /\ faults \subseteq faults'
  BY DEF ReplayClaim, ChannelFrame, Grows
<1>5. \A r \in Records : replayed[r] >= replayed[r]
  BY DEF TypeOK
<1>6. RowsKept
  BY <1>4, <1>5 DEF ChannelFrame, RowsKept, TypeOK
<1>7. c \notin Sending(x)
  BY <1>2 DEF Sending, Replaying
<1>8. ASSUME NEW r \in Records \ {Fresh} PROVE Claimed(r)'
  <2>1. Claimed(r)
    BY DEF ReplayInv
  <2>2. CASE r # x \/ q = None
    <3>1. Sending(r)' \subseteq Sending(r)
      BY <1>3, <2>2, SendingOne
    <3> QED
      BY <1>3, <1>4, <2>1, <3>1, ClaimedKept
  <2>3. CASE r = x /\ q # None
    <3>1. Sending(r)' \subseteq Sending(r) \cup {c}
      BY <1>3, SendingOne
    <3>2. PICK S, T : S = Sending(r) /\ T = Sending(r)'
      OBVIOUS
    <3>3. IsFiniteSet(S) /\ T \subseteq S \cup {c} /\ c \notin S
      BY <1>7, <2>1, <2>3, <3>1, <3>2 DEF Claimed
    <3>4. IsFiniteSet(S \cup {c}) /\ Cardinality(S \cup {c}) = Cardinality(S) + 1
      BY <3>3, FS_AddElement
    <3>5. IsFiniteSet(T) /\ Cardinality(T) <= Cardinality(S) + 1
      BY <3>3, <3>4, FS_Subset
    <3>6. Cardinality(S) \in Nat /\ Cardinality(T) \in Nat
      BY <3>3, <3>5, FS_CardinalityType
    <3>7. /\ Cardinality(Excuses) \in Nat /\ Cardinality(Excuses') \in Nat
          /\ Cardinality(Excuses') >= Cardinality(Excuses)
          /\ faults' = faults \cup {"redis"} /\ "redis" \notin faults
               => Cardinality(Excuses') = Cardinality(Excuses) + 1
      BY <1>4, ExcusesGrow
    <3>8. replayed[r] \in Nat /\ replayed'[r] = replayed[r]
      BY <1>4 DEF TypeOK
    <3>9. replayed[r] + Cardinality(S) <= (IF r \in keys THEN 1 ELSE 0) + Cardinality(Excuses)
      BY <2>1, <3>2 DEF Claimed
    <3>10. \/ keys' = keys /\ faults' = faults \cup {"redis"} /\ "redis" \notin faults
           \/ r \notin keys /\ r \in keys' /\ faults' = faults
      BY <1>3, <2>3
    <3>11. replayed'[r] + Cardinality(T) <= (IF r \in keys' THEN 1 ELSE 0) + Cardinality(Excuses')
      BY <3>5, <3>6, <3>7, <3>8, <3>9, <3>10
    <3> QED
      BY <3>2, <3>5, <3>11 DEF Claimed
  <2> QED
    BY <2>2, <2>3
<1>9. q = None \/ ReadSound(c)'
  <2>1. ReadSound(c) /\ request[c] # None /\ request[c].op = "replay"
    BY <1>2 DEF ReplayInv, Replaying
  <2>2. PICK i, d : i = request[c].row /\ d = request[c].detail
    OBVIOUS
  <2>3. i \in DOMAIN errors /\ ("replay" \in d => WasReplayed(i)) /\ x \in {errors[i].record, Fresh}
    BY <1>1, <2>1, <2>2 DEF ReadSound
  <2>4. "replay" \in d => WasReplayed(i)'
    BY <1>6, <2>3, WasReplayedKept
  <2> QED
    BY <1>3, <1>4, <2>2, <2>3, <2>4 DEF ReadSound, Only, WasReplayed
<1> QED
  BY <1>3, <1>4, <1>6, <1>8, <1>9, ReplayInvOne

(* The send of a replay: its claim is used up.                             *)
LEMMA ReplayInvSend ==
  ASSUME TypeOK, ReplayInv, ChannelFrame, NEW c \in Clients, NEW sent \in BOOLEAN, ReplaySend(c, sent)
  PROVE  ReplayInv'
<1>1. PICK x : x = request[c].record
  OBVIOUS
<1>2. /\ request[c] \in ReplayRequest /\ x \in Records /\ Replaying(c, "send")
      /\ replayed' = IF sent THEN [replayed EXCEPT ![x] = @ + 1] ELSE replayed
  BY <1>1, ReplaySendEffect DEF ReplayRequest
<1>3. PICK q : /\ Only(c, q)
               /\ IF sent
                  THEN /\ q \in ReplayRequest /\ q.step = "commit" /\ q.row = request[c].row
                       /\ q.record = x /\ q.detail = request[c].detail
                  ELSE q = None
  BY <1>1, ReplaySendEffect
<1>4. keys' = keys /\ errors' = errors /\ faults \subseteq faults'
  BY DEF ReplaySend, ChannelFrame, Grows
<1>5. /\ replayed' \in [Records -> Nat] /\ \A r \in Records : replayed'[r] >= replayed[r]
      /\ \A r \in Records \ {x} : replayed'[r] = replayed[r]
      /\ replayed'[x] = IF sent THEN replayed[x] + 1 ELSE replayed[x]
  BY <1>2 DEF TypeOK
<1>6. RowsKept
  BY <1>4, <1>5 DEF RowsKept
<1>7. c \in Sending(x)
  BY <1>1, <1>2 DEF Sending
<1>8. ASSUME NEW r \in Records \ {Fresh} PROVE Claimed(r)'
  <2>1. Claimed(r)
    BY DEF ReplayInv
  <2>2. Sending(r)' \subseteq Sending(r) \ {c}
    BY <1>3, SendingOne
  <2>3. CASE r # x \/ ~ sent
    <3>1. replayed'[r] = replayed[r]
      BY <1>5, <2>3
    <3> QED
      BY <1>4, <2>1, <2>2, <3>1, ClaimedKept
  <2>4. CASE r = x /\ sent
    <3>1. PICK S, T : S = Sending(r) /\ T = Sending(r)'
      OBVIOUS
    <3>2. IsFiniteSet(S) /\ T \subseteq S \ {c} /\ c \in S
      BY <1>7, <2>1, <2>2, <2>4, <3>1 DEF Claimed
    <3>3. IsFiniteSet(S \ {c}) /\ Cardinality(S \ {c}) = Cardinality(S) - 1
      BY <3>2, FS_RemoveElement
    <3>4. IsFiniteSet(T) /\ Cardinality(T) <= Cardinality(S) - 1
      BY <3>2, <3>3, FS_Subset
    <3>5. Cardinality(S) \in Nat /\ Cardinality(T) \in Nat
      BY <3>2, <3>4, FS_CardinalityType
    <3>6. /\ Cardinality(Excuses) \in Nat /\ Cardinality(Excuses') \in Nat
          /\ Cardinality(Excuses') >= Cardinality(Excuses)
      BY <1>4, ExcusesGrow
    <3>7. replayed[r] \in Nat /\ replayed'[r] = replayed[r] + 1
      BY <1>5, <2>4 DEF TypeOK
    <3>8. replayed[r] + Cardinality(S) <= (IF r \in keys THEN 1 ELSE 0) + Cardinality(Excuses)
      BY <2>1, <3>1 DEF Claimed
    <3>9. replayed'[r] + Cardinality(T) <= (IF r \in keys' THEN 1 ELSE 0) + Cardinality(Excuses')
      BY <1>4, <3>4, <3>5, <3>6, <3>7, <3>8
    <3> QED
      BY <3>1, <3>4, <3>9 DEF Claimed
  <2> QED
    BY <2>3, <2>4
<1>9. q = None \/ ReadSound(c)'
  <2>1. ReadSound(c) /\ request[c] # None /\ request[c].op = "replay"
    BY <1>2 DEF ReplayInv, Replaying
  <2>2. PICK i, d : i = request[c].row /\ d = request[c].detail
    OBVIOUS
  <2>3. i \in DOMAIN errors /\ ("replay" \in d => WasReplayed(i)) /\ x \in {errors[i].record, Fresh}
    BY <1>1, <2>1, <2>2 DEF ReadSound
  <2>4. "replay" \in d => WasReplayed(i)'
    BY <1>6, <2>3, WasReplayedKept
  <2>5. sent => replayed'[x] > 0
    <3>1. replayed[x] \in Nat
      BY <1>2 DEF TypeOK
    <3> QED
      BY <1>5, <3>1
  <2> QED
    BY <1>3, <1>4, <2>2, <2>3, <2>4, <2>5 DEF ReadSound, Only, WasReplayed
<1>10. \A i \in DOMAIN errors' : "replay" \in errors'[i].detail =>
         i \in DOMAIN errors /\ "replay" \in errors[i].detail
  BY <1>4
<1> QED
  BY <1>3, <1>6, <1>8, <1>9, <1>10, ReplayInvOne

(* A key expires, which excuses one replay more of its event.              *)
LEMMA ReplayInvExpire ==
  ASSUME TypeOK, ReplayInv, ChannelFrame, NEW x \in Records, ExpireKey(x), UNCHANGED jobVars
  PROVE  ReplayInv'
<1>1. /\ keys' = keys \ {x} /\ replayed' = replayed /\ errors' = errors /\ request' = request
      /\ faults' = faults \cup {"expiry"} /\ "expiry" \notin faults /\ faults \subseteq faults'
  BY ExpireKeyType DEF ExpireKey
<1>2. \A r \in Records : replayed[r] >= replayed[r]
  BY DEF TypeOK
<1>3. RowsKept
  BY <1>1, <1>2 DEF RowsKept, TypeOK
<1>4. ASSUME NEW r \in Records \ {Fresh} PROVE Claimed(r)'
  <2>1. Claimed(r) /\ Sending(r)' = Sending(r)
    BY <1>1 DEF ReplayInv, Sending, Replaying
  <2>2. PICK S : S = Sending(r)
    OBVIOUS
  <2>3. IsFiniteSet(S) /\ Cardinality(S) \in Nat
    BY <2>1, <2>2, FS_CardinalityType DEF Claimed
  <2>4. Cardinality(Excuses) \in Nat /\ Cardinality(Excuses') = Cardinality(Excuses) + 1
    BY <1>1, ExcusesGrow
  <2>5. replayed[r] \in Nat
    BY DEF TypeOK
  <2>6. replayed[r] + Cardinality(S) <= (IF r \in keys THEN 1 ELSE 0) + Cardinality(Excuses)
    BY <2>1, <2>2 DEF Claimed
  <2>7. replayed'[r] + Cardinality(S) <= (IF r \in keys' THEN 1 ELSE 0) + Cardinality(Excuses')
    BY <1>1, <2>3, <2>4, <2>5, <2>6
  <2> QED
    BY <2>1, <2>2, <2>3, <2>7 DEF Claimed
<1>5. \A c \in Clients : ReadSound(c)'
  BY <1>1, <1>3, ReadKept
<1>6. ReplayMarkTrue'
  BY <1>1, <1>3, MarkKept
<1> QED
  BY <1>4, <1>5, <1>6 DEF ReplayInv

(* Every step of the channels.                                             *)
LEMMA ReplayInvChannels ==
  ASSUME TypeOK, ReplayInv, ChannelNext, UNCHANGED jobVars
  PROVE  ReplayInv'
<1>1. ChannelFrame
  BY ChannelType
<1>2. CASE \E c \in Clients, r \in Events, ok \in BOOLEAN : EventQuarantined(c, r) \/ EventBegin(c, r, ok)
  BY <1>1, <1>2, ReplayInvEvents
<1>3. CASE \E c \in Clients, r \in Events, ok \in BOOLEAN : \E s \in Events \ {r} : BatchBegin(c, <<r, s>>, ok)
  BY <1>1, <1>3, ReplayInvEvents
<1>4. CASE \E c \in Clients, ok \in BOOLEAN : EventSend(c, ok) \/ ReplayClaim(c, ok) \/ ReplaySend(c, ok)
  BY <1>1, <1>4, ReplayInvEvents, ReplayInvClaim, ReplayInvSend
<1>5. CASE \E c \in Clients : \/ EventAnswer(c) \/ ResolveCommit(c)
                              \/ ReplayWithoutKafka(c) \/ ReplayCommit(c)
  BY <1>1, <1>5, ReplayInvEvents, ReplayInvResolveCommit, ReplayInvReplayCommit
<1>6. CASE SocketOpens \/ SocketTakes \/ SocketCloses \/ (\E r \in Events : SocketReceives(r))
           \/ (\E ok \in BOOLEAN : SocketSends(ok))
  BY <1>1, <1>6, ReplayInvEvents
<1>7. CASE \E c \in Clients, i \in DOMAIN errors :
             \/ ResolveBegin(c, i)
             \/ \E r \in Records, resolve \in BOOLEAN : ReplayBegin(c, i, r, resolve)
  BY <1>1, <1>7, ReplayInvResolveBegin, ReplayInvReplayBegin
<1>8. CASE \E r \in Records : ExpireKey(r)
  BY <1>1, <1>8, ReplayInvExpire
<1> QED
  BY <1>2, <1>3, <1>4, <1>5, <1>6, <1>7, <1>8 DEF ChannelNext
-----------------------------------------------------------------------------
(* Jobs.  Who has a job in hand, and what holds of the job meanwhile.      *)
Serves(c, j) == JobRequest(request[c]) /\ request[c].job = j

Works(j) == worker # None /\ worker.job = j

InlineSound(c, j) ==
  Serves(c, j) /\ request[c].op \in {"webhook", "parse"} =>
    LET q == request[c]
    IN  /\ jobs[j].status = "PROCESSING" /\ jobs[j].op = q.op /\ RowsFor(j) = {}
        /\ q.failed = Len(q.rows) \/ (q.op = "parse" /\ "publish" \in faults)
        /\ q.failed = 0 => q.rows = <<>> /\ q.processed \o q.left = Parsed(jobs[j].content)
        /\ jobs[j].via => \A i \in DOMAIN q.processed : topic[q.processed[i]] > 0

QueueSound(c, j) ==
  Serves(c, j) /\ request[c].op \in {"file", "reprocess", "backfill"} =>
    jobs[j].status = "QUEUED" /\ j \notin messages

Alone(j) ==
  \A c \in Clients : Serves(c, j) => ~ Works(j) /\ \A d \in Clients \ {c} : ~ Serves(d, j)

WorkSound(j) ==
  Works(j) =>
    /\ jobs[j].status = "PROCESSING" /\ worker.form = jobs[j].content.form
    /\ "insert" \notin faults => Cardinality(RowsFor(j)) = worker.failed
    /\ worker.failed = 0 => RowsFor(j) = {} /\ worker.processed \o worker.left = Parsed(jobs[j].content)
    /\ \A i \in DOMAIN worker.processed : topic[worker.processed[i]] > 0

Waiting(j) ==
  /\ j \in messages => jobs[j].status = "QUEUED"
  /\ jobs[j].status = "QUEUED" => RowsFor(j) = {} /\ jobs[j].failed = 0

(* The three properties, for one job.                                      *)
Complete(j) ==
  jobs[j].status = "DONE" =>
    /\ RowsFor(j) = {}
    /\ jobs[j].processed = Len(Parsed(jobs[j].content))
    /\ jobs[j].via => \A i \in DOMAIN Parsed(jobs[j].content) : topic[Parsed(jobs[j].content)[i]] > 0

Quarantined(j) ==
  jobs[j].status \in Final /\ "insert" \notin faults /\ ~ (jobs[j].op = "parse" /\ "publish" \in faults)
    => Cardinality(RowsFor(j)) = jobs[j].failed

Remembered(j) ==
  jobs[j].status = "PROCESSING" =>
    \/ \E c \in Clients : Serves(c, j) /\ request[c].op \in {"webhook", "parse"}
    \/ Works(j)
    \/ faults \cap {"crash", "insert"} # {}

JobSound(j) ==
  /\ \A c \in Clients : InlineSound(c, j) /\ QueueSound(c, j)
  /\ Alone(j) /\ WorkSound(j) /\ Waiting(j)
  /\ Complete(j) /\ Quarantined(j) /\ Remembered(j)

JobsInv ==
  /\ \A c \in Clients : JobRequest(request[c]) => request[c].job \in DOMAIN jobs
  /\ worker # None => worker.job \in DOMAIN jobs
  /\ \A i \in DOMAIN errors : errors[i].job # None => errors[i].job \in DOMAIN jobs
  /\ \A j \in DOMAIN jobs : JobSound(j)

(* A step that touches one job.                                            *)
OneJob(j) ==
  /\ Grows
  /\ DOMAIN jobs \subseteq DOMAIN jobs' /\ DOMAIN jobs' \subseteq DOMAIN jobs \cup {j} /\ j \in DOMAIN jobs'
  /\ \A k \in DOMAIN jobs \ {j} : jobs'[k] = jobs[k]
  /\ j \in DOMAIN jobs => jobs'[j].via = jobs[j].via
  /\ DOMAIN errors \subseteq DOMAIN errors'
  /\ \A i \in DOMAIN errors : errors'[i] = errors[i]
  /\ \A i \in DOMAIN errors' \ DOMAIN errors : errors'[i].job = j /\ errors'[i].detail = {}
  /\ \A c \in Clients : \/ request'[c] = request[c]
                        \/ /\ request[c] = None \/ Serves(c, j)
                           /\ request'[c] = None \/ Serves(c, j)'
  /\ \/ worker' = worker
     \/ (worker = None \/ Works(j)) /\ (worker' = None \/ Works(j)')
  /\ messages' \subseteq messages \cup {j}

(* Jobs and what they hold.                                                *)
LEMMA JobAt ==
  ASSUME TypeOK, NEW j \in DOMAIN jobs
  PROVE  /\ j \in Nat /\ j # None /\ jobs[j] \in Job /\ jobs[j].content \in Contents
         /\ jobs[j].content.records \in Seq(Records) /\ jobs[j].content.form \in Forms
         /\ Parsed(jobs[j].content) \in Seq(Records) /\ Broken(jobs[j].content) \in Seq(Records)
<1>1. jobs \in Seq(Job)
  BY DEF TypeOK
<1>2. DOMAIN jobs = 1..Len(jobs) /\ Len(jobs) \in Nat
  BY <1>1, LenProperties
<1>3. jobs[j] \in Job /\ j \in Nat
  BY <1>1, <1>2, ElementOfSeq
<1>4. jobs[j].content \in Contents
  BY <1>3 DEF Job
<1>5. jobs[j].content.records \in Seq(Records) /\ jobs[j].content.form \in Forms
  BY <1>4, JobAssumption
<1>6. Parsed(jobs[j].content) \in Seq(Records) /\ Broken(jobs[j].content) \in Seq(Records)
  BY <1>5, SelectedType DEF Parsed, Broken, WithKind
<1> QED
  BY <1>3, <1>4, <1>5, <1>6, StoreAssumption

(* The same of a payload.                                                  *)
LEMMA ContentType ==
  ASSUME NEW content \in Contents
  PROVE  /\ content.form \in Forms
         /\ Parsed(content) \in Seq(Records) /\ Broken(content) \in Seq(Records)
<1>1. content.records \in Seq(Records) /\ content.form \in Forms
  BY JobAssumption
<1> QED
  BY <1>1, SelectedType DEF Parsed, Broken, WithKind

(* The rows of a job are finitely many.                                    *)
LEMMA RowsForFinite ==
  ASSUME TypeOK, NEW j
  PROVE  IsFiniteSet(RowsFor(j)) /\ Cardinality(RowsFor(j)) \in Nat
<1>1. errors \in Seq(Row)
  BY DEF TypeOK, StoreTypeOK
<1>2. DOMAIN errors = 1..Len(errors) /\ Len(errors) \in Nat
  BY <1>1, LenProperties
<1>3. IsFiniteSet(DOMAIN errors)
  BY <1>2, FS_Interval
<1>4. RowsFor(j) \subseteq DOMAIN errors
  BY DEF RowsFor
<1>5. IsFiniteSet(RowsFor(j))
  BY <1>3, <1>4, FS_Subset
<1> QED
  BY <1>5, FS_CardinalityType

(* What is on the topics stays there.                                      *)
LEMMA StillSent ==
  ASSUME TypeOK, Grows, NEW s \in Seq(Records), \A i \in DOMAIN s : topic[s[i]] > 0
  PROVE  \A i \in DOMAIN s : topic'[s[i]] > 0
<1>1. DOMAIN s = 1..Len(s)
  BY LenProperties
<1>2. ASSUME NEW i \in DOMAIN s PROVE topic'[s[i]] > 0
  <2>1. s[i] \in Records
    BY <1>1, ElementOfSeq
  <2>2. topic[s[i]] \in Nat /\ topic'[s[i]] \in Nat
    BY <2>1 DEF TypeOK, StoreTypeOK, Grows
  <2>3. topic'[s[i]] >= topic[s[i]]
    BY <2>1 DEF Grows
  <2> QED
    BY <2>2, <2>3
<1> QED
  BY <1>2

(* A job that a step does not touch, or whose hands a crash takes away.    *)
LEMMA JobKept ==
  ASSUME TypeOK, NEW k \in DOMAIN jobs, JobSound(k), Grows, jobs'[k] = jobs[k], RowsFor(k)' = RowsFor(k),
         \A c \in Clients : Serves(c, k)' => request'[c] = request[c],
         Works(k)' => worker' = worker,
         k \in messages' => k \in messages,
         \/ "crash" \in faults'
         \/ /\ \A c \in Clients : Serves(c, k) => request'[c] = request[c]
            /\ Works(k) => worker' = worker
  PROVE  JobSound(k)'
<1>1. faults \subseteq faults' /\ \A r \in Records : topic'[r] >= topic[r] /\ topic[r] \in Nat
  BY DEF Grows, TypeOK, StoreTypeOK
<1>2. ASSUME NEW c \in Clients, Serves(c, k)' PROVE Serves(c, k) /\ request'[c] = request[c]
  BY <1>2 DEF Serves, JobRequest
<1>3. Works(k)' => Works(k) /\ worker' = worker
  BY DEF Works
<1>4. ASSUME NEW c \in Clients PROVE InlineSound(c, k)'
  <2>1. SUFFICES ASSUME Serves(c, k)', request'[c].op \in {"webhook", "parse"}
                 PROVE  InlineSound(c, k)'
    BY DEF InlineSound
  <2>2. request'[c] = request[c] /\ Serves(c, k)
    BY <1>2, <2>1
  <2>3. request[c] \in InlineRequest
    BY <2>1, <2>2, RequestKind DEF Serves, JobRequest
  <2>4. InlineSound(c, k)
    BY DEF JobSound
  <2>5. PICK s : s = request[c].processed
    OBVIOUS
  <2>6. s \in Seq(Records)
    BY <2>3, <2>5 DEF InlineRequest
  <2>7. jobs[k].via => \A i \in DOMAIN s : topic'[s[i]] > 0
    <3>1. jobs[k].via => \A i \in DOMAIN s : topic[s[i]] > 0
      BY <2>1, <2>2, <2>4, <2>5 DEF InlineSound
    <3> QED
      BY <2>6, <3>1, StillSent
  <2> QED
    BY <1>1, <2>1, <2>2, <2>4, <2>5, <2>7 DEF InlineSound
<1>5. ASSUME NEW c \in Clients PROVE QueueSound(c, k)'
  BY <1>2 DEF QueueSound, JobSound
<1>6. Alone(k)'
  BY <1>2, <1>3 DEF Alone, JobSound
<1>7. WorkSound(k)'
  <2>1. SUFFICES ASSUME Works(k)' PROVE WorkSound(k)'
    BY DEF WorkSound
  <2>2. worker' = worker /\ Works(k) /\ WorkSound(k)
    BY <1>3, <2>1 DEF JobSound
  <2>3. PICK s : s = worker.processed
    OBVIOUS
  <2>4. s \in Seq(Records) /\ \A i \in DOMAIN s : topic[s[i]] > 0
    BY <2>2, <2>3 DEF Works, TypeOK, Work, WorkSound
  <2>5. \A i \in DOMAIN s : topic'[s[i]] > 0
    BY <2>4, StillSent
  <2> QED
    BY <1>1, <2>1, <2>2, <2>3, <2>5 DEF WorkSound
<1>8. Waiting(k)'
  BY DEF Waiting, JobSound
<1>9. Complete(k)'
  <2>1. PICK s : s = Parsed(jobs[k].content)
    OBVIOUS
  <2>2. s \in Seq(Records)
    BY <2>1, JobAt
  <2>3. (\A i \in DOMAIN s : topic[s[i]] > 0) => \A i \in DOMAIN s : topic'[s[i]] > 0
    BY <2>2, StillSent
  <2>4. Complete(k)
    BY DEF JobSound
  <2>5. s = Parsed(jobs[k].content)'
    BY <2>1 DEF Parsed, WithKind, Selected
  <2> QED
    BY <2>1, <2>3, <2>4, <2>5 DEF Complete
<1>10. Quarantined(k)'
  BY <1>1 DEF Quarantined, JobSound
<1>11. Remembered(k)'
  <2>1. CASE "crash" \in faults'
    BY <2>1 DEF Remembered
  <2>2. CASE /\ \A c \in Clients : Serves(c, k) => request'[c] = request[c]
             /\ Works(k) => worker' = worker
    BY <1>1, <2>2 DEF Remembered, JobSound, Serves, JobRequest, Works
  <2> QED
    BY <2>1, <2>2
<1> QED
  BY <1>4, <1>5, <1>6, <1>7, <1>8, <1>9, <1>10, <1>11 DEF JobSound

(* Rows that are added for one job are not those of another.               *)
LEMMA OneJobInv ==
  ASSUME TypeOK, JobsInv, NEW j, OneJob(j), JobSound(j)'
  PROVE  JobsInv'
<1>1. ASSUME NEW k \in DOMAIN jobs' PROVE JobSound(k)'
  <2>1. CASE k = j
    BY <2>1
  <2>2. CASE k # j
    <3>1. k \in DOMAIN jobs /\ JobSound(k) /\ jobs'[k] = jobs[k]
      BY <2>2 DEF OneJob, JobsInv
    <3>2. RowsFor(k)' = RowsFor(k)
      BY <2>2 DEF OneJob, RowsFor
    <3>3. \A c \in Clients : Serves(c, k)' \/ Serves(c, k) => request'[c] = request[c]
      BY <2>2 DEF OneJob, Serves, JobRequest
    <3>4. Works(k)' \/ Works(k) => worker' = worker
      BY <2>2 DEF OneJob, Works
    <3>5. k \in messages' => k \in messages
      BY <2>2 DEF OneJob
    <3>6. Grows
      BY DEF OneJob
    <3> QED
      BY <3>1, <3>2, <3>3, <3>4, <3>5, <3>6, JobKept
  <2> QED
    BY <2>1, <2>2
<1>2. \A c \in Clients : JobRequest(request'[c]) => request'[c].job \in DOMAIN jobs'
  BY DEF OneJob, JobsInv, Serves, JobRequest
<1>3. worker' # None => worker'.job \in DOMAIN jobs'
  BY DEF OneJob, JobsInv, Works
<1>4. \A i \in DOMAIN errors' : errors'[i].job # None => errors'[i].job \in DOMAIN jobs'
  BY DEF OneJob, JobsInv
<1> QED
  BY <1>1, <1>2, <1>3, <1>4 DEF JobsInv, JobRequest

(* A step of one job leaves the quarantine as the replays need it.         *)
LEMMA OneJobFrame ==
  ASSUME TypeOK, NEW j, OneJob(j)
  PROVE  JobFrame
BY DEF OneJob, JobFrame, Serves

(* A step of the channels.                                                 *)
LEMMA JobsInvChannels ==
  ASSUME TypeOK, JobsInv, ChannelFrame, UNCHANGED jobVars
  PROVE  JobsInv'
<1>1. jobs' = jobs /\ messages' = messages /\ worker' = worker
  BY DEF jobVars
<1>2. ASSUME NEW k \in DOMAIN jobs PROVE JobSound(k)'
  <2>1. JobSound(k) /\ k # None
    BY JobAt DEF JobsInv
  <2>2. RowsFor(k)' = RowsFor(k)
    BY <2>1 DEF RowsFor, ChannelFrame
  <2>3. \A c \in Clients : Serves(c, k)' \/ Serves(c, k) => request'[c] = request[c]
    BY DEF ChannelFrame, Serves
  <2>4. Grows
    BY DEF ChannelFrame
  <2> QED
    BY <1>1, <2>1, <2>2, <2>3, <2>4, JobKept
<1>3. \A c \in Clients : JobRequest(request'[c]) => request'[c].job \in DOMAIN jobs'
  BY <1>1 DEF ChannelFrame, JobsInv
<1>4. worker' # None => worker'.job \in DOMAIN jobs'
  BY <1>1 DEF JobsInv
<1>5. \A i \in DOMAIN errors' : errors'[i].job # None => errors'[i].job \in DOMAIN jobs'
  BY <1>1 DEF ChannelFrame, JobsInv
<1> QED
  BY <1>1, <1>2, <1>3, <1>4, <1>5 DEF JobsInv, JobRequest
-----------------------------------------------------------------------------
(* Rows of a job that are added to the quarantine.                         *)

(* One row more for a job.                                                 *)
LEMMA RowForAdded ==
  ASSUME TypeOK, NEW j \in Nat, NEW r \in Records, errors' = Append(errors, NewRow(r, j))
  PROVE  Cardinality(RowsFor(j)') = Cardinality(RowsFor(j)) + 1
<1>1. PICK S, T, n : S = RowsFor(j) /\ T = RowsFor(j)' /\ n = Len(errors) + 1
  OBVIOUS
<1>2. /\ DOMAIN errors' = DOMAIN errors \cup {n} /\ n \notin DOMAIN errors
      /\ \A i \in DOMAIN errors : errors'[i] = errors[i]
      /\ errors'[n].job = j
  BY <1>1, RowAdded
<1>3. T = S \cup {n} /\ n \notin S
  BY <1>1, <1>2 DEF RowsFor
<1>4. IsFiniteSet(S)
  BY <1>1, RowsForFinite
<1>5. Cardinality(T) = Cardinality(S) + 1
  BY <1>3, <1>4, FS_AddElement
<1> QED
  BY <1>1, <1>5

(* Rows are added for a job.                                               *)
LEMMA RowsForAdded ==
  ASSUME TypeOK, NEW j \in Nat, NEW rs \in Seq(Records), errors' = errors \o RowsOf(rs, j)
  PROVE  /\ Cardinality(RowsFor(j)') = Cardinality(RowsFor(j)) + Len(rs)
         /\ rs = <<>> => RowsFor(j)' = RowsFor(j)
<1>1. PICK S, T, n, m : S = RowsFor(j) /\ T = RowsFor(j)' /\ n = Len(errors) /\ m = Len(rs)
  OBVIOUS
<1>2. /\ n \in Nat /\ m \in Nat /\ DOMAIN errors = 1..n /\ DOMAIN errors' = 1..(n + m)
      /\ \A i \in DOMAIN errors : errors'[i] = errors[i]
      /\ \A i \in DOMAIN errors' \ DOMAIN errors : errors'[i].job = j
  BY <1>1, RowsAdded
<1>3. PICK U : U = (n + 1)..(n + m)
  OBVIOUS
<1>4. S \subseteq 1..n /\ T = S \cup U /\ S \cap U = {}
  <2>1. S \subseteq 1..n
    BY <1>1, <1>2 DEF RowsFor
  <2>2. 1..(n + m) = (1..n) \cup U /\ (1..n) \cap U = {}
    BY <1>2, <1>3
  <2>3. T = {i \in 1..(n + m) : errors'[i].job = j} /\ S = {i \in 1..n : errors[i].job = j}
    BY <1>1, <1>2 DEF RowsFor
  <2>4. \A i \in U : errors'[i].job = j
    BY <1>2, <2>2
  <2> QED
    BY <1>2, <2>1, <2>2, <2>3, <2>4
<1>5. IsFiniteSet(S) /\ Cardinality(S) \in Nat
  BY <1>1, RowsForFinite
<1>6. IsFiniteSet(U) /\ Cardinality(U) = m
  <2>1. IsFiniteSet(U) /\ Cardinality(U) = IF n + 1 > n + m THEN 0 ELSE (n + m) - (n + 1) + 1
    BY <1>2, <1>3, FS_Interval
  <2> QED
    BY <1>2, <2>1
<1>7. Cardinality(S \cap U) = 0
  BY <1>4, FS_EmptySet
<1>8. Cardinality(T) = Cardinality(S) + m
  <2>1. Cardinality(S \cup U) = Cardinality(S) + Cardinality(U) - Cardinality(S \cap U)
    BY <1>5, <1>6, FS_Union
  <2> QED
    BY <1>2, <1>4, <1>5, <1>6, <1>7, <2>1
<1>9. rs = <<>> => T = S
  <2>1. ASSUME rs = <<>> PROVE m = 0
    BY <1>1, <2>1
  <2>2. ASSUME m = 0 PROVE U = {}
    BY <1>2, <1>3, <2>2
  <2> QED
    BY <1>4, <2>1, <2>2
<1> QED
  BY <1>1, <1>8, <1>9

(* A job that has ended, and is in nobody's hands.                         *)
LEMMA JobEnds ==
  ASSUME NEW j, NEW w, jobs'[j] = w, w.status \in Final,
         \A c \in Clients : ~ Serves(c, j)', ~ Works(j)', j \notin messages',
         w.status = "DONE" =>
           /\ RowsFor(j)' = {} /\ w.processed = Len(Parsed(w.content))
           /\ w.via => \A i \in DOMAIN Parsed(w.content) : topic'[Parsed(w.content)[i]] > 0,
         "insert" \notin faults' /\ ~ (w.op = "parse" /\ "publish" \in faults')
           => Cardinality(RowsFor(j)') = w.failed
  PROVE  JobSound(j)'
<1>1. w.status \notin {"PROCESSING", "QUEUED"}
  BY DEF Final
<1>2. \A c \in Clients : InlineSound(c, j)' /\ QueueSound(c, j)'
  BY DEF InlineSound, QueueSound
<1>3. Alone(j)' /\ WorkSound(j)' /\ Waiting(j)' /\ Remembered(j)'
  BY <1>1 DEF Alone, WorkSound, Waiting, Remembered
<1>4. Complete(j)'
  BY DEF Complete
<1>5. Quarantined(j)'
  BY DEF Quarantined
<1> QED
  BY <1>2, <1>3, <1>4, <1>5 DEF JobSound

-----------------------------------------------------------------------------
(* What a step of the jobs must show.                                      *)
JobStep == TypeOK' /\ JobsInv' /\ \E j : OneJob(j)

(* The types, in a step of a request.                                      *)
LEMMA JobStepRequest ==
  ASSUME TypeOK, NEW c \in Clients, NEW q, Only(c, q), q = None \/ q \in InlineRequest \cup QueueRequest,
         UNCHANGED channelVars, topic' \in [Records -> Nat], errors' \in Seq(Row), producer' \in BOOLEAN,
         accepted' \in 0..MaxRequests, acked' \in [Records -> Nat], faults' \subseteq FaultKinds,
         jobs' \in Seq(Job), worker' = worker, messages' \cup rejected' \subseteq DOMAIN jobs'
  PROVE  TypeOK'
<1>1. DOMAIN request' = Clients /\ \A d \in Clients : request'[d] # None => request'[d] \in Request
  BY DEF TypeOK, Only, Request
<1> QED
  BY <1>1 DEF TypeOK, StoreTypeOK, channelVars

(* The types, in a step of the worker.                                     *)
LEMMA JobStepWorker ==
  ASSUME TypeOK, UNCHANGED channelVars, UNCHANGED <<producer, request, accepted, acked>>,
         topic' \in [Records -> Nat], errors' \in Seq(Row), faults' \subseteq FaultKinds,
         jobs' \in Seq(Job), worker' = None \/ worker' \in Work, messages' \cup rejected' \subseteq DOMAIN jobs'
  PROVE  TypeOK'
BY DEF TypeOK, StoreTypeOK, channelVars

(* A job is rewritten, but for its content and its way.                    *)
LEMMA JobRewritten ==
  ASSUME TypeOK, NEW j \in DOMAIN jobs, NEW w \in Job, jobs' = [jobs EXCEPT ![j] = w]
  PROVE  /\ jobs' \in Seq(Job) /\ DOMAIN jobs' = DOMAIN jobs /\ jobs'[j] = w
         /\ \A k \in DOMAIN jobs \ {j} : jobs'[k] = jobs[k]
<1>1. jobs \in Seq(Job) /\ DOMAIN jobs = 1..Len(jobs)
  BY LenProperties DEF TypeOK
<1>2. [jobs EXCEPT ![j] = w] \in Seq(Job)
  <2>1. jobs \in Seq(Job) /\ j \in 1..Len(jobs) /\ w \in Job
    BY <1>1
  <2> QED
    BY <2>1, ExceptSeq
<1> QED
  BY <1>2

(* A new job is nobody else's.                                             *)
LEMMA NewJobStep ==
  ASSUME TypeOK, JobsInv, NEW c \in Clients, NEW q, NEW job \in Job, Accept(c, q), AddJob(job),
         producer' \in BOOLEAN, faults \subseteq faults', faults' \subseteq FaultKinds,
         UNCHANGED <<topic, errors, acked, messages, rejected, worker, channelVars>>,
         q = None \/ q.job = Len(jobs) + 1, job.failed = 0,
         \/ job.status = "QUEUED" /\ (q = None \/ q \in QueueRequest)
         \/ /\ job.status = "PROCESSING" /\ q \in InlineRequest /\ job.op = q.op
            /\ q.failed = 0 /\ q.rows = <<>> /\ q.processed = <<>> /\ q.left = Parsed(job.content)
  PROVE  JobStep
<1>1. PICK j : j = Len(jobs) + 1
  OBVIOUS
<1>2. Only(c, q) /\ request[c] = None /\ accepted' \in 0..MaxRequests
  BY AcceptEffect
<1>3. /\ jobs' \in Seq(Job) /\ DOMAIN jobs' = DOMAIN jobs \cup {j} /\ j \notin DOMAIN jobs
      /\ \A k \in DOMAIN jobs : jobs'[k] = jobs[k]
      /\ jobs'[j] = job /\ j \in Nat
  <2>1. jobs \in Seq(Job) /\ jobs' = Append(jobs, job)
    BY DEF AddJob, TypeOK
  <2> QED
    BY <1>1, <2>1, AppendShape
<1>4. q = None \/ q \in InlineRequest \cup QueueRequest
  OBVIOUS
<1>5. TypeOK'
  <2>1. messages' \cup rejected' \subseteq DOMAIN jobs'
    BY <1>3 DEF TypeOK
  <2> QED
    BY <1>2, <1>3, <1>4, <2>1, JobStepRequest DEF TypeOK, StoreTypeOK
<1>6. Serves(c, j)' \/ request'[c] = None
  BY <1>1, <1>2, <1>4 DEF Serves, JobRequest, JobOps, Only, InlineRequest, QueueRequest
<1>7. OneJob(j)
  <2>1. Grows
    BY NothingGrows
  <2> QED
    BY <1>2, <1>3, <1>6, <2>1 DEF OneJob, Only
<1>8. JobSound(j)'
  <2>1. RowsFor(j)' = {}
    BY <1>3, StoreAssumption DEF RowsFor, JobsInv
  <2>2. ~ Works(j)' /\ j \notin messages'
    BY <1>3 DEF Works, JobsInv, TypeOK
  <2>3. ASSUME NEW d \in Clients, d # c PROVE ~ Serves(d, j)'
    BY <1>2, <1>3, <2>3 DEF Serves, Only, JobsInv
  <2>4. ASSUME NEW d \in Clients PROVE InlineSound(d, j)'
    <3>1. SUFFICES ASSUME Serves(c, j)', q # None, q.op \in {"webhook", "parse"}
                   PROVE  InlineSound(c, j)'
      BY <1>2, <2>3 DEF InlineSound, Serves, JobRequest, Only
    <3>2. /\ job.status = "PROCESSING" /\ q \in InlineRequest /\ job.op = q.op
          /\ q.failed = 0 /\ q.rows = <<>> /\ q.processed = <<>> /\ q.left = Parsed(job.content)
      BY <3>1 DEF QueueRequest
    <3>3. <<>> \o Parsed(job.content) = Parsed(job.content)
      <4>1. job.content \in Contents
        BY DEF Job
      <4>2. Parsed(job.content) \in Seq(Records)
        BY <4>1, ContentType
      <4> QED
        BY <4>2, ConcatEmptySeq
    <3> QED
      BY <1>2, <1>3, <2>1, <3>2, <3>3 DEF InlineSound, Only, Parsed, WithKind, Selected
  <2>5. ASSUME NEW d \in Clients PROVE QueueSound(d, j)'
    <3>1. SUFFICES ASSUME Serves(c, j)', q # None, q.op \in {"file", "reprocess", "backfill"}
                   PROVE  job.status = "QUEUED"
      BY <1>2, <1>3, <2>2, <2>3 DEF QueueSound, Serves, JobRequest, Only
    <3> QED
      BY <3>1 DEF InlineRequest
  <2>6. Alone(j)' /\ WorkSound(j)' /\ Waiting(j)'
    BY <1>3, <2>1, <2>2, <2>3 DEF Alone, WorkSound, Waiting
  <2>7. Complete(j)' /\ Quarantined(j)'
    BY <1>3 DEF Complete, Quarantined, Final
  <2>8. Remembered(j)'
    <3>1. SUFFICES ASSUME job.status = "PROCESSING" PROVE Serves(c, j)' /\ q.op \in {"webhook", "parse"}
      BY <1>2, <1>3 DEF Remembered, Only
    <3>2. q \in InlineRequest
      BY <3>1
    <3>3. q # None
      BY <3>2, JobAssumption
    <3> QED
      BY <1>2, <1>6, <3>2, <3>3 DEF InlineRequest, Only
  <2> QED
    BY <2>4, <2>5, <2>6, <2>7, <2>8 DEF JobSound
<1> QED
  BY <1>5, <1>7, <1>8, OneJobInv DEF JobStep

(* The lake and the producer: of the two one fails at most.                *)
LEMMA StoreAndConnectEffect ==
  ASSUME TypeOK, NEW path \in BOOLEAN, NEW got \in BOOLEAN, StoreAndConnect(path, got)
  PROVE  producer' \in BOOLEAN /\ faults \subseteq faults' /\ faults' \subseteq FaultKinds
<1>1. CASE path
  BY <1>1, ProducerEffect DEF StoreAndConnect
<1>2. CASE ~ path
  <2>1. Fault("lake") /\ producer' = TRUE
    BY <1>2 DEF StoreAndConnect
  <2> QED
    BY <2>1, FaultEffect DEF TypeOK, StoreTypeOK, FaultKinds
<1> QED
  BY <1>1, <1>2
-----------------------------------------------------------------------------
(* The steps that make a job.                                              *)

(* A job that its request works off begins.                                *)
LEMMA InlineBeginStep ==
  ASSUME TypeOK, JobsInv, NEW c \in Clients, NEW op \in {"webhook", "parse"}, NEW content \in Contents,
         NEW path \in BOOLEAN, NEW got \in BOOLEAN, InlineBegin(c, op, content, path, got),
         UNCHANGED channelVars
  PROVE  JobStep
<1>1. PICK q : q = [op |-> op, job |-> Len(jobs) + 1, left |-> Parsed(content), rows |-> <<>>,
                    processed |-> <<>>, failed |-> 0]
  OBVIOUS
<1>2. PICK job : job = [NewJob(op, "PROCESSING", path, content) EXCEPT !.via = got]
  OBVIOUS
<1>3. Len(jobs) \in Nat /\ Parsed(content) \in Seq(Records) /\ <<>> \in Seq(Records)
  BY LenProperties, ContentType, EmptySeq DEF TypeOK
<1>4. q \in InlineRequest
  BY <1>1, <1>3 DEF InlineRequest
<1>5. /\ job \in Job /\ job.failed = 0 /\ job.status = "PROCESSING" /\ job.op = op
      /\ job.content = content
  BY <1>2 DEF NewJob, Job
<1>6. Accept(c, q) /\ AddJob(job) /\ StoreAndConnect(path, got)
      /\ UNCHANGED <<topic, errors, acked, messages, rejected, worker>>
  BY <1>1, <1>2 DEF InlineBegin
<1>7. producer' \in BOOLEAN /\ faults \subseteq faults' /\ faults' \subseteq FaultKinds
  BY <1>6, StoreAndConnectEffect
<1>8. /\ q.job = Len(jobs) + 1 /\ q.op = op /\ q.failed = 0 /\ q.rows = <<>> /\ q.processed = <<>>
      /\ q.left = Parsed(content)
  BY <1>1
<1> QED
  BY <1>4, <1>5, <1>6, <1>7, <1>8, NewJobStep

(* A job for the stream processor begins.                                  *)
LEMMA QueuedJobStep ==
  ASSUME TypeOK, JobsInv, NEW c \in Clients, NEW op \in {"file", "reprocess", "backfill"},
         NEW content \in Contents, NEW path \in BOOLEAN, NEW got \in BOOLEAN,
         Accept(c, IF got THEN [op |-> op, job |-> Len(jobs) + 1] ELSE None),
         AddJob(NewJob(op, "QUEUED", path, content)),
         producer' \in BOOLEAN, faults \subseteq faults', faults' \subseteq FaultKinds,
         UNCHANGED <<topic, errors, acked, messages, rejected, worker, channelVars>>
  PROVE  JobStep
<1>1. PICK q : q = IF got THEN [op |-> op, job |-> Len(jobs) + 1] ELSE None
  OBVIOUS
<1>2. PICK job : job = NewJob(op, "QUEUED", path, content)
  OBVIOUS
<1>3. Len(jobs) \in Nat
  BY LenProperties DEF TypeOK
<1>4. q = None \/ (q \in QueueRequest /\ q.job = Len(jobs) + 1)
  BY <1>1, <1>3 DEF QueueRequest
<1>5. job \in Job /\ job.failed = 0 /\ job.status = "QUEUED"
  BY <1>2 DEF NewJob, Job
<1> QED
  BY <1>1, <1>2, <1>4, <1>5, NewJobStep

(* A file is accepted.                                                     *)
LEMMA FileBeginStep ==
  ASSUME TypeOK, JobsInv, NEW c \in Clients, NEW content \in Contents,
         NEW path \in BOOLEAN, NEW got \in BOOLEAN, FileBegin(c, content, path, got), UNCHANGED channelVars
  PROVE  JobStep
<1>1. producer' \in BOOLEAN /\ faults \subseteq faults' /\ faults' \subseteq FaultKinds
  BY StoreAndConnectEffect DEF FileBegin
<1> QED
  BY <1>1, QueuedJobStep DEF FileBegin

(* A backfill is accepted.                                                 *)
LEMMA BackfillBeginStep ==
  ASSUME TypeOK, JobsInv, NEW c \in Clients, NEW content \in Contents,
         NEW path \in BOOLEAN, BackfillBegin(c, content, path), UNCHANGED channelVars
  PROVE  JobStep
<1>1. producer' \in BOOLEAN /\ faults \subseteq faults' /\ faults' \subseteq FaultKinds
  BY ProducerEffect DEF BackfillBegin
<1>2. Accept(c, IF TRUE THEN [op |-> "backfill", job |-> Len(jobs) + 1] ELSE None)
  BY DEF BackfillBegin
<1> QED
  BY <1>1, <1>2, QueuedJobStep DEF BackfillBegin

(* A reprocessing is accepted.                                             *)
LEMMA ReprocessBeginStep ==
  ASSUME TypeOK, JobsInv, NEW c \in Clients, NEW j \in DOMAIN jobs, ReprocessBegin(c, j), UNCHANGED channelVars
  PROVE  JobStep
<1>1. producer' \in BOOLEAN /\ faults \subseteq faults' /\ faults' \subseteq FaultKinds
  BY ProducerEffect DEF ReprocessBegin
<1>2. Accept(c, IF TRUE THEN [op |-> "reprocess", job |-> Len(jobs) + 1] ELSE None)
  BY DEF ReprocessBegin
<1>3. jobs[j].content \in Contents
  BY JobAt
<1> QED
  BY <1>1, <1>2, <1>3, QueuedJobStep DEF ReprocessBegin

-----------------------------------------------------------------------------
(* The steps of a request that works its job off.                          *)

(* A request that works its job off, and the job.                          *)
LEMMA InlineAt ==
  ASSUME TypeOK, JobsInv, NEW c \in Clients, Inline(c), NEW j, j = request[c].job
  PROVE  /\ request[c] \in InlineRequest /\ j \in DOMAIN jobs /\ j \in Nat /\ Serves(c, j)
         /\ jobs[j] \in Job /\ jobs[j].status = "PROCESSING" /\ jobs[j].op = request[c].op
         /\ RowsFor(j) = {} /\ InlineSound(c, j) /\ JobSound(j)
         /\ ~ Works(j) /\ \A d \in Clients \ {c} : ~ Serves(d, j)
         /\ j \notin messages
<1>1. request[c] \in InlineRequest /\ JobRequest(request[c])
  BY RequestKind DEF Inline, JobRequest, JobOps
<1>2. j \in DOMAIN jobs /\ Serves(c, j)
  BY <1>1 DEF JobsInv, Serves
<1>3. JobSound(j) /\ j \in Nat /\ jobs[j] \in Job
  BY <1>2, JobAt DEF JobsInv
<1>4. InlineSound(c, j)
  BY <1>3 DEF JobSound
<1>5. jobs[j].status = "PROCESSING" /\ jobs[j].op = request[c].op /\ RowsFor(j) = {}
  BY <1>2, <1>4 DEF InlineSound, Inline
<1>6. ~ Works(j) /\ \A d \in Clients \ {c} : ~ Serves(d, j)
  BY <1>2, <1>3 DEF JobSound, Alone
<1>7. j \notin messages
  BY <1>3, <1>5 DEF JobSound, Waiting
<1> QED
  BY <1>1, <1>2, <1>3, <1>4, <1>5, <1>6, <1>7

(* A payload is read the same before and after a step.                     *)
LEMMA ParsedSame ==
  ASSUME NEW k, jobs'[k].content = jobs[k].content
  PROVE  Parsed(jobs[k].content)' = Parsed(jobs[k].content) /\ Broken(jobs[k].content)' = Broken(jobs[k].content)
<1>1. PICK s : s = Parsed(jobs[k].content)
  OBVIOUS
<1>2. PICK t : t = Broken(jobs[k].content)
  OBVIOUS
<1>3. s = Parsed(jobs[k].content)'
  BY <1>1 DEF Parsed, WithKind, Selected
<1>4. t = Broken(jobs[k].content)'
  BY <1>2 DEF Broken, WithKind, Selected
<1> QED
  BY <1>1, <1>2, <1>3, <1>4

(* It goes on to the next record.                                          *)
LEMMA InlineGoesOn ==
  ASSUME TypeOK, JobsInv, NEW c \in Clients, Inline(c), NEW q \in InlineRequest, Update(c, q),
         q.op = request[c].op, NEW j, j = request[c].job, q.job = j,
         Grows, faults' \subseteq FaultKinds,
         UNCHANGED <<errors, producer, acked, jobVars, channelVars>>,
         q.failed = Len(q.rows) \/ (q.op = "parse" /\ "publish" \in faults'),
         q.failed = 0 => q.rows = <<>> /\ q.processed \o q.left = Parsed(jobs[j].content),
         jobs[j].via => \A i \in DOMAIN q.processed : topic'[q.processed[i]] > 0
  PROVE  JobStep
<1>1. Only(c, q) /\ accepted' = accepted
  BY UpdateEffect
<1>2. /\ request[c] \in InlineRequest /\ j \in DOMAIN jobs /\ Serves(c, j)
      /\ jobs[j].status = "PROCESSING" /\ jobs[j].op = request[c].op
      /\ RowsFor(j) = {} /\ JobSound(j)
      /\ ~ Works(j) /\ \A d \in Clients \ {c} : ~ Serves(d, j)
  BY InlineAt
<1>3. jobs' = jobs /\ messages' = messages /\ rejected' = rejected /\ worker' = worker
  BY DEF jobVars
<1>4. TypeOK'
  BY <1>1, <1>3, JobStepRequest DEF TypeOK, StoreTypeOK, Grows
<1>5. Serves(c, j)' /\ q # None /\ q.op \in {"webhook", "parse"}
  BY <1>1, JobAssumption DEF Serves, JobRequest, JobOps, Only, InlineRequest
<1>6. OneJob(j)
  BY <1>1, <1>2, <1>3, <1>5 DEF OneJob, Only
<1>7. RowsFor(j)' = {}
  BY <1>2 DEF RowsFor
<1>8. \A d \in Clients \ {c} : ~ Serves(d, j)'
  BY <1>1, <1>2 DEF Serves, Only
<1>9. InlineSound(c, j)'
  <2>1. Parsed(jobs[j].content)' = Parsed(jobs[j].content)
    BY <1>3, ParsedSame
  <2>2. request'[c] = q /\ q.op = jobs[j].op
    BY <1>1, <1>2 DEF Only
  <2> QED
    BY <1>2, <1>3, <1>7, <2>1, <2>2 DEF InlineSound
<1>10. \A d \in Clients : InlineSound(d, j)' /\ QueueSound(d, j)'
  BY <1>1, <1>5, <1>8, <1>9 DEF InlineSound, QueueSound, Only
<1>11. Alone(j)' /\ WorkSound(j)' /\ Waiting(j)'
  BY <1>2, <1>3, <1>7, <1>8 DEF Alone, WorkSound, Waiting, Works, JobSound
<1>12. Complete(j)' /\ Quarantined(j)' /\ Remembered(j)'
  BY <1>1, <1>2, <1>3, <1>5 DEF Complete, Quarantined, Remembered, Final, Only
<1>13. JobSound(j)'
  BY <1>10, <1>11, <1>12 DEF JobSound
<1> QED
  BY <1>4, <1>6, <1>13, OneJobInv DEF JobStep

(* A record cannot be mapped.                                              *)
LEMMA InlineFailsStep ==
  ASSUME TypeOK, JobsInv, NEW c \in Clients, InlineFails(c), UNCHANGED channelVars
  PROVE  JobStep
<1>1. PICK j, p, r : j = request[c].job /\ p = request[c] /\ r = Head(request[c].left)
  OBVIOUS
<1>2. Inline(c) /\ p.left # <<>>
  BY <1>1 DEF InlineFails, InlineStep
<1>3. p \in InlineRequest /\ Serves(c, j) /\ InlineSound(c, j)
  BY <1>1, <1>2, InlineAt
<1>4. PICK q : q = [p EXCEPT !.left = Tail(@), !.failed = @ + 1, !.rows = Append(@, r)]
  OBVIOUS
<1>5. r \in Records /\ Tail(p.left) \in Seq(Records)
  BY <1>1, <1>2, <1>3, HeadTailProperties DEF InlineRequest
<1>6. Append(p.rows, r) \in Seq(Records) /\ Len(Append(p.rows, r)) = Len(p.rows) + 1 /\ Len(p.rows) \in Nat
  <2>1. p.rows \in Seq(Records)
    BY <1>3 DEF InlineRequest
  <2> QED
    BY <1>5, <2>1, AppendProperties, LenProperties
<1>7. /\ q \in InlineRequest /\ q.op = p.op /\ q.job = j /\ q.failed = p.failed + 1 /\ q.rows = Append(p.rows, r)
      /\ q.processed = p.processed
  <2>1. PICK t, a, n : t = Tail(p.left) /\ a = Append(p.rows, r) /\ n = p.failed + 1
    OBVIOUS
  <2>2. q = [p EXCEPT !.left = t, !.failed = n, !.rows = a]
    BY <1>4, <2>1
  <2>3. t \in Seq(Records) /\ a \in Seq(Records) /\ n \in Nat
    BY <1>3, <1>5, <1>6, <2>1 DEF InlineRequest
  <2>4. p \in InlineRequest /\ p.job = j
    BY <1>1, <1>3
  <2>5. /\ q \in InlineRequest /\ q.op = p.op /\ q.job = j /\ q.failed = n /\ q.rows = a
        /\ q.processed = p.processed
    BY <2>2, <2>3, <2>4 DEF InlineRequest
  <2> QED
    BY <2>1, <2>5
<1>8. /\ Update(c, q)
      /\ UNCHANGED <<topic, faults, errors, producer, acked, jobVars, channelVars>>
  BY <1>1, <1>4 DEF InlineFails, InlineStep
<1>9. p.failed = Len(p.rows) \/ (p.op = "parse" /\ "publish" \in faults)
  BY <1>1, <1>2, <1>3 DEF InlineSound, Inline
<1>10. q.failed = Len(q.rows) \/ (q.op = "parse" /\ "publish" \in faults')
  BY <1>6, <1>7, <1>8, <1>9
<1>11. q.failed # 0
  BY <1>3, <1>7 DEF InlineRequest
<1>12. Grows /\ faults' \subseteq FaultKinds
  BY <1>8, NothingGrows DEF TypeOK, StoreTypeOK
<1>13. jobs[j].via => \A i \in DOMAIN q.processed : topic'[q.processed[i]] > 0
  BY <1>1, <1>2, <1>3, <1>7, <1>8 DEF InlineSound, Inline
<1> QED
  BY <1>1, <1>2, <1>7, <1>8, <1>10, <1>11, <1>12, <1>13, InlineGoesOn

(* A record is added to what was sent.                                     *)
LEMMA OneMoreSent ==
  ASSUME TypeOK, Grows, NEW s \in Seq(Records), NEW r \in Records,
         \A i \in DOMAIN s : topic[s[i]] > 0, topic'[r] > 0
  PROVE  \A i \in DOMAIN Append(s, r) : topic'[Append(s, r)[i]] > 0
<1>1. \A i \in DOMAIN s : topic'[s[i]] > 0
  BY StillSent
<1>2. /\ DOMAIN Append(s, r) = (DOMAIN s) \cup {Len(s) + 1}
      /\ \A i \in DOMAIN s : Append(s, r)[i] = s[i]
      /\ Append(s, r)[Len(s) + 1] = r
  BY AppendShape
<1> QED
  BY <1>1, <1>2

(* A record is sent, or its send fails.                                    *)
LEMMA InlineSendStep ==
  ASSUME TypeOK, JobsInv, NEW c \in Clients, NEW sent \in BOOLEAN, InlineSend(c, sent), UNCHANGED channelVars
  PROVE  JobStep
<1>1. PICK j, p, r : j = request[c].job /\ p = request[c] /\ r = Head(request[c].left)
  OBVIOUS
<1>2. Inline(c) /\ p.left # <<>>
  BY <1>1 DEF InlineSend, InlineStep
<1>3. p \in InlineRequest /\ Serves(c, j) /\ InlineSound(c, j)
  BY <1>1, <1>2, InlineAt
<1>4. r \in Records /\ Tail(p.left) \in Seq(Records)
  BY <1>1, <1>2, <1>3, HeadTailProperties DEF InlineRequest
<1>5. /\ p.rows \in Seq(Records) /\ p.processed \in Seq(Records) /\ p.left \in Seq(Records) /\ p.failed \in Nat
  BY <1>3 DEF InlineRequest
<1>6. /\ p.failed = Len(p.rows) \/ (p.op = "parse" /\ "publish" \in faults)
      /\ p.failed = 0 => p.rows = <<>> /\ p.processed \o p.left = Parsed(jobs[j].content)
      /\ jobs[j].via => \A i \in DOMAIN p.processed : topic[p.processed[i]] > 0
  BY <1>1, <1>2, <1>3 DEF InlineSound, Inline
<1>7. UNCHANGED <<errors, producer, acked, jobVars, channelVars>>
      /\ IF jobs[j].via THEN Publish(r, sent) ELSE sent /\ UNCHANGED <<topic, faults>>
  BY <1>1 DEF InlineSend, InlineStep, JobOf
<1>8. /\ Grows /\ faults' \subseteq FaultKinds
      /\ jobs[j].via /\ sent => topic'[r] > 0
      /\ ~ sent => "publish" \in faults'
  <2>1. CASE jobs[j].via
    <3>1. Publish(r, sent)
      BY <1>7, <2>1
    <3>2. /\ topic' \in [Records -> Nat] /\ \A x \in Records : topic'[x] >= topic[x]
          /\ sent => topic'[r] = topic[r] + 1 /\ faults' = faults
          /\ ~ sent => faults' = faults \cup {"publish"}
          /\ faults' \subseteq FaultKinds
      BY <1>4, <3>1, PublishEffect
    <3>3. topic[r] \in Nat
      BY <1>4 DEF TypeOK, StoreTypeOK
    <3> QED
      BY <3>2, <3>3 DEF Grows
  <2>2. CASE ~ jobs[j].via
    BY <1>7, <2>2, NothingGrows DEF TypeOK, StoreTypeOK
  <2> QED
    BY <2>1, <2>2
<1>9. CASE sent
  <2>1. PICK q : q = [p EXCEPT !.left = Tail(@), !.processed = Append(@, r)]
    OBVIOUS
  <2>2. Append(p.processed, r) \in Seq(Records)
    BY <1>4, <1>5, AppendProperties
  <2>3. /\ q \in InlineRequest /\ q.op = p.op /\ q.job = j /\ q.failed = p.failed /\ q.rows = p.rows
        /\ q.processed = Append(p.processed, r) /\ q.left = Tail(p.left)
    BY <1>1, <1>3, <1>4, <2>1, <2>2 DEF InlineRequest
  <2>4. Update(c, q)
    BY <1>1, <1>9, <2>1 DEF InlineSend
  <2>5. Append(p.processed, r) \o Tail(p.left) = p.processed \o p.left
    BY <1>1, <1>2, <1>5, HeadToEnd
  <2>6. jobs[j].via => \A i \in DOMAIN q.processed : topic'[q.processed[i]] > 0
    <3>1. PICK s : s = p.processed
      OBVIOUS
    <3>2. jobs[j].via => \A i \in DOMAIN Append(s, r) : topic'[Append(s, r)[i]] > 0
      BY <1>4, <1>5, <1>6, <1>8, <1>9, <3>1, OneMoreSent
    <3> QED
      BY <2>3, <3>1, <3>2
  <2>7. q.failed = Len(q.rows) \/ (q.op = "parse" /\ "publish" \in faults')
    BY <1>6, <1>8, <2>3 DEF Grows
  <2>8. q.failed = 0 => q.rows = <<>> /\ q.processed \o q.left = Parsed(jobs[j].content)
    BY <1>6, <2>3, <2>5
  <2> QED
    BY <1>1, <1>2, <1>7, <1>8, <2>3, <2>4, <2>6, <2>7, <2>8, InlineGoesOn
<1>10. CASE ~ sent
  <2>1. PICK q : q = [p EXCEPT !.left = Tail(@), !.failed = @ + 1,
                               !.rows = IF p.op = "webhook" THEN Append(@, r) ELSE @]
    OBVIOUS
  <2>2. Append(p.rows, r) \in Seq(Records) /\ Len(Append(p.rows, r)) = Len(p.rows) + 1 /\ Len(p.rows) \in Nat
    BY <1>4, <1>5, AppendProperties, LenProperties
  <2>3. /\ q \in InlineRequest /\ q.op = p.op /\ q.job = j /\ q.failed = p.failed + 1
        /\ q.rows = IF p.op = "webhook" THEN Append(p.rows, r) ELSE p.rows
        /\ q.processed = p.processed
    <3>1. PICK t, a, n : /\ t = Tail(p.left) /\ n = p.failed + 1
                         /\ a = IF p.op = "webhook" THEN Append(p.rows, r) ELSE p.rows
      OBVIOUS
    <3>2. q = [p EXCEPT !.left = t, !.failed = n, !.rows = a]
      BY <2>1, <3>1
    <3>3. t \in Seq(Records) /\ a \in Seq(Records) /\ n \in Nat
      BY <1>4, <1>5, <2>2, <3>1
    <3>4. p \in InlineRequest /\ p.job = j
      BY <1>1, <1>3
    <3>5. /\ q \in InlineRequest /\ q.op = p.op /\ q.job = j /\ q.failed = n /\ q.rows = a
          /\ q.processed = p.processed
      BY <3>2, <3>3, <3>4 DEF InlineRequest
    <3> QED
      BY <3>1, <3>5
  <2>4. Update(c, q)
    BY <1>1, <1>10, <2>1 DEF InlineSend
  <2>5. q.failed = Len(q.rows) \/ (q.op = "parse" /\ "publish" \in faults')
    <3>1. p.op \in {"webhook", "parse"}
      BY <1>3 DEF InlineRequest
    <3> QED
      BY <1>5, <1>6, <1>8, <1>10, <2>2, <2>3, <3>1
  <2>6. q.failed # 0
    BY <1>5, <2>3
  <2>7. jobs[j].via => \A i \in DOMAIN q.processed : topic'[q.processed[i]] > 0
    <3>1. PICK s : s = p.processed
      OBVIOUS
    <3>2. jobs[j].via => \A i \in DOMAIN s : topic'[s[i]] > 0
      BY <1>5, <1>6, <1>8, <3>1, StillSent
    <3> QED
      BY <2>3, <3>1, <3>2
  <2> QED
    BY <1>1, <1>2, <1>7, <1>8, <2>3, <2>4, <2>5, <2>6, <2>7, InlineGoesOn
<1> QED
  BY <1>9, <1>10

(* Rows are added for j, and the rest of the quarantine stays.             *)
RowsGrow(j) ==
  /\ errors' \in Seq(Row) /\ DOMAIN errors \subseteq DOMAIN errors'
  /\ \A i \in DOMAIN errors : errors'[i] = errors[i]
  /\ \A i \in DOMAIN errors' \ DOMAIN errors : errors'[i].job = j /\ errors'[i].detail = {}

(* Rows of one job are added at the end.                                   *)
LEMMA RowsGrowBy ==
  ASSUME TypeOK, NEW j \in Nat, NEW rs \in Seq(Records), errors' = errors \o RowsOf(rs, j)
  PROVE  RowsGrow(j)
<1>1. /\ errors' \in Seq(Row) /\ Len(errors) \in Nat /\ Len(rs) \in Nat
      /\ DOMAIN errors = 1..Len(errors) /\ DOMAIN errors' = 1..(Len(errors) + Len(rs))
      /\ \A i \in DOMAIN errors : errors'[i] = errors[i]
      /\ \A i \in DOMAIN errors' \ DOMAIN errors : errors'[i].job = j /\ errors'[i].detail = {}
  BY RowsAdded
<1>2. 1..Len(errors) \subseteq 1..(Len(errors) + Len(rs))
  BY <1>1
<1> QED
  BY <1>1, <1>2 DEF RowsGrow

(* One row of one job is added at the end.                                 *)
LEMMA RowsGrowByOne ==
  ASSUME TypeOK, NEW j \in Nat, NEW r \in Records, errors' = Append(errors, NewRow(r, j))
  PROVE  RowsGrow(j)
<1>1. /\ errors' \in Seq(Row) /\ DOMAIN errors' = DOMAIN errors \cup {Len(errors) + 1}
      /\ \A i \in DOMAIN errors : errors'[i] = errors[i]
      /\ errors'[Len(errors) + 1].job = j /\ errors'[Len(errors) + 1].detail = {}
  BY RowAdded
<1> QED
  BY <1>1 DEF RowsGrow

(* What the job of a request is when it ends, with rows for rs.            *)
EndsAs(job, w, rs) ==
  /\ w \in Job /\ w.status \in Final /\ w.op = job.op /\ w.via = job.via /\ w.content = job.content
  /\ w.failed = Len(rs) \/ (w.op = "parse" /\ "publish" \in faults)
  /\ w.status = "DONE" =>
       /\ rs = <<>> /\ w.processed = Len(Parsed(w.content))
       /\ w.via => \A i \in DOMAIN Parsed(w.content) : topic[Parsed(w.content)[i]] > 0

(* The job ends with the request: its rows and its counts are committed.   *)
LEMMA InlineEnds ==
  ASSUME TypeOK, JobsInv, NEW c \in Clients, Inline(c), NEW j, j = request[c].job, Answer(c),
         NEW rs \in Seq(Records), errors' = errors \o RowsOf(rs, j),
         NEW w, jobs' = [jobs EXCEPT ![j] = w], EndsAs(jobs[j], w, rs),
         UNCHANGED <<topic, producer, faults, messages, rejected, worker, channelVars>>,
         acked' \in [Records -> Nat]
  PROVE  JobStep
<1>1. Only(c, None) /\ accepted' = accepted
  BY UpdateEffect DEF Answer
<1>2. /\ request[c] \in InlineRequest /\ j \in DOMAIN jobs /\ j \in Nat /\ Serves(c, j)
      /\ RowsFor(j) = {} /\ ~ Works(j) /\ j \notin messages
      /\ \A d \in Clients \ {c} : ~ Serves(d, j)
  BY InlineAt
<1>3. /\ jobs' \in Seq(Job) /\ DOMAIN jobs' = DOMAIN jobs /\ jobs'[j] = w
      /\ \A k \in DOMAIN jobs \ {j} : jobs'[k] = jobs[k]
  <2>1. w \in Job
    BY DEF EndsAs
  <2> QED
    BY <1>2, <2>1, JobRewritten
<1>4. RowsGrow(j)
  BY <1>2, RowsGrowBy
<1>5. TypeOK'
  BY <1>1, <1>3, <1>4, JobStepRequest DEF TypeOK, StoreTypeOK, RowsGrow
<1>6. OneJob(j)
  <2>1. Grows
    BY NothingGrows
  <2> QED
    BY <1>1, <1>2, <1>3, <1>4, <2>1 DEF OneJob, Only, EndsAs, RowsGrow
<1>7. Cardinality(RowsFor(j)') = Len(rs) /\ (rs = <<>> => RowsFor(j)' = {})
  <2>1. Len(rs) \in Nat
    BY LenProperties
  <2>2. Cardinality(RowsFor(j)) = 0
    BY <1>2, FS_EmptySet
  <2>3. /\ Cardinality(RowsFor(j)') = Cardinality(RowsFor(j)) + Len(rs)
        /\ rs = <<>> => RowsFor(j)' = RowsFor(j)
    BY <1>2, RowsForAdded
  <2> QED
    BY <1>2, <2>1, <2>2, <2>3
<1>8. \A d \in Clients : ~ Serves(d, j)'
  BY <1>1, <1>2 DEF Serves, JobRequest, Only
<1>9. ~ Works(j)' /\ j \notin messages'
  BY <1>2 DEF Works
<1>10. JobSound(j)'
  BY <1>3, <1>7, <1>8, <1>9, JobEnds DEF EndsAs
<1> QED
  BY <1>5, <1>6, <1>10, OneJobInv DEF JobStep

(* A webhook is refused whole.                                             *)
LEMMA WebhookInvalidStep ==
  ASSUME TypeOK, JobsInv, NEW c \in Clients, WebhookInvalid(c), UNCHANGED channelVars
  PROVE  JobStep
<1>1. PICK j, bad : j = request[c].job /\ bad = Broken(jobs[request[c].job].content)
  OBVIOUS
<1>2. Inline(c)
  BY DEF WebhookInvalid
<1>3. j \in DOMAIN jobs /\ jobs[j] \in Job
  BY <1>1, <1>2, InlineAt
<1>4. bad \in Seq(Records)
  BY <1>1, <1>3, JobAt
<1>5. PICK n : n = Len(bad)
  OBVIOUS
<1>6. n \in Nat
  BY <1>4, <1>5, LenProperties
<1>7. PICK w : w = [jobs[j] EXCEPT !.status = "FAILED", !.failed = n]
  OBVIOUS
<1>8. /\ w \in Job /\ w.status = "FAILED" /\ w.failed = n /\ w.op = jobs[j].op /\ w.via = jobs[j].via
      /\ w.content = jobs[j].content
  BY <1>3, <1>6, <1>7 DEF Job, Final
<1>9. jobs' = [jobs EXCEPT ![j] = w]
  <2>1. jobs' = [jobs EXCEPT ![j].status = "FAILED", ![j].failed = n]
    BY <1>1, <1>5 DEF WebhookInvalid, JobOf
  <2> QED
    BY <1>3, <1>7, <2>1
<1>10. errors' = errors \o RowsOf(bad, j)
  BY <1>1 DEF WebhookInvalid, JobOf
<1>11. acked' \in [Records -> Nat] /\ Answer(c)
       /\ UNCHANGED <<topic, producer, faults, messages, rejected, worker, channelVars>>
  BY DEF WebhookInvalid, TypeOK, StoreTypeOK
<1>12. w.status \in Final /\ w.status # "DONE" /\ w.failed = Len(bad)
  BY <1>5, <1>8 DEF Final
<1>13. EndsAs(jobs[j], w, bad)
  BY <1>8, <1>12 DEF EndsAs
<1> QED
  BY <1>1, <1>2, <1>4, <1>9, <1>10, <1>11, <1>13, InlineEnds

(* The status that the counts give.                                        *)
LEMMA FinalStatusIs ==
  ASSUME NEW n \in Nat, NEW m \in Nat
  PROVE  /\ FinalStatus(n, m) \in Final
         /\ FinalStatus(n, m) = "DONE" <=> m = 0
BY DEF FinalStatus, Final

(* Everything was sent that was parsed, and nothing is left.               *)
LEMMA AllSent ==
  ASSUME NEW s \in Seq(Records), NEW t \in Seq(Records), t = <<>>, NEW u, s \o t = u,
         NEW b \in BOOLEAN, b => \A i \in DOMAIN s : topic[s[i]] > 0
  PROVE  s = u /\ Len(s) = Len(u) /\ (b => \A i \in DOMAIN u : topic[u[i]] > 0)
<1>1. s = u
  BY ConcatEmptySeq
<1> QED
  BY <1>1

(* What an answer vouches for of r.                                        *)
Vouches(s, r) == {i \in DOMAIN s : s[i] = r}

(* It is counted.                                                          *)
LEMMA VouchesFinite ==
  ASSUME NEW s \in Seq(Records), NEW r
  PROVE  IsFiniteSet(Vouches(s, r)) /\ Cardinality(Vouches(s, r)) \in Nat
<1>1. DOMAIN s = 1..Len(s) /\ Len(s) \in Nat
  BY LenProperties
<1>2. IsFiniteSet(DOMAIN s)
  BY <1>1, FS_Interval
<1>3. Vouches(s, r) \subseteq DOMAIN s
  BY DEF Vouches
<1>4. IsFiniteSet(Vouches(s, r))
  BY <1>2, <1>3, FS_Subset
<1> QED
  BY <1>4, FS_CardinalityType

(* What the answer of a request that worked its job off vouches for.       *)
LEMMA InlineFinishAcks ==
  ASSUME TypeOK, NEW c \in Clients, request[c] \in InlineRequest, InlineFinish(c)
  PROVE  acked' = [r \in Records |-> IF JobOf(c).via
                                     THEN acked[r] + Cardinality(Vouches(request[c].processed, r))
                                     ELSE acked[r]]
         /\ acked' \in [Records -> Nat]
<1>1. acked' = [r \in Records |-> IF JobOf(c).via
                                  THEN acked[r] + Cardinality(Vouches(request[c].processed, r))
                                  ELSE acked[r]]
  BY DEF InlineFinish, Vouches
<1>2. request[c].processed \in Seq(Records)
  BY DEF InlineRequest
<1>3. \A r \in Records : Cardinality(Vouches(request[c].processed, r)) \in Nat
  BY <1>2, VouchesFinite
<1>4. acked \in [Records -> Nat]
  BY DEF TypeOK, StoreTypeOK
<1> QED
  BY <1>1, <1>3, <1>4

(* A request ends with its job.                                            *)
LEMMA InlineFinishStep ==
  ASSUME TypeOK, JobsInv, NEW c \in Clients, InlineFinish(c), UNCHANGED channelVars
  PROVE  JobStep
<1>1. PICK j, p, bad : j = request[c].job /\ p = request[c] /\ bad = Broken(jobs[request[c].job].content)
  OBVIOUS
<1>2. Inline(c) /\ p.left = <<>>
  BY <1>1 DEF InlineFinish
<1>3. /\ p \in InlineRequest /\ j \in DOMAIN jobs /\ j \in Nat /\ jobs[j] \in Job /\ jobs[j].op = p.op
      /\ InlineSound(c, j) /\ Serves(c, j)
  BY <1>1, <1>2, InlineAt
<1>4. bad \in Seq(Records) /\ Len(bad) \in Nat
  BY <1>1, <1>3, JobAt, LenProperties
<1>5. /\ p.rows \in Seq(Records) /\ p.processed \in Seq(Records) /\ p.left \in Seq(Records) /\ p.failed \in Nat
      /\ p.op \in {"webhook", "parse"}
  BY <1>3 DEF InlineRequest
<1>6. PICK rs, n, m : rs = p.rows \o bad /\ n = Len(p.processed) /\ m = p.failed + Len(bad)
  OBVIOUS
<1>7. rs \in Seq(Records) /\ Len(rs) = Len(p.rows) + Len(bad) /\ Len(p.rows) \in Nat /\ n \in Nat /\ m \in Nat
  <2>1. n \in Nat /\ m \in Nat
    BY <1>4, <1>5, <1>6, LenProperties
  <2>2. p.rows \o bad \in Seq(Records) /\ Len(p.rows \o bad) = Len(p.rows) + Len(bad) /\ Len(p.rows) \in Nat
    BY <1>4, <1>5, ConcatShape
  <2> QED
    BY <1>6, <2>1, <2>2
<1>8. PICK w : w = [jobs[j] EXCEPT !.processed = n, !.failed = m, !.status = FinalStatus(n, m)]
  OBVIOUS
<1>9. /\ FinalStatus(n, m) \in Final
      /\ FinalStatus(n, m) = "DONE" <=> m = 0
  BY <1>7, FinalStatusIs
<1>10. /\ w \in Job /\ w.status = FinalStatus(n, m) /\ w.failed = m /\ w.processed = n
       /\ w.op = jobs[j].op /\ w.via = jobs[j].via /\ w.content = jobs[j].content
  <2>1. PICK f : f = FinalStatus(n, m)
    OBVIOUS
  <2>2. f \in Final
    BY <1>9, <2>1
  <2> QED
    BY <1>3, <1>7, <1>8, <2>1, <2>2 DEF Job
<1>11. jobs' = [jobs EXCEPT ![j] = w]
  <2>1. jobs' = [jobs EXCEPT ![j].processed = n, ![j].failed = m, ![j].status = FinalStatus(n, m)]
    BY <1>1, <1>6 DEF InlineFinish, JobOf
  <2>2. PICK f : f = FinalStatus(n, m)
    OBVIOUS
  <2> QED
    BY <1>3, <1>8, <2>1, <2>2
<1>12. errors' = errors \o RowsOf(rs, j)
  BY <1>1, <1>6 DEF InlineFinish, JobOf
<1>13. acked' \in [Records -> Nat]
  BY <1>1, <1>3, InlineFinishAcks
<1>14. Answer(c) /\ UNCHANGED <<topic, producer, faults, messages, rejected, worker, channelVars>>
  BY DEF InlineFinish
<1>15. /\ p.failed = Len(p.rows) \/ (p.op = "parse" /\ "publish" \in faults)
       /\ p.failed = 0 => p.rows = <<>> /\ p.processed \o p.left = Parsed(jobs[j].content)
       /\ jobs[j].via => \A i \in DOMAIN p.processed : topic[p.processed[i]] > 0
  BY <1>1, <1>2, <1>3 DEF InlineSound, Inline
<1>16. w.failed = Len(rs) \/ (w.op = "parse" /\ "publish" \in faults)
  BY <1>3, <1>4, <1>5, <1>6, <1>7, <1>10, <1>15
<1>17. ASSUME w.status = "DONE"
       PROVE  /\ rs = <<>> /\ w.processed = Len(Parsed(w.content))
              /\ w.via => \A i \in DOMAIN Parsed(w.content) : topic[Parsed(w.content)[i]] > 0
  <2>1. p.failed = 0 /\ Len(bad) = 0
    BY <1>4, <1>5, <1>6, <1>9, <1>10, <1>17
  <2>2. bad = <<>>
    BY <1>4, <2>1, EmptySeq
  <2>3. rs = <<>>
    <3>1. p.rows = <<>> /\ <<>> \in Seq(Records)
      BY <1>15, <2>1, EmptySeq
    <3>2. <<>> \o <<>> = <<>>
      BY <3>1, ConcatEmptySeq
    <3> QED
      BY <1>6, <2>2, <3>1, <3>2
  <2>4. PICK s, t, u, b : s = p.processed /\ t = p.left /\ u = Parsed(w.content) /\ b = w.via
    OBVIOUS
  <2>5. /\ s \in Seq(Records) /\ t \in Seq(Records) /\ t = <<>> /\ s \o t = u /\ b \in BOOLEAN
        /\ b => \A i \in DOMAIN s : topic[s[i]] > 0
    BY <1>2, <1>5, <1>10, <1>15, <2>1, <2>4 DEF Job
  <2>6. Len(s) = Len(u) /\ (b => \A i \in DOMAIN u : topic[u[i]] > 0)
    BY <2>5, AllSent
  <2> QED
    BY <1>6, <1>10, <2>3, <2>4, <2>6
<1>18. EndsAs(jobs[j], w, rs)
  BY <1>9, <1>10, <1>16, <1>17 DEF EndsAs
<1> QED
  BY <1>1, <1>2, <1>7, <1>11, <1>12, <1>13, <1>14, <1>18, InlineEnds
-----------------------------------------------------------------------------
(* Jobs for the stream processor.                                          *)

(* A job in the hands of nobody that fails with nothing to count.          *)
LEMMA JobFails ==
  ASSUME TypeOK, JobsInv, NEW j \in DOMAIN jobs, jobs[j].status = "QUEUED", errors' = errors,
         jobs' = [jobs EXCEPT ![j].status = "FAILED"],
         \A c \in Clients : ~ Serves(c, j)', ~ Works(j)', j \notin messages'
  PROVE  /\ jobs' \in Seq(Job) /\ DOMAIN jobs' = DOMAIN jobs /\ jobs'[j].via = jobs[j].via
         /\ \A k \in DOMAIN jobs \ {j} : jobs'[k] = jobs[k]
         /\ JobSound(j)'
<1>1. PICK w : w = [jobs[j] EXCEPT !.status = "FAILED"]
  OBVIOUS
<1>2. jobs[j] \in Job
  BY JobAt
<1>3. w \in Job /\ w.status = "FAILED" /\ w.failed = jobs[j].failed /\ w.via = jobs[j].via
  BY <1>1, <1>2 DEF Job, Final
<1>4. jobs' = [jobs EXCEPT ![j] = w]
  BY <1>1
<1>5. /\ jobs' \in Seq(Job) /\ DOMAIN jobs' = DOMAIN jobs /\ jobs'[j] = w
      /\ \A k \in DOMAIN jobs \ {j} : jobs'[k] = jobs[k]
  BY <1>3, <1>4, JobRewritten
<1>6. RowsFor(j)' = {} /\ jobs[j].failed = 0
  BY DEF RowsFor, JobsInv, JobSound, Waiting
<1>7. Cardinality(RowsFor(j)') = 0
  BY <1>6, FS_EmptySet
<1>8. w.status \in Final
  BY <1>3 DEF Final
<1>9. JobSound(j)'
  BY <1>3, <1>5, <1>6, <1>7, <1>8, JobEnds
<1> QED
  BY <1>3, <1>5, <1>9

(* A job is handed over, or the send of its message fails.                 *)
LEMMA EnqueueStep ==
  ASSUME TypeOK, JobsInv, NEW c \in Clients, NEW sent \in BOOLEAN, Enqueue(c, sent), UNCHANGED channelVars
  PROVE  JobStep
<1>1. PICK j, p : j = request[c].job /\ p = request[c]
  OBVIOUS
<1>2. Only(c, None) /\ accepted' = accepted
  BY UpdateEffect DEF Enqueue, Answer
<1>3. p \in QueueRequest /\ Serves(c, j) /\ j \in DOMAIN jobs
  BY <1>1, RequestKind DEF Enqueue, Serves, JobRequest, JobOps, JobsInv
<1>4. JobSound(j)
  BY <1>3 DEF JobsInv
<1>5. jobs[j].status = "QUEUED" /\ j \notin messages /\ RowsFor(j) = {}
  BY <1>1, <1>3, <1>4 DEF JobSound, QueueSound, Waiting, QueueRequest
<1>6. ~ Works(j) /\ \A d \in Clients \ {c} : ~ Serves(d, j)
  BY <1>3, <1>4 DEF JobSound, Alone
<1>7. /\ \A d \in Clients : ~ Serves(d, j)'
      /\ ~ Works(j)'
  BY <1>2, <1>6 DEF Serves, JobRequest, Only, Works, Enqueue
<1>8. UNCHANGED <<topic, errors, producer, acked, rejected, worker>>
  BY DEF Enqueue
<1>9. CASE sent
  <2>1. messages' = messages \cup {j} /\ faults' = faults /\ jobs' = jobs
    BY <1>1, <1>9 DEF Enqueue
  <2>2. Grows
    BY <1>8, <2>1, NothingGrows
  <2>3. TypeOK'
    <3>1. messages' \cup rejected' \subseteq DOMAIN jobs'
      BY <1>3, <1>8, <2>1 DEF TypeOK
    <3> QED
      BY <1>2, <1>8, <2>1, <3>1, JobStepRequest DEF TypeOK, StoreTypeOK
  <2>4. OneJob(j)
    BY <1>2, <1>3, <1>8, <2>1, <2>2 DEF OneJob, Only
  <2>5. JobSound(j)'
    <3>1. RowsFor(j)' = RowsFor(j)
      BY <1>8 DEF RowsFor
    <3>2. \A d \in Clients : InlineSound(d, j)' /\ QueueSound(d, j)'
      BY <1>7 DEF InlineSound, QueueSound
    <3>3. Alone(j)' /\ WorkSound(j)'
      BY <1>7 DEF Alone, WorkSound
    <3>4. Waiting(j)'
      BY <1>4, <1>5, <2>1, <3>1 DEF Waiting, JobSound
    <3>5. Complete(j)' /\ Quarantined(j)' /\ Remembered(j)'
      BY <1>5, <2>1 DEF Complete, Quarantined, Remembered, Final
    <3> QED
      BY <3>2, <3>3, <3>4, <3>5 DEF JobSound
  <2> QED
    BY <2>3, <2>4, <2>5, OneJobInv DEF JobStep
<1>10. CASE ~ sent
  <2>1. Fault("publish") /\ messages' = messages
        /\ jobs' = IF p.op = "file" THEN jobs ELSE [jobs EXCEPT ![j].status = "FAILED"]
    BY <1>1, <1>10 DEF Enqueue
  <2>2. faults \subseteq faults' /\ faults' \subseteq FaultKinds
    BY <2>1, FaultEffect DEF TypeOK, StoreTypeOK, FaultKinds
  <2>3. Grows
    BY <1>8, <2>2, NothingGrows
  <2>4. /\ jobs' \in Seq(Job) /\ DOMAIN jobs' = DOMAIN jobs /\ jobs'[j].via = jobs[j].via
        /\ \A k \in DOMAIN jobs \ {j} : jobs'[k] = jobs[k]
        /\ JobSound(j)'
    <3>1. CASE p.op # "file"
      BY <1>3, <1>5, <1>7, <1>8, <2>1, <3>1, JobFails
    <3>2. CASE p.op = "file"
      <4>1. jobs' = jobs
        BY <2>1, <3>2
      <4>2. RowsFor(j)' = RowsFor(j)
        BY <1>8 DEF RowsFor
      <4>3. jobs[j].status # "PROCESSING"
        BY <1>5
      <4>4. \A d \in Clients : InlineSound(d, j)' /\ QueueSound(d, j)'
        BY <1>7 DEF InlineSound, QueueSound
      <4>5. Alone(j)' /\ WorkSound(j)'
        BY <1>7 DEF Alone, WorkSound
      <4>6. Waiting(j)'
        BY <1>4, <1>5, <2>1, <4>1, <4>2 DEF Waiting, JobSound
      <4>7. Complete(j)' /\ Quarantined(j)' /\ Remembered(j)'
        BY <1>5, <4>1 DEF Complete, Quarantined, Remembered, Final
      <4> QED
        BY <4>1, <4>4, <4>5, <4>6, <4>7 DEF JobSound, TypeOK
    <3> QED
      BY <3>1, <3>2
  <2>5. TypeOK'
    <3>1. messages' \cup rejected' \subseteq DOMAIN jobs'
      BY <1>8, <2>1, <2>4 DEF TypeOK
    <3> QED
      BY <1>2, <1>8, <2>2, <2>4, <3>1, JobStepRequest DEF TypeOK, StoreTypeOK
  <2>6. OneJob(j)
    BY <1>2, <1>3, <1>8, <2>1, <2>3, <2>4 DEF OneJob, Only
  <2> QED
    BY <2>4, <2>5, <2>6, OneJobInv DEF JobStep
<1> QED
  BY <1>9, <1>10

(* A job whose message waits is in nobody's hands.                         *)
LEMMA MessageAt ==
  ASSUME TypeOK, JobsInv, NEW j \in messages
  PROVE  /\ j \in DOMAIN jobs /\ jobs[j].status = "QUEUED" /\ JobSound(j)
         /\ RowsFor(j) = {} /\ ~ Works(j) /\ \A c \in Clients : ~ Serves(c, j)
<1>1. j \in DOMAIN jobs
  BY DEF TypeOK
<1>2. JobSound(j)
  BY <1>1 DEF JobsInv
<1>3. jobs[j].status = "QUEUED" /\ RowsFor(j) = {}
  BY <1>2 DEF JobSound, Waiting
<1>4. ~ Works(j)
  BY <1>2, <1>3 DEF JobSound, WorkSound
<1>5. ASSUME NEW c \in Clients, Serves(c, j) PROVE FALSE
  <2>1. request[c].op \in {"webhook", "parse"} \/ request[c].op \in {"file", "reprocess", "backfill"}
    BY <1>5 DEF Serves, JobRequest, JobOps
  <2>2. InlineSound(c, j) /\ QueueSound(c, j)
    BY <1>2 DEF JobSound
  <2> QED
    BY <1>3, <1>5, <2>1, <2>2 DEF InlineSound, QueueSound
<1> QED
  BY <1>1, <1>2, <1>3, <1>4, <1>5

(* The consumer loop rejects a job message.                                *)
LEMMA RejectJobStep ==
  ASSUME TypeOK, JobsInv, NEW j \in messages, RejectJob(j), UNCHANGED channelVars
  PROVE  JobStep
<1>1. messages' = messages \ {j} /\ rejected' = rejected \cup {j} /\ UNCHANGED <<storeVars, jobs, worker>>
  BY DEF RejectJob
<1>2. /\ j \in DOMAIN jobs /\ JobSound(j) /\ jobs[j].status = "QUEUED"
      /\ ~ Works(j) /\ \A c \in Clients : ~ Serves(c, j)
  BY MessageAt
<1>3. Grows
  BY <1>1, NothingGrows DEF storeVars
<1>4. TypeOK'
  <2>1. messages' \cup rejected' \subseteq DOMAIN jobs'
    BY <1>1, <1>2 DEF TypeOK
  <2> QED
    BY <1>1, <2>1, JobStepWorker DEF storeVars, TypeOK, StoreTypeOK
<1>5. OneJob(j)
  BY <1>1, <1>2, <1>3 DEF OneJob, storeVars
<1>6. JobSound(j)'
  <2>1. RowsFor(j)' = RowsFor(j) /\ request' = request
    BY <1>1 DEF RowsFor, storeVars
  <2>2. \A c \in Clients : ~ Serves(c, j)'
    BY <1>2, <2>1 DEF Serves
  <2>3. ~ Works(j)'
    BY <1>1, <1>2 DEF Works
  <2> QED
    BY <1>1, <1>2, <1>3, <2>1, <2>2, <2>3, JobKept
<1> QED
  BY <1>4, <1>5, <1>6, OneJobInv DEF JobStep

-----------------------------------------------------------------------------
(* process_ingest_job.                                                     *)

(* The worker cannot read the file.                                        *)
LEMMA WorkerCannotLoadStep ==
  ASSUME TypeOK, JobsInv, NEW j \in messages, WorkerCannotLoad(j), UNCHANGED channelVars
  PROVE  JobStep
<1>1. /\ worker = None /\ messages' = messages \ {j} /\ jobs' = [jobs EXCEPT ![j].status = "FAILED"]
      /\ UNCHANGED <<topic, errors, producer, request, accepted, acked, rejected, worker>>
      /\ Fault("lake") \/ faults' = faults
  BY DEF WorkerCannotLoad, WorkerStarts
<1>2. /\ j \in DOMAIN jobs /\ jobs[j].status = "QUEUED" /\ ~ Works(j) /\ \A c \in Clients : ~ Serves(c, j)
  BY MessageAt
<1>3. faults \subseteq faults' /\ faults' \subseteq FaultKinds
  BY <1>1, FaultEffect DEF TypeOK, StoreTypeOK, FaultKinds
<1>4. Grows
  BY <1>1, <1>3, NothingGrows
<1>5. (\A c \in Clients : ~ Serves(c, j)') /\ ~ Works(j)' /\ j \notin messages'
  BY <1>1, <1>2 DEF Serves, Works
<1>6. /\ jobs' \in Seq(Job) /\ DOMAIN jobs' = DOMAIN jobs /\ jobs'[j].via = jobs[j].via
      /\ \A k \in DOMAIN jobs \ {j} : jobs'[k] = jobs[k]
      /\ JobSound(j)'
  BY <1>1, <1>2, <1>5, JobFails
<1>7. TypeOK'
  <2>1. messages' \cup rejected' \subseteq DOMAIN jobs'
    BY <1>1, <1>6 DEF TypeOK
  <2> QED
    BY <1>1, <1>3, <1>6, <2>1, JobStepWorker DEF TypeOK, StoreTypeOK
<1>8. OneJob(j)
  BY <1>1, <1>2, <1>4, <1>6 DEF OneJob
<1> QED
  BY <1>6, <1>7, <1>8, OneJobInv DEF JobStep

(* The claims of a job that the worker has in hand.                        *)
LEMMA WorkerHolds ==
  ASSUME NEW j, Works(j)', jobs'[j].status = "PROCESSING", worker'.form = jobs'[j].content.form,
         \A c \in Clients : ~ Serves(c, j)', j \notin messages',
         "insert" \notin faults' => Cardinality(RowsFor(j)') = worker'.failed,
         worker'.failed = 0 => /\ RowsFor(j)' = {}
                               /\ worker'.processed \o worker'.left = Parsed(jobs'[j].content),
         \A i \in DOMAIN worker'.processed : topic'[worker'.processed[i]] > 0
  PROVE  JobSound(j)'
<1>1. \A c \in Clients : InlineSound(c, j)' /\ QueueSound(c, j)'
  BY DEF InlineSound, QueueSound
<1>2. Alone(j)' /\ Waiting(j)' /\ Remembered(j)'
  BY DEF Alone, Waiting, Remembered
<1>3. WorkSound(j)'
  BY DEF WorkSound
<1>4. Complete(j)' /\ Quarantined(j)'
  BY DEF Complete, Quarantined, Final
<1> QED
  BY <1>1, <1>2, <1>3, <1>4 DEF JobSound

(* The worker reads the file.                                              *)
LEMMA WorkerLoadsStep ==
  ASSUME TypeOK, JobsInv, NEW j \in messages, WorkerLoads(j), UNCHANGED channelVars
  PROVE  JobStep
<1>1. PICK v, s : v = worker' /\ s = Parsed(jobs[j].content)
  OBVIOUS
<1>2. /\ worker = None /\ messages' = messages \ {j} /\ jobs' = [jobs EXCEPT ![j].status = "PROCESSING"]
      /\ UNCHANGED <<storeVars, rejected>>
      /\ v = [job |-> j, form |-> jobs[j].content.form, left |-> s, processed |-> <<>>, failed |-> 0]
  BY <1>1 DEF WorkerLoads, WorkerStarts
<1>3. /\ j \in DOMAIN jobs /\ jobs[j].status = "QUEUED" /\ RowsFor(j) = {}
      /\ ~ Works(j) /\ \A c \in Clients : ~ Serves(c, j)
  BY MessageAt
<1>4. j \in Nat /\ jobs[j] \in Job /\ s \in Seq(Records) /\ jobs[j].content.form \in Forms
  BY <1>1, <1>3, JobAt
<1>5. PICK w : w = [jobs[j] EXCEPT !.status = "PROCESSING"]
  OBVIOUS
<1>6. w \in Job /\ w.status = "PROCESSING" /\ w.via = jobs[j].via /\ w.content = jobs[j].content
  BY <1>4, <1>5 DEF Job
<1>7. /\ jobs' \in Seq(Job) /\ DOMAIN jobs' = DOMAIN jobs /\ jobs'[j] = w
      /\ \A k \in DOMAIN jobs \ {j} : jobs'[k] = jobs[k]
  <2>1. jobs' = [jobs EXCEPT ![j] = w]
    BY <1>2, <1>5
  <2> QED
    BY <1>3, <1>6, <2>1, JobRewritten
<1>8. v \in Work /\ <<>> \in Seq(Records)
  BY <1>2, <1>4, EmptySeq DEF Work
<1>9. TypeOK'
  <2>1. messages' \cup rejected' \subseteq DOMAIN jobs'
    BY <1>2, <1>7 DEF TypeOK
  <2>2. UNCHANGED <<producer, request, accepted, acked, topic, errors, faults>>
    BY <1>2 DEF storeVars
  <2> QED
    BY <1>1, <1>7, <1>8, <2>1, <2>2, JobStepWorker DEF TypeOK, StoreTypeOK
<1>10. Works(j)' /\ v # None
  BY <1>1, <1>2, <1>8, JobAssumption DEF Works
<1>11. OneJob(j)
  <2>1. Grows
    BY <1>2, NothingGrows DEF storeVars
  <2> QED
    BY <1>2, <1>3, <1>6, <1>7, <1>10, <2>1 DEF OneJob, storeVars
<1>12. JobSound(j)'
  <2>1. RowsFor(j)' = {} /\ \A c \in Clients : ~ Serves(c, j)'
    BY <1>2, <1>3 DEF RowsFor, Serves, storeVars
  <2>2. Cardinality(RowsFor(j)') = 0
    BY <2>1, FS_EmptySet
  <2>3. <<>> \o s = s
    BY <1>4, ConcatEmptySeq
  <2>4. Parsed(jobs[j].content)' = Parsed(jobs[j].content)
    BY <1>6, <1>7, ParsedSame
  <2>5. Parsed(jobs'[j].content) = s
    BY <1>1, <2>4
  <2>6. /\ v.failed = 0 /\ v.processed = <<>> /\ v.left = s /\ v.form = jobs[j].content.form
    BY <1>2
  <2>7. worker'.failed = 0 => RowsFor(j)' = {} /\ worker'.processed \o worker'.left = Parsed(jobs'[j].content)
    BY <1>1, <2>1, <2>3, <2>5, <2>6
  <2>8. \A i \in DOMAIN worker'.processed : topic'[worker'.processed[i]] > 0
    BY <1>1, <2>6
  <2>9. Works(j)' /\ jobs'[j].status = "PROCESSING" /\ worker'.form = jobs'[j].content.form
    BY <1>1, <1>6, <1>7, <1>10, <2>6
  <2>10. "insert" \notin faults' => Cardinality(RowsFor(j)') = worker'.failed
    BY <1>1, <2>2, <2>6
  <2>11. j \notin messages' /\ \A c \in Clients : ~ Serves(c, j)'
    BY <1>2, <2>1
  <2> QED
    BY <2>7, <2>8, <2>9, <2>10, <2>11, WorkerHolds
<1> QED
  BY <1>9, <1>11, <1>12, OneJobInv DEF JobStep

(* The worker, and the job it has in hand.                                 *)
LEMMA WorkerAt ==
  ASSUME TypeOK, JobsInv, worker # None, NEW j, j = worker.job
  PROVE  /\ worker \in Work /\ j \in DOMAIN jobs /\ j \in Nat /\ Works(j) /\ jobs[j] \in Job
         /\ jobs[j].status = "PROCESSING" /\ worker.form = jobs[j].content.form
         /\ j \notin messages /\ (\A c \in Clients : ~ Serves(c, j)) /\ WorkSound(j) /\ JobSound(j)
<1>1. worker \in Work /\ j \in DOMAIN jobs /\ Works(j)
  BY DEF TypeOK, JobsInv, Works
<1>2. j \in Nat /\ jobs[j] \in Job /\ JobSound(j)
  BY <1>1, JobAt DEF JobsInv
<1>3. WorkSound(j) /\ jobs[j].status = "PROCESSING" /\ worker.form = jobs[j].content.form
  BY <1>1, <1>2 DEF JobSound, WorkSound
<1>4. j \notin messages
  BY <1>2, <1>3 DEF JobSound, Waiting
<1>5. \A c \in Clients : ~ Serves(c, j)
  BY <1>1, <1>2 DEF JobSound, Alone
<1> QED
  BY <1>1, <1>2, <1>3, <1>4, <1>5

(* A step that adds no row.                                                *)
LEMMA RowsStay ==
  ASSUME TypeOK, errors' = errors, NEW j
  PROVE  RowsGrow(j) /\ RowsFor(j)' = RowsFor(j)
BY DEF RowsGrow, RowsFor, TypeOK, StoreTypeOK

(* It goes on to the next record.                                          *)
LEMMA WorkerGoesOn ==
  ASSUME TypeOK, JobsInv, worker # None, NEW j, j = worker.job, NEW w \in Work, worker' = w,
         w.job = j, w.form = worker.form,
         UNCHANGED <<producer, request, accepted, acked, jobs, messages, rejected, channelVars>>,
         Grows, faults' \subseteq FaultKinds, RowsGrow(j),
         "insert" \notin faults' => Cardinality(RowsFor(j)') = w.failed,
         w.failed = 0 => RowsFor(j)' = {} /\ w.processed \o w.left = Parsed(jobs[j].content),
         \A i \in DOMAIN w.processed : topic'[w.processed[i]] > 0
  PROVE  JobStep
<1>1. /\ j \in DOMAIN jobs /\ Works(j)
      /\ jobs[j].status = "PROCESSING" /\ worker.form = jobs[j].content.form
      /\ j \notin messages /\ \A c \in Clients : ~ Serves(c, j)
  BY WorkerAt
<1>2. TypeOK'
  BY JobStepWorker DEF TypeOK, StoreTypeOK, Grows, RowsGrow
<1>3. w # None
  BY JobAssumption
<1>4. Works(j)' /\ \A c \in Clients : ~ Serves(c, j)'
  BY <1>1, <1>3 DEF Works, Serves
<1>5. OneJob(j)
  BY <1>1, <1>4 DEF OneJob, RowsGrow
<1>6. Parsed(jobs'[j].content) = Parsed(jobs[j].content)
  OBVIOUS
<1>7. jobs'[j].status = "PROCESSING" /\ worker'.form = jobs'[j].content.form /\ j \notin messages'
  BY <1>1
<1>8. worker'.failed = 0 => RowsFor(j)' = {} /\ worker'.processed \o worker'.left = Parsed(jobs'[j].content)
  BY <1>6
<1>9. JobSound(j)'
  BY <1>4, <1>7, <1>8, WorkerHolds
<1> QED
  BY <1>2, <1>5, <1>9, OneJobInv DEF JobStep

(* It leaves the job unfinished.                                           *)
LEMMA WorkerLeaves ==
  ASSUME TypeOK, JobsInv, worker # None, worker' = None,
         UNCHANGED <<topic, errors, producer, request, accepted, acked, jobs, messages, channelVars>>,
         rejected' \in {rejected, rejected \cup {worker.job}},
         faults \subseteq faults', faults' \subseteq FaultKinds, faults' \cap {"crash", "insert"} # {}
  PROVE  JobStep
<1>1. PICK j : j = worker.job
  OBVIOUS
<1>2. /\ j \in DOMAIN jobs /\ Works(j)
      /\ jobs[j].status = "PROCESSING" /\ JobSound(j)
      /\ j \notin messages /\ \A c \in Clients : ~ Serves(c, j)
  BY <1>1, WorkerAt
<1>3. TypeOK'
  <2>1. messages' \cup rejected' \subseteq DOMAIN jobs'
    BY <1>1, <1>2 DEF TypeOK
  <2> QED
    BY <2>1, JobStepWorker DEF TypeOK, StoreTypeOK
<1>4. ~ Works(j)' /\ \A c \in Clients : ~ Serves(c, j)'
  BY <1>2 DEF Works, Serves
<1>5. OneJob(j)
  <2>1. Grows
    BY NothingGrows
  <2> QED
    BY <1>2, <1>4, <2>1 DEF OneJob
<1>6. JobSound(j)'
  <2>1. \A c \in Clients : InlineSound(c, j)' /\ QueueSound(c, j)'
    BY <1>4 DEF InlineSound, QueueSound
  <2>2. Alone(j)' /\ WorkSound(j)' /\ Remembered(j)'
    BY <1>4 DEF Alone, WorkSound, Remembered
  <2>3. Waiting(j)' /\ Complete(j)' /\ Quarantined(j)'
    BY <1>2 DEF Waiting, Complete, Quarantined, Final
  <2> QED
    BY <2>1, <2>2, <2>3 DEF JobSound
<1> QED
  BY <1>3, <1>5, <1>6, OneJobInv DEF JobStep

(* The worker dies.                                                        *)
LEMMA WorkerCrashStep ==
  ASSUME TypeOK, JobsInv, WorkerCrash, UNCHANGED channelVars
  PROVE  JobStep
<1>1. faults \subseteq faults' /\ faults' \subseteq FaultKinds /\ "crash" \in faults'
  BY FaultEffect DEF WorkerCrash, TypeOK, StoreTypeOK, FaultKinds
<1> QED
  BY <1>1, WorkerLeaves DEF WorkerCrash

(* What of the work is kept when a record of it fails.                     *)
FailedWork(w, n) ==
  /\ w \in Work /\ worker' = w /\ w.job = worker.job /\ w.form = worker.form
  /\ w.processed = worker.processed /\ w.failed # 0 /\ w.failed = worker.failed + n

(* The two ways in which a failure is counted.                             *)
LEMMA WorkerFailsAs ==
  ASSUME worker \in Work, NEW l \in Seq(Records)
  PROVE  /\ worker' = [worker EXCEPT !.left = l, !.failed = @ + 1] => \E w : FailedWork(w, 1)
         /\ worker' = [worker EXCEPT !.left = l, !.failed = @ + 2] => \E w : FailedWork(w, 2)
<1>1. PICK m, n : m = worker.failed + 1 /\ n = worker.failed + 2
  OBVIOUS
<1>2. m \in Nat /\ m # 0 /\ n \in Nat /\ n # 0
  BY <1>1 DEF Work
<1>3. ASSUME worker' = [worker EXCEPT !.left = l, !.failed = @ + 1] PROVE FailedWork(worker', 1)
  <2>1. worker' = [worker EXCEPT !.left = l, !.failed = m]
    BY <1>1, <1>3
  <2> QED
    BY <1>1, <1>2, <2>1 DEF FailedWork, Work
<1>4. ASSUME worker' = [worker EXCEPT !.left = l, !.failed = @ + 2] PROVE FailedWork(worker', 2)
  <2>1. worker' = [worker EXCEPT !.left = l, !.failed = n]
    BY <1>1, <1>4
  <2> QED
    BY <1>1, <1>2, <2>1 DEF FailedWork, Work
<1> QED
  BY <1>3, <1>4

(* A failed record has its row, unless an insert failed.                   *)
LEMMA WorkerRow ==
  ASSUME TypeOK, JobsInv, worker # None, worker.left # <<>>, NEW w, NEW n, FailedWork(w, n),
         UNCHANGED <<producer, request, accepted, acked, jobs, messages, rejected, channelVars>>,
         Grows, faults' \subseteq FaultKinds,
         errors' = errors \/ errors' = Append(errors, NewRow(Head(worker.left), worker.job)),
         "insert" \notin faults' => /\ errors' = Append(errors, NewRow(Head(worker.left), worker.job))
                                   /\ n = 1
  PROVE  JobStep
<1>1. PICK v, j, r : v = worker /\ j = worker.job /\ r = Head(worker.left)
  OBVIOUS
<1>2. /\ v \in Work /\ j \in Nat /\ WorkSound(j) /\ Works(j)
  BY <1>1, WorkerAt
<1>3. r \in Records
  BY <1>1, <1>2, HeadTailProperties DEF Work
<1>4. errors' = errors \/ errors' = Append(errors, NewRow(r, j))
  BY <1>1
<1>5. RowsGrow(j)
  BY <1>2, <1>3, <1>4, RowsStay, RowsGrowByOne
<1>6. ASSUME "insert" \notin faults' PROVE Cardinality(RowsFor(j)') = w.failed
  <2>1. errors' = Append(errors, NewRow(r, j)) /\ w.failed = v.failed + 1 /\ "insert" \notin faults
    BY <1>1, <1>6 DEF Grows, FailedWork
  <2>2. Cardinality(RowsFor(j)') = Cardinality(RowsFor(j)) + 1
    BY <1>2, <1>3, <2>1, RowForAdded
  <2>3. Cardinality(RowsFor(j)) = v.failed
    BY <1>1, <1>2, <2>1 DEF WorkSound
  <2> QED
    BY <2>1, <2>2, <2>3
<1>7. \A i \in DOMAIN w.processed : topic'[w.processed[i]] > 0
  <2>1. PICK s : s = v.processed
    OBVIOUS
  <2>2. s \in Seq(Records) /\ \A i \in DOMAIN s : topic[s[i]] > 0
    BY <1>1, <1>2, <2>1 DEF WorkSound, Work
  <2>3. \A i \in DOMAIN s : topic'[s[i]] > 0
    BY <2>2, StillSent
  <2> QED
    BY <1>1, <2>1, <2>3 DEF FailedWork
<1>8. w \in Work /\ worker' = w /\ w.job = j /\ w.form = worker.form /\ w.failed # 0
  BY <1>1 DEF FailedWork
<1> QED
  BY <1>1, <1>5, <1>6, <1>7, <1>8, WorkerGoesOn

(* A record cannot be mapped, and its row is inserted, retried or lost.    *)
LEMMA WorkerFailsStep ==
  ASSUME TypeOK, JobsInv, NEW insert, WorkerFails(insert), UNCHANGED channelVars
  PROVE  JobStep
<1>1. worker # None /\ worker.left # <<>>
      /\ UNCHANGED <<topic, producer, request, accepted, acked, jobs, messages, channelVars>>
  BY DEF WorkerFails, WorkerStep
<1>2. PICK t, r : t = Tail(worker.left) /\ r = Head(worker.left)
  OBVIOUS
<1>3. worker \in Work
  BY <1>1 DEF TypeOK
<1>4. t \in Seq(Records) /\ <<>> \in Seq(Records)
  BY <1>1, <1>2, <1>3, HeadTailProperties, EmptySeq DEF Work
<1>5. CASE insert = "ok"
  <2>1. /\ errors' = Append(errors, NewRow(r, worker.job))
        /\ worker' = [worker EXCEPT !.left = t, !.failed = @ + 1]
        /\ rejected' = rejected /\ faults' = faults
    BY <1>2, <1>5 DEF WorkerFails, WorkerRowInserted
  <2>2. Grows /\ faults' \subseteq FaultKinds
    BY <1>1, <2>1, NothingGrows DEF TypeOK, StoreTypeOK
  <2>3. PICK w : FailedWork(w, 1)
    BY <1>3, <1>4, <2>1, WorkerFailsAs
  <2> QED
    BY <1>1, <1>2, <2>1, <2>2, <2>3, WorkerRow
<1>6. CASE insert = "retried"
  <2>1. /\ errors' = Append(errors, NewRow(r, worker.job))
        /\ worker' = [worker EXCEPT !.left = t, !.failed = @ + 2]
        /\ rejected' = rejected /\ Fault("insert")
    BY <1>2, <1>6 DEF WorkerFails, WorkerRowRetried
  <2>2. faults' \subseteq FaultKinds /\ faults' = faults \cup {"insert"}
    BY <2>1, FaultEffect DEF TypeOK, StoreTypeOK, FaultKinds
  <2>3. Grows
    BY <1>1, <2>2, NothingGrows
  <2>4. PICK w : FailedWork(w, 2)
    BY <1>3, <1>4, <2>1, WorkerFailsAs
  <2> QED
    BY <1>1, <1>2, <2>1, <2>2, <2>3, <2>4, WorkerRow
<1>7. CASE insert = "lost"
  <2>1. Fault("insert") /\ WorkerRowLost(2)
    BY <1>7 DEF WorkerFails
  <2>2. faults' \subseteq FaultKinds /\ faults' = faults \cup {"insert"}
    BY <2>1, FaultEffect DEF TypeOK, StoreTypeOK, FaultKinds
  <2>3. Grows
    BY <1>1, <2>2, NothingGrows
  <2>4. CASE worker.form = "connector"
    <3>1. worker' = None /\ rejected' = rejected \cup {worker.job} /\ errors' = errors
      BY <2>1, <2>4 DEF WorkerRowLost
    <3> QED
      BY <1>1, <2>2, <3>1, WorkerLeaves
  <2>5. CASE worker.form # "connector"
    <3>1. worker' = [worker EXCEPT !.left = <<>>, !.failed = @ + 2] /\ rejected' = rejected /\ errors' = errors
      BY <2>1, <2>5 DEF WorkerRowLost
    <3>2. PICK w : FailedWork(w, 2)
      BY <1>3, <1>4, <3>1, WorkerFailsAs
    <3> QED
      BY <1>1, <2>2, <2>3, <3>1, <3>2, WorkerRow
  <2> QED
    BY <2>4, <2>5
<1> QED
  BY <1>5, <1>6, <1>7 DEF WorkerFails

(* A record is sent, or its send fails.                                    *)
LEMMA WorkerSendsStep ==
  ASSUME TypeOK, JobsInv, NEW sent \in BOOLEAN, WorkerSends(sent), UNCHANGED channelVars
  PROVE  JobStep
<1>1. worker # None /\ worker.left # <<>> /\ rejected' = rejected
      /\ UNCHANGED <<producer, request, accepted, acked, jobs, messages, channelVars>>
  BY DEF WorkerSends, WorkerStep
<1>2. PICK v, j, r, t : v = worker /\ j = worker.job /\ r = Head(worker.left) /\ t = Tail(worker.left)
  OBVIOUS
<1>3. v \in Work /\ j \in Nat /\ WorkSound(j) /\ Works(j)
  BY <1>1, <1>2, WorkerAt
<1>4. r \in Records /\ t \in Seq(Records)
  BY <1>1, <1>2, <1>3, HeadTailProperties DEF Work
<1>5. Publish(r, sent)
  BY <1>2 DEF WorkerSends
<1>6. /\ topic' \in [Records -> Nat] /\ \A x \in Records : topic'[x] >= topic[x]
      /\ sent => topic'[r] = topic[r] + 1 /\ faults' = faults
      /\ faults \subseteq faults' /\ faults' \subseteq FaultKinds
  BY <1>4, <1>5, PublishEffect
<1>7. Grows
  BY <1>6 DEF Grows
<1>8. CASE ~ sent
  <2>1. errors' = Append(errors, NewRow(r, j)) /\ worker' = [worker EXCEPT !.left = t, !.failed = @ + 1]
    BY <1>2, <1>8 DEF WorkerSends, WorkerRowInserted
  <2>2. PICK w : FailedWork(w, 1)
    BY <1>2, <1>3, <1>4, <2>1, WorkerFailsAs
  <2> QED
    BY <1>1, <1>2, <1>6, <1>7, <2>1, <2>2, WorkerRow
<1>9. CASE sent
  <2>1. PICK s, p : s = Append(v.processed, r) /\ p = v.processed
    OBVIOUS
  <2>2. PICK w : w = [v EXCEPT !.left = t, !.processed = s]
    OBVIOUS
  <2>3. worker' = w /\ errors' = errors
    BY <1>2, <1>9, <2>1, <2>2 DEF WorkerSends
  <2>4. p \in Seq(Records) /\ v.left \in Seq(Records) /\ s \in Seq(Records)
    BY <1>3, <1>4, <2>1, AppendProperties DEF Work
  <2>5. /\ w \in Work /\ w.job = v.job /\ w.form = v.form /\ w.failed = v.failed /\ w.processed = s /\ w.left = t
    BY <1>3, <1>4, <2>2, <2>4 DEF Work
  <2>6. RowsGrow(j) /\ RowsFor(j)' = RowsFor(j)
    BY <2>3, RowsStay
  <2>7. "insert" \notin faults' => Cardinality(RowsFor(j)') = w.failed
    BY <1>2, <1>3, <1>6, <1>9, <2>5, <2>6 DEF WorkSound
  <2>8. w.failed = 0 => RowsFor(j)' = {} /\ w.processed \o w.left = Parsed(jobs[j].content)
    <3>1. s \o t = p \o v.left
      BY <1>1, <1>2, <2>1, <2>4, HeadToEnd
    <3>2. v.failed = 0 => RowsFor(j) = {} /\ p \o v.left = Parsed(jobs[j].content)
      BY <1>2, <1>3, <2>1 DEF WorkSound
    <3> QED
      BY <2>5, <2>6, <3>1, <3>2
  <2>9. \A i \in DOMAIN w.processed : topic'[w.processed[i]] > 0
    <3>1. \A i \in DOMAIN p : topic[p[i]] > 0
      BY <1>2, <1>3, <2>1 DEF WorkSound
    <3>2. topic'[r] > 0
      BY <1>4, <1>6, <1>9 DEF TypeOK, StoreTypeOK
    <3>3. \A i \in DOMAIN Append(p, r) : topic'[Append(p, r)[i]] > 0
      BY <1>4, <1>7, <2>4, <3>1, <3>2, OneMoreSent
    <3> QED
      BY <2>1, <2>5, <3>3
  <2>10. w.job = j /\ w.form = worker.form
    BY <1>2, <2>5
  <2> QED
    BY <1>1, <1>2, <1>6, <1>7, <2>3, <2>5, <2>6, <2>7, <2>8, <2>9, <2>10, WorkerGoesOn
<1> QED
  BY <1>8, <1>9

(* The worker ends its job.                                                *)
LEMMA WorkerFinishesStep ==
  ASSUME TypeOK, JobsInv, WorkerFinishes, UNCHANGED channelVars
  PROVE  JobStep
<1>1. worker # None /\ worker.left = <<>> /\ worker' = None
      /\ UNCHANGED <<topic, producer, request, accepted, acked, faults, messages, rejected, channelVars>>
  BY DEF WorkerFinishes
<1>2. PICK v, j, bad : v = worker /\ j = worker.job
                       /\ bad = IF worker.form = "connector" THEN Broken(jobs[worker.job].content) ELSE <<>>
  OBVIOUS
<1>3. /\ v \in Work /\ j \in DOMAIN jobs /\ j \in Nat /\ jobs[j] \in Job /\ WorkSound(j) /\ Works(j)
      /\ j \notin messages /\ \A c \in Clients : ~ Serves(c, j)
  BY <1>1, <1>2, WorkerAt
<1>4. bad \in Seq(Records)
  BY <1>2, <1>3, JobAt, EmptySeq
<1>5. Len(bad) \in Nat
  BY <1>4, LenProperties
<1>6. PICK n, m : n = Len(v.processed) /\ m = v.failed + Len(bad)
  OBVIOUS
<1>7. n \in Nat /\ m \in Nat /\ v.failed \in Nat /\ v.processed \in Seq(Records)
  BY <1>3, <1>5, <1>6, LenProperties DEF Work
<1>8. PICK f : f = FinalStatus(n, m)
  OBVIOUS
<1>9. f \in Final /\ (f = "DONE" <=> m = 0)
  BY <1>7, <1>8, FinalStatusIs
<1>10. PICK w : w = [jobs[j] EXCEPT !.processed = n, !.failed = m, !.status = f]
  OBVIOUS
<1>11. /\ w \in Job /\ w.status = f /\ w.failed = m /\ w.processed = n
       /\ w.op = jobs[j].op /\ w.via = jobs[j].via /\ w.content = jobs[j].content
  BY <1>3, <1>7, <1>9, <1>10 DEF Job
<1>12. jobs' = [jobs EXCEPT ![j] = w] /\ errors' = errors \o RowsOf(bad, j)
  <2>1. jobs' = [jobs EXCEPT ![j].processed = n, ![j].failed = m, ![j].status = f]
        /\ errors' = errors \o RowsOf(bad, j)
    BY <1>2, <1>6, <1>8 DEF WorkerFinishes
  <2> QED
    BY <1>3, <1>10, <2>1
<1>13. /\ jobs' \in Seq(Job) /\ DOMAIN jobs' = DOMAIN jobs /\ jobs'[j] = w
       /\ \A k \in DOMAIN jobs \ {j} : jobs'[k] = jobs[k]
  BY <1>3, <1>11, <1>12, JobRewritten
<1>14. RowsGrow(j)
  BY <1>3, <1>4, <1>12, RowsGrowBy
<1>15. TypeOK'
  BY <1>1, <1>13, <1>14, JobStepWorker DEF TypeOK, StoreTypeOK, RowsGrow
<1>16. OneJob(j)
  <2>1. Grows
    BY <1>1, NothingGrows
  <2> QED
    BY <1>1, <1>3, <1>11, <1>13, <1>14, <2>1 DEF OneJob, RowsGrow
<1>17. ~ Works(j)' /\ (\A c \in Clients : ~ Serves(c, j)') /\ j \notin messages'
  BY <1>1, <1>3 DEF Works, Serves
<1>18. /\ Cardinality(RowsFor(j)') = Cardinality(RowsFor(j)) + Len(bad)
       /\ bad = <<>> => RowsFor(j)' = RowsFor(j)
  BY <1>3, <1>4, <1>12, RowsForAdded
<1>19. "insert" \notin faults' => Cardinality(RowsFor(j)') = w.failed
  BY <1>1, <1>2, <1>3, <1>6, <1>11, <1>18 DEF WorkSound
<1>20. ASSUME w.status = "DONE"
       PROVE  /\ RowsFor(j)' = {} /\ w.processed = Len(Parsed(w.content))
              /\ w.via => \A i \in DOMAIN Parsed(w.content) : topic'[Parsed(w.content)[i]] > 0
  <2>1. v.failed = 0 /\ Len(bad) = 0
    BY <1>5, <1>6, <1>7, <1>9, <1>11, <1>20
  <2>2. bad = <<>>
    BY <1>4, <2>1, EmptySeq
  <2>3. PICK s, t, u : s = v.processed /\ t = v.left /\ u = Parsed(w.content)
    OBVIOUS
  <2>4. /\ RowsFor(j) = {} /\ s \o t = u /\ t = <<>>
        /\ \A i \in DOMAIN s : topic[s[i]] > 0
    BY <1>1, <1>2, <1>3, <1>11, <2>1, <2>3 DEF WorkSound
  <2>5. s \in Seq(Records) /\ t \in Seq(Records)
    BY <1>3, <2>3 DEF Work
  <2>6. Len(s) = Len(u) /\ \A i \in DOMAIN u : topic[u[i]] > 0
    BY <2>4, <2>5, AllSent
  <2> QED
    BY <1>1, <1>6, <1>11, <1>18, <2>2, <2>3, <2>4, <2>6
<1>21. w.status \in Final
  BY <1>9, <1>11
<1>22. JobSound(j)'
  BY <1>13, <1>17, <1>19, <1>20, <1>21, JobEnds
<1> QED
  BY <1>15, <1>16, <1>22, OneJobInv DEF JobStep
-----------------------------------------------------------------------------
(* Every step of the jobs.                                                 *)
LEMMA JobsStep ==
  ASSUME TypeOK, JobsInv, JobNext, UNCHANGED channelVars
  PROVE  JobStep
<1>1. CASE \E c \in Clients, content \in Contents, path \in BOOLEAN, got \in BOOLEAN :
             \/ InlineBegin(c, "webhook", content, path, got)
             \/ InlineBegin(c, "parse", content, path, got)
             \/ FileBegin(c, content, path, got)
  BY <1>1, InlineBeginStep, FileBeginStep
<1>2. CASE \E c \in Clients, content \in Contents, path \in BOOLEAN : BackfillBegin(c, content, path)
  BY <1>2, BackfillBeginStep
<1>3. CASE \E c \in Clients, j \in DOMAIN jobs : ReprocessBegin(c, j)
  BY <1>3, ReprocessBeginStep
<1>4. CASE \E c \in Clients : WebhookInvalid(c) \/ InlineFails(c) \/ InlineFinish(c)
  BY <1>4, WebhookInvalidStep, InlineFailsStep, InlineFinishStep
<1>5. CASE \E c \in Clients, sent \in BOOLEAN : InlineSend(c, sent) \/ Enqueue(c, sent)
  BY <1>5, InlineSendStep, EnqueueStep
<1>6. CASE \E j \in messages : RejectJob(j) \/ WorkerCannotLoad(j) \/ WorkerLoads(j)
  BY <1>6, RejectJobStep, WorkerCannotLoadStep, WorkerLoadsStep
<1>7. CASE \E insert \in {"ok", "retried", "lost"} : WorkerFails(insert)
  BY <1>7, WorkerFailsStep
<1>8. CASE \E sent \in BOOLEAN : WorkerSends(sent)
  BY <1>8, WorkerSendsStep
<1>9. CASE WorkerFinishes \/ WorkerCrash
  BY <1>9, WorkerFinishesStep, WorkerCrashStep
<1> QED
  BY <1>1, <1>2, <1>3, <1>4, <1>5, <1>6, <1>7, <1>8, <1>9 DEF JobNext

(* The API process dies: nothing is promised any more, and the jobs it had *)
(* in hand are excused.                                                    *)
LEMMA ApiCrashStep ==
  ASSUME TypeOK, ReplayInv, JobsInv, ApiCrash
  PROVE  /\ TypeOK' /\ ReplayInv' /\ JobsInv' /\ Grows
         /\ \A c \in Clients : request'[c] = None
<1>1. faults' \subseteq FaultKinds /\ faults' = faults \cup {"crash"}
  BY FaultEffect DEF ApiCrash, TypeOK, StoreTypeOK, FaultKinds
<1>2. /\ request' = [c \in Clients |-> None] /\ producer' = FALSE /\ socket' = Closed
      /\ UNCHANGED <<topic, errors, accepted, acked, keys, replayed>>
      /\ UNCHANGED <<jobs, messages, rejected, worker>>
  BY DEF ApiCrash, jobVars
<1>3. \A c \in Clients : request'[c] = None
  BY <1>2
<1>4. Grows
  BY <1>1, <1>2, NothingGrows
<1>5. TypeOK'
  <2>1. socket' \in [open : BOOLEAN, queue : Seq(Records), sending : Records \cup {None}]
    <3>1. <<>> \in Seq(Records)
      BY EmptySeq
    <3> QED
      BY <1>2, <3>1 DEF Closed
  <2> QED
    BY <1>1, <1>2, <1>3, <2>1 DEF TypeOK, StoreTypeOK
<1>6. ReplayInv'
  <2>1. RowsKept
    BY <1>2 DEF RowsKept, TypeOK
  <2>2. ASSUME NEW r \in Records \ {Fresh} PROVE Claimed(r)'
    <3>1. Claimed(r) /\ Sending(r)' \subseteq Sending(r) /\ replayed'[r] = replayed[r] /\ faults \subseteq faults'
      BY <1>1, <1>2, <1>3 DEF ReplayInv, Sending, Replaying
    <3> QED
      BY <1>2, <3>1, ClaimedKept
  <2>3. \A c \in Clients : ReadSound(c)'
    BY <1>3 DEF ReadSound
  <2>4. ReplayMarkTrue'
    BY <1>2, <2>1, MarkKept
  <2> QED
    BY <2>2, <2>3, <2>4 DEF ReplayInv
<1>7. JobsInv'
  <2>1. ASSUME NEW k \in DOMAIN jobs PROVE JobSound(k)'
    <3>1. JobSound(k) /\ RowsFor(k)' = RowsFor(k) /\ jobs'[k] = jobs[k] /\ worker' = worker
      BY <1>2 DEF JobsInv, RowsFor
    <3>2. \A c \in Clients : Serves(c, k)' => request'[c] = request[c]
      BY <1>3 DEF Serves, JobRequest
    <3>3. "crash" \in faults' /\ (k \in messages' => k \in messages)
      BY <1>1, <1>2
    <3> QED
      BY <1>4, <3>1, <3>2, <3>3, JobKept
  <2> QED
    BY <1>2, <1>3, <2>1 DEF JobsInv, JobRequest
<1> QED
  BY <1>3, <1>4, <1>5, <1>6, <1>7

-----------------------------------------------------------------------------
(* Answers, continued: what a step does to what requests will vouch for.   *)
ViaKept == \A k \in DOMAIN jobs : jobs'[k].via = jobs[k].via

(* A step that touches one job leaves every other one, and no job changes  *)
(* its way to Kafka.                                                       *)
LEMMA ViaOfOneJob ==
  ASSUME TypeOK, NEW j, OneJob(j)
  PROVE  ViaKept
BY DEF OneJob, ViaKept

(* A request that a step leaves alone will vouch for the same.             *)
LEMMA HeldSame ==
  ASSUME JobsInv, ViaKept, NEW c \in Clients, request'[c] = request[c], NEW r
  PROVE  Held(c, r)' = Held(c, r)
<1>1. CASE request[c] = None \/ request[c].op \notin {"webhook", "parse"}
  BY <1>1 DEF Held
<1>2. CASE request[c] # None /\ request[c].op \in {"webhook", "parse"}
  <2>1. request[c].job \in DOMAIN jobs
    BY <1>2 DEF JobsInv, JobRequest, JobOps
  <2>2. jobs'[request'[c].job].via = jobs[request[c].job].via
    BY <2>1 DEF ViaKept
  <2> QED
    BY <1>2, <2>2 DEF Held
<1> QED
  BY <1>1, <1>2

(* A request that vouches for nothing yet, or for nothing any more.        *)
Nothing(q) ==
  \/ q = None
  \/ q.op \in {"resolve", "file", "reprocess", "backfill"}
  \/ q.op \in {"event", "batch"} /\ q.sent = {}
  \/ q.op = "replay" /\ q.step # "commit"
  \/ q.op \in {"webhook", "parse"} /\ q.processed = <<>>

(* It holds nothing.                                                       *)
LEMMA NothingHeld ==
  ASSUME NEW c, Nothing(request'[c]), NEW r
  PROVE  Held(c, r)' = {}
<1>1. DOMAIN <<>> = {}
  OBVIOUS
<1> QED
  BY <1>1 DEF Nothing, Held

(* What a request will vouch for is numbered.                              *)
LEMMA HeldType ==
  ASSUME TypeOK, NEW c \in Clients, NEW r
  PROVE  Held(c, r) \subseteq Nat
<1>1. CASE request[c] # None /\ request[c].op \in {"webhook", "parse"}
  <2>1. PICK s : s = request[c].processed
    OBVIOUS
  <2>2. s \in Seq(Records)
    BY <1>1, <2>1, RequestKind DEF InlineRequest
  <2>3. DOMAIN s \subseteq Nat
    BY <2>2, LenProperties
  <2> QED
    BY <1>1, <2>1, <2>3 DEF Held
<1>2. CASE ~ (request[c] # None /\ request[c].op \in {"webhook", "parse"})
  BY <1>2 DEF Held
<1> QED
  BY <1>1, <1>2

(* The counts behind Vouched.                                              *)
LEMMA VouchedCounts ==
  ASSUME TypeOK, NEW r \in Records, Vouched(r)
  PROVE  Cardinality(Pending(r)) \in Nat /\ acked[r] \in Nat /\ topic[r] \in Nat
BY FS_CardinalityType DEF Vouched, TypeOK, StoreTypeOK

(* Nobody will vouch for more, and nothing more was vouched for.           *)
LEMMA VouchedFewer ==
  ASSUME TypeOK, NEW r \in Records, Vouched(r), Grows, acked'[r] = acked[r],
         \A c \in Clients : Held(c, r)' \subseteq Held(c, r)
  PROVE  Vouched(r)'
<1>1. PICK S, T : S = Pending(r) /\ T = Pending(r)'
  OBVIOUS
<1>2. T \subseteq S
  BY <1>1 DEF Pending
<1>3. IsFiniteSet(S) /\ acked[r] + Cardinality(S) <= topic[r]
  BY <1>1 DEF Vouched
<1>4. IsFiniteSet(T) /\ Cardinality(T) <= Cardinality(S)
  BY <1>2, <1>3, FS_Subset
<1>5. Cardinality(S) \in Nat /\ Cardinality(T) \in Nat
  BY <1>3, <1>4, FS_CardinalityType
<1>6. acked[r] \in Nat /\ topic[r] \in Nat /\ topic'[r] \in Nat /\ topic'[r] >= topic[r]
  BY DEF TypeOK, StoreTypeOK, Grows
<1>7. acked'[r] + Cardinality(T) <= topic'[r]
  BY <1>3, <1>4, <1>5, <1>6
<1> QED
  BY <1>1, <1>4, <1>7 DEF Vouched

(* One request will vouch for one envelope more, which is on the topic.    *)
LEMMA VouchedSent ==
  ASSUME TypeOK, NEW r \in Records, Vouched(r), acked'[r] = acked[r], topic'[r] = topic[r] + 1,
         NEW c \in Clients, NEW n \in Nat, Held(c, r)' \subseteq Held(c, r) \cup {n},
         \A d \in Clients \ {c} : Held(d, r)' \subseteq Held(d, r)
  PROVE  Vouched(r)'
<1>1. PICK S, T : S = Pending(r) /\ T = Pending(r)'
  OBVIOUS
<1>2. T \subseteq S \cup {<<c, n>>}
  BY <1>1 DEF Pending
<1>3. IsFiniteSet(S) /\ acked[r] + Cardinality(S) <= topic[r]
  BY <1>1 DEF Vouched
<1>4. PICK U : U = S \cup {<<c, n>>}
  OBVIOUS
<1>5. IsFiniteSet(U) /\ Cardinality(U) = IF <<c, n>> \in S THEN Cardinality(S) ELSE Cardinality(S) + 1
  BY <1>3, <1>4, FS_AddElement
<1>6. IsFiniteSet(T) /\ Cardinality(T) <= Cardinality(U)
  BY <1>2, <1>4, <1>5, FS_Subset
<1>7. Cardinality(S) \in Nat /\ Cardinality(T) \in Nat
  BY <1>3, <1>6, FS_CardinalityType
<1>8. acked[r] \in Nat /\ topic[r] \in Nat
  BY DEF TypeOK, StoreTypeOK
<1>9. acked'[r] + Cardinality(T) <= topic'[r]
  BY <1>3, <1>5, <1>6, <1>7, <1>8
<1> QED
  BY <1>1, <1>6, <1>9 DEF Vouched

(* What a request held is vouched for: it moves from one side to the other.*)
LEMMA VouchedAnswered ==
  ASSUME TypeOK, NEW r \in Records, Vouched(r), NEW c \in Clients, request'[c] = None, Grows,
         IsFiniteSet(Held(c, r)), acked'[r] = acked[r] + Cardinality(Held(c, r)),
         \A d \in Clients \ {c} : Held(d, r)' \subseteq Held(d, r)
  PROVE  Vouched(r)'
<1>1. PICK S, T, H : S = Pending(r) /\ T = Pending(r)' /\ H = Held(c, r)
  OBVIOUS
<1>2. H \subseteq Nat /\ IsFiniteSet(H)
  BY <1>1, HeldType
<1>3. PICK P : P = {c} \X H
  OBVIOUS
<1>4. P \subseteq S
  BY <1>1, <1>2, <1>3 DEF Pending
<1>5. T \subseteq S \ P
  <2>1. Held(c, r)' = {}
    BY DEF Held
  <2>2. \A x \in T : x \in Clients \X Nat /\ x[1] # c /\ x[2] \in Held(x[1], r)
    BY <1>1, <2>1 DEF Pending
  <2> QED
    BY <1>1, <1>3, <2>2 DEF Pending
<1>6. IsFiniteSet(S) /\ acked[r] + Cardinality(S) <= topic[r]
  BY <1>1 DEF Vouched
<1>7. IsFiniteSet(P) /\ Cardinality(P) = Cardinality(H) /\ Cardinality(H) \in Nat
  <2>1. IsFiniteSet({c}) /\ Cardinality({c}) = 1
    BY FS_Singleton
  <2>2. IsFiniteSet({c} \X H) /\ Cardinality({c} \X H) = Cardinality({c}) * Cardinality(H)
    BY <1>2, <2>1, FS_Product
  <2>3. Cardinality(H) \in Nat
    BY <1>2, FS_CardinalityType
  <2> QED
    BY <1>3, <2>1, <2>2, <2>3
<1>8. IsFiniteSet(S \ P) /\ Cardinality(S \ P) = Cardinality(S) - Cardinality(P)
  <2>1. S \cap P = P
    BY <1>4
  <2>2. IsFiniteSet(S \ P) /\ Cardinality(S \ P) = Cardinality(S) - Cardinality(S \cap P)
    BY <1>6, FS_Difference
  <2> QED
    BY <2>1, <2>2
<1>9. IsFiniteSet(T) /\ Cardinality(T) <= Cardinality(S \ P)
  BY <1>5, <1>8, FS_Subset
<1>10. Cardinality(S) \in Nat /\ Cardinality(T) \in Nat
  BY <1>6, <1>9, FS_CardinalityType
<1>11. acked[r] \in Nat /\ topic[r] \in Nat /\ topic'[r] \in Nat /\ topic'[r] >= topic[r]
  BY DEF TypeOK, StoreTypeOK, Grows
<1>12. acked'[r] + Cardinality(T) <= topic'[r]
  BY <1>1, <1>6, <1>7, <1>8, <1>9, <1>10, <1>11
<1> QED
  BY <1>1, <1>9, <1>12 DEF Vouched

AllVouched == \A r \in Records : Vouched(r)

(* A step that neither answers nor sends what will be answered.            *)
LEMMA VouchedQuiet ==
  ASSUME TypeOK, JobsInv, AllVouched, Grows, ViaKept, acked' = acked,
         \A c \in Clients : request'[c] = request[c] \/ Nothing(request'[c])
  PROVE  AllVouched'
<1>1. ASSUME NEW r \in Records PROVE Vouched(r)'
  <2>1. ASSUME NEW c \in Clients PROVE Held(c, r)' \subseteq Held(c, r)
    BY HeldSame, NothingHeld
  <2>2. Vouched(r) /\ acked'[r] = acked[r]
    BY DEF AllVouched
  <2> QED
    BY <2>1, <2>2, VouchedFewer
<1> QED
  BY <1>1 DEF AllVouched

(* The same, of a step that changes the request of one client.             *)
LEMMA VouchedOne ==
  ASSUME TypeOK, JobsInv, AllVouched, Grows, ViaKept, acked' = acked,
         NEW c \in Clients, NEW q, Only(c, q), Nothing(q)
  PROVE  AllVouched'
BY VouchedQuiet DEF Only

(* Steps of the channels leave the jobs.                                   *)
LEMMA ViaOfNone ==
  ASSUME UNCHANGED jobVars
  PROVE  ViaKept
BY DEF jobVars, ViaKept

(* One send of the endpoints for events.                                   *)
LEMMA VouchedEventSend ==
  ASSUME TypeOK, JobsInv, AllVouched, Grows, UNCHANGED jobVars,
         NEW c \in Clients, NEW sent \in BOOLEAN, EventSend(c, sent)
  PROVE  AllVouched'
<1>1. PICK x \in Records, q \in EventRequest :
           /\ request[c] \in EventRequest /\ Publish(x, sent) /\ Only(c, q)
           /\ q.sent = IF sent THEN request[c].sent \cup {x} ELSE request[c].sent
           /\ q.op = request[c].op /\ acked' = acked
  BY EventSendEffect
<1>2. q # None /\ request[c] # None /\ q.op \in {"event", "batch"} /\ request[c].op \in {"event", "batch"}
  BY <1>1, ChannelAssumption DEF EventRequest
<1>3. ViaKept
  BY ViaOfNone
<1>4. ASSUME NEW r \in Records PROVE Vouched(r)'
  <2>1. Vouched(r) /\ acked'[r] = acked[r]
    BY <1>1 DEF AllVouched
  <2>2. \A d \in Clients \ {c} : Held(d, r)' \subseteq Held(d, r)
    BY <1>1, <1>3, HeldSame DEF Only
  <2>3. Held(c, r) = {0 : y \in {r} \cap request[c].sent}
    BY <1>2 DEF Held
  <2>4. Held(c, r)' = {0 : y \in {r} \cap q.sent}
    BY <1>1, <1>2 DEF Held, Only
  <2>5. CASE sent /\ r = x
    <3>1. topic'[r] = topic[r] + 1
      BY <1>1, <2>5, PublishEffect
    <3>2. Held(c, r)' \subseteq Held(c, r) \cup {0}
      BY <2>4
    <3> QED
      BY <2>1, <2>2, <3>1, <3>2, VouchedSent
  <2>6. CASE ~ (sent /\ r = x)
    <3>1. Held(c, r)' \subseteq Held(c, r)
      BY <1>1, <2>3, <2>4, <2>6
    <3> QED
      BY <2>1, <2>2, <3>1, VouchedFewer
  <2> QED
    BY <2>5, <2>6
<1> QED
  BY <1>4 DEF AllVouched

(* The answer of the endpoints for events.                                 *)
LEMMA VouchedEventAnswer ==
  ASSUME TypeOK, JobsInv, AllVouched, Grows, UNCHANGED jobVars, NEW c \in Clients, EventAnswer(c)
  PROVE  AllVouched'
<1>1. /\ request[c] # None /\ request[c].op \in {"event", "batch"} /\ Only(c, None)
      /\ acked' = [r \in Records |-> IF r \in request[c].sent THEN acked[r] + 1 ELSE acked[r]]
  BY UpdateEffect DEF EventAnswer, Answer
<1>2. ViaKept
  BY ViaOfNone
<1>3. ASSUME NEW r \in Records PROVE Vouched(r)'
  <2>1. Vouched(r) /\ acked[r] \in Nat
    BY DEF AllVouched, TypeOK, StoreTypeOK
  <2>2. \A d \in Clients \ {c} : Held(d, r)' \subseteq Held(d, r)
    BY <1>1, <1>2, HeldSame DEF Only
  <2>3. PICK H : H = Held(c, r)
    OBVIOUS
  <2>4. H = IF r \in request[c].sent THEN {0} ELSE {}
    BY <1>1, <2>3 DEF Held
  <2>5. IsFiniteSet(H) /\ Cardinality(H) = IF r \in request[c].sent THEN 1 ELSE 0
    BY <2>4, FS_Singleton, FS_EmptySet
  <2>6. acked'[r] = acked[r] + Cardinality(H)
    BY <1>1, <2>1, <2>5
  <2>7. request'[c] = None
    BY <1>1 DEF Only
  <2> QED
    BY <2>1, <2>2, <2>3, <2>5, <2>6, <2>7, VouchedAnswered
<1> QED
  BY <1>3 DEF AllVouched

(* The websocket's worker sends and answers at once.                       *)
LEMMA VouchedSocketSends ==
  ASSUME TypeOK, JobsInv, AllVouched, Grows, UNCHANGED jobVars, NEW sent \in BOOLEAN, SocketSends(sent)
  PROVE  AllVouched'
<1>1. PICK x : x = socket.sending
  OBVIOUS
<1>2. x \in Records
  BY <1>1 DEF SocketSends, TypeOK
<1>3. Publish(x, sent) /\ (IF sent THEN Ack(x) ELSE acked' = acked) /\ request' = request
  BY <1>1 DEF SocketSends
<1>4. ViaKept
  BY ViaOfNone
<1>5. CASE ~ sent
  BY <1>3, <1>4, <1>5, VouchedQuiet
<1>6. CASE sent
  <2>1. topic'[x] = topic[x] + 1 /\ acked' = [acked EXCEPT ![x] = @ + 1]
    BY <1>2, <1>3, <1>6, PublishEffect DEF Ack
  <2>2. ASSUME NEW r \in Records PROVE Vouched(r)'
    <3>1. Vouched(r) /\ \A c \in Clients : Held(c, r)' = Held(c, r)
      BY <1>3, <1>4, HeldSame DEF AllVouched
    <3>2. CASE r # x
      <4>1. acked'[r] = acked[r]
        BY <2>1, <3>2 DEF TypeOK, StoreTypeOK
      <4> QED
        BY <3>1, <4>1, VouchedFewer
    <3>3. CASE r = x
      <4>1. acked'[r] = acked[r] + 1 /\ topic'[r] = topic[r] + 1
        BY <2>1, <3>3 DEF TypeOK, StoreTypeOK
      <4>2. Pending(r)' = Pending(r)
        BY <3>1 DEF Pending
      <4>3. PICK S : S = Pending(r)
        OBVIOUS
      <4>4. IsFiniteSet(S) /\ acked[r] + Cardinality(S) <= topic[r]
        BY <3>1, <4>3 DEF Vouched
      <4>5. Cardinality(S) \in Nat /\ acked[r] \in Nat /\ topic[r] \in Nat
        BY <4>4, FS_CardinalityType DEF TypeOK, StoreTypeOK
      <4>6. acked'[r] + Cardinality(S) <= topic'[r]
        BY <4>1, <4>4, <4>5
      <4> QED
        BY <4>2, <4>3, <4>4, <4>6 DEF Vouched
    <3> QED
      BY <3>2, <3>3
  <2> QED
    BY <2>2 DEF AllVouched
<1> QED
  BY <1>5, <1>6

(* The send of a replay.                                                   *)
LEMMA VouchedReplaySend ==
  ASSUME TypeOK, JobsInv, AllVouched, Grows, UNCHANGED jobVars,
         NEW c \in Clients, NEW sent \in BOOLEAN, ReplaySend(c, sent)
  PROVE  AllVouched'
<1>1. PICK x : x = request[c].record
  OBVIOUS
<1>2. request[c] \in ReplayRequest /\ Replaying(c, "send") /\ x \in Records /\ Publish(x, sent) /\ acked' = acked
  BY <1>1, ReplaySendEffect DEF ReplaySend
<1>3. PICK q : /\ Only(c, q)
               /\ IF sent THEN q \in ReplayRequest /\ q.step = "commit" /\ q.record = x ELSE q = None
  BY <1>1, ReplaySendEffect
<1>4. ViaKept
  BY ViaOfNone
<1>5. CASE ~ sent
  <2>1. Nothing(q)
    BY <1>3, <1>5 DEF Nothing
  <2> QED
    BY <1>2, <1>3, <1>4, <2>1, VouchedOne
<1>6. CASE sent
  <2>1. q # None /\ q.op = "replay" /\ q.step = "commit" /\ q.record = x /\ topic'[x] = topic[x] + 1
    BY <1>2, <1>3, <1>6, PublishEffect, ChannelAssumption DEF ReplayRequest
  <2>2. ASSUME NEW r \in Records PROVE Vouched(r)'
    <3>1. Vouched(r) /\ acked'[r] = acked[r] /\ \A d \in Clients \ {c} : Held(d, r)' \subseteq Held(d, r)
      BY <1>2, <1>3, <1>4, HeldSame DEF AllVouched, Only
    <3>2. Held(c, r)' = IF r = x THEN {0} ELSE {}
      BY <1>3, <2>1 DEF Held, Only
    <3>3. CASE r = x
      BY <2>1, <3>1, <3>2, <3>3, VouchedSent
    <3>4. CASE r # x
      BY <3>1, <3>2, <3>4, VouchedFewer
    <3> QED
      BY <3>3, <3>4
  <2> QED
    BY <2>2 DEF AllVouched
<1> QED
  BY <1>5, <1>6

(* The answer to a replay.                                                 *)
LEMMA VouchedReplayCommit ==
  ASSUME TypeOK, JobsInv, AllVouched, Grows, UNCHANGED jobVars, NEW c \in Clients, ReplayCommit(c)
  PROVE  AllVouched'
<1>1. PICK x : x = request[c].record
  OBVIOUS
<1>2. /\ request[c] # None /\ request[c].op = "replay" /\ request[c].step = "commit" /\ Only(c, None)
      /\ acked' = [acked EXCEPT ![x] = @ + 1]
  BY <1>1, UpdateEffect DEF ReplayCommit, Replaying, Answer, Ack
<1>3. ViaKept
  BY ViaOfNone
<1>4. ASSUME NEW r \in Records PROVE Vouched(r)'
  <2>1. Vouched(r) /\ acked[r] \in Nat /\ acked'[r] = IF r = x THEN acked[r] + 1 ELSE acked[r]
    BY <1>2 DEF AllVouched, TypeOK, StoreTypeOK
  <2>2. \A d \in Clients \ {c} : Held(d, r)' \subseteq Held(d, r)
    BY <1>2, <1>3, HeldSame DEF Only
  <2>3. PICK H : H = Held(c, r)
    OBVIOUS
  <2>4. H = IF r = x THEN {0} ELSE {}
    BY <1>1, <1>2, <2>3 DEF Held
  <2>5. IsFiniteSet(H) /\ Cardinality(H) = IF r = x THEN 1 ELSE 0
    BY <2>4, FS_Singleton, FS_EmptySet
  <2>6. acked'[r] = acked[r] + Cardinality(H)
    BY <2>1, <2>5
  <2>7. request'[c] = None
    BY <1>2 DEF Only
  <2> QED
    BY <2>1, <2>2, <2>3, <2>5, <2>6, <2>7, VouchedAnswered
<1> QED
  BY <1>4 DEF AllVouched

(* Every step of the channels.                                             *)
LEMMA VouchedChannels ==
  ASSUME TypeOK, JobsInv, AllVouched, Grows, UNCHANGED jobVars, ChannelNext
  PROVE  AllVouched'
<1>1. ViaKept
  BY ViaOfNone
<1>2. ASSUME NEW c \in Clients, NEW r \in Events, NEW ok \in BOOLEAN, EventQuarantined(c, r) \/ EventBegin(c, r, ok)
      PROVE  AllVouched'
  <2>1. CASE EventQuarantined(c, r)
    BY <1>1, <2>1, VouchedQuiet DEF EventQuarantined
  <2>2. CASE EventBegin(c, r, ok)
    <3>1. PICK q : q = IF ok THEN [op |-> "event", left |-> <<r>>, sent |-> {}] ELSE None
      OBVIOUS
    <3>2. Only(c, q) /\ acked' = acked
      BY <2>2, <3>1, AcceptEffect DEF EventBegin
    <3>3. Nothing(q)
      BY <3>1 DEF Nothing
    <3> QED
      BY <1>1, <3>2, <3>3, VouchedOne
  <2> QED
    BY <1>2, <2>1, <2>2
<1>3. ASSUME NEW c \in Clients, NEW batch, NEW ok \in BOOLEAN, BatchBegin(c, batch, ok)
      PROVE  AllVouched'
  <2>1. PICK q : q = IF ok THEN [op |-> "batch", sent |-> {}, left |-> Selected(batch, Kinds \ {"card"})]
                     ELSE None
    OBVIOUS
  <2>2. Only(c, q) /\ acked' = acked
    BY <1>3, <2>1, AcceptEffect DEF BatchBegin
  <2>3. Nothing(q)
    BY <2>1 DEF Nothing
  <2> QED
    BY <1>1, <2>2, <2>3, VouchedOne
<1>4. ASSUME NEW c \in Clients, NEW ok \in BOOLEAN, ReplayClaim(c, ok)
      PROVE  AllVouched'
  <2>1. PICK q : Only(c, q) /\ (q = None \/ (q \in ReplayRequest /\ q.step = "send"))
    BY <1>4, ReplayClaimEffect
  <2>2. Nothing(q)
    BY <2>1 DEF Nothing, ReplayRequest
  <2>3. acked' = acked
    BY <1>4 DEF ReplayClaim
  <2> QED
    BY <1>1, <2>1, <2>2, <2>3, VouchedOne
<1>5. ASSUME NEW c \in Clients, ResolveCommit(c) \/ ReplayWithoutKafka(c)
      PROVE  AllVouched'
  <2>1. Only(c, None) /\ acked' = acked
    BY <1>5, UpdateEffect DEF ResolveCommit, ReplayWithoutKafka, Answer
  <2>2. Nothing(None)
    BY DEF Nothing
  <2> QED
    BY <1>1, <2>1, <2>2, VouchedOne
<1>6. ASSUME SocketOpens \/ SocketTakes \/ SocketCloses \/ \E r \in Events : SocketReceives(r)
      PROVE  AllVouched'
  <2>1. request' = request /\ acked' = acked
    BY <1>6 DEF SocketOpens, SocketTakes, SocketCloses, SocketReceives, storeVars
  <2> QED
    BY <1>1, <2>1, VouchedQuiet
<1>7. ASSUME NEW c \in Clients, NEW i \in DOMAIN errors, ResolveBegin(c, i)
      PROVE  AllVouched'
  <2>1. PICK q : q = [op |-> "resolve", row |-> i, detail |-> errors[i].detail]
    OBVIOUS
  <2>2. Only(c, q) /\ acked' = acked
    BY <1>7, <2>1, AcceptEffect DEF ResolveBegin
  <2>3. Nothing(q)
    BY <2>1 DEF Nothing
  <2> QED
    BY <1>1, <2>2, <2>3, VouchedOne
<1>8. ASSUME NEW c \in Clients, NEW i \in DOMAIN errors, NEW r \in Records, NEW resolve \in BOOLEAN,
             ReplayBegin(c, i, r, resolve)
      PROVE  AllVouched'
  <2>1. PICK q : q = [op |-> "replay", row |-> i, detail |-> errors[i].detail,
                      record |-> r, resolve |-> resolve, step |-> "claim"]
    OBVIOUS
  <2>2. Only(c, q) /\ acked' = acked
    BY <1>8, <2>1, AcceptEffect DEF ReplayBegin
  <2>3. Nothing(q)
    BY <2>1 DEF Nothing
  <2> QED
    BY <1>1, <2>2, <2>3, VouchedOne
<1>9. ASSUME NEW r \in Records, ExpireKey(r)
      PROVE  AllVouched'
  BY <1>1, <1>9, VouchedQuiet DEF ExpireKey
<1> QED
  BY <1>2, <1>3, <1>4, <1>5, <1>6, <1>7, <1>8, <1>9, VouchedEventSend, VouchedEventAnswer,
     VouchedSocketSends, VouchedReplaySend, VouchedReplayCommit DEF ChannelNext

-----------------------------------------------------------------------------
(* A request that works its job off goes on without a send.                *)
LEMMA VouchedInline ==
  ASSUME TypeOK, JobsInv, AllVouched, Grows, ViaKept, acked' = acked,
         NEW c \in Clients, request[c] \in InlineRequest, NEW q \in InlineRequest, Only(c, q),
         q.job = request[c].job, jobs[q.job].via => q.processed = request[c].processed
  PROVE  AllVouched'
<1>1. /\ q # None /\ request[c] # None /\ q.op \in {"webhook", "parse"} /\ request[c].op \in {"webhook", "parse"}
      /\ request'[c] = q
  BY JobAssumption DEF InlineRequest, Only
<1>2. jobs'[q.job].via = jobs[q.job].via
  <2>1. q.job \in DOMAIN jobs
    BY <1>1 DEF JobsInv, JobRequest, JobOps
  <2> QED
    BY <2>1 DEF ViaKept
<1>3. ASSUME NEW r \in Records PROVE Vouched(r)'
  <2>1. Held(c, r)' = IF jobs[q.job].via THEN {i \in DOMAIN q.processed : q.processed[i] = r} ELSE {}
    BY <1>1, <1>2 DEF Held
  <2>2. Held(c, r) = IF jobs[q.job].via
                     THEN {i \in DOMAIN request[c].processed : request[c].processed[i] = r} ELSE {}
    BY <1>1 DEF Held
  <2>3. \A d \in Clients : Held(d, r)' \subseteq Held(d, r)
    BY <2>1, <2>2, HeldSame DEF Only
  <2>4. Vouched(r)
    BY DEF AllVouched
  <2> QED
    BY <2>3, <2>4, VouchedFewer
<1> QED
  BY <1>3 DEF AllVouched

(* Its send.                                                               *)
LEMMA VouchedInlineSend ==
  ASSUME TypeOK, JobsInv, AllVouched, Grows, ViaKept,
         NEW c \in Clients, NEW sent \in BOOLEAN, InlineSend(c, sent)
  PROVE  AllVouched'
<1>1. PICK p, x, j : p = request[c] /\ x = Head(request[c].left) /\ j = request[c].job
  OBVIOUS
<1>2. Inline(c) /\ p.left # <<>> /\ acked' = acked
  BY <1>1 DEF InlineSend, InlineStep
<1>3. p \in InlineRequest
  BY <1>1, <1>2, RequestKind DEF Inline
<1>4. /\ p.left \in Seq(Records) /\ p.processed \in Seq(Records) /\ p.rows \in Seq(Records) /\ p.failed \in Nat
      /\ p.job = j
  BY <1>1, <1>3 DEF InlineRequest
<1>5. x \in Records /\ Tail(p.left) \in Seq(Records)
  BY <1>1, <1>2, <1>4, HeadTailProperties
<1>6. PICK l, s, b, n : l = Tail(p.left) /\ s = Append(p.processed, x) /\ n = p.failed + 1
                        /\ b = IF p.op = "webhook" THEN Append(p.rows, x) ELSE p.rows
  OBVIOUS
<1>7. PICK q : q = IF sent THEN [p EXCEPT !.left = l, !.processed = s]
                   ELSE [p EXCEPT !.left = l, !.failed = n, !.rows = b]
  OBVIOUS
<1>8. s \in Seq(Records) /\ b \in Seq(Records) /\ n \in Nat /\ l \in Seq(Records)
  BY <1>4, <1>5, <1>6, AppendProperties
<1>9. q \in InlineRequest /\ q.job = j /\ q.processed = IF sent THEN s ELSE p.processed
  BY <1>3, <1>4, <1>7, <1>8 DEF InlineRequest
<1>10. Update(c, q) /\ (IF jobs[j].via THEN Publish(x, sent) ELSE sent)
  <2>1. /\ IF jobs[j].via THEN Publish(x, sent) ELSE sent
        /\ Update(c, IF sent THEN [p EXCEPT !.left = Tail(@), !.processed = Append(@, x)]
                     ELSE [p EXCEPT !.left = Tail(@), !.failed = @ + 1,
                                    !.rows = IF p.op = "webhook" THEN Append(@, x) ELSE @])
    BY <1>1 DEF InlineSend, JobOf
  <2>2. q = IF sent THEN [p EXCEPT !.left = Tail(@), !.processed = Append(@, x)]
            ELSE [p EXCEPT !.left = Tail(@), !.failed = @ + 1,
                           !.rows = IF p.op = "webhook" THEN Append(@, x) ELSE @]
    BY <1>3, <1>6, <1>7 DEF InlineRequest
  <2> QED
    BY <2>1, <2>2
<1>11. Only(c, q)
  BY <1>10, UpdateEffect
<1>12. CASE ~ (sent /\ jobs[j].via)
  <2>1. jobs[q.job].via => q.processed = request[c].processed
    BY <1>1, <1>9, <1>12
  <2> QED
    BY <1>1, <1>2, <1>3, <1>9, <1>11, <2>1, VouchedInline
<1>13. CASE sent /\ jobs[j].via
  <2>1. topic'[x] = topic[x] + 1
    BY <1>5, <1>10, <1>13, PublishEffect
  <2>2. jobs'[j].via
    <3>1. j \in DOMAIN jobs
      BY <1>1, <1>2, InlineAt
    <3> QED
      BY <1>13, <3>1 DEF ViaKept
  <2>3. PICK m : m = Len(p.processed) + 1
    OBVIOUS
  <2>4. /\ m \in Nat /\ DOMAIN s = DOMAIN p.processed \cup {m} /\ s[m] = x
        /\ \A i \in DOMAIN p.processed : s[i] = p.processed[i]
    <3>1. /\ Len(p.processed) \in Nat
          /\ DOMAIN Append(p.processed, x) = (DOMAIN p.processed) \cup {Len(p.processed) + 1}
          /\ \A i \in DOMAIN p.processed : Append(p.processed, x)[i] = p.processed[i]
          /\ Append(p.processed, x)[Len(p.processed) + 1] = x
      BY <1>4, <1>5, AppendShape
    <3> QED
      BY <1>6, <2>3, <3>1
  <2>5. q # None /\ p # None /\ q.op \in {"webhook", "parse"} /\ p.op \in {"webhook", "parse"} /\ request'[c] = q
    BY <1>3, <1>9, <1>11, JobAssumption DEF InlineRequest, Only
  <2>6. ASSUME NEW r \in Records PROVE Vouched(r)'
    <3>1. Vouched(r) /\ acked'[r] = acked[r] /\ \A d \in Clients \ {c} : Held(d, r)' \subseteq Held(d, r)
      BY <1>2, <1>11, HeldSame DEF AllVouched, Only
    <3>2. Held(c, r)' = {i \in DOMAIN s : s[i] = r}
      BY <1>9, <1>13, <2>2, <2>5 DEF Held
    <3>3. Held(c, r) = {i \in DOMAIN p.processed : p.processed[i] = r}
      BY <1>1, <1>13, <2>5 DEF Held
    <3>4. CASE r = x
      <4>1. Held(c, r)' \subseteq Held(c, r) \cup {m}
        BY <2>4, <3>2, <3>3
      <4> QED
        BY <2>1, <2>4, <3>1, <3>4, <4>1, VouchedSent
    <3>5. CASE r # x
      <4>1. Held(c, r)' \subseteq Held(c, r)
        BY <2>4, <3>2, <3>3, <3>5
      <4> QED
        BY <3>1, <4>1, VouchedFewer
    <3> QED
      BY <3>4, <3>5
  <2> QED
    BY <2>6 DEF AllVouched
<1> QED
  BY <1>12, <1>13

(* Its failure to map a record.                                            *)
LEMMA VouchedInlineFails ==
  ASSUME TypeOK, JobsInv, AllVouched, Grows, ViaKept, NEW c \in Clients, InlineFails(c)
  PROVE  AllVouched'
<1>1. PICK p, x : p = request[c] /\ x = Head(request[c].left)
  OBVIOUS
<1>2. Inline(c) /\ p.left # <<>> /\ acked' = acked
  BY <1>1 DEF InlineFails, InlineStep
<1>3. p \in InlineRequest
  BY <1>1, <1>2, RequestKind DEF Inline
<1>4. p.left \in Seq(Records) /\ p.rows \in Seq(Records) /\ p.failed \in Nat
  BY <1>3 DEF InlineRequest
<1>5. PICK l, b, n : l = Tail(p.left) /\ b = Append(p.rows, x) /\ n = p.failed + 1
  OBVIOUS
<1>6. l \in Seq(Records) /\ b \in Seq(Records) /\ n \in Nat
  <2>1. Head(p.left) \in Records /\ Tail(p.left) \in Seq(Records)
    BY <1>2, <1>4, HeadTailProperties
  <2>2. Append(p.rows, x) \in Seq(Records)
    BY <1>1, <1>4, <2>1, AppendProperties
  <2> QED
    BY <1>4, <1>5, <2>1, <2>2
<1>7. PICK q : q = [p EXCEPT !.left = l, !.failed = n, !.rows = b]
  OBVIOUS
<1>8. q \in InlineRequest /\ q.job = p.job /\ q.processed = p.processed
  BY <1>3, <1>6, <1>7 DEF InlineRequest
<1>9. Update(c, q)
  <2>1. Update(c, [p EXCEPT !.left = Tail(@), !.failed = @ + 1, !.rows = Append(@, x)])
    BY <1>1 DEF InlineFails
  <2>2. q = [p EXCEPT !.left = Tail(@), !.failed = @ + 1, !.rows = Append(@, x)]
    BY <1>3, <1>5, <1>7 DEF InlineRequest
  <2> QED
    BY <2>1, <2>2
<1>10. Only(c, q)
  BY <1>9, UpdateEffect
<1> QED
  BY <1>1, <1>2, <1>3, <1>8, <1>10, VouchedInline

(* Its answer.                                                             *)
LEMMA VouchedInlineFinish ==
  ASSUME TypeOK, JobsInv, AllVouched, Grows, ViaKept, NEW c \in Clients, InlineFinish(c)
  PROVE  AllVouched'
<1>1. PICK s, v : s = request[c].processed /\ v = jobs[request[c].job].via
  OBVIOUS
<1>2. Inline(c) /\ Only(c, None)
  BY UpdateEffect DEF InlineFinish, Answer
<1>3. request[c] \in InlineRequest /\ s \in Seq(Records)
  BY <1>1, <1>2, RequestKind DEF Inline, InlineRequest
<1>4. acked' = [r \in Records |-> IF v THEN acked[r] + Cardinality(Vouches(s, r)) ELSE acked[r]]
  BY <1>1, <1>3, InlineFinishAcks DEF JobOf
<1>5. ASSUME NEW r \in Records PROVE Vouched(r)'
  <2>1. Vouched(r) /\ acked[r] \in Nat /\ request'[c] = None
    BY <1>2 DEF AllVouched, TypeOK, StoreTypeOK, Only
  <2>2. \A d \in Clients \ {c} : Held(d, r)' \subseteq Held(d, r)
    BY <1>2, HeldSame DEF Only
  <2>3. PICK H : H = Held(c, r)
    OBVIOUS
  <2>4. H = IF v THEN Vouches(s, r) ELSE {}
    BY <1>1, <1>2, <2>3 DEF Held, Vouches, Inline
  <2>5. IsFiniteSet(Vouches(s, r)) /\ Cardinality({}) = 0 /\ IsFiniteSet({})
    BY <1>3, VouchesFinite, FS_EmptySet
  <2>6. acked'[r] = acked[r] + Cardinality(H) /\ IsFiniteSet(H)
    BY <1>4, <2>1, <2>4, <2>5
  <2> QED
    BY <2>1, <2>2, <2>3, <2>6, VouchedAnswered
<1> QED
  BY <1>5 DEF AllVouched

(* Every step of the jobs.                                                 *)
LEMMA VouchedJobs ==
  ASSUME TypeOK, JobsInv, AllVouched, JobNext, UNCHANGED channelVars
  PROVE  AllVouched'
<1>1. Grows /\ ViaKept
  BY JobsStep, ViaOfOneJob DEF JobStep, OneJob
<1>2. Nothing(None)
  BY DEF Nothing
<1>3. ASSUME NEW c \in Clients, NEW op \in {"webhook", "parse"}, NEW content \in Contents,
             NEW path \in BOOLEAN, NEW got \in BOOLEAN, InlineBegin(c, op, content, path, got)
      PROVE  AllVouched'
  <2>1. PICK q : q = [op |-> op, job |-> Len(jobs) + 1, left |-> Parsed(content), rows |-> <<>>,
                      processed |-> <<>>, failed |-> 0]
    OBVIOUS
  <2>2. Only(c, q) /\ acked' = acked
    BY <1>3, <2>1, AcceptEffect DEF InlineBegin
  <2>3. Nothing(q)
    BY <2>1 DEF Nothing
  <2> QED
    BY <1>1, <2>2, <2>3, VouchedOne
<1>4. ASSUME NEW c \in Clients, NEW content \in Contents, NEW path \in BOOLEAN, NEW got \in BOOLEAN,
             FileBegin(c, content, path, got)
      PROVE  AllVouched'
  <2>1. PICK q : q = IF got THEN [op |-> "file", job |-> Len(jobs) + 1] ELSE None
    OBVIOUS
  <2>2. Only(c, q) /\ acked' = acked
    BY <1>4, <2>1, AcceptEffect DEF FileBegin
  <2>3. Nothing(q)
    BY <2>1 DEF Nothing
  <2> QED
    BY <1>1, <2>2, <2>3, VouchedOne
<1>5. ASSUME NEW c \in Clients, NEW content \in Contents, NEW path \in BOOLEAN, BackfillBegin(c, content, path)
      PROVE  AllVouched'
  <2>1. PICK q : q = [op |-> "backfill", job |-> Len(jobs) + 1]
    OBVIOUS
  <2>2. Only(c, q) /\ acked' = acked
    BY <1>5, <2>1, AcceptEffect DEF BackfillBegin
  <2>3. Nothing(q)
    BY <2>1 DEF Nothing
  <2> QED
    BY <1>1, <2>2, <2>3, VouchedOne
<1>6. ASSUME NEW c \in Clients, NEW j \in DOMAIN jobs, ReprocessBegin(c, j)
      PROVE  AllVouched'
  <2>1. PICK q : q = [op |-> "reprocess", job |-> Len(jobs) + 1]
    OBVIOUS
  <2>2. Only(c, q) /\ acked' = acked
    BY <1>6, <2>1, AcceptEffect DEF ReprocessBegin
  <2>3. Nothing(q)
    BY <2>1 DEF Nothing
  <2> QED
    BY <1>1, <2>2, <2>3, VouchedOne
<1>7. ASSUME NEW c \in Clients, NEW sent \in BOOLEAN, WebhookInvalid(c) \/ Enqueue(c, sent)
      PROVE  AllVouched'
  <2>1. Only(c, None) /\ acked' = acked
    BY <1>7, UpdateEffect DEF WebhookInvalid, Enqueue, Answer
  <2> QED
    BY <1>1, <1>2, <2>1, VouchedOne
<1>8. ASSUME \/ \E j \in messages : RejectJob(j) \/ WorkerCannotLoad(j) \/ WorkerLoads(j)
             \/ \E insert \in {"ok", "retried", "lost"} : WorkerFails(insert)
             \/ \E sent \in BOOLEAN : WorkerSends(sent)
             \/ WorkerFinishes \/ WorkerCrash
      PROVE  AllVouched'
  <2>1. request' = request /\ acked' = acked
    BY <1>8 DEF RejectJob, WorkerCannotLoad, WorkerLoads, WorkerFails, WorkerSends, WorkerFinishes,
                WorkerCrash, WorkerStep, storeVars
  <2> QED
    BY <1>1, <2>1, VouchedQuiet
<1> QED
  BY <1>1, <1>3, <1>4, <1>5, <1>6, <1>7, <1>8, VouchedInlineSend, VouchedInlineFails,
     VouchedInlineFinish DEF JobNext

-----------------------------------------------------------------------------
(* The inductive invariant.                                                *)
IInv == TypeOK /\ ReplayInv /\ JobsInv /\ AllVouched

(* It holds at first.                                                      *)
LEMMA InitInv == Init => IInv
<1> SUFFICES ASSUME Init PROVE IInv
  OBVIOUS
<1>1. /\ topic = [r \in Records |-> 0] /\ errors = <<>> /\ producer = FALSE
      /\ request = [c \in Clients |-> None] /\ accepted = 0 /\ acked = [r \in Records |-> 0] /\ faults = {}
      /\ keys = {} /\ replayed = [r \in Records |-> 0] /\ socket = Closed
      /\ jobs = <<>> /\ messages = {} /\ rejected = {} /\ worker = None
  BY DEF Init, StoreInit, ChannelInit, JobInit
<1>2. <<>> \in Seq(Row) /\ <<>> \in Seq(Job) /\ <<>> \in Seq(Records) /\ DOMAIN <<>> = {}
  BY EmptySeq
<1>3. TypeOK
  <2>1. accepted \in 0..MaxRequests
    BY <1>1, StoreAssumption
  <2>2. StoreTypeOK
    BY <1>1, <1>2, <2>1 DEF StoreTypeOK
  <2>3. socket \in [open : BOOLEAN, queue : Seq(Records), sending : Records \cup {None}]
    BY <1>1, <1>2 DEF Closed
  <2> QED
    BY <1>1, <1>2, <2>2, <2>3 DEF TypeOK
<1>4. ReplayInv
  <2>1. ASSUME NEW r \in Records \ {Fresh} PROVE Claimed(r)
    <3>1. Sending(r) = {} /\ Excuses = {} /\ replayed[r] = 0
      BY <1>1 DEF Sending, Replaying, Excuses
    <3>2. IsFiniteSet({}) /\ Cardinality({}) = 0
      BY FS_EmptySet
    <3> QED
      BY <3>1, <3>2 DEF Claimed
  <2> QED
    BY <1>1, <1>2, <2>1 DEF ReplayInv, ReadSound, ReplayMarkTrue
<1>5. JobsInv
  BY <1>1, <1>2 DEF JobsInv, JobRequest
<1>6. AllVouched
  <2>1. ASSUME NEW r \in Records PROVE Vouched(r)
    <3>1. Pending(r) = {} /\ acked[r] = 0 /\ topic[r] = 0
      BY <1>1 DEF Pending, Held
    <3>2. IsFiniteSet({}) /\ Cardinality({}) = 0
      BY FS_EmptySet
    <3> QED
      BY <3>1, <3>2 DEF Vouched
  <2> QED
    BY <2>1 DEF AllVouched
<1> QED
  BY <1>3, <1>4, <1>5, <1>6 DEF IInv

(* Every step keeps it.                                                    *)
LEMMA NextInv == IInv /\ [Next]_vars => IInv'
<1> SUFFICES ASSUME TypeOK, ReplayInv, JobsInv, AllVouched, [Next]_vars
             PROVE  TypeOK' /\ ReplayInv' /\ JobsInv' /\ AllVouched'
  BY DEF IInv
<1>1. CASE ChannelNext /\ UNCHANGED jobVars
  <2>1. TypeOK' /\ ChannelFrame
    BY <1>1, ChannelType
  <2>2. ReplayInv' /\ JobsInv'
    BY <1>1, <2>1, ReplayInvChannels, JobsInvChannels
  <2>3. Grows
    BY <2>1 DEF ChannelFrame
  <2>4. AllVouched'
    BY <1>1, <2>3, VouchedChannels
  <2> QED
    BY <2>1, <2>2, <2>4
<1>2. CASE JobNext /\ UNCHANGED channelVars
  <2>1. PICK j : OneJob(j)
    BY <1>2, JobsStep DEF JobStep
  <2>2. TypeOK' /\ JobsInv'
    BY <1>2, JobsStep DEF JobStep
  <2>3. JobFrame
    BY <2>1, OneJobFrame
  <2>4. ReplayInv'
    BY <1>2, <2>3, ReplayInvJobs
  <2>5. AllVouched'
    BY <1>2, VouchedJobs
  <2> QED
    BY <2>2, <2>4, <2>5
<1>3. CASE ApiCrash
  <2>1. TypeOK' /\ ReplayInv' /\ JobsInv' /\ Grows /\ \A c \in Clients : request'[c] = None
    BY <1>3, ApiCrashStep
  <2>2. ViaKept /\ acked' = acked
    BY <1>3, ViaOfNone DEF ApiCrash
  <2>3. \A c \in Clients : Nothing(request'[c])
    BY <2>1 DEF Nothing
  <2>4. AllVouched'
    BY <2>1, <2>2, <2>3, VouchedQuiet
  <2> QED
    BY <2>1, <2>4
<1>4. CASE UNCHANGED vars
  <2>1. /\ topic' = topic /\ errors' = errors /\ producer' = producer /\ request' = request
        /\ accepted' = accepted /\ acked' = acked /\ faults' = faults
        /\ keys' = keys /\ replayed' = replayed /\ socket' = socket
        /\ jobs' = jobs /\ messages' = messages /\ rejected' = rejected /\ worker' = worker
        /\ UNCHANGED jobVars
    BY <1>4 DEF vars, storeVars, channelVars, jobVars
  <2>2. TypeOK'
    BY <2>1 DEF TypeOK, StoreTypeOK
  <2>3. ChannelFrame /\ ViaKept
    BY <2>1, NothingGrows, ViaOfNone DEF ChannelFrame
  <2>4. ReplayInv'
    BY <2>1, <2>3, ReplayInvKept DEF ReplayInv, ReplayMarkTrue
  <2>5. JobsInv'
    BY <2>1, <2>3, JobsInvChannels
  <2>6. AllVouched'
    BY <2>1, <2>3, VouchedQuiet DEF ChannelFrame
  <2> QED
    BY <2>2, <2>4, <2>5, <2>6
<1> QED
  BY <1>1, <1>2, <1>3, <1>4 DEF Next

(* The invariant of every behaviour.                                       *)
LEMMA AlwaysInv == Spec => []IInv
BY InitInv, NextInv, PTL DEF Spec

(* Whatever is sent, lost, crashed or answered twice: every "queued" that  *)
(* some endpoint answered is backed by an envelope of its own.             *)
THEOREM AnswersAreBacked == Spec => []QueuedIsPublished
<1>1. IInv => QueuedIsPublished
  <2> SUFFICES ASSUME IInv, NEW r \in Records PROVE acked[r] <= topic[r]
    BY DEF QueuedIsPublished
  <2>1. Vouched(r) /\ TypeOK
    BY DEF IInv, AllVouched
  <2>2. PICK n : n = Cardinality(Pending(r))
    OBVIOUS
  <2>3. n \in Nat /\ acked[r] \in Nat /\ topic[r] \in Nat
    BY <2>1, <2>2, VouchedCounts
  <2>4. acked[r] + n <= topic[r]
    BY <2>1, <2>2 DEF Vouched
  <2> QED
    BY <2>3, <2>4
<1> QED
  BY <1>1, AlwaysInv, PTL

(* A quarantined event is replayed once, up to an expired key and a Redis  *)
(* outage, and a row that says it was replayed was.                        *)
THEOREM ReplaysAreSound == Spec => []ReplaysSound
<1>1. IInv => ReplaysSound
  <2> SUFFICES ASSUME IInv PROVE ReplaysSound
    OBVIOUS
  <2>1. TypeOK /\ ReplayInv
    BY DEF IInv
  <2>2. ASSUME NEW r \in Records \ {Fresh}
        PROVE  replayed[r] <= 1 + Cardinality(faults \cap {"expiry", "redis"})
    <3>1. Claimed(r)
      BY <2>1 DEF ReplayInv
    <3>2. PICK n, m : n = Cardinality(Sending(r)) /\ m = Cardinality(Excuses)
      OBVIOUS
    <3>3. n \in Nat
      BY <3>1, <3>2, FS_CardinalityType DEF Claimed
    <3>4. m \in Nat
      BY <3>2, ExcusesFinite DEF Excuses
    <3>5. replayed[r] \in Nat /\ replayed[r] + n <= (IF r \in keys THEN 1 ELSE 0) + m
      BY <2>1, <3>1, <3>2 DEF Claimed, TypeOK
    <3>6. replayed[r] <= 1 + m
      BY <3>3, <3>4, <3>5
    <3> QED
      BY <3>2, <3>6 DEF Excuses
  <2> QED
    BY <2>1, <2>2 DEF ReplaysSound, ReplayedOnce, ReplayInv
<1> QED
  BY <1>1, AlwaysInv, PTL

(* A job that ended accounts for its content, to the row.                  *)
THEOREM JobsAreAccounted == Spec => []JobsAccounted
<1>1. IInv => JobsAccounted
  BY DEF IInv, JobsInv, JobSound, Complete, Quarantined, JobsAccounted, DoneIsComplete, FailuresQuarantined
<1> QED
  BY <1>1, AlwaysInv, PTL

(* No job stays "PROCESSING" with nobody at it, short of a crash or an     *)
(* insert that failed.                                                     *)
THEOREM NobodyForgetsAJob == Spec => []NobodyForgets
<1>1. IInv => NobodyForgets
  BY DEF IInv, JobsInv, JobSound, Remembered, NobodyForgets, Inline, Serves, JobRequest, Works
<1> QED
  BY <1>1, AlwaysInv, PTL
==============================================================================
