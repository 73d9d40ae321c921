------------------------------- MODULE Ingestion -------------------------------
(***************************************************************************)
(* The ingestion endpoints together: event channels, quarantine and jobs   *)
(* over one set of topics, one table of errors and one API process, which  *)
(* may crash.                                                              *)
(***************************************************************************)
EXTENDS IngestChannels, IngestJobs

vars == <<storeVars, channelVars, jobVars>>

Init == StoreInit /\ ChannelInit /\ JobInit

(* The API process dies with the requests in flight and its websocket.     *)
ApiCrash ==
  /\ Fault("crash")
  /\ request' = [c \in Clients |-> None]
  /\ producer' = FALSE
  /\ socket' = Closed
  /\ UNCHANGED <<topic, errors, accepted, acked, keys, replayed, jobVars>>

Next ==
  \/ ChannelNext /\ UNCHANGED jobVars
  \/ JobNext /\ UNCHANGED channelVars
  \/ ApiCrash

Spec == Init /\ [][Next]_vars

-----------------------------------------------------------------------------
(* Properties.                                                             *)

Request == EventRequest \cup ResolveRequest \cup ReplayRequest \cup InlineRequest \cup QueueRequest

(* Every variable has its type.                                            *)
TypeOK ==
  /\ StoreTypeOK
  /\ keys \subseteq Records
  /\ replayed \in [Records -> Nat]
  /\ socket \in [open : BOOLEAN, queue : Seq(Records), sending : Records \cup {None}]
  /\ \A c \in Clients : request[c] # None => request[c] \in Request
  /\ jobs \in Seq(Job)
  /\ worker # None => worker \in Work
  /\ messages \cup rejected \subseteq DOMAIN jobs

(* An answer that counts an event as queued, over whichever channel and    *)
(* however often, is backed by an envelope of its own on the topic, once   *)
(* the process had a producer: with requests of all kinds at once, sends   *)
(* that fail, crashes and a websocket that closes on a full queue.         *)
QueuedIsPublished == \A r \in Records : acked[r] <= topic[r]

(* Redis keeps a quarantined event from being replayed twice, whoever      *)
(* replays which of its rows at the same time and whatever fails, unless   *)
(* the key expired or Redis was away.                                      *)
ReplayedOnce ==
  \A r \in Records \ {Fresh} : replayed[r] <= 1 + Cardinality(faults \cap {"expiry", "redis"})

(* A row that says it was replayed was: its event was published by a       *)
(* replay.                                                                 *)
ReplayMarkTrue ==
  \A i \in DOMAIN errors :
    "replay" \in errors[i].detail => replayed[errors[i].record] + replayed[Fresh] > 0

RowsFor(j) == {i \in DOMAIN errors : errors[i].job = j}

(* A job that ended well accounts for its content: nothing failed, nothing *)
(* of it is in quarantine, and every record of it that could be parsed was *)
(* published (or there was no producer).                                   *)
DoneIsComplete ==
  \A j \in DOMAIN jobs : jobs[j].status = "DONE" =>
    /\ RowsFor(j) = {}
    /\ jobs[j].processed = Len(Parsed(jobs[j].content))
    /\ jobs[j].via => \A i \in DOMAIN Parsed(jobs[j].content) :
                        topic[Parsed(jobs[j].content)[i]] > 0

(* What a finished job counts as failed is in quarantine, record by        *)
(* record, to be corrected and replayed.  Two cases are left out: a send   *)
(* that fails in the connectors' parse endpoint, which is only counted,    *)
(* and a row that the worker could not insert.                             *)
FailuresQuarantined ==
  \A j \in DOMAIN jobs :
    jobs[j].status \in Final /\ "insert" \notin faults
      /\ ~(jobs[j].op = "parse" /\ "publish" \in faults)
    => Cardinality(RowsFor(j)) = jobs[j].failed

(* A job is left unfinished only while somebody works on it, unless a      *)
(* process died or an insert failed: no handler forgets a job.             *)
NobodyForgets ==
  \A j \in DOMAIN jobs : jobs[j].status = "PROCESSING" =>
    \/ \E c \in Clients : Inline(c) /\ request[c].job = j
    \/ worker # None /\ worker.job = j
    \/ faults \cap {"crash", "insert"} # {}

(* The stream processor works off the jobs of the API ("Consome mensagem   *)
(* de ingest.jobs"): no job message ends in a DLQ.                         *)
JobsAreWorkedOff == rejected = {}

(* A quarantined event is replayed once, and is marked as replayed only if *)
(* it was.                                                                 *)
ReplaysSound == ReplayedOnce /\ ReplayMarkTrue

(* The counts and the status of a job that ended agree with the topic and  *)
(* with the quarantine, whichever of the ways in it took.                  *)
JobsAccounted == TypeOK /\ DoneIsComplete /\ FailuresQuarantined
=============================================================================
