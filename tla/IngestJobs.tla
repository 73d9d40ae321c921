------------------------------ MODULE IngestJobs -------------------------------
(***************************************************************************)
(* Ingest jobs.  The API makes one for a webhook or for a payload given to *)
(* a connector, which it works off itself, and for a file, a reprocessing  *)
(* or a backfill, which it hands to the stream processor over the topics   *)
(* ingest.jobs and ingest.jobs.reprocess (services/api/routers/ingest.py); *)
(* process_ingest_job works those off (services/stream_processor/main.py). *)
(***************************************************************************)
EXTENDS IngestStore

CONSTANTS
  Contents,  \* payloads: [form : Forms, records : Seq(Records)]
  MaxJobs,   \* bound: jobs in a behaviour
  Handed     \* BOOLEAN: process_ingest_job is called with job messages

(* Read by a connector that parses the whole of it (Gamma, Delta, Epsilon) *)
(* or row by row.                                                          *)
Forms == {"connector", "rows"}

(* The requests of this module while they are in flight: one that works    *)
(* its job off and one that is about to hand it over.  Work is what        *)
(* process_ingest_job has in hand.                                         *)
InlineRequest == [op : {"webhook", "parse"}, job : Nat, left : Seq(Records), rows : Seq(Records),
                  processed : Seq(Records), failed : Nat]
QueueRequest  == [op : {"file", "reprocess", "backfill"}, job : Nat]
Work          == [job : Nat, form : Forms, left : Seq(Records), processed : Seq(Records), failed : Nat]

ASSUME JobAssumption ==
  /\ None \notin InlineRequest \cup QueueRequest \cup Work
  /\ Contents \subseteq [form : Forms, records : Seq(Records)]
  /\ Handed \in BOOLEAN
  /\ MaxJobs \in Nat

VARIABLES
  jobs,      \* Seq(Job): ingest_jobs; the index is the job id
  messages,  \* jobs with a message on ingest.jobs or ingest.jobs.reprocess
  rejected,  \* jobs whose message the stream processor sent to a DLQ
  worker     \* the call of process_ingest_job, or None

jobVars == <<jobs, messages, rejected, worker>>

Final == {"DONE", "PARTIAL", "FAILED"}

JobInit == jobs = <<>> /\ messages = {} /\ rejected = {} /\ worker = None

(* path: the content is in the lake; via: records were sent to Kafka.      *)
NewJob(op, status, path, content) ==
  [op |-> op, status |-> status, path |-> path, content |-> content,
   via |-> TRUE, processed |-> 0, failed |-> 0]

Job == [op : {"webhook", "parse", "file", "reprocess", "backfill"},
        status : Final \cup {"QUEUED", "PROCESSING"}, path : BOOLEAN, content : Contents,
        via : BOOLEAN, processed : Nat, failed : Nat]

AddJob(job) == Len(jobs) < MaxJobs /\ jobs' = Append(jobs, job)

WithKind(content, kinds) == Selected(content.records, kinds)

(* What the connector parses and what it reports as an error.  The row     *)
(* path drops what it cannot parse.                                        *)
Parsed(content) == WithKind(content, Kinds \ {"broken", "skipped"})
Broken(content) == WithKind(content, {"broken"})

FinalStatus(processed, failed) ==
  IF failed = 0 THEN "DONE" ELSE IF processed > 0 THEN "PARTIAL" ELSE "FAILED"

RowsOf(rs, j) == [i \in DOMAIN rs |-> NewRow(rs[i], j)]

-----------------------------------------------------------------------------
(* Jobs that the request works off: /ingest/webhook/epsilon ("webhook")    *)
(* and /ingest/connectors/{name}/parse ("parse").                          *)

(* The content is stored in the lake, if it answers, and a producer asked  *)
(* for; of the two one fails at most.                                      *)
StoreAndConnect(path, got) ==
  \/ path /\ GetProducer(got)
  \/ ~path /\ got /\ Fault("lake") /\ producer' = TRUE

(* The job is committed as PROCESSING before.                              *)
InlineBegin(c, op, content, path, got) ==
  /\ content.form = "connector"
  /\ Accept(c, [op |-> op, job |-> Len(jobs) + 1, left |-> Parsed(content), rows |-> <<>>,
                processed |-> <<>>, failed |-> 0])
  /\ AddJob([NewJob(op, "PROCESSING", path, content) EXCEPT !.via = got])
  /\ StoreAndConnect(path, got)
  /\ UNCHANGED <<topic, errors, acked, messages, rejected, worker>>

Inline(c) == request[c] # None /\ request[c].op \in {"webhook", "parse"}

JobOf(c) == jobs[request[c].job]

(* Mutant of WebhookInvalid: the 400 is raised before the job is updated.  *)
WebhookInvalidEarly(c) ==
  /\ Inline(c)
  /\ request[c].op = "webhook"
  /\ Broken(JobOf(c).content) # <<>>
  /\ Answer(c)
  /\ UNCHANGED <<topic, errors, producer, acked, faults, jobVars>>

(* A webhook with an event that cannot be parsed is refused whole: the job *)
(* fails, its errors are quarantined and the sender gets a 400.            *)
WebhookInvalid(c) ==
  /\ Inline(c)
  /\ request[c].op = "webhook"
  /\ LET bad == Broken(JobOf(c).content)
         j == request[c].job
     IN  /\ bad # <<>>
         /\ jobs' = [jobs EXCEPT ![j].status = "FAILED", ![j].failed = Len(bad)]
         /\ errors' = errors \o RowsOf(bad, j)
  /\ Answer(c)
  /\ UNCHANGED <<topic, producer, acked, faults, messages, rejected, worker>>

InlineStep(c) ==
  /\ Inline(c)
  /\ request[c].left # <<>>
  /\ request[c].op = "webhook" => Broken(JobOf(c).content) = <<>>
  /\ UNCHANGED <<errors, producer, acked, jobVars>>

(* The mapping raises, or (parse only) the canonical schema rejects the    *)
(* result: the record fails and a row is added to the session.             *)
InlineFails(c) ==
  /\ InlineStep(c)
  /\ LET q == request[c]
         r == Head(q.left)
     IN  /\ Kind[r] = "unmapped" \/ (Kind[r] = "invalid" /\ q.op = "parse")
         /\ Update(c, [q EXCEPT !.left = Tail(@), !.failed = @ + 1, !.rows = Append(@, r)])
  /\ UNCHANGED <<topic, faults>>

(* The send, left out without a producer.  One that fails is quarantined   *)
(* by the webhook and only counted by parse.                               *)
InlineSend(c, sent) ==
  /\ InlineStep(c)
  /\ LET q == request[c]
         r == Head(q.left)
     IN  /\ Kind[r] # "unmapped" /\ (Kind[r] = "invalid" => q.op = "webhook")
         /\ IF JobOf(c).via THEN Publish(r, sent) ELSE sent /\ UNCHANGED <<topic, faults>>
         /\ Update(c,
              IF sent THEN [q EXCEPT !.left = Tail(@), !.processed = Append(@, r)]
              ELSE [q EXCEPT !.left = Tail(@), !.failed = @ + 1,
                             !.rows = IF q.op = "webhook" THEN Append(@, r) ELSE @])

(* The rows and the final status are committed together.                   *)
InlineFinish(c) ==
  /\ Inline(c)
  /\ request[c].left = <<>>
  /\ LET q == request[c]
         bad == Broken(JobOf(c).content)
         failed == q.failed + Len(bad)
     IN  /\ q.op = "webhook" => bad = <<>>
         /\ errors' = errors \o RowsOf(q.rows \o bad, q.job)
         /\ jobs' = [jobs EXCEPT ![q.job].processed = Len(q.processed),
                                 ![q.job].failed = failed,
                                 ![q.job].status = FinalStatus(Len(q.processed), failed)]
         /\ acked' = [r \in Records |->
                        IF JobOf(c).via
                        THEN acked[r] + Cardinality({i \in DOMAIN q.processed : q.processed[i] = r})
                        ELSE acked[r]]
  /\ Answer(c)
  /\ UNCHANGED <<topic, producer, faults, messages, rejected, worker>>

-----------------------------------------------------------------------------
(* Jobs for the stream processor.                                          *)

(* ingest_file: the job is committed before a producer is asked for; with  *)
(* none it stays QUEUED, and so says the answer.                           *)
FileBegin(c, content, path, got) ==
  /\ Accept(c, IF got THEN [op |-> "file", job |-> Len(jobs) + 1] ELSE None)
  /\ AddJob(NewJob("file", "QUEUED", path, content))
  /\ StoreAndConnect(path, got)
  /\ UNCHANGED <<topic, errors, acked, messages, rejected, worker>>

(* reprocess_job: a finished job with a stored file, and a producer.       *)
ReprocessBegin(c, j) ==
  /\ jobs[j].status \in Final
  /\ jobs[j].path
  /\ Accept(c, [op |-> "reprocess", job |-> Len(jobs) + 1])
  /\ AddJob(NewJob("reprocess", "QUEUED", TRUE, jobs[j].content))
  /\ GetProducer(TRUE)
  /\ UNCHANGED <<topic, errors, acked, messages, rejected, worker>>

(* start_backfill: of an object that is named, and may not be in the lake. *)
BackfillBegin(c, content, path) ==
  /\ Accept(c, [op |-> "backfill", job |-> Len(jobs) + 1])
  /\ AddJob(NewJob("backfill", "QUEUED", path, content))
  /\ GetProducer(TRUE)
  /\ UNCHANGED <<topic, errors, acked, messages, rejected, worker>>

(* The job message.  When it cannot be sent (503), reprocess and backfill  *)
(* fail the job; a file's job stays QUEUED.                                *)
Enqueue(c, sent) ==
  /\ request[c] # None
  /\ request[c].op \in {"file", "reprocess", "backfill"}
  /\ LET q == request[c]
     IN  IF sent
         THEN messages' = messages \cup {q.job} /\ UNCHANGED <<faults, jobs>>
         ELSE /\ Fault("publish")
              /\ UNCHANGED messages
              /\ jobs' = IF q.op = "file" THEN jobs ELSE [jobs EXCEPT ![q.job].status = "FAILED"]
  /\ Answer(c)
  /\ UNCHANGED <<topic, errors, producer, acked, rejected, worker>>

(* The consumer loop validates the envelope of every message, and a job    *)
(* message has no event_id, payload or occurred_at: it goes to the DLQ and *)
(* the job is not touched.                                                 *)
RejectJob(j) ==
  /\ j \in messages
  /\ messages' = messages \ {j}
  /\ rejected' = rejected \cup {j}
  /\ UNCHANGED <<storeVars, jobs, worker>>

-----------------------------------------------------------------------------
(* process_ingest_job.  Because of RejectJob no job message reaches it;    *)
(* with Handed it is called with one, as its unit tests call it.           *)

WorkerStarts(j) ==
  /\ Handed
  /\ worker = None
  /\ j \in messages
  /\ messages' = messages \ {j}

(* The file cannot be read.                                                *)
WorkerCannotLoad(j) ==
  /\ WorkerStarts(j)
  /\ IF jobs[j].path THEN Fault("lake") ELSE UNCHANGED faults
  /\ jobs' = [jobs EXCEPT ![j].status = "FAILED"]
  /\ UNCHANGED <<topic, errors, producer, request, accepted, acked, rejected, worker>>

WorkerLoads(j) ==
  /\ WorkerStarts(j)
  /\ jobs[j].path
  /\ jobs' = [jobs EXCEPT ![j].status = "PROCESSING"]
  /\ worker' = [job |-> j, form |-> jobs[j].content.form, left |-> Parsed(jobs[j].content),
                processed |-> <<>>, failed |-> 0]
  /\ UNCHANGED <<storeVars, rejected>>

WorkerStep ==
  /\ worker # None
  /\ worker.left # <<>>
  /\ UNCHANGED <<producer, request, accepted, acked, jobs, messages>>

(* A record fails: the mapping raises ("raised", in the except block), or  *)
(* the schema rejects it or it cannot be sent ("counted", in the try       *)
(* block).  Its row is inserted in a transaction of its own.  When that    *)
(* raises in the try block the record is counted again and the insert      *)
(* tried again; when it raises in the except block, the connector path     *)
(* gives up, its message goes to the DLQ and the job stays as it is, and   *)
(* the row path ends the loop with one more failure.                       *)
WorkerRowInserted(r) ==
  /\ errors' = Append(errors, NewRow(r, worker.job))
  /\ worker' = [worker EXCEPT !.left = Tail(@), !.failed = @ + 1]

WorkerRowRetried(r) ==
  /\ errors' = Append(errors, NewRow(r, worker.job))
  /\ worker' = [worker EXCEPT !.left = Tail(@), !.failed = @ + 2]

WorkerRowLost(failures) ==
  /\ IF worker.form = "connector"
     THEN worker' = None /\ rejected' = rejected \cup {worker.job}
     ELSE /\ worker' = [worker EXCEPT !.left = <<>>, !.failed = @ + failures]
          /\ UNCHANGED rejected
  /\ UNCHANGED errors

(* MappingEngine raises; the connector path also validates the result.     *)
WorkerFails(insert) ==
  /\ WorkerStep
  /\ LET r == Head(worker.left)
         raised == Kind[r] = "unmapped"
     IN  /\ raised \/ (Kind[r] = "invalid" /\ worker.form = "connector")
         /\ \/ insert = "ok" /\ WorkerRowInserted(r) /\ UNCHANGED <<rejected, faults>>
            \/ insert = "retried" /\ ~raised /\ WorkerRowRetried(r) /\ Fault("insert") /\ UNCHANGED rejected
            \/ insert = "lost" /\ WorkerRowLost(2) /\ Fault("insert")
  /\ UNCHANGED topic

(* Mutant of WorkerSends: one attempt, and its failure is no failure.      *)
WorkerSendsOnce(sent) ==
  /\ WorkerStep
  /\ LET r == Head(worker.left)
     IN  /\ Kind[r] # "unmapped" /\ (Kind[r] = "invalid" => worker.form = "rows")
         /\ Publish(r, sent)
         /\ worker' = [worker EXCEPT !.left = Tail(@), !.processed = Append(@, r)]
         /\ UNCHANGED <<errors, rejected>>

WorkerSends(sent) ==
  /\ WorkerStep
  /\ LET r == Head(worker.left)
     IN  /\ Kind[r] # "unmapped" /\ (Kind[r] = "invalid" => worker.form = "rows")
         /\ Publish(r, sent)
         /\ IF sent
            THEN /\ worker' = [worker EXCEPT !.left = Tail(@), !.processed = Append(@, r)]
                 /\ UNCHANGED errors
            ELSE WorkerRowInserted(r)
  /\ UNCHANGED rejected

(* The connector's own errors are inserted last, one by one.               *)
WorkerFinishes ==
  /\ worker # None
  /\ worker.left = <<>>
  /\ LET j == worker.job
         bad == IF worker.form = "connector" THEN Broken(jobs[j].content) ELSE <<>>
         failed == worker.failed + Len(bad)
     IN  /\ errors' = errors \o RowsOf(bad, j)
         /\ jobs' = [jobs EXCEPT ![j].processed = Len(worker.processed), ![j].failed = failed,
                                 ![j].status = FinalStatus(Len(worker.processed), failed)]
  /\ worker' = None
  /\ UNCHANGED <<topic, producer, request, accepted, acked, faults, messages, rejected>>

(* The pod dies in the middle of a job.  The claim on its message is in    *)
(* Redis, so that the message is skipped when it comes again.              *)
WorkerCrash ==
  /\ worker # None
  /\ Fault("crash")
  /\ worker' = None
  /\ UNCHANGED <<topic, errors, producer, request, accepted, acked, jobs, messages, rejected>>

JobNext ==
  \/ \E c \in Clients, content \in Contents, path \in BOOLEAN, got \in BOOLEAN :
       \/ InlineBegin(c, "webhook", content, path, got)
       \/ InlineBegin(c, "parse", content, path, got)
       \/ FileBegin(c, content, path, got)
  \/ \E c \in Clients, content \in Contents, path \in BOOLEAN : BackfillBegin(c, content, path)
  \/ \E c \in Clients, j \in DOMAIN jobs : ReprocessBegin(c, j)
  \/ \E c \in Clients : WebhookInvalid(c) \/ InlineFails(c) \/ InlineFinish(c)
  \/ \E c \in Clients, sent \in BOOLEAN : InlineSend(c, sent) \/ Enqueue(c, sent)
  \/ \E j \in messages : RejectJob(j) \/ WorkerCannotLoad(j) \/ WorkerLoads(j)
  \/ \E insert \in {"ok", "retried", "lost"} : WorkerFails(insert)
  \/ \E sent \in BOOLEAN : WorkerSends(sent)
  \/ WorkerFinishes \/ WorkerCrash
=============================================================================
