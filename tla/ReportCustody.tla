----------------------------- MODULE ReportCustody ------------------------------
(***************************************************************************)
(* What services/api/routers/cases.py keeps to prove later what a case was *)
(* reported with: evidence files and their hashes, the payload of a report *)
(* package with its chain of custody, the PDF and XML files.  Files are    *)
(* objects of MinIO, or temporary files of the replica when MinIO does not *)
(* answer; rows are committed after their files were stored.  A worker is  *)
(* a replica.  Whose decision it is and who may submit is in CaseFiling.   *)
(***************************************************************************)
EXTENDS ApiRequests, Sequences

CONSTANTS
  MaxFiles     \* bound: evidence files, and report packages

ASSUME CustodyAssumption ==
  MaxFiles \in Nat /\ "minio" \notin Workers /\ None \notin Workers \cup {"minio"}

VARIABLES
  files,       \* [Places -> SUBSET File]: the files that are there, unaltered
  altered,     \* evidence files that were altered or lost in the store
  evidence,    \* Seq(File): EVIDENCE_UPLOAD events
  reports,     \* Seq(Report)
  served,      \* history: evidence that a download answered with
  uploads      \* evidence files and packages begun

custodyVars == <<files, altered, evidence, reports, served, uploads>>

Places == {"minio"} \cup Workers
File == [kind : {"evidence", "pdf", "xml"}, n : 1..MaxFiles]
F(kind, n) == [kind |-> kind, n |-> n]

(* Where the columns pdf_path and xml_path point, what of it the           *)
(* chain_of_custody in the payload tells, and the attachments it lists.    *)
Report ==
  [n : 1..MaxFiles, attached : SUBSET File, pdf : Places \cup {None}, xml : Places \cup {None},
   filed : BOOLEAN, protocol : BOOLEAN, custody : SUBSET {"payload", "pdf", "xml", "protocol"}]

CustodyInit ==
  /\ files = [place \in Places |-> {}]
  /\ altered = {}
  /\ evidence = <<>> /\ reports = <<>>
  /\ served = {}
  /\ uploads = [kind \in {"evidence", "report"} |-> 0]

Stored(place, f) == files' = [files EXCEPT ![place] = @ \cup {f}]

(* MinIO, or where it fails the temporary directory of the replica.        *)
StoredSomewhere(w, f, place) == place \in {"minio", w} /\ Stored(place, f)

-----------------------------------------------------------------------------
(* upload_evidence: a 503 where MinIO fails.                               *)
UploadBegin(w) ==
  /\ uploads["evidence"] < MaxFiles
  /\ uploads' = [uploads EXCEPT !["evidence"] = @ + 1]
  /\ LET f == F("evidence", uploads["evidence"] + 1)
     IN  Stored("minio", f) /\ Begin(w, [op |-> "upload", file |-> f])
  /\ UNCHANGED <<altered, evidence, reports, served>>

UploadCommit(w) ==
  /\ Doing(w, "upload")
  /\ evidence' = Append(evidence, request[w].file)
  /\ Ends(w)
  /\ UNCHANGED <<files, altered, reports, served, uploads>>

(* The hash of what was loaded is compared with the event's.               *)
Answers(f) == f \in files["minio"] /\ f \notin altered

(* download_case_evidence.                                                 *)
DownloadEvidence(i) ==
  /\ i \in 1..Len(evidence)
  /\ Answers(evidence[i])
  /\ Statement
  /\ served' = served \cup {[file |-> evidence[i], intact |-> evidence[i] \notin altered]}
  /\ UNCHANGED <<files, altered, evidence, reports, uploads>>

-----------------------------------------------------------------------------
(* generate_report_package reads the events, builds payload and PDF, and   *)
(* stores the PDF; a PDF that fails is only logged.                        *)
GenerateBegin(w) ==
  /\ uploads["report"] < MaxFiles
  /\ uploads' = [uploads EXCEPT !["report"] = @ + 1]
  /\ LET n == uploads["report"] + 1
     IN  \E place \in Places \cup {None} :
           /\ IF place = None THEN UNCHANGED files ELSE StoredSomewhere(w, F("pdf", n), place)
           /\ Begin(w, [op |-> "generate", report |->
                [n |-> n, attached |-> {evidence[i] : i \in 1..Len(evidence)}, pdf |-> place, xml |-> None,
                 filed |-> FALSE, protocol |-> FALSE,
                 custody |-> {"payload"} \cup (IF place = None THEN {} ELSE {"pdf"})]])
  /\ UNCHANGED <<altered, evidence, reports, served>>

GenerateCommit(w) ==
  /\ Doing(w, "generate")
  /\ reports' = Append(reports, request[w].report)
  /\ Ends(w)
  /\ UNCHANGED <<files, altered, evidence, served, uploads>>

(* The payload after `{**rp.payload, "chain_of_custody": coc}`: coc is the *)
(* dictionary of the payload that was read, changed in place, so that the  *)
(* session finds old and new payload equal and writes no payload; only     *)
(* where there was none is it another one.                                 *)
PayloadWritten(row, read, entry) ==
  IF read.custody = {} THEN row.custody \cup {entry} ELSE row.custody

(* submit_report_package: the XML is stored before the row is FILED, and   *)
(* has the same content whenever it is generated from one package.         *)
SubmitBegin(w, i) ==
  /\ i \in 1..Len(reports)
  /\ ~reports[i].filed
  /\ \E place \in Places \cup {None} :
       /\ IF place = None THEN UNCHANGED files ELSE StoredSomewhere(w, F("xml", reports[i].n), place)
       /\ Begin(w, [op |-> "submit", i |-> i, read |-> reports[i], xml |-> place])
  /\ UNCHANGED <<altered, evidence, reports, served, uploads>>

(* Without an XML, xml_path is assigned None all the same.                 *)
SubmitCommit(w) ==
  /\ Doing(w, "submit")
  /\ LET r == request[w]
         row == reports[r.i]
         new == Flushed(row, r.read, [r.read EXCEPT !.xml = r.xml, !.filed = TRUE])
     IN  reports' = [reports EXCEPT ![r.i] =
           [new EXCEPT !.custody = IF r.xml = None THEN @ ELSE PayloadWritten(row, r.read, "xml")]]
  /\ Ends(w)
  /\ UNCHANGED <<files, altered, evidence, served, uploads>>

(* submit_report_package_filing files without an XML.                      *)
FileManually(i) ==
  /\ i \in 1..Len(reports)
  /\ ~reports[i].filed
  /\ Statement
  /\ reports' = [reports EXCEPT ![i].filed = TRUE]
  /\ UNCHANGED <<files, altered, evidence, served, uploads>>

(* register_coaf_protocol_number.                                          *)
RegisterProtocol(i) ==
  /\ i \in 1..Len(reports)
  /\ reports[i].filed
  /\ Statement
  /\ reports' = [reports EXCEPT ![i].protocol = TRUE,
                                ![i].custody = PayloadWritten(reports[i], reports[i], "protocol")]
  /\ UNCHANGED <<files, altered, evidence, served, uploads>>

-----------------------------------------------------------------------------
(* A replica restarts: its requests end, its temporary files are gone.     *)
Restart(w) ==
  /\ calls < MaxCalls
  /\ calls' = calls + 1
  /\ request' = [request EXCEPT ![w] = None]
  /\ files' = [files EXCEPT ![w] = {}]
  /\ UNCHANGED <<crossed, altered, evidence, reports, served, uploads>>

(* The object store alters or loses a file.                                *)
StoreFails(f) ==
  /\ f \in files["minio"] \ altered /\ f.kind = "evidence"
  /\ Statement
  /\ altered' = altered \cup {f}
  /\ \/ files' = [files EXCEPT !["minio"] = @ \ {f}]
     \/ UNCHANGED files
  /\ UNCHANGED <<evidence, reports, served, uploads>>

CustodyNext ==
  \/ \E w \in Workers :
       \/ UploadBegin(w) \/ UploadCommit(w) \/ GenerateBegin(w) \/ GenerateCommit(w)
       \/ \E i \in 1..MaxFiles : SubmitBegin(w, i)
       \/ SubmitCommit(w) \/ Restart(w)
  \/ \E i \in 1..MaxFiles : DownloadEvidence(i) \/ FileManually(i) \/ RegisterProtocol(i)
  \/ \E f \in File : StoreFails(f)

-----------------------------------------------------------------------------
CustodyTypeOK ==
  /\ files \in [Places -> SUBSET File] /\ altered \subseteq File
  /\ evidence \in Seq(File) /\ reports \in Seq(Report)
  /\ served \subseteq [file : File, intact : BOOLEAN]
  /\ uploads \in [{"evidence", "report"} -> 0..MaxFiles]

(* A row never precedes its file, whatever fails between the two: what the *)
(* events, attachments and paths name is in MinIO, unless it was lost      *)
(* there; a file of the fallback is on one replica until that restarts.    *)
RowsHaveFiles ==
  /\ \A i \in 1..Len(evidence) : evidence[i] \in files["minio"] \cup altered
  /\ \A i \in 1..Len(reports) :
       /\ reports[i].attached \subseteq files["minio"] \cup altered
       /\ reports[i].pdf = "minio" => F("pdf", reports[i].n) \in files["minio"]
       /\ reports[i].xml = "minio" => F("xml", reports[i].n) \in files["minio"]

(* "Falha de integridade da evidência armazenada": altered evidence is not *)
(* served.                                                                 *)
ServedIntact == \A s \in served : s.intact

(* Mutant of CustodyView: the payload alone.                               *)
CustodyOfPayload(i) == [xml |-> "xml" \in reports[i].custody, protocol |-> "protocol" \in reports[i].custody]

(* get_report_package_chain_of_custody tells of XML and protocol from the  *)
(* payload or else from the columns.                                       *)
CustodyView(i) ==
  [xml |-> "xml" \in reports[i].custody \/ reports[i].xml # None,
   protocol |-> "protocol" \in reports[i].custody \/ reports[i].protocol]

(* The chain of custody tells of each XML and protocol number there is:    *)
(* the columns do, as the payload never learns of them.                    *)
CustodyComplete ==
  \A i \in 1..Len(reports) :
    CustodyView(i) = [xml |-> reports[i].xml # None, protocol |-> reports[i].protocol]

(* The documents of a report are there, are served as they were made, and  *)
(* the chain of custody names each.                                        *)
CustodySound == CustodyTypeOK /\ RowsHaveFiles /\ ServedIntact /\ CustodyComplete
=============================================================================
