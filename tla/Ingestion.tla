------------------------------ MODULE Ingestion ------------------------------
(***************************************************************************)
(* Document ingestion: IngestionService (ingestion/service.py), the store  *)
(* calls it makes (store/pgvector.py), the boot sweep (main.py) and the    *)
(* deletion that races with all of them.                                   *)
(*                                                                         *)
(* An upload request runs on one connection, in one READ COMMITTED         *)
(* transaction.  What it has written and not committed is kept in its own  *)
(* record (pc "reclaimed", "purged" or "inserted"): other connections do   *)
(* not see it and block on the row or the index entry until it ends.       *)
(* A request creates at most one background task, so a task is named by    *)
(* the request that created it.  Every await of the code is a step         *)
(* boundary here; statements with no await between them are one step.      *)
(***************************************************************************)
EXTENDS Naturals, FiniteSets

CONSTANTS
  Docs,             \* document ids; gen_random_uuid() never repeats one
  Content,          \* uploaded bytes, told apart by their SHA-256
  Blank,            \* content that yields no chunk (an empty .md or .txt)
  NoContent,
  NoDoc,
  Requests,         \* upload requests
  EmbedSlots,       \* settings.ingestion_concurrency
  MaxCrashes,       \* bound: process crashes
  MaxDbFaults,      \* bound: statements of a background task the database refuses
  MaxCommitFaults   \* bound: COMMITs of an upload that fail

ASSUME ConstantsAssumption ==
  /\ Blank \subseteq Content
  /\ NoContent \notin Content
  /\ NoDoc \notin Docs
  /\ IsFiniteSet(Requests)
  /\ EmbedSlots \in Nat \ {0}
  /\ MaxCrashes \in Nat /\ MaxDbFaults \in Nat /\ MaxCommitFaults \in Nat

VARIABLES
  up,        \* the process is serving
  status,    \* documents.status, "absent" before the row and "deleted" after it
  content,   \* documents.sha256
  chunks,    \* the documents that have rows in the chunks table
  req,       \* the upload requests
  job,       \* the _process task each request created
  crashes, dbFaults, commitFaults

budgets == <<crashes, dbFaults, commitFaults>>
table == <<status, content, chunks>>
vars == <<up, status, content, chunks, req, job, crashes, dbFaults, commitFaults>>

Working == {"check", "checkFailed", "reclaim", "reclaimed", "purged",
            "insert", "inserted", "committed"}
Reclaiming == {"reclaimed", "purged"}  \* "purged": it has also deleted stale chunks
Answers == {"accepted", "deduplicated", "conflict", "error", "lost"}
Running == {"extract", "queued", "embed", "store", "flip", "fail"}
Ended == {"done", "stranded", "killed"}

RequestPC == {"new"} \cup Working \cup Answers
Status == {"absent", "processing", "ready", "failed", "deleted"}
JobPC == {"none"} \cup Running \cup Ended

RequestRecord ==
  [pc : RequestPC,
   content : Content \cup {NoContent},
   doc : Docs \cup {NoDoc}]

JobRecord == [pc : JobPC, doc : Docs \cup {NoDoc}]

Live(d) == d \in Docs /\ status[d] \in {"processing", "ready", "failed"}
RowsOf(c) == {d \in Docs : Live(d) /\ content[d] = c}

\* Mutant: the transaction of an accepted upload is never closed.
ShaLockedForever(c) ==
  \E r \in Requests : req[r].pc \in {"inserted", "committed", "accepted"} /\ req[r].content = c

\* Row and index locks held by open upload transactions.
RowLocked(d) == \E r \in Requests : req[r].pc \in Reclaiming /\ req[r].doc = d
ShaLocked(c) == \E r \in Requests : req[r].pc = "inserted" /\ req[r].content = c
PurgePending(d) == \E r \in Requests : req[r].pc = "purged" /\ req[r].doc = d

Init ==
  /\ up = TRUE
  /\ status = [d \in Docs |-> "absent"]
  /\ content = [d \in Docs |-> NoContent]
  /\ chunks = {}
  /\ req = [r \in Requests |-> [pc |-> "new", content |-> NoContent, doc |-> NoDoc]]
  /\ job = [r \in Requests |-> [pc |-> "none", doc |-> NoDoc]]
  /\ crashes = 0 /\ dbFaults = 0 /\ commitFaults = 0

-----------------------------------------------------------------------------
(* ingest_upload.                                                          *)

GoTo(r, pc) == req' = [req EXCEPT ![r].pc = pc]
StartJob(r, d) == job' = [job EXCEPT ![r] = [pc |-> "extract", doc |-> d]]

UploadSelect(r, c) ==
  /\ up /\ req[r].pc = "new"
  /\ \/ /\ RowsOf(c) = {}
        /\ req' = [req EXCEPT ![r].pc = "insert", ![r].content = c]
     \/ \E d \in RowsOf(c) :
          req' = [req EXCEPT ![r].content = c, ![r].doc = d,
                             ![r].pc = IF status[d] = "failed" THEN "checkFailed" ELSE "check"]
  /\ UNCHANGED <<up, table, job, budgets>>

\* The visibility read is a second statement: it may find the row gone, and
\* whether the requester owns it or was granted it is not this module's state.
UploadCheckVisible(r) ==
  /\ up /\ req[r].pc \in {"check", "checkFailed"}
  /\ \/ GoTo(r, "conflict")
     \/ /\ Live(req[r].doc)
        /\ GoTo(r, IF req[r].pc = "check" THEN "deduplicated" ELSE "reclaim")
  /\ UNCHANGED <<up, table, job, budgets>>

\* Mutant: the UPDATE without its status guard.
UploadReclaimUnguarded(r) ==
  LET d == req[r].doc IN
  /\ up /\ req[r].pc = "reclaim" /\ ~RowLocked(d)
  /\ GoTo(r, IF d \in chunks THEN "purged" ELSE "reclaimed")
  /\ StartJob(r, d)
  /\ UNCHANGED <<up, table, budgets>>

\* UPDATE ... WHERE status = 'failed', the purge and create_task, uncommitted.
UploadReclaim(r) ==
  LET d == req[r].doc IN
  /\ up /\ req[r].pc = "reclaim" /\ ~RowLocked(d)
  /\ IF status[d] = "failed"
       THEN /\ GoTo(r, IF d \in chunks THEN "purged" ELSE "reclaimed")
            /\ StartJob(r, d)
       ELSE GoTo(r, "deduplicated") /\ UNCHANGED job
  /\ UNCHANGED <<up, table, budgets>>

UploadCommitReclaim(r) ==
  LET d == req[r].doc IN
  /\ up /\ req[r].pc \in Reclaiming
  /\ status' = [status EXCEPT ![d] = "processing"]
  /\ chunks' = IF req[r].pc = "purged" THEN chunks \ {d} ELSE chunks
  /\ GoTo(r, "accepted")
  /\ UNCHANGED <<up, content, job, budgets>>

\* A second row for the digest raises UniqueViolation, which aborts the
\* transaction: the re-SELECT in the handler fails on it and the error escapes.
UploadInsert(r) ==
  /\ up /\ req[r].pc = "insert" /\ ~ShaLocked(req[r].content)
  /\ GoTo(r, IF RowsOf(req[r].content) = {} THEN "inserted" ELSE "error")
  /\ UNCHANGED <<up, table, job, budgets>>

\* Ids are opaque, so which unused one the row gets makes no difference.
UnusedDocs == {d \in Docs : status[d] = "absent"}

UploadCommitInsert(r) ==
  LET d == CHOOSE e \in UnusedDocs : TRUE IN
  /\ up /\ req[r].pc = "inserted" /\ UnusedDocs # {}
  /\ status' = [status EXCEPT ![d] = "processing"]
  /\ content' = [content EXCEPT ![d] = req[r].content]
  /\ req' = [req EXCEPT ![r].pc = "committed", ![r].doc = d]
  /\ UNCHANGED <<up, chunks, job, budgets>>

\* Back from the pool: the row has been visible for a while.
UploadSchedule(r) ==
  /\ up /\ req[r].pc = "committed"
  /\ StartJob(r, req[r].doc)
  /\ GoTo(r, "accepted")
  /\ UNCHANGED <<up, table, budgets>>

\* The COMMIT fails: everything the transaction wrote is undone, a task the
\* reclaim branch has already created is not.
UploadCommitFails(r) ==
  /\ up /\ req[r].pc \in Reclaiming \cup {"inserted"}
  /\ commitFaults < MaxCommitFaults
  /\ commitFaults' = commitFaults + 1
  /\ GoTo(r, "error")
  /\ UNCHANGED <<up, table, job, crashes, dbFaults>>

-----------------------------------------------------------------------------
(* _process.                                                               *)

Step(r, from, to) == up /\ job[r].pc = from /\ job' = [job EXCEPT ![r].pc = to]

\* A statement the database refuses, at the cost of one fault of the budget.
DbFault(r, from, to) ==
  /\ Step(r, from, to)
  /\ dbFaults < MaxDbFaults
  /\ dbFaults' = dbFaults + 1
  /\ UNCHANGED <<up, table, req, crashes, commitFaults>>

\* Model check, extraction in a thread, chunking: any of them may raise.
JobExtract(r) ==
  /\ Step(r, "extract", "queued") \/ Step(r, "extract", "fail")
  /\ UNCHANGED <<up, table, req, budgets>>

JobTakeSlot(r) ==
  /\ Cardinality({q \in Requests : job[q].pc = "embed"}) < EmbedSlots
  /\ Step(r, "queued", "embed")
  /\ UNCHANGED <<up, table, req, budgets>>

\* All the batches; leaving the block, also by an exception, frees the slot.
JobEmbed(r) ==
  /\ Step(r, "embed", "store") \/ Step(r, "embed", "fail")
  /\ UNCHANGED <<up, table, req, budgets>>

\* store.add_chunks, one transaction.  The foreign key refuses chunks of a
\* deleted document, UNIQUE (document_id, chunk_index) a second set of chunks,
\* after waiting for a purge that is not committed.
JobStore(r) ==
  LET d == job[r].doc IN
  /\ job[r].pc = "store"
  /\ IF content[d] \in Blank
       THEN Step(r, "store", "flip") /\ UNCHANGED chunks
       ELSE /\ ~PurgePending(d)
            /\ IF Live(d) /\ d \notin chunks
                 THEN /\ Step(r, "store", "flip")
                      /\ chunks' = chunks \cup {d}
                 ELSE Step(r, "store", "fail") /\ UNCHANGED chunks
  /\ UNCHANGED <<up, status, content, req, budgets>>

\* Mutant: an upsert, which brings a deleted row back.
SetStatusUpsert(d, s) == status' = [status EXCEPT ![d] = s]

\* UPDATE ... WHERE id: unconditional, and a no-op when the row is gone.
SetStatus(d, s) == status' = [status EXCEPT ![d] = IF Live(d) THEN s ELSE @]

\* Mutant: the row is marked ready before its chunks are stored.
JobMarkReadyEarly(r) ==
  /\ Step(r, "flip", "done") \/ Step(r, "store", "done")
  /\ ~RowLocked(job[r].doc)
  /\ SetStatus(job[r].doc, "ready")
  /\ UNCHANGED <<up, content, chunks, req, budgets>>

JobMarkReady(r) ==
  /\ Step(r, "flip", "done")
  /\ ~RowLocked(job[r].doc)
  /\ SetStatus(job[r].doc, "ready")
  /\ UNCHANGED <<up, content, chunks, req, budgets>>

\* Mutant: the failure handler logs and leaves the row alone.
JobMarkFailedLogOnly(r) ==
  /\ Step(r, "fail", "done")
  /\ UNCHANGED <<up, table, req, budgets>>

JobMarkFailed(r) ==
  /\ Step(r, "fail", "done")
  /\ ~RowLocked(job[r].doc)
  /\ SetStatus(job[r].doc, "failed")
  /\ UNCHANGED <<up, content, chunks, req, budgets>>

\* A refused INSERT or ready flip goes to the handler; a refused MARK_FAILED
\* has no handler left and strands the row in 'processing'.
JobDbFault(r) ==
  \/ DbFault(r, "store", "fail")
  \/ DbFault(r, "flip", "fail")
  \/ DbFault(r, "fail", "stranded")

-----------------------------------------------------------------------------
(* The rest of the system.                                                 *)

\* DELETE FROM documents; the chunks go by ON DELETE CASCADE.
DeleteDocument(d) ==
  /\ up /\ Live(d) /\ ~RowLocked(d)
  /\ status' = [status EXCEPT ![d] = "deleted"]
  /\ chunks' = chunks \ {d}
  /\ UNCHANGED <<up, content, req, job, budgets>>

\* The process dies: no answer, no task, no open transaction survives.
Crash ==
  /\ up /\ crashes < MaxCrashes
  /\ up' = FALSE /\ crashes' = crashes + 1
  /\ req' = [r \in Requests |->
               IF req[r].pc \in Working THEN [req[r] EXCEPT !.pc = "lost"] ELSE req[r]]
  /\ job' = [r \in Requests |->
               IF job[r].pc \in Running THEN [job[r] EXCEPT !.pc = "killed"] ELSE job[r]]
  /\ UNCHANGED <<table, dbFaults, commitFaults>>

\* Mutant: no sweep at boot.
BootNoSweep ==
  /\ ~up
  /\ up' = TRUE
  /\ UNCHANGED <<table, req, job, budgets>>

\* The lifespan sweeps before it serves the first request.
Boot ==
  /\ ~up
  /\ up' = TRUE
  /\ status' = [d \in Docs |-> IF status[d] = "processing" THEN "failed" ELSE status[d]]
  /\ UNCHANGED <<content, chunks, req, job, budgets>>

Upload(r) ==
  \/ \E c \in Content : UploadSelect(r, c)
  \/ UploadCheckVisible(r) \/ UploadReclaim(r) \/ UploadCommitReclaim(r)
  \/ UploadInsert(r) \/ UploadCommitInsert(r) \/ UploadSchedule(r)

Process(r) ==
  \/ JobExtract(r) \/ JobTakeSlot(r) \/ JobEmbed(r) \/ JobStore(r)
  \/ JobMarkReady(r) \/ JobMarkFailed(r)

Next ==
  \/ \E r \in Requests : Upload(r) \/ UploadCommitFails(r)
  \/ \E r \in Requests : Process(r) \/ JobDbFault(r)
  \/ \E d \in Docs : DeleteDocument(d)
  \/ Crash \/ Boot

Spec == Init /\ [][Next]_vars

\* The event loop runs every runnable coroutine and the database answers every
\* statement; an operator restarts a process that died.  Nothing obliges a
\* client to upload, a user to delete or a process to crash.
Fairness ==
  /\ WF_vars(Boot)
  /\ \A r \in Requests :
       /\ WF_vars(Upload(r) /\ req[r].pc \in Working)
       /\ WF_vars(Process(r))

FairSpec == Spec /\ Fairness

-----------------------------------------------------------------------------
(* Properties.                                                             *)

TypeOK ==
  /\ up \in BOOLEAN
  /\ status \in [Docs -> Status]
  /\ content \in [Docs -> Content \cup {NoContent}]
  /\ chunks \subseteq Docs
  /\ req \in [Requests -> RequestRecord]
  /\ job \in [Requests -> JobRecord]
  /\ crashes \in Nat /\ dbFaults \in Nat /\ commitFaults \in Nat

\* Request r is responsible for finishing document d: its task runs, or the
\* request has committed the row and is about to create the task.
WorksOn(r, d) ==
  \/ job[r].pc \in Running /\ job[r].doc = d
  \/ req[r].pc = "committed" /\ req[r].doc = d

\* Dedupe on the digest: two live documents never hold the same content,
\* however uploads, failures, deletions and restarts interleave.
UniqueContent ==
  \A d, e \in Docs : Live(d) /\ Live(e) /\ content[d] = content[e] => d = e

\* "The status guard makes two concurrent re-uploads schedule the processing
\* once": a document that exists is worked on by at most one task.
OneWorkerPerDocument ==
  \A d \in Docs, q, r \in Requests :
    Live(d) /\ WorksOn(q, d) /\ WorksOn(r, d) => q = r

\* While the process serves, a row says 'processing' only when some request
\* will finish it, or its failure handler itself was refused by the database.
ProcessingHasWorker ==
  \A d \in Docs :
    up /\ status[d] = "processing" =>
      \E r \in Requests : WorksOn(r, d) \/ (job[r].pc = "stranded" /\ job[r].doc = d)

\* The purge of a reclaimed document: a rerun never meets chunks of an
\* earlier run when it stores its own.
RerunStartsClean ==
  \A r \in Requests :
    job[r].pc = "store" /\ ~PurgePending(job[r].doc) => job[r].doc \notin chunks

\* What retrieval can return (it filters on status = 'ready') is complete: all
\* the chunks of the document are there, and no task will still change it.
Complete(d) == d \in chunks \/ content[d] \in Blank

ReadyIsComplete ==
  \A d \in Docs :
    status[d] = "ready" => Complete(d) /\ \A r \in Requests : ~WorksOn(r, d)

\* Ingestion implements the catalog it promises (module DocumentCatalog).
Catalog == INSTANCE DocumentCatalog
             WITH state <- status, body <- content,
                  searchable <- {d \in Docs : status[d] = "ready" /\ Complete(d)}
CatalogSpec == Catalog!Spec

\* No document stays in 'processing': a task, its failure handler or the sweep
\* of the next boot moves it on.
ProcessingResolves ==
  \A d \in Docs : status[d] = "processing" ~> status[d] # "processing"

\* No upload waits for ever on a row or index lock of another one.
UploadsAnswered ==
  \A r \in Requests : req[r].pc \in Working ~> req[r].pc \in Answers

\* ARCHITECTURE 3.10: identical uploads that race past the dedupe read resolve
\* into an ordinary dedupe hit, hence never into an error.
RacedUploadsDedupe == \A r \in Requests : req[r].pc # "error"
-----------------------------------------------------------------------------
(* The inductive invariant behind the safety properties: what the open     *)
(* transactions and the tasks in flight know of the tables.                *)

\* Nothing runs in a dead process; a request has no task before it schedules
\* one; whatever runs names a document that has had a row.
ProgressInv ==
  \A r \in Requests :
    /\ ~up => req[r].pc \notin Working /\ job[r].pc \notin Running
    /\ req[r].pc \in {"new", "check", "checkFailed", "reclaim", "insert", "inserted", "committed"}
         => job[r].pc = "none"
    /\ req[r].pc \in {"check", "checkFailed", "reclaim", "reclaimed", "purged", "committed"}
         => req[r].doc \in Docs /\ status[req[r].doc] # "absent"
    /\ job[r].pc \in Running => job[r].doc \in Docs /\ status[job[r].doc] # "absent"
    /\ req[r].pc \in {"insert", "inserted"} => req[r].content \in Content

\* An uncommitted reclaim holds a failed row, alone, and has already started
\* its task.
ReclaimInv ==
  \A r \in Requests :
    req[r].pc \in Reclaiming =>
      /\ status[req[r].doc] = "failed"
      /\ job[r].pc \in Running \cup {"stranded"} /\ job[r].doc = req[r].doc
      /\ req[r].pc = "purged" => req[r].doc \in chunks
      /\ \A q \in Requests :
           req[q].pc \in Reclaiming /\ req[q].doc = req[r].doc => q = r

\* A live document is worked on while 'processing', or by its reclaimer.
WorkerInv ==
  \A d \in Docs, r \in Requests :
    Live(d) /\ WorksOn(r, d) =>
      status[d] = "processing" \/ (req[r].pc \in Reclaiming /\ req[r].doc = d)

\* An uncommitted row is the only claim on its digest.
DigestInv ==
  \A r \in Requests :
    req[r].pc = "inserted" =>
      /\ RowsOf(req[r].content) = {}
      /\ \A q \in Requests :
           req[q].pc = "inserted" /\ req[q].content = req[r].content => q = r

\* Chunks belong to live rows of content that has any; before its INSERT a
\* task's document has only chunks that are being purged, after it all of them.
ChunksInv ==
  /\ \A d \in chunks : Live(d) /\ content[d] \notin Blank
  /\ \A r \in Requests :
       /\ job[r].pc \in {"extract", "queued", "embed", "store"} /\ job[r].doc \in chunks
            => PurgePending(job[r].doc)
       /\ job[r].pc = "flip" /\ Live(job[r].doc)
            => Complete(job[r].doc) /\ ~PurgePending(job[r].doc)
       /\ req[r].pc = "committed" => req[r].doc \notin chunks

IngestionInv ==
  /\ TypeOK
  /\ ProgressInv
  /\ ReclaimInv
  /\ WorkerInv
  /\ OneWorkerPerDocument
  /\ UniqueContent
  /\ DigestInv
  /\ ChunksInv
  /\ ReadyIsComplete
  /\ ProcessingHasWorker
=============================================================================
