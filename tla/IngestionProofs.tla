--------------------------- MODULE IngestionProofs ---------------------------
(***************************************************************************)
(* Theorems about Ingestion, for every number of documents, contents,      *)
(* requests, slots, crashes and database faults.  Those that depend on the *)
(* order of create_task and COMMIT assume MaxCommitFaults = 0.             *)
(***************************************************************************)
EXTENDS Ingestion, TLAPS

(* Types.                                                                  *)

LEMMA RequestPCs ==
  /\ {"new", "check", "checkFailed", "reclaim", "reclaimed", "purged", "insert",
      "inserted", "committed", "accepted", "deduplicated", "conflict", "error",
      "lost"} = RequestPC
  /\ {"none", "extract", "queued", "embed", "store", "flip", "fail", "done",
      "stranded", "killed"} = JobPC
BY DEF RequestPC, JobPC, Working, Answers, Running, Ended

LEMMA GoToType ==
  ASSUME TypeOK, NEW r \in Requests, NEW p \in RequestPC, GoTo(r, p)
  PROVE  req' \in [Requests -> RequestRecord]
BY DEF TypeOK, GoTo, RequestRecord

LEMMA StartJobType ==
  ASSUME TypeOK, NEW r \in Requests, NEW d \in Docs \cup {NoDoc}, StartJob(r, d)
  PROVE  job' \in [Requests -> JobRecord]
BY RequestPCs DEF TypeOK, StartJob, JobRecord

LEMMA StepType ==
  ASSUME TypeOK, NEW r \in Requests, NEW p, NEW q \in JobPC, Step(r, p, q)
  PROVE  job' \in [Requests -> JobRecord]
BY DEF TypeOK, Step, JobRecord

LEMMA SetStatusType ==
  ASSUME TypeOK, NEW d, NEW s \in {"ready", "failed"}, SetStatus(d, s)
  PROVE  status' \in [Docs -> Status]
BY DEF TypeOK, SetStatus, Status

LEMMA UploadType ==
  ASSUME TypeOK, NEW r \in Requests, Upload(r) \/ UploadCommitFails(r)
  PROVE  TypeOK'
<1> USE RequestPCs DEF table, budgets
<1>1. ASSUME NEW c \in Content, UploadSelect(r, c) PROVE TypeOK'
  <2>1. req' \in [Requests -> RequestRecord]
    <3> req \in [Requests -> RequestRecord]
      BY DEF TypeOK
    <3>1. CASE req' = [req EXCEPT ![r].pc = "insert", ![r].content = c]
      BY <3>1 DEF RequestRecord
    <3>2. ASSUME NEW d \in Docs, NEW p \in {"check", "checkFailed"},
                 req' = [req EXCEPT ![r].content = c, ![r].doc = d, ![r].pc = p]
          PROVE  req' \in [Requests -> RequestRecord]
      <4>1. p \in RequestPC
        BY <3>2
      <4> HIDE RequestPCs
      <4> QED
        BY <3>2, <4>1 DEF RequestRecord
    <3>3. ASSUME NEW d \in RowsOf(c),
                 req' = [req EXCEPT ![r].content = c, ![r].doc = d,
                           ![r].pc = IF status[d] = "failed" THEN "checkFailed" ELSE "check"]
          PROVE  req' \in [Requests -> RequestRecord]
      <4>1. CASE status[d] = "failed"
        BY <3>2, <3>3, <4>1 DEF RowsOf
      <4>2. CASE status[d] # "failed"
        BY <3>2, <3>3, <4>2 DEF RowsOf
      <4> QED
        BY <4>1, <4>2
    <3> QED
      BY <1>1, <3>1, <3>3 DEF UploadSelect
  <2> QED
    BY <1>1, <2>1 DEF UploadSelect, TypeOK
<1>2. CASE UploadCheckVisible(r)
  BY <1>2, GoToType DEF UploadCheckVisible, TypeOK
<1>3. CASE UploadReclaim(r)
  <2>1. req[r].doc \in Docs \cup {NoDoc}
    BY DEF TypeOK, RequestRecord
  <2>2. req' \in [Requests -> RequestRecord]
    BY <1>3, GoToType DEF UploadReclaim
  <2>3. job' \in [Requests -> JobRecord]
    BY <1>3, <2>1, StartJobType DEF UploadReclaim, TypeOK
  <2> QED
    BY <1>3, <2>2, <2>3 DEF UploadReclaim, TypeOK
<1>4. CASE UploadCommitReclaim(r)
  <2>1. req' \in [Requests -> RequestRecord]
    BY <1>4, GoToType DEF UploadCommitReclaim
  <2>2. status' \in [Docs -> Status]
    BY <1>4 DEF UploadCommitReclaim, TypeOK, Status
  <2> QED
    BY <1>4, <2>1, <2>2 DEF UploadCommitReclaim, TypeOK
<1>5. CASE UploadInsert(r)
  BY <1>5, GoToType DEF UploadInsert, TypeOK
<1>6. CASE UploadCommitInsert(r)
  <2> DEFINE d == CHOOSE e \in UnusedDocs : TRUE
  <2>1. d \in Docs
    BY <1>6 DEF UploadCommitInsert, UnusedDocs
  <2> HIDE DEF d
  <2>2. /\ status' = [status EXCEPT ![d] = "processing"]
        /\ content' = [content EXCEPT ![d] = req[r].content]
        /\ req' = [req EXCEPT ![r].pc = "committed", ![r].doc = d]
        /\ UNCHANGED <<up, chunks, job, crashes, dbFaults, commitFaults>>
    BY <1>6 DEF UploadCommitInsert, d
  <2>3. req' \in [Requests -> RequestRecord]
    <3>1. "committed" \in RequestPC /\ req \in [Requests -> RequestRecord]
      BY DEF TypeOK
    <3> HIDE RequestPCs
    <3> QED
      BY <2>1, <2>2, <3>1 DEF RequestRecord
  <2>4. status' \in [Docs -> Status] /\ content' \in [Docs -> Content \cup {NoContent}]
    BY <2>1, <2>2 DEF TypeOK, RequestRecord, Status
  <2> QED
    BY <2>2, <2>3, <2>4 DEF TypeOK
<1>7. CASE UploadSchedule(r)
  <2>1. req[r].doc \in Docs \cup {NoDoc}
    BY DEF TypeOK, RequestRecord
  <2> QED
    BY <1>7, <2>1, GoToType, StartJobType DEF UploadSchedule, TypeOK
<1>8. CASE UploadCommitFails(r)
  BY <1>8, GoToType DEF UploadCommitFails, TypeOK
<1> QED
  BY <1>1, <1>2, <1>3, <1>4, <1>5, <1>6, <1>7, <1>8 DEF Upload

LEMMA JobType ==
  ASSUME TypeOK, NEW r \in Requests, Process(r) \/ JobDbFault(r)
  PROVE  TypeOK'
<1> USE RequestPCs DEF table, budgets
<1>1. CASE JobExtract(r)
  BY <1>1, StepType DEF JobExtract, TypeOK
<1>2. CASE JobTakeSlot(r)
  BY <1>2, StepType DEF JobTakeSlot, TypeOK
<1>3. CASE JobEmbed(r)
  BY <1>3, StepType DEF JobEmbed, TypeOK
<1>4. CASE JobStore(r)
  <2>1. job' \in [Requests -> JobRecord]
    BY <1>4, StepType DEF JobStore
  <2>2. chunks' \subseteq Docs
    BY <1>4 DEF JobStore, TypeOK, Live
  <2> QED
    BY <1>4, <2>1, <2>2 DEF JobStore, TypeOK
<1>5. CASE JobMarkReady(r)
  BY <1>5, StepType, SetStatusType DEF JobMarkReady, TypeOK
<1>6. CASE JobMarkFailed(r)
  BY <1>6, StepType, SetStatusType DEF JobMarkFailed, TypeOK
<1>7. CASE JobDbFault(r)
  <2>1. job' \in [Requests -> JobRecord]
    BY <1>7, StepType DEF JobDbFault, DbFault
  <2> QED
    BY <1>7, <2>1 DEF JobDbFault, DbFault, TypeOK
<1> QED
  BY <1>1, <1>2, <1>3, <1>4, <1>5, <1>6, <1>7 DEF Process

LEMMA TypeStep == TypeOK /\ [Next]_vars => TypeOK'
<1> SUFFICES ASSUME TypeOK, [Next]_vars PROVE TypeOK'
  OBVIOUS
<1> USE DEF table, budgets
<1>1. ASSUME NEW d \in Docs, DeleteDocument(d) PROVE TypeOK'
  BY <1>1 DEF DeleteDocument, TypeOK, Status
<1>2. CASE Crash
  <2>1. req' \in [Requests -> RequestRecord]
    BY <1>2, RequestPCs DEF Crash, TypeOK, RequestRecord
  <2>2. job' \in [Requests -> JobRecord]
    <3>1. ASSUME NEW q \in Requests PROVE job'[q] \in JobRecord
      <4>1. job[q] \in JobRecord /\ "killed" \in JobPC
        BY RequestPCs DEF TypeOK
      <4>2. job'[q] = IF job[q].pc \in Running THEN [job[q] EXCEPT !.pc = "killed"] ELSE job[q]
        BY <1>2 DEF Crash
      <4> QED
        BY <4>1, <4>2 DEF JobRecord
    <3>2. job' = [q \in Requests |-> job'[q]]
      BY <1>2 DEF Crash
    <3> QED
      BY <3>1, <3>2
  <2>3. UNCHANGED <<status, content, chunks, dbFaults, commitFaults>> /\ up' = FALSE
    BY <1>2 DEF Crash
  <2>4. crashes' \in Nat
    BY <1>2 DEF Crash, TypeOK
  <2> QED
    BY <2>1, <2>2, <2>3, <2>4 DEF TypeOK
<1>3. CASE Boot
  BY <1>3 DEF Boot, TypeOK, Status
<1>4. CASE UNCHANGED vars
  BY <1>4 DEF vars, TypeOK
<1> QED
  BY <1>1, <1>2, <1>3, <1>4, UploadType, JobType DEF Next

\* Every variable keeps its type.
THEOREM TypeCorrect == Spec => []TypeOK
<1>1. Init => TypeOK
  BY RequestPCs DEF Init, TypeOK, RequestRecord, JobRecord, Status
<1> QED
  BY <1>1, TypeStep, PTL DEF Spec

-----------------------------------------------------------------------------
(* The inductive invariant.  Lemmas on what one step leaves unchanged come *)
(* first: they say pointwise what the EXCEPTs of the actions do.           *)

LEMMA GoToFrame ==
  ASSUME TypeOK, NEW r \in Requests, NEW p, GoTo(r, p)
  PROVE  /\ req'[r].pc = p
         /\ req'[r].doc = req[r].doc /\ req'[r].content = req[r].content
         /\ \A q \in Requests : q # r => req'[q] = req[q]
BY DEF TypeOK, RequestRecord, GoTo

LEMMA StartJobFrame ==
  ASSUME TypeOK, NEW r \in Requests, NEW d, StartJob(r, d)
  PROVE  /\ job'[r].pc = "extract" /\ job'[r].doc = d
         /\ \A q \in Requests : q # r => job'[q] = job[q]
BY DEF TypeOK, JobRecord, StartJob

LEMMA StepFrame ==
  ASSUME TypeOK, NEW r \in Requests, NEW p, NEW q, Step(r, p, q)
  PROVE  /\ up /\ job[r].pc = p /\ job'[r].pc = q
         /\ job'[r].doc = job[r].doc
         /\ \A s \in Requests : s # r => job'[s] = job[s]
BY DEF TypeOK, JobRecord, Step

\* A step of an upload that neither takes nor releases a lock.
LEMMA QuietUpload ==
  ASSUME IngestionInv, TypeOK', NEW r \in Requests,
         UNCHANGED <<up, status, content, chunks, job>>, up,
         req[r].pc \in {"new", "check", "checkFailed", "reclaim", "insert"},
         req'[r].pc \in {"check", "checkFailed", "reclaim", "insert"} \cup Answers,
         req'[r].pc \in {"check", "checkFailed", "reclaim"} =>
           req'[r].doc \in Docs /\ status[req'[r].doc] # "absent",
         req'[r].pc = "insert" => req'[r].content \in Content,
         \A q \in Requests : q # r => req'[q] = req[q]
  PROVE  IngestionInv'
<1> USE DEF IngestionInv, Live, RowsOf, WorksOn, Complete
<1>1. /\ req[r].pc \notin Reclaiming /\ req'[r].pc \notin Reclaiming
      /\ req[r].pc # "inserted" /\ req'[r].pc # "inserted"
      /\ req[r].pc # "committed" /\ req'[r].pc # "committed"
      /\ req[r].pc # "purged" /\ req'[r].pc # "purged"
      /\ job[r].pc = "none"
  BY DEF Reclaiming, Answers, ProgressInv
<1>2. ProgressInv'
  BY <1>1 DEF ProgressInv, Answers
<1>3. ReclaimInv'
  BY <1>1 DEF ReclaimInv
<1>4. WorkerInv'
  BY <1>1 DEF WorkerInv
<1>5. OneWorkerPerDocument'
  BY <1>1 DEF OneWorkerPerDocument
<1>6. UniqueContent'
  BY DEF UniqueContent
<1>7. DigestInv'
  BY <1>1 DEF DigestInv
<1>8. ChunksInv'
  <2>1. \A d : PurgePending(d)' <=> PurgePending(d)
    BY <1>1 DEF PurgePending
  <2> QED
    BY <1>1, <2>1 DEF ChunksInv
<1>9. ReadyIsComplete'
  BY <1>1 DEF ReadyIsComplete
<1>10. ProcessingHasWorker'
  BY <1>1 DEF ProcessingHasWorker
<1> QED
  BY <1>2, <1>3, <1>4, <1>5, <1>6, <1>7, <1>8, <1>9, <1>10

LEMMA UploadSelectInv ==
  ASSUME IngestionInv, TypeOK', NEW r \in Requests, NEW c \in Content, UploadSelect(r, c)
  PROVE  IngestionInv'
<1>1. UNCHANGED <<up, status, content, chunks, job>> /\ up /\ req[r].pc = "new"
  BY DEF UploadSelect, table
<1>2. CASE req' = [req EXCEPT ![r].pc = "insert", ![r].content = c]
  <2>1. req'[r].pc = "insert" /\ req'[r].content = c /\ \A q \in Requests : q # r => req'[q] = req[q]
    BY <1>2 DEF IngestionInv, TypeOK, RequestRecord
  <2> QED
    BY <1>1, <2>1, QuietUpload
<1>3. ASSUME NEW d \in RowsOf(c), NEW p \in {"check", "checkFailed"},
             req' = [req EXCEPT ![r].content = c, ![r].doc = d, ![r].pc = p]
      PROVE  IngestionInv'
  <2>1. /\ req'[r].pc = p /\ req'[r].doc = d
        /\ \A q \in Requests : q # r => req'[q] = req[q]
    BY <1>3 DEF IngestionInv, TypeOK, RequestRecord
  <2>2. d \in Docs /\ status[d] # "absent"
    BY DEF RowsOf, Live
  <2> QED
    BY <1>1, <2>1, <2>2, QuietUpload
<1>4. ASSUME NEW d \in RowsOf(c),
             req' = [req EXCEPT ![r].content = c, ![r].doc = d,
                       ![r].pc = IF status[d] = "failed" THEN "checkFailed" ELSE "check"]
      PROVE  IngestionInv'
  <2>1. CASE status[d] = "failed"
    BY <1>3, <1>4, <2>1
  <2>2. CASE status[d] # "failed"
    BY <1>3, <1>4, <2>2
  <2> QED
    BY <2>1, <2>2
<1> QED
  BY <1>2, <1>4 DEF UploadSelect

LEMMA UploadCheckVisibleInv ==
  ASSUME IngestionInv, TypeOK', NEW r \in Requests, UploadCheckVisible(r)
  PROVE  IngestionInv'
<1>1. UNCHANGED <<up, status, content, chunks, job>> /\ up
      /\ req[r].pc \in {"check", "checkFailed"}
  BY DEF UploadCheckVisible, table
<1>2. PICK p \in {"conflict", "deduplicated", "reclaim"} : GoTo(r, p)
  BY DEF UploadCheckVisible
<1>3. /\ req'[r].pc = p /\ req'[r].doc = req[r].doc
      /\ \A q \in Requests : q # r => req'[q] = req[q]
  BY <1>2, GoToFrame DEF IngestionInv
<1>4. req[r].doc \in Docs /\ status[req[r].doc] # "absent"
  BY <1>1 DEF IngestionInv, ProgressInv
<1> QED
  BY <1>1, <1>2, <1>3, <1>4, QuietUpload DEF Answers

\* Taking the row lock of a failed document nobody works on.
LEMMA UploadReclaimInv ==
  ASSUME IngestionInv, TypeOK', NEW r \in Requests, UploadReclaim(r)
  PROVE  IngestionInv'
<1> DEFINE d == req[r].doc
<1> USE DEF IngestionInv, Live, RowsOf, WorksOn, Complete
<1>1. /\ UNCHANGED <<up, status, content, chunks>> /\ up /\ req[r].pc = "reclaim"
      /\ ~RowLocked(d)
  BY DEF UploadReclaim, table
<1>2. d \in Docs /\ status[d] # "absent" /\ job[r].pc = "none"
  BY <1>1 DEF ProgressInv
<1>3. CASE GoTo(r, "deduplicated") /\ UNCHANGED job
  BY <1>1, <1>3, GoToFrame, QuietUpload DEF Answers
<1>4. CASE /\ status[d] = "failed" /\ StartJob(r, d)
           /\ GoTo(r, IF d \in chunks THEN "purged" ELSE "reclaimed")
  <2> HIDE DEF d
  <2>1. /\ req'[r].pc = IF d \in chunks THEN "purged" ELSE "reclaimed"
        /\ req'[r].doc = d /\ req'[r].content = req[r].content
        /\ \A q \in Requests : q # r => req'[q] = req[q]
    BY <1>4, GoToFrame DEF d
  <2>2. /\ job'[r].pc = "extract" /\ job'[r].doc = d
        /\ \A q \in Requests : q # r => job'[q] = job[q]
    BY <1>4, StartJobFrame
  <2>3. req'[r].pc \in Reclaiming /\ req[r].pc \notin Reclaiming /\ "extract" \in Running
    BY <1>1, <2>1 DEF Reclaiming, Running
  <2>4. \A q \in Requests : ~WorksOn(q, d)
    BY <1>1, <1>2, <1>4 DEF WorkerInv, RowLocked
  <2>5. ProgressInv'
    BY <1>1, <1>2, <2>1, <2>2 DEF ProgressInv
  <2>6. ReclaimInv'
    <3>1. \A q \in Requests : req[q].pc \in Reclaiming => req[q].doc # d
      BY <1>1 DEF RowLocked
    <3>2. ASSUME NEW q \in Requests, q # r, req'[q].pc \in Reclaiming
          PROVE  /\ status'[req'[q].doc] = "failed"
                 /\ job'[q].pc \in Running \cup {"stranded"} /\ job'[q].doc = req'[q].doc
                 /\ req'[q].pc = "purged" => req'[q].doc \in chunks'
                 /\ \A s \in Requests :
                      req'[s].pc \in Reclaiming /\ req'[s].doc = req'[q].doc => s = q
      BY <1>1, <2>1, <2>2, <3>1, <3>2 DEF ReclaimInv
    <3>3. /\ status'[req'[r].doc] = "failed"
          /\ job'[r].pc \in Running \cup {"stranded"} /\ job'[r].doc = req'[r].doc
          /\ req'[r].pc = "purged" => req'[r].doc \in chunks'
      BY <1>1, <1>4, <2>1, <2>2, <2>3
    <3>4. \A s \in Requests :
            req'[s].pc \in Reclaiming /\ req'[s].doc = req'[r].doc => s = r
      BY <2>1, <3>1
    <3> QED
      BY <3>2, <3>3, <3>4 DEF ReclaimInv
  <2>7. WorkerInv'
    BY <1>1, <2>1, <2>2, <2>3 DEF WorkerInv
  <2>8. OneWorkerPerDocument'
    BY <1>1, <2>1, <2>2, <2>4 DEF OneWorkerPerDocument
  <2>9. UniqueContent'
    BY <1>1 DEF UniqueContent
  <2>10. DigestInv'
    BY <1>1, <2>1 DEF DigestInv
  <2>11. ChunksInv'
    <3>1. \A e : PurgePending(e)' <=> PurgePending(e) \/ (e = d /\ d \in chunks)
      BY <1>1, <2>1 DEF PurgePending
    <3>2. \A q \in Requests : job[q].pc = "flip" => job[q].doc # d
      BY <2>4 DEF Running
    <3> QED
      BY <1>1, <2>1, <2>2, <2>3, <3>1, <3>2 DEF ChunksInv, Reclaiming
  <2>12. ReadyIsComplete'
    BY <1>1, <1>4, <2>1, <2>2 DEF ReadyIsComplete
  <2>13. ProcessingHasWorker'
    BY <1>1, <1>2, <2>1, <2>2 DEF ProcessingHasWorker, Running
  <2> QED
    BY <2>5, <2>6, <2>7, <2>8, <2>9, <2>10, <2>11, <2>12, <2>13
<1> QED
  BY <1>3, <1>4 DEF UploadReclaim

LEMMA UploadCommitReclaimInv ==
  ASSUME IngestionInv, TypeOK', NEW r \in Requests, UploadCommitReclaim(r)
  PROVE  IngestionInv'
<1> DEFINE d == req[r].doc
<1> USE DEF IngestionInv, WorksOn, Complete
<1>1. /\ UNCHANGED <<up, content, job>> /\ up
      /\ req[r].pc \in Reclaiming /\ GoTo(r, "accepted")
      /\ chunks' = IF req[r].pc = "purged" THEN chunks \ {d} ELSE chunks
      /\ status' = [status EXCEPT ![d] = "processing"]
  BY DEF UploadCommitReclaim, budgets
<1>2. /\ d \in Docs /\ status[d] = "failed"
      /\ job[r].pc \in Running \cup {"stranded"} /\ job[r].doc = d
      /\ req[r].pc = "purged" => d \in chunks
  BY <1>1 DEF ProgressInv, ReclaimInv, Reclaiming
<1>3. /\ req'[r].pc = "accepted" /\ req'[r].pc \notin Reclaiming
      /\ \A q \in Requests : q # r => req'[q] = req[q]
  BY <1>1, GoToFrame DEF Reclaiming
<1>4. \A e \in Docs : status'[e] = IF e = d THEN "processing" ELSE status[e]
  BY <1>1, <1>2 DEF TypeOK
<1>5. \A e : Live(e)' <=> Live(e)
  BY <1>2, <1>4 DEF Live
<1> HIDE DEF d
<1>6. \A q \in Requests : q # r => ~(req[q].pc \in Reclaiming /\ req[q].doc = d)
  BY <1>1 DEF ReclaimInv, d
<1>7. \A q \in Requests, e \in Docs : WorksOn(q, e)' <=> WorksOn(q, e)
  BY <1>1, <1>3 DEF Reclaiming
<1>8. ProgressInv'
  BY <1>1, <1>3, <1>4 DEF ProgressInv, Working
<1>9. ReclaimInv'
  <2> SUFFICES ASSUME NEW q \in Requests, req'[q].pc \in Reclaiming
               PROVE  /\ status'[req'[q].doc] = "failed"
                      /\ job'[q].pc \in Running \cup {"stranded"} /\ job'[q].doc = req'[q].doc
                      /\ req'[q].pc = "purged" => req'[q].doc \in chunks'
                      /\ \A s \in Requests :
                           req'[s].pc \in Reclaiming /\ req'[s].doc = req'[q].doc => s = q
    BY DEF ReclaimInv
  <2>1. q # r /\ req'[q] = req[q] /\ req[q].doc # d
    BY <1>3, <1>6
  <2>2. req[q].doc \in Docs
    BY <2>1 DEF ProgressInv, Reclaiming
  <2> QED
    BY <1>1, <1>3, <1>4, <2>1, <2>2 DEF ReclaimInv
<1>10. WorkerInv'
  <2> SUFFICES ASSUME NEW e \in Docs, NEW q \in Requests, Live(e), WorksOn(q, e)
               PROVE  \/ status'[e] = "processing"
                      \/ req'[q].pc \in Reclaiming /\ req'[q].doc = e
    BY <1>5, <1>7 DEF WorkerInv
  <2>1. status[e] = "processing" \/ (req[q].pc \in Reclaiming /\ req[q].doc = e)
    BY DEF WorkerInv
  <2> QED
    BY <1>3, <1>4, <2>1 DEF d
<1>11. OneWorkerPerDocument'
  BY <1>5, <1>7 DEF OneWorkerPerDocument
<1>12. UniqueContent'
  BY <1>1, <1>5 DEF UniqueContent
<1>13. DigestInv'
  BY <1>1, <1>3, <1>5 DEF DigestInv, RowsOf, Reclaiming
<1>14. ChunksInv'
  <2>1. \A e : PurgePending(e)' <=> PurgePending(e) /\ e # d
    BY <1>1, <1>3, <1>6 DEF PurgePending, Reclaiming, d
  <2>2. req[r].pc = "reclaimed" => ~PurgePending(d)
    BY <1>1, <1>6 DEF PurgePending, Reclaiming
  <2>3. req[r].pc = "purged" => PurgePending(d)
    BY DEF PurgePending, d
  <2>4. req[r].pc \in {"reclaimed", "purged"}
    BY <1>1 DEF Reclaiming
  <2> QED
    BY <1>1, <1>2, <1>3, <1>5, <2>1, <2>2, <2>3, <2>4 DEF ChunksInv
<1>15. ReadyIsComplete'
  BY <1>1, <1>4, <1>7 DEF ReadyIsComplete
<1>16. ProcessingHasWorker'
  BY <1>1, <1>2, <1>4, <1>7 DEF ProcessingHasWorker
<1> QED
  BY <1>8, <1>9, <1>10, <1>11, <1>12, <1>13, <1>14, <1>15, <1>16

LEMMA UploadInsertInv ==
  ASSUME IngestionInv, TypeOK', NEW r \in Requests, UploadInsert(r)
  PROVE  IngestionInv'
<1> USE DEF IngestionInv, Live, WorksOn, Complete
<1>1. /\ UNCHANGED <<up, status, content, chunks, job>> /\ up
      /\ req[r].pc = "insert" /\ ~ShaLocked(req[r].content)
  BY DEF UploadInsert, table
<1>2. CASE GoTo(r, "error")
  BY <1>1, <1>2, GoToFrame, QuietUpload DEF Answers
<1>3. CASE GoTo(r, "inserted") /\ RowsOf(req[r].content) = {}
  <2>1. /\ req'[r].pc = "inserted" /\ req'[r].content = req[r].content
        /\ \A q \in Requests : q # r => req'[q] = req[q]
    BY <1>3, GoToFrame
  <2>2. req[r].pc \notin Reclaiming /\ req'[r].pc \notin Reclaiming
    BY <1>1, <2>1 DEF Reclaiming
  <2>3. ProgressInv'
    BY <1>1, <2>1 DEF ProgressInv, Working
  <2>4. ReclaimInv'
    BY <1>1, <2>1, <2>2 DEF ReclaimInv
  <2>5. WorkerInv'
    BY <1>1, <2>1, <2>2 DEF WorkerInv
  <2>6. OneWorkerPerDocument'
    BY <1>1, <2>1 DEF OneWorkerPerDocument
  <2>7. UniqueContent'
    BY <1>1 DEF UniqueContent
  <2>8. DigestInv'
    BY <1>1, <1>3, <2>1 DEF DigestInv, RowsOf, ShaLocked
  <2>9. ChunksInv'
    <3>1. \A d : PurgePending(d)' <=> PurgePending(d)
      BY <1>1, <2>1 DEF PurgePending
    <3> QED
      BY <1>1, <2>1, <3>1 DEF ChunksInv
  <2>10. ReadyIsComplete'
    BY <1>1, <2>1 DEF ReadyIsComplete
  <2>11. ProcessingHasWorker'
    BY <1>1, <2>1 DEF ProcessingHasWorker
  <2> QED
    BY <2>3, <2>4, <2>5, <2>6, <2>7, <2>8, <2>9, <2>10, <2>11
<1> QED
  BY <1>2, <1>3 DEF UploadInsert

\* The COMMIT of a new row: its id was never used, its digest is nobody's.
LEMMA UploadCommitInsertFrame ==
  ASSUME IngestionInv, NEW r \in Requests, UploadCommitInsert(r)
  PROVE  \E d \in Docs :
           /\ status[d] = "absent"
           /\ status' = [status EXCEPT ![d] = "processing"]
           /\ content' = [content EXCEPT ![d] = req[r].content]
           /\ req'[r].pc = "committed" /\ req'[r].doc = d
           /\ \A q \in Requests : q # r => req'[q] = req[q]
           /\ UNCHANGED <<up, chunks, job>>
           /\ up /\ req[r].pc = "inserted"
<1> DEFINE d == CHOOSE e \in UnusedDocs : TRUE
<1>1. d \in Docs /\ status[d] = "absent"
  BY DEF UploadCommitInsert, UnusedDocs
<1> HIDE DEF d
<1>2. /\ status' = [status EXCEPT ![d] = "processing"]
      /\ content' = [content EXCEPT ![d] = req[r].content]
      /\ req' = [req EXCEPT ![r].pc = "committed", ![r].doc = d]
      /\ UNCHANGED <<up, chunks, job>> /\ up /\ req[r].pc = "inserted"
  BY DEF UploadCommitInsert, budgets, d
<1>3. /\ req'[r].pc = "committed" /\ req'[r].doc = d
      /\ \A q \in Requests : q # r => req'[q] = req[q]
  BY <1>2 DEF IngestionInv, TypeOK, RequestRecord
<1> QED
  BY <1>1, <1>2, <1>3

LEMMA UploadCommitInsertInv ==
  ASSUME IngestionInv, TypeOK', NEW r \in Requests, UploadCommitInsert(r)
  PROVE  IngestionInv'
<1>1. PICK d \in Docs :
        /\ status[d] = "absent"
        /\ status' = [status EXCEPT ![d] = "processing"]
        /\ content' = [content EXCEPT ![d] = req[r].content]
        /\ req'[r].pc = "committed" /\ req'[r].doc = d
        /\ \A q \in Requests : q # r => req'[q] = req[q]
        /\ UNCHANGED <<up, chunks, job>>
        /\ up /\ req[r].pc = "inserted"
  BY UploadCommitInsertFrame
<1> USE DEF IngestionInv, Complete
<1>2. \A e \in Docs : /\ status'[e] = IF e = d THEN "processing" ELSE status[e]
                      /\ content'[e] = IF e = d THEN req[r].content ELSE content[e]
  BY <1>1 DEF TypeOK
<1>3. ~Live(d) /\ Live(d)' /\ \A e : e # d => (Live(e)' <=> Live(e))
  BY <1>1, <1>2 DEF Live
<1>4. req[r].pc \notin Reclaiming /\ req'[r].pc \notin Reclaiming /\ job[r].pc = "none"
  BY <1>1 DEF Reclaiming, ProgressInv
<1>5. /\ \A q \in Requests : ~WorksOn(q, d)
      /\ \A q \in Requests, e \in Docs : WorksOn(q, e)' <=> WorksOn(q, e) \/ (q = r /\ e = d)
  BY <1>1, <1>4 DEF WorksOn, ProgressInv, Running
<1>6. d \notin chunks /\ \A e : PurgePending(e)' <=> PurgePending(e)
  BY <1>1, <1>3 DEF ChunksInv, PurgePending
<1>7. ProgressInv'
  BY <1>1, <1>2, <1>4 DEF ProgressInv
<1>8. ReclaimInv'
  <2>1. \A q \in Requests : req[q].pc \in Reclaiming => req[q].doc \in Docs /\ req[q].doc # d
    BY <1>1 DEF ProgressInv, Reclaiming
  <2> QED
    BY <1>1, <1>2, <1>4, <2>1 DEF ReclaimInv
<1>9. WorkerInv'
  BY <1>1, <1>2, <1>3, <1>4, <1>5 DEF WorkerInv
<1>10. OneWorkerPerDocument'
  BY <1>3, <1>5 DEF OneWorkerPerDocument
<1>11. UniqueContent' /\ DigestInv'
  BY <1>1, <1>2, <1>3 DEF UniqueContent, DigestInv, RowsOf
<1>12. ChunksInv'
  <2>1. \A q \in Requests : job[q].pc \in Running => job[q].doc \in Docs /\ job[q].doc # d
    BY <1>1 DEF ProgressInv
  <2> QED
    BY <1>1, <1>2, <1>3, <1>6, <2>1 DEF ChunksInv, Running
<1>13. ReadyIsComplete'
  BY <1>1, <1>2, <1>5 DEF ReadyIsComplete
<1>14. ProcessingHasWorker'
  BY <1>1, <1>2, <1>5 DEF ProcessingHasWorker
<1> QED
  BY <1>7, <1>8, <1>9, <1>10, <1>11, <1>12, <1>13, <1>14

LEMMA UploadScheduleInv ==
  ASSUME IngestionInv, TypeOK', NEW r \in Requests, UploadSchedule(r)
  PROVE  IngestionInv'
<1> DEFINE d == req[r].doc
<1> USE DEF IngestionInv, Complete, Live, RowsOf
<1>1. /\ UNCHANGED <<up, status, content, chunks>> /\ up
      /\ req[r].pc = "committed" /\ GoTo(r, "accepted") /\ StartJob(r, d)
  BY DEF UploadSchedule, table
<1>2. d \in Docs /\ status[d] # "absent" /\ job[r].pc = "none" /\ WorksOn(r, d)
  BY <1>1 DEF ProgressInv, WorksOn
<1> HIDE DEF d
<1>3. /\ req'[r].pc = "accepted"
      /\ \A q \in Requests : q # r => req'[q] = req[q]
      /\ job'[r].pc = "extract" /\ job'[r].doc = d
      /\ \A q \in Requests : q # r => job'[q] = job[q]
  BY <1>1, GoToFrame, StartJobFrame
<1>4. req[r].pc \notin Reclaiming /\ req'[r].pc \notin Reclaiming /\ "extract" \in Running
  BY <1>1, <1>3 DEF Reclaiming, Running
<1>5. \A q \in Requests, e \in Docs : WorksOn(q, e)' <=> WorksOn(q, e)
  BY <1>1, <1>2, <1>3, <1>4 DEF WorksOn, Running, d
<1>6. \A e : PurgePending(e)' <=> PurgePending(e)
  BY <1>1, <1>3 DEF PurgePending
<1>7. ProgressInv'
  BY <1>1, <1>2, <1>3 DEF ProgressInv
<1>8. ReclaimInv'
  BY <1>1, <1>3, <1>4 DEF ReclaimInv
<1>9. WorkerInv' /\ OneWorkerPerDocument'
  BY <1>1, <1>3, <1>4, <1>5 DEF WorkerInv, OneWorkerPerDocument
<1>10. UniqueContent' /\ DigestInv'
  BY <1>1, <1>3 DEF UniqueContent, DigestInv
<1>11. d \notin chunks
  BY <1>1 DEF ChunksInv, d
<1>12. ChunksInv'
  BY <1>1, <1>3, <1>6, <1>11 DEF ChunksInv
<1>13. ReadyIsComplete' /\ ProcessingHasWorker'
  BY <1>1, <1>2, <1>3, <1>5 DEF ReadyIsComplete, ProcessingHasWorker
<1> QED
  BY <1>7, <1>8, <1>9, <1>10, <1>12, <1>13

\* A step of a task that touches no table: towards its INSERT, or to its
\* failure handler and out of it.
LEMMA QuietJob ==
  ASSUME IngestionInv, TypeOK', NEW r \in Requests, NEW p \in Running,
         NEW q \in Running \cup {"stranded"}, Step(r, p, q),
         UNCHANGED <<up, status, content, chunks, req>>, q # "flip",
         q \in {"extract", "queued", "embed", "store"} =>
           p \in {"extract", "queued", "embed", "store"}
  PROVE  IngestionInv'
<1> USE DEF IngestionInv, Live, Complete
<1>1. /\ up /\ job[r].pc = p /\ job'[r].pc = q /\ job'[r].doc = job[r].doc
      /\ \A s \in Requests : s # r => job'[s] = job[s]
  BY StepFrame
<1>2. /\ "stranded" \notin Running /\ "none" \notin Running
  BY DEF Running
<1>3. \A s \in Requests : \A d : WorksOn(s, d)' => WorksOn(s, d)
  BY <1>1, <1>2 DEF WorksOn
<1>4. \A d : PurgePending(d)' <=> PurgePending(d)
  BY DEF PurgePending
<1>5. ProgressInv'
  BY <1>1, <1>2 DEF ProgressInv
<1>6. ReclaimInv'
  BY <1>1, <1>2 DEF ReclaimInv
<1>7. WorkerInv' /\ OneWorkerPerDocument'
  BY <1>3 DEF WorkerInv, OneWorkerPerDocument
<1>8. UniqueContent' /\ DigestInv'
  BY DEF UniqueContent, DigestInv, RowsOf
<1>9. ChunksInv'
  BY <1>1, <1>4 DEF ChunksInv
<1>10. ReadyIsComplete'
  BY <1>3 DEF ReadyIsComplete
<1>11. ProcessingHasWorker'
  <2> SUFFICES ASSUME NEW d \in Docs, up, status[d] = "processing"
               PROVE  \E s \in Requests :
                        WorksOn(s, d)' \/ (job'[s].pc = "stranded" /\ job'[s].doc = d)
    BY <1>1 DEF ProcessingHasWorker
  <2>1. PICK s \in Requests : WorksOn(s, d) \/ (job[s].pc = "stranded" /\ job[s].doc = d)
    BY DEF ProcessingHasWorker
  <2>2. CASE s = r
    BY <1>1, <1>2, <2>1, <2>2 DEF WorksOn
  <2>3. CASE s # r
    BY <1>1, <2>1, <2>3 DEF WorksOn
  <2> QED
    BY <2>2, <2>3
<1> QED
  BY <1>5, <1>6, <1>7, <1>8, <1>9, <1>10, <1>11

LEMMA QuietJobsInv ==
  ASSUME IngestionInv, TypeOK', NEW r \in Requests,
         JobExtract(r) \/ JobTakeSlot(r) \/ JobEmbed(r) \/ JobDbFault(r)
  PROVE  IngestionInv'
<1> DEFINE Frame == UNCHANGED <<up, status, content, chunks, req>>
<1> USE DEF table, budgets
<1>1. CASE JobExtract(r)
  <2>1. Frame /\ (Step(r, "extract", "queued") \/ Step(r, "extract", "fail"))
    BY <1>1 DEF JobExtract
  <2> QED
    BY <2>1, QuietJob DEF Running
<1>2. CASE JobTakeSlot(r)
  <2>1. Frame /\ Step(r, "queued", "embed")
    BY <1>2 DEF JobTakeSlot
  <2> QED
    BY <2>1, QuietJob DEF Running
<1>3. CASE JobEmbed(r)
  <2>1. Frame /\ (Step(r, "embed", "store") \/ Step(r, "embed", "fail"))
    BY <1>3 DEF JobEmbed
  <2> QED
    BY <2>1, QuietJob DEF Running
<1>4. CASE JobDbFault(r)
  <2>1. Frame /\ (Step(r, "store", "fail") \/ Step(r, "flip", "fail")
                    \/ Step(r, "fail", "stranded"))
    BY <1>4 DEF JobDbFault, DbFault
  <2> QED
    BY <2>1, QuietJob DEF Running
<1> QED
  BY <1>1, <1>2, <1>3, <1>4

\* The chunks go in: whole, on a document that has none, by its only worker.
LEMMA JobStoreInv ==
  ASSUME IngestionInv, TypeOK', NEW r \in Requests, JobStore(r)
  PROVE  IngestionInv'
<1> DEFINE d == job[r].doc
<1> USE DEF IngestionInv, Complete
<1>1. /\ UNCHANGED <<up, status, content, req>> /\ job[r].pc = "store"
      /\ \/ /\ content[d] \in Blank /\ Step(r, "store", "flip") /\ UNCHANGED chunks
         \/ /\ content[d] \notin Blank /\ ~PurgePending(d) /\ Live(d) /\ d \notin chunks
            /\ Step(r, "store", "flip") /\ chunks' = chunks \cup {d}
         \/ /\ content[d] \notin Blank /\ Step(r, "store", "fail") /\ UNCHANGED chunks
  BY DEF JobStore, budgets
<1>2. CASE Step(r, "store", "fail") /\ UNCHANGED chunks
  BY <1>1, <1>2, QuietJob DEF Running
<1>3. CASE /\ Step(r, "store", "flip")
           /\ \/ content[d] \in Blank /\ UNCHANGED chunks
              \/ /\ content[d] \notin Blank /\ ~PurgePending(d) /\ Live(d) /\ d \notin chunks
                 /\ chunks' = chunks \cup {d}
  <2>1. /\ up /\ job'[r].pc = "flip" /\ job'[r].doc = d
        /\ \A s \in Requests : s # r => job'[s] = job[s]
    BY <1>3, StepFrame
  <2>2. d \in Docs /\ status[d] # "absent" /\ WorksOn(r, d)
    BY <1>1 DEF ProgressInv, WorksOn, Running
  <2>3. Live(d) => \A s \in Requests : s # r => ~WorksOn(s, d)
    BY <2>2 DEF OneWorkerPerDocument
  <2>4. d \notin chunks \/ PurgePending(d)
    BY <1>1 DEF ChunksInv
  <2> HIDE DEF d
  <2>5. {"store", "flip"} \subseteq Running /\ "stranded" \notin Running
    BY DEF Running
  <2>6. \A s \in Requests, e \in Docs : WorksOn(s, e)' <=> WorksOn(s, e)
    BY <1>1, <2>1, <2>5 DEF WorksOn, d
  <2>7. \A e : /\ PurgePending(e)' <=> PurgePending(e)
               /\ Live(e)' <=> Live(e)
    BY <1>1 DEF PurgePending, Live
  <2>8. ProgressInv'
    BY <1>1, <2>1, <2>2, <2>5 DEF ProgressInv
  <2>9. ReclaimInv'
    BY <1>1, <1>3, <2>1, <2>5 DEF ReclaimInv, d
  <2>10. WorkerInv' /\ OneWorkerPerDocument'
    BY <1>1, <2>6, <2>7 DEF WorkerInv, OneWorkerPerDocument
  <2>11. UniqueContent' /\ DigestInv'
    BY <1>1, <2>7 DEF UniqueContent, DigestInv, RowsOf
  <2>12. PurgePending(d) => content[d] \notin Blank
    <3> SUFFICES ASSUME NEW s \in Requests, req[s].pc = "purged", req[s].doc = d
                 PROVE  content[d] \notin Blank
      BY DEF PurgePending
    <3>1. d \in chunks
      BY DEF ReclaimInv, Reclaiming
    <3> QED
      BY <3>1 DEF ChunksInv
  <2>13. ChunksInv'
    <3>1. \A e \in chunks' : Live(e)' /\ content'[e] \notin Blank
      BY <1>1, <1>3, <2>7 DEF ChunksInv
    <3>2. ASSUME NEW s \in Requests,
                 job'[s].pc \in {"extract", "queued", "embed", "store"}, job'[s].doc \in chunks'
          PROVE  PurgePending(job[s].doc)'
      <4>1. s # r /\ job'[s] = job[s] /\ job[s].doc \in Docs
        BY <2>1, <3>2 DEF ProgressInv, Running
      <4>2. job[s].doc \in chunks
        BY <1>3, <2>3, <3>2, <4>1 DEF WorksOn, Running
      <4> QED
        BY <2>7, <3>2, <4>1, <4>2 DEF ChunksInv
    <3>3. ASSUME NEW s \in Requests, job'[s].pc = "flip", Live(job[s].doc)'
          PROVE  Complete(job[s].doc)' /\ ~PurgePending(job[s].doc)'
      <4>1. CASE s = r
        BY <1>1, <1>3, <2>1, <2>7, <2>12, <4>1
      <4>2. CASE s # r
        BY <1>1, <1>3, <2>1, <2>7, <3>3, <4>2 DEF ChunksInv
      <4> QED
        BY <4>1, <4>2
    <3>4. ASSUME NEW s \in Requests, req'[s].pc = "committed"
          PROVE  req'[s].doc \notin chunks'
      <4>1. s # r /\ req[s].doc \in Docs
        BY <1>1, <3>4 DEF ProgressInv
      <4> QED
        BY <1>1, <1>3, <2>3, <3>4, <4>1 DEF ChunksInv, WorksOn
    <3> QED
      BY <3>1, <3>2, <3>3, <3>4 DEF ChunksInv
  <2>14. ReadyIsComplete'
    BY <1>1, <1>3, <2>6 DEF ReadyIsComplete
  <2>15. ProcessingHasWorker'
    <3>1. \A s \in Requests : job[s].pc = "stranded" => job'[s] = job[s]
      BY <1>1, <2>1
    <3> QED
      BY <1>1, <2>6, <3>1 DEF ProcessingHasWorker
  <2> QED
    BY <2>8, <2>9, <2>10, <2>11, <2>13, <2>14, <2>15
<1> QED
  BY <1>1, <1>2, <1>3

\* The last write of a task.  Its document, if it still exists, is 'processing'
\* and has no other worker, so nobody is left to work on what it marks.
LEMMA JobMarkInv ==
  ASSUME IngestionInv, TypeOK', NEW r \in Requests,
         JobMarkReady(r) \/ JobMarkFailed(r)
  PROVE  IngestionInv'
<1> DEFINE d == job[r].doc
<1> USE DEF IngestionInv, Complete
<1>1. /\ UNCHANGED <<up, content, chunks, req>> /\ ~RowLocked(d)
      /\ \/ job[r].pc = "flip" /\ Step(r, "flip", "done") /\ SetStatus(d, "ready")
         \/ job[r].pc = "fail" /\ Step(r, "fail", "done") /\ SetStatus(d, "failed")
  BY DEF JobMarkReady, JobMarkFailed, Step, budgets
<1>2. /\ up /\ job'[r].pc = "done" /\ job'[r].doc = d
      /\ \A s \in Requests : s # r => job'[s] = job[s]
  BY <1>1, StepFrame
<1>3. /\ job[r].pc \in Running /\ "done" \notin Running /\ "stranded" \notin Running
  BY <1>1 DEF Running
<1>4. d \in Docs /\ WorksOn(r, d)
  BY <1>3 DEF ProgressInv, WorksOn
<1>5. Live(d) => status[d] = "processing" /\ \A s \in Requests : s # r => ~WorksOn(s, d)
  BY <1>1, <1>4 DEF WorkerInv, OneWorkerPerDocument, RowLocked
<1>6. /\ \A e \in Docs : e # d \/ ~Live(d) => status'[e] = status[e]
      /\ Live(d) => status'[d] \in {"ready", "failed"}
      /\ Live(d) /\ status'[d] = "ready" => job[r].pc = "flip"
  BY <1>1, <1>4 DEF SetStatus, TypeOK
<1> HIDE DEF d
<1>7. \A e : Live(e)' <=> Live(e)
  BY <1>4, <1>6 DEF Live
<1>8. \A s \in Requests, e \in Docs : WorksOn(s, e)' <=> WorksOn(s, e) /\ ~(s = r /\ e = d)
  <2>1. req[r].pc # "committed"
    BY <1>3 DEF ProgressInv, Running
  <2> QED
    BY <1>1, <1>2, <1>3, <2>1 DEF WorksOn, d
<1>9. \A e : PurgePending(e)' <=> PurgePending(e)
  BY <1>1 DEF PurgePending
<1>10. ProgressInv'
  <2>1. \A e \in Docs : status[e] # "absent" => status'[e] # "absent"
    BY <1>4, <1>6
  <2> QED
    BY <1>1, <1>2, <1>3, <2>1 DEF ProgressInv, Running
<1>11. ReclaimInv'
  <2>1. \A s \in Requests : req[s].pc \in Reclaiming => req[s].doc \in Docs /\ req[s].doc # d
    BY <1>1 DEF RowLocked, ProgressInv, Reclaiming
  <2>2. \A s \in Requests : req[s].pc \in Reclaiming => s # r
    BY <1>3, <2>1 DEF ReclaimInv, d
  <2> QED
    BY <1>1, <1>2, <1>6, <2>1, <2>2 DEF ReclaimInv
<1>12. WorkerInv'
  BY <1>1, <1>5, <1>6, <1>7, <1>8 DEF WorkerInv
<1>13. OneWorkerPerDocument'
  BY <1>7, <1>8 DEF OneWorkerPerDocument
<1>14. UniqueContent' /\ DigestInv'
  BY <1>1, <1>7 DEF UniqueContent, DigestInv, RowsOf
<1>15. ChunksInv'
  BY <1>1, <1>2, <1>7, <1>9 DEF ChunksInv
<1>16. ReadyIsComplete'
  <2>1. Live(d) /\ status'[d] = "ready" => d \in chunks \/ content[d] \in Blank
    BY <1>6 DEF ChunksInv, d
  <2>2. status'[d] = "ready" => Live(d)
    BY <1>4, <1>6 DEF Live
  <2> QED
    BY <1>1, <1>5, <1>6, <1>8, <2>1, <2>2 DEF ReadyIsComplete
<1>17. ProcessingHasWorker'
  <2>1. \A s \in Requests : job[s].pc = "stranded" => job'[s] = job[s]
    BY <1>2, <1>3
  <2>2. status'[d] # "processing"
    BY <1>4, <1>6 DEF Live
  <2> QED
    BY <1>1, <1>6, <1>8, <2>1, <2>2 DEF ProcessingHasWorker
<1> QED
  BY <1>10, <1>11, <1>12, <1>13, <1>14, <1>15, <1>16, <1>17

LEMMA DeleteDocumentInv ==
  ASSUME IngestionInv, TypeOK', NEW d \in Docs, DeleteDocument(d)
  PROVE  IngestionInv'
<1> USE DEF IngestionInv, Complete
<1>1. /\ UNCHANGED <<up, content, req, job>> /\ up /\ Live(d) /\ ~RowLocked(d)
      /\ status' = [status EXCEPT ![d] = "deleted"] /\ chunks' = chunks \ {d}
  BY DEF DeleteDocument, budgets
<1>2. \A e \in Docs : status'[e] = IF e = d THEN "deleted" ELSE status[e]
  BY <1>1 DEF TypeOK
<1>3. \A e : Live(e)' <=> Live(e) /\ e # d
  BY <1>2 DEF Live
<1>4. /\ \A e : PurgePending(e)' <=> PurgePending(e)
      /\ \A s \in Requests, e \in Docs : WorksOn(s, e)' <=> WorksOn(s, e)
      /\ \A s \in Requests : req[s].pc \in Reclaiming => req[s].doc \in Docs /\ req[s].doc # d
  BY <1>1 DEF PurgePending, WorksOn, RowLocked, ProgressInv, Reclaiming
<1>5. ProgressInv'
  BY <1>1, <1>2 DEF ProgressInv
<1>6. ReclaimInv'
  BY <1>1, <1>2, <1>4 DEF ReclaimInv
<1>7. WorkerInv' /\ OneWorkerPerDocument'
  BY <1>1, <1>2, <1>3, <1>4 DEF WorkerInv, OneWorkerPerDocument
<1>8. UniqueContent' /\ DigestInv'
  BY <1>1, <1>3 DEF UniqueContent, DigestInv, RowsOf
<1>9. ChunksInv'
  BY <1>1, <1>3, <1>4 DEF ChunksInv
<1>10. ReadyIsComplete' /\ ProcessingHasWorker'
  BY <1>1, <1>2, <1>4 DEF ReadyIsComplete, ProcessingHasWorker
<1> QED
  BY <1>5, <1>6, <1>7, <1>8, <1>9, <1>10

\* A crash ends every worker; only Boot's sweep then sees the rows they left.
LEMMA CrashInv ==
  ASSUME IngestionInv, TypeOK', Crash
  PROVE  IngestionInv'
<1> USE DEF IngestionInv, Complete
<1>1. /\ UNCHANGED <<status, content, chunks>> /\ up' = FALSE
      /\ \A r \in Requests : req'[r].pc \notin Working /\ job'[r].pc \notin Running
  <2>1. UNCHANGED <<status, content, chunks>> /\ up' = FALSE
    BY DEF Crash, table
  <2>2. ASSUME NEW r \in Requests PROVE req'[r].pc \notin Working
    BY DEF Crash, TypeOK, RequestRecord, Working
  <2>3. ASSUME NEW r \in Requests PROVE job'[r].pc \notin Running
    BY DEF Crash, TypeOK, JobRecord, Running
  <2> QED
    BY <2>1, <2>2, <2>3
<1>2. ASSUME NEW r \in Requests
      PROVE  /\ req'[r].pc \notin Reclaiming
             /\ req'[r].pc \notin {"check", "checkFailed", "reclaim", "reclaimed", "purged",
                                   "insert", "inserted", "committed"}
             /\ job'[r].pc \notin {"extract", "queued", "embed", "store", "flip"}
  BY <1>1 DEF Working, Reclaiming, Running
<1>3. \A d : Live(d)' <=> Live(d)
  BY <1>1 DEF Live
<1>4. \A r \in Requests : req'[r].pc = "new" => req[r].pc = "new" /\ job'[r].pc = job[r].pc
  <2> SUFFICES ASSUME NEW r \in Requests, req'[r].pc = "new"
               PROVE  req[r].pc = "new" /\ job'[r].pc = job[r].pc
    OBVIOUS
  <2>1. req[r].pc = "new"
    BY DEF Crash, TypeOK, RequestRecord
  <2>2. job[r].pc = "none"
    BY <2>1 DEF ProgressInv
  <2> QED
    BY <2>1, <2>2 DEF Crash, Running
<1>5. ProgressInv'
  BY <1>1, <1>2, <1>4 DEF ProgressInv
<1>6. ReclaimInv' /\ DigestInv' /\ UniqueContent'
  BY <1>1, <1>2, <1>3 DEF ReclaimInv, DigestInv, UniqueContent
<1>7. \A r \in Requests, d \in Docs : ~WorksOn(r, d)'
  BY <1>1, <1>2 DEF WorksOn
<1>8. WorkerInv' /\ OneWorkerPerDocument' /\ ProcessingHasWorker'
  BY <1>1, <1>7 DEF WorkerInv, OneWorkerPerDocument, ProcessingHasWorker
<1>9. ChunksInv' /\ ReadyIsComplete'
  BY <1>1, <1>2, <1>3, <1>7 DEF ChunksInv, ReadyIsComplete
<1> QED
  BY <1>5, <1>6, <1>8, <1>9

LEMMA BootInv ==
  ASSUME IngestionInv, TypeOK', Boot
  PROVE  IngestionInv'
<1> USE DEF IngestionInv, Complete
<1>1. /\ UNCHANGED <<content, chunks, req, job>> /\ ~up
      /\ \A d \in Docs : status'[d] = IF status[d] = "processing" THEN "failed" ELSE status[d]
  BY DEF Boot, budgets
<1>2. \A r \in Requests : req[r].pc \notin Working /\ job[r].pc \notin Running
  BY <1>1 DEF ProgressInv
<1>3. ASSUME NEW r \in Requests
      PROVE  /\ req[r].pc \notin Reclaiming
             /\ req[r].pc \notin {"check", "checkFailed", "reclaim", "reclaimed", "purged",
                                   "insert", "inserted", "committed"}
             /\ job[r].pc \notin {"extract", "queued", "embed", "store", "flip"}
  BY <1>2 DEF Working, Reclaiming, Running
<1>4. \A d : Live(d)' <=> Live(d)
  BY <1>1 DEF Live
<1>5. \A r \in Requests, d \in Docs : ~WorksOn(r, d)'
  BY <1>1, <1>2, <1>3 DEF WorksOn
<1>6. ProgressInv'
  BY <1>1, <1>2, <1>3 DEF ProgressInv
<1>7. ReclaimInv' /\ DigestInv' /\ UniqueContent'
  BY <1>1, <1>3, <1>4 DEF ReclaimInv, DigestInv, UniqueContent
<1>8. WorkerInv' /\ OneWorkerPerDocument' /\ ProcessingHasWorker'
  BY <1>1, <1>5 DEF WorkerInv, OneWorkerPerDocument, ProcessingHasWorker
<1>9. ChunksInv' /\ ReadyIsComplete'
  BY <1>1, <1>3, <1>4, <1>5 DEF ChunksInv, ReadyIsComplete
<1> QED
  BY <1>6, <1>7, <1>8, <1>9

LEMMA IngestionInvInit == Init => IngestionInv
<1> SUFFICES ASSUME Init PROVE IngestionInv
  OBVIOUS
<1>1. TypeOK
  BY RequestPCs DEF Init, TypeOK, RequestRecord, JobRecord, Status
<1>2. /\ up /\ chunks = {}
      /\ \A d \in Docs : status[d] = "absent" /\ ~Live(d)
      /\ \A r \in Requests : req[r].pc = "new" /\ job[r].pc = "none"
  BY DEF Init, Live
<1> QED
  BY <1>1, <1>2
     DEF IngestionInv, ProgressInv, ReclaimInv, WorkerInv, OneWorkerPerDocument,
         UniqueContent, DigestInv, ChunksInv, ReadyIsComplete, ProcessingHasWorker,
         WorksOn, Working, Running, Reclaiming

\* The only step the invariant does not survive is a failing COMMIT.
LEMMA IngestionInvStep ==
  ASSUME MaxCommitFaults = 0, IngestionInv, [Next]_vars
  PROVE  IngestionInv'
<1>1. TypeOK'
  BY TypeStep DEF IngestionInv
<1>2. ASSUME NEW r \in Requests, Upload(r) PROVE IngestionInv'
  BY <1>1, <1>2, UploadSelectInv, UploadCheckVisibleInv, UploadReclaimInv,
     UploadCommitReclaimInv, UploadInsertInv, UploadCommitInsertInv, UploadScheduleInv
     DEF Upload
<1>3. ASSUME NEW r \in Requests, UploadCommitFails(r) PROVE IngestionInv'
  BY <1>3 DEF UploadCommitFails, IngestionInv, TypeOK
<1>4. ASSUME NEW r \in Requests, Process(r) \/ JobDbFault(r) PROVE IngestionInv'
  BY <1>1, <1>4, QuietJobsInv, JobStoreInv, JobMarkInv DEF Process
<1>5. ASSUME NEW d \in Docs, DeleteDocument(d) PROVE IngestionInv'
  BY <1>1, <1>5, DeleteDocumentInv
<1>6. CASE Crash \/ Boot
  BY <1>1, <1>6, CrashInv, BootInv
<1>7. CASE UNCHANGED vars
  BY <1>1, <1>7
     DEF vars, IngestionInv, ProgressInv, ReclaimInv, WorkerInv, OneWorkerPerDocument,
         UniqueContent, DigestInv, ChunksInv, ReadyIsComplete, ProcessingHasWorker,
         WorksOn, Live, RowsOf, PurgePending, Complete
<1> QED
  BY <1>2, <1>3, <1>4, <1>5, <1>6, <1>7 DEF Next

LEMMA IngestionInvCorrect ==
  ASSUME MaxCommitFaults = 0
  PROVE  Spec => []IngestionInv
<1>1. IngestionInv /\ [Next]_vars => IngestionInv'
  BY IngestionInvStep
<1> QED
  BY <1>1, IngestionInvInit, PTL DEF Spec

\* Dedupe: two live documents never hold the same content.
THEOREM UniqueContentCorrect ==
  ASSUME MaxCommitFaults = 0
  PROVE  Spec => []UniqueContent
<1>1. IngestionInv => UniqueContent
  BY DEF IngestionInv
<1> QED
  BY <1>1, IngestionInvCorrect, PTL

\* The status guard of the reclaim schedules the processing once.
THEOREM OneWorkerCorrect ==
  ASSUME MaxCommitFaults = 0
  PROVE  Spec => []OneWorkerPerDocument
<1>1. IngestionInv => OneWorkerPerDocument
  BY DEF IngestionInv
<1> QED
  BY <1>1, IngestionInvCorrect, PTL

\* A row that says 'processing' has somebody who will finish it.
THEOREM ProcessingHasWorkerCorrect ==
  ASSUME MaxCommitFaults = 0
  PROVE  Spec => []ProcessingHasWorker
<1>1. IngestionInv => ProcessingHasWorker
  BY DEF IngestionInv
<1> QED
  BY <1>1, IngestionInvCorrect, PTL

\* The purge of a reclaimed document leaves nothing for the rerun to meet.
THEOREM RerunStartsCleanCorrect ==
  ASSUME MaxCommitFaults = 0
  PROVE  Spec => []RerunStartsClean
<1>1. IngestionInv => RerunStartsClean
  BY DEF IngestionInv, ChunksInv, RerunStartsClean
<1> QED
  BY <1>1, IngestionInvCorrect, PTL

\* What retrieval filters on is true of what it returns.
THEOREM ReadyIsCompleteCorrect ==
  ASSUME MaxCommitFaults = 0
  PROVE  Spec => []ReadyIsComplete
<1>1. IngestionInv => ReadyIsComplete
  BY DEF IngestionInv
<1> QED
  BY <1>1, IngestionInvCorrect, PTL

-----------------------------------------------------------------------------
(* Ingestion implements DocumentCatalog.                                   *)

LEMMA CatalogInit == Init => Catalog!Init
<1> SUFFICES ASSUME Init PROVE Catalog!Init
  OBVIOUS
<1>1. {d \in Docs : status[d] = "ready" /\ Complete(d)} = {}
  BY DEF Init
<1> QED
  BY <1>1 DEF Init, Catalog!Init

\* A step that leaves rows alone, and chunks of ready documents, is invisible.
LEMMA CatalogStutter ==
  ASSUME UNCHANGED <<status, content>>,
         \A d \in Docs : status[d] = "ready" => (d \in chunks' <=> d \in chunks)
  PROVE  UNCHANGED Catalog!vars
BY DEF Catalog!vars, Complete

LEMMA CatalogStep ==
  ASSUME MaxCommitFaults = 0, IngestionInv, [Next]_vars
  PROVE  [Catalog!Next]_(Catalog!vars)
<1> DEFINE found == {d \in Docs : status[d] = "ready" /\ Complete(d)}
<1> USE DEF table, budgets, Catalog!Live, Live
<1>1. ASSUME NEW r \in Requests, Upload(r) PROVE [Catalog!Next]_(Catalog!vars)
  <2>1. CASE \/ \E c \in Content : UploadSelect(r, c)
             \/ UploadCheckVisible(r) \/ UploadReclaim(r) \/ UploadInsert(r) \/ UploadSchedule(r)
    <3>1. UNCHANGED <<status, content, chunks>>
      BY <2>1 DEF UploadSelect, UploadCheckVisible, UploadReclaim, UploadInsert, UploadSchedule
    <3> QED
      BY <3>1, CatalogStutter
  <2>2. CASE UploadCommitReclaim(r)
    <3> DEFINE d == req[r].doc
    <3>1. /\ d \in Docs /\ status[d] = "failed"
          /\ status' = [status EXCEPT ![d] = "processing"] /\ content' = content
          /\ \A e \in Docs : e # d => (e \in chunks' <=> e \in chunks)
      BY <2>2 DEF UploadCommitReclaim, IngestionInv, ReclaimInv, ProgressInv, Reclaiming
    <3> HIDE DEF d
    <3>2. found' = found
      BY <3>1 DEF IngestionInv, TypeOK, Complete
    <3>3. Catalog!Reclaim(d)
      BY <3>1, <3>2 DEF Catalog!Reclaim
    <3> QED
      BY <3>1, <3>3 DEF Catalog!Next
  <2>3. CASE UploadCommitInsert(r)
    <3>1. PICK d \in Docs :
            /\ status[d] = "absent"
            /\ status' = [status EXCEPT ![d] = "processing"]
            /\ content' = [content EXCEPT ![d] = req[r].content]
            /\ UNCHANGED chunks /\ req[r].pc = "inserted"
      BY <2>3, UploadCommitInsertFrame
    <3>2. found' = found
      BY <3>1 DEF IngestionInv, TypeOK, Complete
    <3>3. \A e \in Docs : Live(e) => content[e] # req[r].content
      BY <3>1 DEF IngestionInv, DigestInv, RowsOf
    <3>4. Catalog!Register(d, req[r].content)
      BY <3>1, <3>2, <3>3 DEF Catalog!Register
    <3>5. req[r].content \in Content
      BY <3>1 DEF IngestionInv, ProgressInv
    <3> QED
      BY <3>4, <3>5 DEF Catalog!Next
  <2> QED
    BY <1>1, <2>1, <2>2, <2>3 DEF Upload
<1>2. ASSUME NEW r \in Requests, UploadCommitFails(r) PROVE [Catalog!Next]_(Catalog!vars)
  BY <1>2 DEF UploadCommitFails, IngestionInv, TypeOK
<1>3. ASSUME NEW r \in Requests,
             JobExtract(r) \/ JobTakeSlot(r) \/ JobEmbed(r) \/ JobDbFault(r)
      PROVE  [Catalog!Next]_(Catalog!vars)
  <2>1. UNCHANGED <<status, content, chunks>>
    BY <1>3 DEF JobExtract, JobTakeSlot, JobEmbed, JobDbFault, DbFault
  <2> QED
    BY <2>1, CatalogStutter
<1>4. ASSUME NEW r \in Requests, JobStore(r) PROVE [Catalog!Next]_(Catalog!vars)
  <2> DEFINE d == job[r].doc
  <2>1. UNCHANGED <<status, content>> /\ chunks' \in {chunks, chunks \cup {d}} /\ job[r].pc = "store"
    BY <1>4 DEF JobStore
  <2>2. d \in Docs /\ WorksOn(r, d)
    BY <2>1 DEF IngestionInv, ProgressInv, WorksOn, Running
  <2>3. status[d] # "ready"
    BY <2>2 DEF IngestionInv, ReadyIsComplete
  <2> QED
    BY <2>1, <2>3, CatalogStutter
<1>5. ASSUME NEW r \in Requests, JobMarkReady(r) \/ JobMarkFailed(r)
      PROVE  [Catalog!Next]_(Catalog!vars)
  <2>1. PICK d \in Docs : d = job[r].doc /\ WorksOn(r, d)
    BY <1>5 DEF JobMarkReady, JobMarkFailed, Step, IngestionInv, ProgressInv, WorksOn, Running
  <2>2. /\ content' = content /\ chunks' = chunks /\ ~RowLocked(d)
        /\ \/ job[r].pc = "flip" /\ SetStatus(d, "ready")
           \/ job[r].pc = "fail" /\ SetStatus(d, "failed")
    BY <1>5, <2>1 DEF JobMarkReady, JobMarkFailed, Step
  <2>3. Live(d) => status[d] = "processing"
    BY <2>1, <2>2 DEF IngestionInv, WorkerInv, RowLocked
  <2>4. Live(d) /\ job[r].pc = "flip" => Complete(d)
    BY <2>1 DEF IngestionInv, ChunksInv
  <2>5. CASE ~Live(d)
    <3>1. status' = status
      BY <2>2, <2>5 DEF SetStatus, IngestionInv, TypeOK
    <3> QED
      BY <2>2, <3>1, CatalogStutter
  <2>6. CASE Live(d) /\ job[r].pc = "flip" /\ status' = [status EXCEPT ![d] = "ready"]
    <3>1. found' = found \cup {d}
      BY <2>1, <2>2, <2>4, <2>6 DEF IngestionInv, TypeOK, Complete
    <3>2. Catalog!Publish(d)
      BY <2>2, <2>3, <2>6, <3>1 DEF Catalog!Publish
    <3> QED
      BY <3>2 DEF Catalog!Next
  <2>7. CASE Live(d) /\ status' = [status EXCEPT ![d] = "failed"]
    <3>1. found' = found
      BY <2>1, <2>2, <2>3, <2>7 DEF IngestionInv, TypeOK, Complete
    <3>2. status' = [e \in Docs |-> IF e \in {d} THEN "failed" ELSE status[e]]
      BY <2>7 DEF IngestionInv, TypeOK
    <3>3. Catalog!Fail({d})
      BY <2>2, <2>3, <2>7, <3>1, <3>2 DEF Catalog!Fail
    <3> QED
      BY <3>3 DEF Catalog!Next
  <2> QED
    BY <2>2, <2>5, <2>6, <2>7 DEF SetStatus
<1>6. ASSUME NEW d \in Docs, DeleteDocument(d) PROVE [Catalog!Next]_(Catalog!vars)
  <2>1. /\ content' = content /\ Live(d)
        /\ status' = [status EXCEPT ![d] = "deleted"] /\ chunks' = chunks \ {d}
    BY <1>6 DEF DeleteDocument
  <2>2. found' = found \ {d}
    BY <2>1 DEF IngestionInv, TypeOK, Complete
  <2>3. Catalog!Remove(d)
    BY <2>1, <2>2 DEF Catalog!Remove
  <2> QED
    BY <2>3 DEF Catalog!Next
<1>7. CASE Crash
  <2>1. UNCHANGED <<status, content, chunks>>
    BY <1>7 DEF Crash
  <2> QED
    BY <2>1, CatalogStutter
<1>8. CASE Boot
  <2> DEFINE D == {d \in Docs : status[d] = "processing"}
  <2>1. /\ content' = content /\ chunks' = chunks
        /\ status' = [d \in Docs |-> IF d \in D THEN "failed" ELSE status[d]]
    BY <1>8 DEF Boot
  <2>2. found' = found
    BY <2>1 DEF Complete
  <2>3. Catalog!Fail(D)
    BY <2>1, <2>2 DEF Catalog!Fail
  <2>4. D \in SUBSET Docs
    OBVIOUS
  <2> QED
    BY <2>3, <2>4 DEF Catalog!Next
<1>9. CASE UNCHANGED vars
  BY <1>9, CatalogStutter DEF vars
<1> QED
  BY <1>1, <1>2, <1>3, <1>4, <1>5, <1>6, <1>7, <1>8, <1>9 DEF Next, Process

\* Every behaviour of the pipeline is a behaviour of the catalog: documents
\* become searchable whole and only by becoming ready, one per content.
THEOREM IngestionImplementsCatalog ==
  ASSUME MaxCommitFaults = 0
  PROVE  Spec => CatalogSpec
<1>1. IngestionInv /\ [Next]_vars => [Catalog!Next]_(Catalog!vars)
  BY CatalogStep
<1> QED
  BY <1>1, CatalogInit, IngestionInvCorrect, PTL DEF Spec, CatalogSpec, Catalog!Spec
=============================================================================
