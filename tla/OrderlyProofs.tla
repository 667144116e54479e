--------------------------- MODULE OrderlyProofs ---------------------------
(***************************************************************************)
(* What holds of IngestionQueue where no handler outlives its lock, no file*)
(* is split and restarts come one at a time, of documents read as FAILED:  *)
(* then a pipeline never forks.  And what follows for ChunkStore, which    *)
(* implements IngestionQueue, so that what is proved of the queue holds    *)
(* beside the chunks too: what retrieval returns of a document is embedded.*)
(***************************************************************************)
EXTENDS ChunkStore, IngestionQueueProofs

Orderly ==
  /\ LockOutlivesHandler
  /\ Oversized = {}
  /\ "batch_reprocess" \notin AdminOps
  /\ \A r, s \in Requests : r = s

\* The row of a thread that works is the thread's alone.
ThreadsOwn ==
  /\ \A w \in Workers : ~At(w, "idle") =>
       jobs[worker[w].job].status = "PROCESSING" /\ jobs[worker[w].job].lock = "held"
  /\ \A v, w \in Workers :
       ~At(v, "idle") /\ ~At(w, "idle") /\ worker[v].job = worker[w].job => v = w

QuietStatus == {"ABSENT", "FAILED"}
QuietDocuments == \A d \in Docs : doc[d] \in QuietStatus => LiveJobs(d) = {}

UploadsWait ==
  \A d \in Docs :
    upload[d] = "inserted" => doc[d] \in {"UPLOADED", "DELETED"} /\ LiveJobs(d) = {}

\* What a request has read as FAILED has not been restarted by anything else.
RequestsRestart ==
  \A r \in Requests :
    /\ request[r].op \in {"none", "upload_retry", "reprocess"}
    /\ \A d \in request[r].docs :
         LiveJobs(d) = {} /\ doc[d] # "ABSENT" /\ upload[d] # "inserted"

NothingSplit == \A d \in Docs : doc[d] \notin {"SPLIT_COMPLETE", "REMOVED"}

\* The step s of d has a completed job.
Ran(d, s) ==
  \E j \in JobIds : jobs[j].doc = d /\ jobs[j].step = s /\ jobs[j].status = "COMPLETED"

\* Before a job is queued every step before its own has run.
StepsInOrder ==
  \A j \in JobIds : jobs[j].status \in LiveStatus =>
    /\ jobs[j].step \in Steps
    /\ \A s \in Steps : Rank(s) < Rank(jobs[j].step) => Ran(jobs[j].doc, s)

OInv ==
  /\ ThreadsOwn
  /\ OneLiveJobPerDocument
  /\ QuietDocuments
  /\ UploadsWait
  /\ RequestsRestart
  /\ NothingSplit
  /\ StepsInOrder
  /\ SearchableRanEveryStep
-----------------------------------------------------------------------------
(* What a step does to the rows.                                           *)

\* A row keeps its document, its step and its completion, and does not come back to life.
RowKept(old, new) ==
  /\ new.doc = old.doc /\ new.step = old.step
  /\ old.status = "COMPLETED" => new.status = "COMPLETED"
  /\ new.status \in LiveStatus => old.status \in LiveStatus

LEMMA UpdatesKeep ==
  ASSUME NEW row \in Job
  PROVE  /\ RowKept(row, row)
         /\ RowKept(row, [row EXCEPT !.lock = "expired"])
         /\ row.status \in LiveStatus =>
              /\ RowKept(row, Claimed(row)) /\ RowKept(row, Completed(row))
              /\ RowKept(row, Retried(row)) /\ RowKept(row, DeadLettered(row))
              /\ RowKept(row, ReapedRow(row))
         /\ row.status \in Cancellable => RowKept(row, Cancelled(row))
<1>. "COMPLETED" \notin LiveStatus /\ "COMPLETED" \notin Cancellable
     /\ "DEAD_LETTER" \notin LiveStatus /\ "FAILED" \notin LiveStatus
  BY DEF LiveStatus, Cancellable
<1>1. RowKept(row, row) /\ RowKept(row, [row EXCEPT !.lock = "expired"])
  BY DEF RowKept, Job
<1>2. ASSUME row.status \in LiveStatus
      PROVE  /\ RowKept(row, Claimed(row)) /\ RowKept(row, Completed(row))
             /\ RowKept(row, Retried(row)) /\ RowKept(row, DeadLettered(row))
             /\ RowKept(row, ReapedRow(row))
  BY <1>2 DEF RowKept, Job, Claimed, Completed, Retried, DeadLettered, ReapedRow
<1>3. ASSUME row.status \in Cancellable
      PROVE  RowKept(row, Cancelled(row))
  BY <1>3 DEF RowKept, Job, Cancelled
<1>. QED  BY <1>1, <1>2, <1>3

\* Under a thread that owns its row, what the thread writes keeps every row.
LEMMA SetJobKeeps ==
  ASSUME IInv, ThreadsOwn, NEW w \in Workers, ~At(w, "idle"),
         NEW row \in Job, RowKept(jobs[worker[w].job], row)
  PROVE  /\ SetJob(worker[w].job, row) = [jobs EXCEPT ![worker[w].job] = row]
         /\ \A j \in JobIds : RowKept(jobs[j], SetJob(worker[w].job, row)[j])
<1>1. worker[w].job \in JobIds /\ jobs[worker[w].job].status = "PROCESSING"
  BY WorkingThread DEF ThreadsOwn, At
<1>2. SetJob(worker[w].job, row) = [jobs EXCEPT ![worker[w].job] = row]
  BY <1>1 DEF SetJob, Gone
<1>3. \A j \in JobIds : jobs[j] \in Job /\ RowKept(jobs[j], jobs[j])
  BY UpdatesKeep DEF IInv, TypeOK
<1>. QED  BY <1>1, <1>2, <1>3 DEF IInv, TypeOK

LEMMA OwnRow ==
  ASSUME IInv, ThreadsOwn, NEW w \in Workers, ~At(w, "idle")
  PROVE  /\ worker[w].job \in JobIds /\ jobs[worker[w].job] \in Job
         /\ jobs[worker[w].job].status = "PROCESSING"
         /\ jobs[worker[w].job].status \in LiveStatus
         /\ Completed(jobs[worker[w].job]) \in Job /\ Retried(jobs[worker[w].job]) \in Job
         /\ DeadLettered(jobs[worker[w].job]) \in Job
         /\ DocOf(w) = jobs[worker[w].job].doc /\ DocOf(w) \in Docs
         /\ StepOf(w) = jobs[worker[w].job].step /\ StepOf(w) \in AllSteps
<1>1. /\ worker[w].job \in JobIds /\ jobs[worker[w].job] \in Job
      /\ DocOf(w) = jobs[worker[w].job].doc /\ DocOf(w) \in Docs
      /\ StepOf(w) = jobs[worker[w].job].step /\ StepOf(w) \in AllSteps
  BY WorkingThread DEF At
<1>2. jobs[worker[w].job].status = "PROCESSING" /\ "PROCESSING" \in LiveStatus
  BY DEF ThreadsOwn, LiveStatus
<1>3. {"COMPLETED", "RETRYING", "DEAD_LETTER"} \subseteq JobStatus
  BY DEF JobStatus, LiveStatus
<1>4. /\ Completed(jobs[worker[w].job]) \in Job /\ Retried(jobs[worker[w].job]) \in Job
      /\ DeadLettered(jobs[worker[w].job]) \in Job
  BY <1>1, <1>3 DEF Job, Completed, Retried, DeadLettered
<1>. QED  BY <1>1, <1>2, <1>4

-----------------------------------------------------------------------------
(* What one step may do to each row, document, upload, request and thread. *)

\* A status that says that the document is on its way, and not yet searchable.
Busy == DocStatus \ (QuietStatus \cup {"SPLIT_COMPLETE", "REMOVED", "SEARCHABLE", "ACTIVE"})

RanAllSteps(d) == \A s \in Steps \ {"KG_EXTRACT"} : Ran(d, s)

\* A job of d for the step s is the only one, and what comes before s has run.
Alone(d, s) ==
  /\ doc[d] \notin QuietStatus /\ upload[d] # "inserted"
  /\ \A r \in Requests : d \notin request[r].docs
  /\ \A i, j \in LiveJobs(d) : i = j
  /\ \A t \in Steps : Rank(t) < Rank(s) => Ran(d, t)

RowStep(j) ==
  \/ RowKept(jobs[j], jobs'[j])
  \/ /\ jobs[j].status = "ABSENT"
     /\ \E d \in Docs, s \in Steps : jobs'[j] = NewJob(d, s) /\ Alone(d, s)'

DocumentStep(d) ==
  \/ doc'[d] = doc[d] \/ doc'[d] = "DELETED"
  \/ doc[d] = "ABSENT" /\ doc'[d] = "UPLOADED"
  \/ /\ upload[d] # "inserted"
     /\ \/ doc'[d] \in Busy
        \/ doc'[d] = "FAILED" /\ LiveJobs(d)' = {}
        \/ doc'[d] \in {"SEARCHABLE", "ACTIVE"} /\ RanAllSteps(d)'

UploadStep(d) ==
  upload'[d] = "inserted" =>
    \/ upload[d] = "inserted"
    \/ doc[d] = "ABSENT" /\ doc'[d] = "UPLOADED"

ReadStep(r) ==
  \/ request'[r] = request[r] \/ request'[r] = NoRequest
  \/ /\ request'[r].op \in {"upload_retry", "reprocess"}
     /\ \E d \in Docs : request'[r].docs = {d} /\ doc[d] = "FAILED"
     /\ UNCHANGED <<doc, jobs, upload>>

HoldStep(v) ==
  \/ worker'[v].pc = "idle"
  \/ /\ worker[v].pc # "idle" /\ worker'[v].job = worker[v].job
     /\ jobs'[worker[v].job] = jobs[worker[v].job]
  \/ /\ worker[v].pc = "idle"
     /\ jobs'[worker'[v].job].status = "PROCESSING" /\ jobs'[worker'[v].job].lock = "held"
     /\ \A u \in Workers :
          u # v /\ worker'[u].pc # "idle" =>
            worker[u].pc # "idle" /\ worker'[u].job = worker[u].job
            /\ worker[u].job # worker'[v].job

OrderlyStep ==
  /\ \A j \in JobIds : RowStep(j)
  /\ \A d \in Docs : DocumentStep(d) /\ UploadStep(d)
  /\ \A r \in Requests : ReadStep(r)
  /\ \A v \in Workers : HoldStep(v)

\* The queue of a document in any state of the rows.
LEMMA LiveAfter ==
  ASSUME IInv, OInv, OrderlyStep, NEW d \in Docs
  PROVE  /\ LiveJobs(d)' \subseteq LiveJobs(d) \/ \E s \in Steps : Alone(d, s)'
         /\ \A s : Ran(d, s) => Ran(d, s)'
<1>1. ASSUME NEW j \in LiveJobs(d)', j \notin LiveJobs(d)
      PROVE  \E s \in Steps : Alone(d, s)'
  <2>1. j \in JobIds /\ jobs'[j].doc = d /\ jobs'[j].status \in LiveStatus
    BY <1>1 DEF LiveJobs
  <2>2. ~RowKept(jobs[j], jobs'[j])
    BY <1>1, <2>1 DEF RowKept, LiveJobs
  <2>3. PICK e \in Docs, s \in Steps : jobs'[j] = NewJob(e, s) /\ Alone(e, s)'
    BY <2>1, <2>2 DEF OrderlyStep, RowStep
  <2>4. e = d
    BY <2>1, <2>3 DEF NewJob
  <2>. QED  BY <2>3, <2>4
<1>2. ASSUME NEW s, Ran(d, s)
      PROVE  Ran(d, s)'
  <2>1. PICK j \in JobIds : jobs[j].doc = d /\ jobs[j].step = s /\ jobs[j].status = "COMPLETED"
    BY <1>2 DEF Ran
  <2>2. RowKept(jobs[j], jobs'[j])
    BY <2>1 DEF OrderlyStep, RowStep
  <2>. QED  BY <2>1, <2>2 DEF Ran, RowKept
<1>. QED  BY <1>1, <1>2

LEMMA ThreadsOwnAfter ==
  ASSUME IInv, OInv, OrderlyStep
  PROVE  ThreadsOwn'
<1>1. ASSUME NEW v \in Workers, worker'[v].pc # "idle"
      PROVE  jobs'[worker'[v].job].status = "PROCESSING" /\ jobs'[worker'[v].job].lock = "held"
  BY <1>1 DEF OrderlyStep, HoldStep, OInv, ThreadsOwn, At
<1>2. ASSUME NEW u \in Workers, NEW v \in Workers, worker'[u].pc # "idle",
             worker'[v].pc # "idle", worker'[u].job = worker'[v].job, u # v
      PROVE  FALSE
  <2>1. HoldStep(u) /\ HoldStep(v)
    BY DEF OrderlyStep
  <2>. QED  BY <1>2, <2>1 DEF HoldStep, OInv, ThreadsOwn, At
<1>. QED  BY <1>1, <1>2 DEF ThreadsOwn, At

LEMMA OneLiveAfter ==
  ASSUME IInv, OInv, OrderlyStep
  PROVE  OneLiveJobPerDocument' /\ QuietDocuments'
<1>1. ASSUME NEW d \in Docs
      PROVE  \A i, j \in LiveJobs(d)' : i = j
  BY LiveAfter DEF Alone, OInv, OneLiveJobPerDocument
<1>2. ASSUME NEW d \in Docs, doc'[d] \in QuietStatus
      PROVE  LiveJobs(d)' = {}
  <2>1. LiveJobs(d)' \subseteq LiveJobs(d)
    BY <1>2, LiveAfter DEF Alone
  <2>2. CASE doc'[d] = doc[d]
    BY <1>2, <2>1, <2>2 DEF OInv, QuietDocuments
  <2>3. CASE doc'[d] = "FAILED" /\ LiveJobs(d)' = {}
    BY <2>3
  <2>. QED  BY <1>2, <2>1, <2>2, <2>3 DEF OrderlyStep, DocumentStep, Busy, QuietStatus
<1>. QED  BY <1>1, <1>2 DEF OneLiveJobPerDocument, QuietDocuments

LEMMA UploadsWaitAfter ==
  ASSUME IInv, OInv, OrderlyStep
  PROVE  UploadsWait'
<1>. SUFFICES ASSUME NEW d \in Docs, upload'[d] = "inserted"
              PROVE  doc'[d] \in {"UPLOADED", "DELETED"} /\ LiveJobs(d)' = {}
  BY DEF UploadsWait
<1>1. LiveJobs(d)' \subseteq LiveJobs(d)
  BY LiveAfter DEF Alone
<1>2. CASE upload[d] = "inserted"
  BY <1>1, <1>2 DEF OInv, UploadsWait, OrderlyStep, DocumentStep
<1>3. CASE doc[d] = "ABSENT" /\ doc'[d] = "UPLOADED"
  BY <1>1, <1>3 DEF OInv, QuietDocuments, QuietStatus
<1>. QED  BY <1>2, <1>3 DEF OrderlyStep, UploadStep

LEMMA RequestsAfter ==
  ASSUME IInv, OInv, OrderlyStep
  PROVE  RequestsRestart'
<1>. SUFFICES ASSUME NEW r \in Requests
              PROVE  /\ request'[r].op \in {"none", "upload_retry", "reprocess"}
                     /\ \A d \in request'[r].docs :
                          LiveJobs(d)' = {} /\ doc'[d] # "ABSENT" /\ upload'[d] # "inserted"
  BY DEF RequestsRestart
<1>1. CASE request'[r] = NoRequest
  BY <1>1 DEF NoRequest
<1>2. CASE request'[r] = request[r]
  <2>1. request[r].op \in {"none", "upload_retry", "reprocess"}
    BY DEF OInv, RequestsRestart
  <2>2. ASSUME NEW d \in request'[r].docs
        PROVE  LiveJobs(d)' = {} /\ doc'[d] # "ABSENT" /\ upload'[d] # "inserted"
    <3>1. d \in Docs
      BY <1>2, <2>2 DEF IInv, TypeOK, Request
    <3>2. LiveJobs(d) = {} /\ doc[d] # "ABSENT" /\ upload[d] # "inserted"
      BY <1>2, <2>2 DEF OInv, RequestsRestart
    <3>3. LiveJobs(d)' \subseteq LiveJobs(d)
      BY <2>2, <3>1, LiveAfter DEF Alone
    <3>4. doc'[d] # "ABSENT"
      BY <3>1, <3>2 DEF OrderlyStep, DocumentStep, Busy, QuietStatus
    <3>5. upload'[d] # "inserted"
      BY <3>1, <3>2 DEF OrderlyStep, UploadStep
    <3>. QED  BY <3>2, <3>3, <3>4, <3>5
  <2>. QED  BY <1>2, <2>1, <2>2
<1>3. CASE /\ request'[r].op \in {"upload_retry", "reprocess"}
           /\ \E d \in Docs : request'[r].docs = {d} /\ doc[d] = "FAILED"
           /\ UNCHANGED <<doc, jobs, upload>>
  <2>1. PICK d \in Docs : request'[r].docs = {d} /\ doc[d] = "FAILED"
    BY <1>3
  <2>2. LiveJobs(d) = {} /\ upload[d] # "inserted"
    BY <2>1 DEF OInv, QuietDocuments, QuietStatus, UploadsWait
  <2>3. LiveJobs(d)' = LiveJobs(d) /\ doc'[d] = "FAILED" /\ upload'[d] = upload[d]
    BY <1>3, <2>1 DEF LiveJobs
  <2>. QED  BY <1>3, <2>1, <2>2, <2>3
<1>. QED  BY <1>1, <1>2, <1>3 DEF OrderlyStep, ReadStep

LEMMA StepsAfter ==
  ASSUME IInv, OInv, OrderlyStep
  PROVE  NothingSplit' /\ StepsInOrder' /\ SearchableRanEveryStep'
<1>1. NothingSplit'
  BY DEF OInv, NothingSplit, OrderlyStep, DocumentStep, Busy
<1>2. ASSUME NEW j \in JobIds, jobs'[j].status \in LiveStatus
      PROVE  /\ jobs'[j].step \in Steps
             /\ \A s \in Steps : Rank(s) < Rank(jobs'[j].step) => Ran(jobs[j].doc, s)'
  <2>1. CASE RowKept(jobs[j], jobs'[j])
    <3>1. /\ jobs[j].status \in LiveStatus /\ jobs'[j].step = jobs[j].step
          /\ jobs'[j].doc = jobs[j].doc
      BY <1>2, <2>1 DEF RowKept
    <3>2. jobs[j].doc \in Docs
      BY <3>1 DEF IInv, RowsNameDocuments, LiveStatus
    <3>. QED  BY <3>1, <3>2, LiveAfter DEF OInv, StepsInOrder, Ran
  <2>2. ASSUME NEW d \in Docs, NEW s \in Steps, jobs'[j] = NewJob(d, s), Alone(d, s)'
        PROVE  /\ jobs'[j].step \in Steps
               /\ \A t \in Steps : Rank(t) < Rank(jobs'[j].step) => Ran(jobs[j].doc, t)'
    <3>1. jobs'[j].step = s /\ jobs'[j].doc = d
      BY <2>2 DEF NewJob
    <3>2. \A t \in Steps : Rank(t) < Rank(s) => Ran(d, t)'
      BY <2>2 DEF Alone, Rank, STEP_TRANSITIONS, Ran
    <3>. QED  BY <3>1, <3>2 DEF Ran
  <2>. QED  BY <2>1, <2>2 DEF OrderlyStep, RowStep
<1>3. ASSUME NEW d \in Docs, doc'[d] \in {"SEARCHABLE", "ACTIVE"}
      PROVE  RanAllSteps(d)'
  <2>1. CASE doc'[d] = doc[d]
    BY <1>3, <2>1, LiveAfter DEF OInv, SearchableRanEveryStep, RanAllSteps, Ran
  <2>. QED  BY <1>3, <2>1 DEF OrderlyStep, DocumentStep, Busy
<1>4. StepsInOrder'
  BY <1>2 DEF StepsInOrder, Rank, STEP_TRANSITIONS, Ran
<1>5. SearchableRanEveryStep'
  BY <1>3 DEF SearchableRanEveryStep, RanAllSteps, Ran
<1>. QED  BY <1>1, <1>4, <1>5

LEMMA OrderlyStepKeeps ==
  ASSUME IInv, OInv, OrderlyStep
  PROVE  OInv'
BY ThreadsOwnAfter, OneLiveAfter, UploadsWaitAfter, RequestsAfter, StepsAfter DEF OInv

-----------------------------------------------------------------------------
(* The step table, the thread's own document, and the rows others hold.    *)

LEMMA RankOf ==
  /\ Rank("VALIDATE") = 1 /\ Rank("SPLIT") = 2 /\ Rank("NORMALIZE") = 3
  /\ Rank("CONVERT") = 4 /\ Rank("METADATA_EXTRACT") = 5 /\ Rank("REDACT") = 6
  /\ Rank("TRANSLATE") = 7 /\ Rank("CHUNK") = 8 /\ Rank("EMBED") = 9
  /\ Rank("KG_EXTRACT") = 10
BY DEF Rank, STEP_TRANSITIONS

LEMMA RankTable ==
  ASSUME NEW s \in AllSteps
  PROVE  /\ Rank(s) \in 1..10
         /\ (Rank(s) = 1) <=> (s = "VALIDATE")
         /\ (Rank(s) = 9) <=> (s = "EMBED")
         /\ (Rank(s) = 10) <=> (s = "KG_EXTRACT")
BY RankOf DEF AllSteps

LEMMA RanksDiffer ==
  ASSUME NEW s \in AllSteps, NEW t \in AllSteps, Rank(s) = Rank(t)
  PROVE  s = t
BY RankOf DEF AllSteps

LEMMA StatusTable ==
  ASSUME NEW s \in AllSteps
  PROVE  /\ DuringStatus(s) \in Busy
         /\ s \in LastSteps => AfterStatus(s) \in {"SEARCHABLE", "ACTIVE"}
         /\ s \notin LastSteps => AfterStatus(s) \in Busy
<1>1. DuringStatus(s) \in Busy
  BY DEF AllSteps, DuringStatus, STEP_TRANSITIONS, Busy, DocStatus, SettledStatus, Gone,
         QuietStatus
<1>2. s \in LastSteps => AfterStatus(s) \in {"SEARCHABLE", "ACTIVE"}
  BY DEF LastSteps, AfterStatus, STEP_TRANSITIONS
<1>3. s \notin LastSteps => AfterStatus(s) \in Busy
  BY DEF AllSteps, LastSteps, AfterStatus, STEP_TRANSITIONS, Busy, DocStatus, SettledStatus,
         Gone, QuietStatus
<1>. QED  BY <1>1, <1>2, <1>3

\* The step queued after s comes right after it: what is below it is s or below s.
LEMMA NextStepFollows ==
  ASSUME NEW s \in Steps, NEW t \in NextSteps(s), NEW u \in Steps, Rank(u) < Rank(t)
  PROVE  u = s \/ Rank(u) < Rank(s)
<1>. s \in AllSteps /\ t \in AllSteps /\ u \in AllSteps
  BY ConstantsAssumption DEF NextSteps
<1>1. Rank(s) \in Nat /\ Rank(t) \in Nat /\ Rank(u) \in Nat
  BY RankTable
<1>2. ~(Rank(s) < Rank(u))
  BY DEF NextSteps
<1>3. Rank(u) < Rank(s) \/ Rank(u) = Rank(s)
  BY <1>1, <1>2
<1>. QED  BY <1>3, RanksDiffer

LEMMA OwnDocument ==
  ASSUME IInv, OInv, NEW w \in Workers, ~At(w, "idle")
  PROVE  /\ LiveJobs(DocOf(w)) = {worker[w].job}
         /\ doc[DocOf(w)] \notin QuietStatus \cup {"SPLIT_COMPLETE"} \cup Gone
         /\ upload[DocOf(w)] # "inserted"
         /\ \A r \in Requests : DocOf(w) \notin request[r].docs
         /\ StepOf(w) \in Steps
         /\ \A s \in Steps : Rank(s) < Rank(StepOf(w)) => Ran(DocOf(w), s)
<1>. DEFINE d == DocOf(w)  j == worker[w].job
<1>1. /\ j \in JobIds /\ d \in Docs /\ jobs[j].doc = d /\ jobs[j].status \in LiveStatus
      /\ jobs[j].step = StepOf(w)
  BY OwnRow DEF OInv
<1>2. j \in LiveJobs(d)
  BY <1>1 DEF LiveJobs
<1>3. LiveJobs(d) = {j}
  BY <1>1, <1>2 DEF OInv, OneLiveJobPerDocument
<1>4. doc[d] \notin QuietStatus \cup {"SPLIT_COMPLETE"} \cup Gone
  BY <1>1, <1>2 DEF OInv, QuietDocuments, NothingSplit, QuietStatus, Gone
<1>5. upload[d] # "inserted"
  BY <1>1, <1>2 DEF OInv, UploadsWait
<1>6. \A r \in Requests : d \notin request[r].docs
  BY <1>2 DEF OInv, RequestsRestart
<1>7. /\ StepOf(w) \in Steps
      /\ \A s \in Steps : Rank(s) < Rank(StepOf(w)) => Ran(d, s)
  BY <1>1 DEF OInv, StepsInOrder
<1>. QED  BY <1>3, <1>4, <1>5, <1>6, <1>7

\* When a thread's own row is completed, its step and those before it have run.
LEMMA CompletedRuns ==
  ASSUME IInv, OInv, NEW w \in Workers, ~At(w, "idle"),
         jobs'[worker[w].job] = Completed(jobs[worker[w].job]),
         \A j \in JobIds : jobs[j].status = "COMPLETED" => jobs'[j] = jobs[j],
         NEW s \in Steps, s = StepOf(w) \/ Rank(s) < Rank(StepOf(w)),
         NEW d \in Docs, d = DocOf(w)
  PROVE  Ran(d, s)'
<1>. DEFINE j == worker[w].job
<1>1. /\ j \in JobIds /\ d \in Docs /\ jobs[j].doc = d /\ jobs[j].step = StepOf(w)
      /\ jobs[j] \in Job
  BY OwnRow DEF OInv
<1>2. CASE s = StepOf(w)
  <2>1. Completed(jobs[j]).doc = d /\ Completed(jobs[j]).step = s
        /\ Completed(jobs[j]).status = "COMPLETED"
    BY <1>1, <1>2 DEF Completed, Job
  <2>. QED  BY <1>1, <2>1 DEF Ran
<1>3. CASE Rank(s) < Rank(StepOf(w))
  BY <1>3, OwnDocument DEF Ran
<1>. QED  BY <1>2, <1>3

-----------------------------------------------------------------------------
(* Each action of Next is an orderly step.                                 *)

\* A step that leaves the rows and the documents' statuses alone.
LEMMA QuietStep ==
  ASSUME IInv, OInv, UNCHANGED jobs,
         \A d \in Docs : DocumentStep(d) /\ UploadStep(d),
         \A r \in Requests : ReadStep(r),
         \A v \in Workers : \/ worker'[v].pc = "idle"
                            \/ worker[v].pc # "idle" /\ worker'[v].job = worker[v].job
  PROVE  OrderlyStep
<1>1. \A j \in JobIds : RowStep(j)
  BY UpdatesKeep DEF RowStep, IInv, TypeOK
<1>2. \A v \in Workers : HoldStep(v)
  BY DEF HoldStep
<1>. QED  BY <1>1, <1>2 DEF OrderlyStep

\* A thread writes its own row and goes idle.
LEMMA FinishStep ==
  ASSUME IInv, OInv, NEW w \in Workers, ~At(w, "idle"),
         NEW row \in Job, RowKept(jobs[worker[w].job], row),
         jobs' = SetJob(worker[w].job, row),
         worker' = [worker EXCEPT ![w] = Idle], UNCHANGED <<request, upload>>,
         \A d \in Docs : DocumentStep(d)
  PROVE  OrderlyStep
<1>. DEFINE j == worker[w].job
<1>1. jobs' = [jobs EXCEPT ![j] = row] /\ \A i \in JobIds : RowKept(jobs[i], jobs'[i])
  BY SetJobKeeps DEF OInv
<1>2. \A i \in JobIds : RowStep(i)
  BY <1>1 DEF RowStep
<1>3. \A d \in Docs : UploadStep(d)
  BY DEF UploadStep
<1>4. \A r \in Requests : ReadStep(r)
  BY DEF ReadStep
<1>5. ASSUME NEW v \in Workers PROVE HoldStep(v)
  <2>1. CASE v = w
    BY <2>1 DEF HoldStep, Idle, IInv, TypeOK
  <2>2. CASE v # w /\ worker[v].pc # "idle"
    <3>1. worker'[v] = worker[v] /\ worker[v].job # j /\ worker[v].job \in JobIds
      BY <2>2, WorkingThread DEF OInv, ThreadsOwn, At
    <3>. QED  BY <1>1, <2>2, <3>1 DEF HoldStep, IInv, TypeOK
  <2>3. CASE v # w /\ worker[v].pc = "idle"
    BY <2>3 DEF HoldStep
  <2>. QED  BY <2>1, <2>2, <2>3
<1>. QED  BY <1>2, <1>3, <1>4, <1>5 DEF OrderlyStep

LEMMA RetryStep ==
  ASSUME IInv, OInv, NEW w \in Workers, Retry(w)
  PROVE  OrderlyStep
<1>1. ~At(w, "idle")
  BY DEF Retry, At
<1>2. /\ Retried(jobs[worker[w].job]) \in Job
      /\ RowKept(jobs[worker[w].job], Retried(jobs[worker[w].job]))
  BY <1>1, OwnRow, UpdatesKeep DEF OInv
<1>3. \A d \in Docs : DocumentStep(d)
  BY DEF Retry, DocumentStep
<1>. QED  BY <1>1, <1>2, <1>3, FinishStep DEF Retry

LEMMA DeadLetterStep ==
  ASSUME IInv, OInv, NEW w \in Workers, DeadLetter(w)
  PROVE  OrderlyStep
<1>. DEFINE j == worker[w].job  d == DocOf(w)
<1>1. ~At(w, "idle")
  BY DEF DeadLetter, At
<1>2. /\ DeadLettered(jobs[j]) \in Job /\ RowKept(jobs[j], DeadLettered(jobs[j]))
      /\ j \in JobIds /\ d \in Docs /\ jobs[j] \in Job
  BY <1>1, OwnRow, UpdatesKeep DEF OInv
<1>3. jobs' = [jobs EXCEPT ![j] = DeadLettered(jobs[j])]
  BY <1>1, <1>2, SetJobKeeps DEF DeadLetter, OInv
<1>4. LiveJobs(d) = {j} /\ doc[d] \notin Gone /\ upload[d] # "inserted"
  BY <1>1, OwnDocument
<1>5. doc' = [doc EXCEPT ![d] = "FAILED"]
  BY <1>4 DEF DeadLetter, SetStatus
<1>6. \A i \in JobIds : jobs'[i].doc = d => jobs'[i].status \notin LiveStatus
  <2>1. jobs'[j].status \notin LiveStatus
    BY <1>2, <1>3 DEF DeadLettered, Job, LiveStatus, IInv, TypeOK
  <2>2. \A i \in JobIds : i # j => jobs'[i] = jobs[i]
    BY <1>3
  <2>. QED  BY <1>4, <2>1, <2>2 DEF LiveJobs
<1>7. ASSUME NEW e \in Docs PROVE DocumentStep(e)
  <2>1. CASE e = d
    <3>1. LiveJobs(e)' = {}
      BY <1>6, <2>1 DEF LiveJobs
    <3>. QED  BY <1>4, <1>5, <2>1, <3>1 DEF DocumentStep, IInv, TypeOK
  <2>2. CASE e # d
    BY <1>5, <2>2 DEF DocumentStep
  <2>. QED  BY <2>1, <2>2
<1>. QED  BY <1>1, <1>2, <1>7, FinishStep DEF DeadLetter

LEMMA CompleteLastStep ==
  ASSUME IInv, OInv, NEW w \in Workers, CompleteLast(w)
  PROVE  OrderlyStep
<1>. DEFINE j == worker[w].job  d == DocOf(w)
<1>1. ~At(w, "idle")
  BY DEF CompleteLast, At
<1>2. /\ Completed(jobs[j]) \in Job /\ RowKept(jobs[j], Completed(jobs[j]))
      /\ j \in JobIds /\ d \in Docs /\ jobs[j] \in Job /\ jobs[j].status = "PROCESSING"
      /\ StepOf(w) \in AllSteps
  BY <1>1, OwnRow, UpdatesKeep DEF OInv
<1>3. jobs' = [jobs EXCEPT ![j] = Completed(jobs[j])]
  BY <1>1, <1>2, SetJobKeeps DEF CompleteLast, OInv
<1>4. doc[d] \notin Gone /\ upload[d] # "inserted"
  BY <1>1, OwnDocument
<1>5. doc' = [doc EXCEPT ![d] = AfterStatus(StepOf(w))]
  BY <1>4 DEF CompleteLast, SetStatus
<1>6. AfterStatus(StepOf(w)) \in {"SEARCHABLE", "ACTIVE"}
  BY <1>2, StatusTable DEF CompleteLast
<1>7. ASSUME NEW s \in Steps \ {"KG_EXTRACT"}, NEW e \in Docs, e = d
      PROVE  Ran(e, s)'
  <2>1. s \in AllSteps /\ StepOf(w) \in AllSteps /\ StepOf(w) \in {"EMBED", "KG_EXTRACT"}
    BY <1>2, ConstantsAssumption DEF CompleteLast, LastSteps
  <2>2. s = StepOf(w) \/ Rank(s) < Rank(StepOf(w))
    BY <2>1, RankOf DEF AllSteps
  <2>3. /\ jobs'[j] = Completed(jobs[j])
        /\ \A i \in JobIds : jobs[i].status = "COMPLETED" => jobs'[i] = jobs[i]
    BY <1>2, <1>3 DEF IInv, TypeOK
  <2>. QED  BY <1>1, <1>7, <2>2, <2>3, CompletedRuns
<1>8. ASSUME NEW e \in Docs PROVE DocumentStep(e)
  <2>1. CASE e = d
    <3>1. RanAllSteps(e)'
      BY <1>7, <2>1 DEF RanAllSteps
    <3>. QED  BY <1>4, <1>5, <1>6, <2>1, <3>1 DEF DocumentStep, IInv, TypeOK
  <2>2. CASE e # d
    BY <1>5, <2>2 DEF DocumentStep
  <2>. QED  BY <2>1, <2>2
<1>. QED  BY <1>1, <1>2, <1>8, FinishStep DEF CompleteLast

\* The completed job is replaced by that of the next step.
LEMMA CompleteAndQueueStep ==
  ASSUME IInv, OInv, NEW w \in Workers, NEW s \in Steps, CompleteAndQueue(w, s)
  PROVE  OrderlyStep
<1>. DEFINE j == worker[w].job  d == DocOf(w)
<1>1. ~At(w, "idle") /\ s \in NextSteps(StepOf(w))
  BY DEF CompleteAndQueue, At
<1>2. /\ Completed(jobs[j]) \in Job /\ RowKept(jobs[j], Completed(jobs[j]))
      /\ j \in JobIds /\ d \in Docs /\ jobs[j] \in Job /\ jobs[j].status = "PROCESSING"
      /\ StepOf(w) \in AllSteps
  BY <1>1, OwnRow, UpdatesKeep DEF OInv
<1>3. SetJob(j, Completed(jobs[j])) = [jobs EXCEPT ![j] = Completed(jobs[j])]
  BY <1>1, <1>2, SetJobKeeps DEF OInv
<1>4. PICK n \in Fresh : jobs' = [[jobs EXCEPT ![j] = Completed(jobs[j])] EXCEPT ![n] = NewJob(d, s)]
  BY <1>3 DEF CompleteAndQueue, QueueNext
<1>5. n \in JobIds /\ jobs[n].status = "ABSENT" /\ n # j
  BY <1>2 DEF Fresh
<1>6. /\ jobs'[n] = NewJob(d, s) /\ jobs'[j] = Completed(jobs[j])
      /\ \A i \in JobIds : i # n /\ i # j => jobs'[i] = jobs[i]
  BY <1>2, <1>4, <1>5 DEF IInv, TypeOK
<1>7. /\ LiveJobs(d) = {j} /\ doc[d] \notin Gone /\ upload[d] # "inserted"
      /\ \A r \in Requests : d \notin request[r].docs
      /\ StepOf(w) \in Steps
  BY <1>1, OwnDocument
<1>8. doc' = [doc EXCEPT ![d] = AfterStatus(StepOf(w))] /\ UNCHANGED <<request, upload>>
  BY <1>7 DEF CompleteAndQueue, SetStatus
<1>9. doc'[d] = AfterStatus(StepOf(w)) /\ doc'[d] \in Busy \cup {"SEARCHABLE", "ACTIVE"}
  BY <1>2, <1>8, StatusTable DEF IInv, TypeOK
<1>10. ASSUME NEW t \in Steps, Rank(t) < Rank(s), NEW e \in Docs, e = d
       PROVE  Ran(e, t)'
  <2>1. t = StepOf(w) \/ Rank(t) < Rank(StepOf(w))
    BY <1>1, <1>7, <1>10, NextStepFollows
  <2>2. \A i \in JobIds : jobs[i].status = "COMPLETED" => jobs'[i] = jobs[i]
    BY <1>2, <1>5, <1>6
  <2>. QED  BY <1>1, <1>6, <1>10, <2>1, <2>2, CompletedRuns
<1>11. ASSUME NEW e \in Docs, e = d
       PROVE  Alone(e, s)'
  <2>1. ASSUME NEW i \in JobIds, jobs'[i].doc = d, jobs'[i].status \in LiveStatus
        PROVE  i = n
    <3>1. jobs'[j].status \notin LiveStatus
      BY <1>2, <1>6 DEF Completed, Job, LiveStatus
    <3>. QED  BY <1>6, <1>7, <2>1, <3>1 DEF LiveJobs
  <2>2. \A i, k \in LiveJobs(e)' : i = k
    BY <1>11, <2>1 DEF LiveJobs
  <2>3. \A t \in Steps : Rank(t) < Rank(s) => Ran(e, t)'
    BY <1>10, <1>11
  <2>4. doc'[e] \notin QuietStatus
    BY <1>9, <1>11 DEF Busy, QuietStatus
  <2>5. /\ upload'[e] # "inserted"
        /\ \A r \in Requests : e \notin request'[r].docs
    BY <1>7, <1>8, <1>11
  <2>. QED  BY <2>2, <2>3, <2>4, <2>5 DEF Alone, Rank, STEP_TRANSITIONS, Ran
<1>12. \A i \in JobIds : RowStep(i)
  <2>1. RowStep(n)
    BY <1>2, <1>5, <1>6, <1>11 DEF RowStep
  <2>2. \A i \in JobIds : i # n => RowKept(jobs[i], jobs'[i])
    BY <1>2, <1>6, UpdatesKeep DEF IInv, TypeOK
  <2>. QED  BY <2>1, <2>2 DEF RowStep
<1>13. ASSUME NEW e \in Docs PROVE DocumentStep(e) /\ UploadStep(e)
  <2>1. UploadStep(e)
    BY <1>8 DEF UploadStep
  <2>2. CASE e # d
    BY <1>8, <2>1, <2>2 DEF DocumentStep
  <2>3. CASE e = d /\ doc'[d] \in Busy
    BY <1>7, <2>1, <2>3 DEF DocumentStep
  <2>4. CASE e = d /\ doc'[d] \notin Busy
    <3>1. StepOf(w) = "EMBED" /\ s = "KG_EXTRACT"
      <4>1. StepOf(w) \in {"EMBED", "KG_EXTRACT"}
        BY <1>2, <1>9, <2>4, StatusTable DEF LastSteps
      <4>2. s \in AllSteps /\ Rank(StepOf(w)) < Rank(s)
        BY <1>1, ConstantsAssumption DEF NextSteps
      <4>. QED  BY <4>1, <4>2, RankOf DEF AllSteps
    <3>2. \A t \in Steps \ {"KG_EXTRACT"} : Rank(t) < Rank(s)
      BY <3>1, RankOf, ConstantsAssumption DEF AllSteps
    <3>3. RanAllSteps(e)'
      BY <1>10, <2>4, <3>2 DEF RanAllSteps
    <3>. QED  BY <1>7, <1>9, <2>1, <2>4, <3>3 DEF DocumentStep
  <2>. QED  BY <2>2, <2>3, <2>4
<1>14. \A r \in Requests : ReadStep(r)
  BY <1>8 DEF ReadStep
<1>15. ASSUME NEW v \in Workers PROVE HoldStep(v)
  <2>. worker' = [worker EXCEPT ![w] = Idle]
    BY DEF CompleteAndQueue
  <2>1. CASE v = w
    BY <2>1 DEF HoldStep, Idle, IInv, TypeOK
  <2>2. CASE v # w /\ worker[v].pc # "idle"
    <3>1. /\ worker'[v] = worker[v] /\ worker[v].job # j /\ worker[v].job \in JobIds
          /\ jobs[worker[v].job].status # "ABSENT"
      BY <1>1, <2>2, WorkingThread DEF OInv, ThreadsOwn, At
    <3>. QED  BY <1>5, <1>6, <2>2, <3>1 DEF HoldStep
  <2>3. CASE v # w /\ worker[v].pc = "idle"
    BY <2>3 DEF HoldStep
  <2>. QED  BY <2>1, <2>2, <2>3
<1>. QED  BY <1>12, <1>13, <1>14, <1>15 DEF OrderlyStep

LEMMA HandlerReturnsStep ==
  ASSUME IInv, OInv, NEW w \in Workers, HandlerReturns(w)
  PROVE  OrderlyStep
<1>. DEFINE d == DocOf(w)
<1>1. ~At(w, "idle") /\ UNCHANGED <<jobs, request, upload>>
  BY DEF HandlerReturns, At
<1>2. d \in Docs /\ upload[d] # "inserted" /\ doc[d] \notin Gone
  BY <1>1, OwnRow, OwnDocument DEF OInv
<1>3. ASSUME NEW e \in Docs PROVE DocumentStep(e) /\ UploadStep(e)
  <2>1. UploadStep(e)
    BY <1>1 DEF UploadStep
  <2>2. CASE StepOf(w) = "KG_EXTRACT"
    <3>1. doc' = [doc EXCEPT ![d] = "ACTIVE"]
      BY <1>2, <2>2 DEF HandlerReturns, SetStatus
    <3>2. \A s \in Steps \ {"KG_EXTRACT"} : Rank(s) < Rank(StepOf(w))
      BY <2>2, RankOf, ConstantsAssumption DEF AllSteps
    <3>3. \A s \in Steps \ {"KG_EXTRACT"} : Ran(d, s)
      BY <1>1, <3>2, OwnDocument
    <3>4. CASE e = d
      <4>1. RanAllSteps(e)'
        BY <1>1, <3>3, <3>4 DEF RanAllSteps, Ran
      <4>. QED  BY <1>2, <2>1, <3>1, <3>4, <4>1 DEF DocumentStep, IInv, TypeOK
    <3>5. CASE e # d
      BY <2>1, <3>1, <3>5 DEF DocumentStep
    <3>. QED  BY <3>4, <3>5
  <2>3. CASE StepOf(w) # "KG_EXTRACT"
    BY <2>1, <2>3 DEF HandlerReturns, DocumentStep
  <2>. QED  BY <2>2, <2>3
<1>4. \A r \in Requests : ReadStep(r)
  BY <1>1 DEF ReadStep
<1>5. \A v \in Workers : \/ worker'[v].pc = "idle"
                         \/ worker[v].pc # "idle" /\ worker'[v].job = worker[v].job
  BY <1>1 DEF HandlerReturns, Goto, At, IInv, TypeOK, Worker
<1>. QED  BY <1>1, <1>3, <1>4, <1>5, QuietStep

\* What a poll reclaims: no thread holds it, and it was its document's only job.
LEMMA ReapedKeeps ==
  ASSUME IInv, OInv
  PROVE  /\ \A i \in JobIds : ReapedJobs[i] \in Job /\ RowKept(jobs[i], ReapedJobs[i])
         /\ \A v \in Workers : ~At(v, "idle") =>
              /\ ReapedJobs[worker[v].job] = jobs[worker[v].job]
              /\ worker[v].job \notin Claimable(ReapedJobs)
         /\ \A d \in Docs :
              \/ ReapedDocs[d] = doc[d]
              \/ /\ ReapedDocs[d] = "FAILED" /\ upload[d] # "inserted"
                 /\ \A i \in JobIds :
                      ReapedJobs[i].doc = d => ReapedJobs[i].status \notin LiveStatus
<1>1. ReapedJobs \in [JobIds -> Job]
  BY ReapedEvolves DEF Evolves
<1>2. \A i \in Stale : i \in JobIds /\ jobs[i].status = "PROCESSING"
                       /\ jobs[i].lock = "expired" /\ jobs[i].status \in LiveStatus
  BY DEF Stale, LiveStatus
<1>3. \A i \in JobIds : RowKept(jobs[i], ReapedJobs[i])
  BY <1>2, UpdatesKeep DEF ReapedJobs, IInv, TypeOK
<1>4. ASSUME NEW v \in Workers, ~At(v, "idle")
      PROVE  /\ ReapedJobs[worker[v].job] = jobs[worker[v].job]
             /\ worker[v].job \notin Claimable(ReapedJobs)
  <2>1. /\ worker[v].job \in JobIds /\ jobs[worker[v].job].status = "PROCESSING"
        /\ jobs[worker[v].job].lock = "held"
    BY <1>4, WorkingThread DEF OInv, ThreadsOwn, At
  <2>. QED  BY <2>1 DEF ReapedJobs, Stale, Claimable
<1>5. ASSUME NEW d \in Docs, ReapedDocs[d] # doc[d]
      PROVE  /\ ReapedDocs[d] = "FAILED" /\ upload[d] # "inserted"
             /\ \A i \in JobIds :
                  ReapedJobs[i].doc = d => ReapedJobs[i].status \notin LiveStatus
  <2>1. ReapedDocs[d] = "FAILED" /\ \E k \in Stale : jobs[k].doc = d /\ Exhausted(jobs[k].attempt)
    BY <1>5 DEF ReapedDocs
  <2>2. PICK k \in Stale : jobs[k].doc = d /\ Exhausted(jobs[k].attempt)
    BY <2>1
  <2>3. k \in LiveJobs(d)
    BY <1>2, <2>2 DEF LiveJobs
  <2>4. upload[d] # "inserted"
    BY <2>3 DEF OInv, UploadsWait
  <2>5. ReapedJobs[k] = ReapedRow(jobs[k]) /\ jobs[k] \in Job
    BY <1>2 DEF ReapedJobs, IInv, TypeOK
  <2>6. ReapedJobs[k].status = "DEAD_LETTER"
    BY <2>2, <2>5 DEF ReapedRow, Job
  <2>7. ASSUME NEW i \in JobIds, ReapedJobs[i].doc = d, ReapedJobs[i].status \in LiveStatus
        PROVE  FALSE
    <3>1. i \in LiveJobs(d)
      BY <1>3, <2>7 DEF RowKept, LiveJobs
    <3>2. i = k
      BY <2>3, <3>1 DEF OInv, OneLiveJobPerDocument
    <3>. QED  BY <2>6, <2>7, <3>2 DEF LiveStatus
  <2>. QED  BY <2>1, <2>4, <2>7
<1>. QED  BY <1>1, <1>3, <1>4, <1>5

LEMMA PollFindsNothingStep ==
  ASSUME IInv, OInv, NEW w \in Workers, PollFindsNothing(w)
  PROVE  OrderlyStep
<1>. UNCHANGED <<worker, request, upload>> /\ jobs' = ReapedJobs /\ doc' = ReapedDocs
  BY DEF PollFindsNothing
<1>1. \A i \in JobIds : RowStep(i)
  BY ReapedKeeps DEF RowStep
<1>2. \A d \in Docs : DocumentStep(d) /\ UploadStep(d)
  BY ReapedKeeps DEF DocumentStep, UploadStep, LiveJobs
<1>3. \A r \in Requests : ReadStep(r)
  BY DEF ReadStep
<1>4. \A v \in Workers : HoldStep(v)
  BY ReapedKeeps DEF HoldStep, At
<1>. QED  BY <1>1, <1>2, <1>3, <1>4 DEF OrderlyStep

LEMMA PollClaimsStep ==
  ASSUME IInv, OInv, NEW w \in Workers, NEW j \in JobIds, PollClaims(w, j)
  PROVE  OrderlyStep
<1>. DEFINE d == jobs[j].doc
<1>1. /\ j \in Claimable(ReapedJobs) /\ UNCHANGED <<request, upload>>
      /\ jobs' = [ReapedJobs EXCEPT ![j] = Claimed(ReapedJobs[j])]
      /\ doc' = [ReapedDocs EXCEPT ![d] = DuringStatus(jobs[j].step)]
      /\ worker' = [worker EXCEPT ![w] =
           [pc |-> "running", job |-> j, attempt |-> jobs[j].attempt + 1]]
  BY DEF PollClaims
<1>2. /\ jobs'[j] = Claimed(ReapedJobs[j])
      /\ \A i \in JobIds : i # j => jobs'[i] = ReapedJobs[i]
      /\ ReapedJobs[j] \in Job /\ ReapedJobs[j].status \in LiveStatus
  BY <1>1, ReapedKeeps DEF ReapedJobs, Claimable, LiveStatus
<1>3. /\ RowKept(jobs[j], ReapedJobs[j]) /\ RowKept(ReapedJobs[j], Claimed(ReapedJobs[j]))
      /\ jobs[j].status \in LiveStatus
  BY <1>2, ReapedKeeps, UpdatesKeep DEF RowKept
<1>4. d \in Docs /\ jobs[j] \in Job /\ j \in LiveJobs(d)
  BY <1>3 DEF IInv, TypeOK, RowsNameDocuments, LiveJobs, LiveStatus
<1>5. doc'[d] \in Busy /\ upload[d] # "inserted"
  <2>1. doc'[d] = DuringStatus(jobs[j].step)
    BY <1>1, <1>4 DEF ReapedDocs
  <2>2. jobs[j].step \in AllSteps
    BY <1>4 DEF Job
  <2>. QED  BY <1>4, <2>1, <2>2, StatusTable DEF OInv, UploadsWait
<1>6. \A i \in JobIds : RowStep(i)
  <2>1. RowStep(j)
    BY <1>2, <1>3 DEF RowStep, RowKept
  <2>2. \A i \in JobIds : i # j => RowStep(i)
    BY <1>2, ReapedKeeps DEF RowStep
  <2>. QED  BY <2>1, <2>2
<1>7. ASSUME NEW e \in Docs PROVE DocumentStep(e) /\ UploadStep(e)
  <2>1. UploadStep(e)
    BY <1>1 DEF UploadStep
  <2>2. CASE e = d
    BY <1>5, <2>1, <2>2 DEF DocumentStep
  <2>3. CASE e # d
    <3>1. doc'[e] = ReapedDocs[e]
      BY <1>1, <2>3 DEF ReapedDocs
    <3>2. ReapedJobs[j].doc = d /\ Claimed(ReapedJobs[j]).doc = d
      BY <1>3 DEF RowKept
    <3>3. ASSUME ReapedDocs[e] # doc[e] PROVE LiveJobs(e)' = {}
      <4>1. \A i \in JobIds : ReapedJobs[i].doc = e => ReapedJobs[i].status \notin LiveStatus
        BY <3>3, ReapedKeeps
      <4>. QED  BY <1>2, <2>3, <3>2, <4>1 DEF LiveJobs
    <3>. QED  BY <2>1, <3>1, <3>3, ReapedKeeps DEF DocumentStep
  <2>. QED  BY <2>2, <2>3
<1>8. \A r \in Requests : ReadStep(r)
  BY <1>1 DEF ReadStep
<1>9. ASSUME NEW v \in Workers PROVE HoldStep(v)
  <2>1. ASSUME NEW u \in Workers, u # w, worker'[u].pc # "idle"
        PROVE  /\ worker'[u] = worker[u] /\ worker[u].pc # "idle"
               /\ worker[u].job # j /\ worker[u].job \in JobIds
               /\ jobs'[worker[u].job] = jobs[worker[u].job]
    <3>1. worker'[u] = worker[u]
      BY <1>1, <2>1
    <3>2. worker[u].job \in JobIds /\ worker[u].job # j
          /\ ReapedJobs[worker[u].job] = jobs[worker[u].job]
      BY <1>1, <2>1, <3>1, ReapedKeeps, WorkingThread DEF At
    <3>. QED  BY <1>2, <2>1, <3>1, <3>2
  <2>2. CASE v = w
    <3>1. worker'[w].job = j
      BY <1>1 DEF IInv, TypeOK
    <3>2. jobs'[j].status = "PROCESSING" /\ jobs'[j].lock = "held"
      BY <1>2 DEF Claimed, Job
    <3>3. worker[w].pc = "idle"
      BY DEF PollClaims
    <3>. QED  BY <2>1, <2>2, <3>1, <3>2, <3>3 DEF HoldStep
  <2>3. CASE v # w
    BY <2>1, <2>3 DEF HoldStep
  <2>. QED  BY <2>2, <2>3
<1>. QED  BY <1>6, <1>7, <1>8, <1>9 DEF OrderlyStep

LEMMA LockExpiresStep ==
  ASSUME Orderly, IInv, OInv, NEW j \in JobIds, LockExpires(j)
  PROVE  OrderlyStep
<1>1. /\ jobs' = [jobs EXCEPT ![j] = [jobs[j] EXCEPT !.lock = "expired"]]
      /\ UNCHANGED <<doc, worker, request, upload>>
      /\ jobs[j].status = "PROCESSING" => HeldBy(j) = {}
  BY DEF LockExpires, Orderly
<1>2. \A i \in JobIds : RowStep(i)
  BY <1>1, UpdatesKeep DEF RowStep, IInv, TypeOK
<1>3. \A d \in Docs : DocumentStep(d) /\ UploadStep(d)
  BY <1>1 DEF DocumentStep, UploadStep
<1>4. \A r \in Requests : ReadStep(r)
  BY <1>1 DEF ReadStep
<1>5. ASSUME NEW v \in Workers PROVE HoldStep(v)
  <2>1. CASE worker[v].pc # "idle"
    <3>1. worker[v].job # j /\ worker[v].job \in JobIds
      BY <1>1, <2>1, WorkingThread DEF HeldBy, At, OInv, ThreadsOwn
    <3>. QED  BY <1>1, <2>1, <3>1 DEF HoldStep
  <2>. QED  BY <1>1, <2>1 DEF HoldStep
<1>. QED  BY <1>2, <1>3, <1>4, <1>5 DEF OrderlyStep

LEMMA UploadSteps ==
  ASSUME IInv, OInv, NEW d \in Docs,
         UploadInsert(d) \/ UploadEnqueue(d) \/ UploadCrash(d) \/ SoftDelete(d)
  PROVE  OrderlyStep
<1>1. UNCHANGED <<worker, request>>
  BY DEF UploadInsert, UploadEnqueue, UploadCrash, SoftDelete
<1>2. (\A r \in Requests : ReadStep(r))
      /\ \A v \in Workers : \/ worker'[v].pc = "idle"
                            \/ worker[v].pc # "idle" /\ worker'[v].job = worker[v].job
  BY <1>1 DEF ReadStep
<1>3. CASE UploadInsert(d)
  <2>1. \A e \in Docs : DocumentStep(e) /\ UploadStep(e)
    BY <1>3 DEF UploadInsert, DocumentStep, UploadStep, IInv, TypeOK
  <2>. QED  BY <1>2, <1>3, <2>1, QuietStep DEF UploadInsert
<1>4. CASE UploadCrash(d)
  <2>1. \A e \in Docs : DocumentStep(e) /\ UploadStep(e)
    BY <1>4 DEF UploadCrash, DocumentStep, UploadStep, IInv, TypeOK
  <2>. QED  BY <1>2, <1>4, <2>1, QuietStep DEF UploadCrash
<1>5. CASE SoftDelete(d)
  <2>1. \A e \in Docs : DocumentStep(e) /\ UploadStep(e)
    BY <1>5 DEF SoftDelete, DocumentStep, UploadStep, IInv, TypeOK
  <2>. QED  BY <1>2, <1>5, <2>1, QuietStep DEF SoftDelete
<1>6. CASE UploadEnqueue(d)
  <2>1. PICK n \in Fresh : jobs' = [jobs EXCEPT ![n] = NewJob(d, "VALIDATE")]
    BY <1>6 DEF UploadEnqueue
  <2>2. /\ n \in JobIds /\ jobs[n].status = "ABSENT" /\ jobs'[n] = NewJob(d, "VALIDATE")
        /\ \A i \in JobIds : i # n => jobs'[i] = jobs[i]
    BY <2>1 DEF Fresh, IInv, TypeOK
  <2>3. doc[d] \in {"UPLOADED", "DELETED"} /\ LiveJobs(d) = {} /\ upload[d] = "inserted"
    BY <1>6 DEF UploadEnqueue, OInv, UploadsWait
  <2>4. Alone(d, "VALIDATE")'
    <3>1. doc'[d] \notin QuietStatus /\ upload'[d] # "inserted"
      BY <1>6, <2>3 DEF UploadEnqueue, QuietStatus, IInv, TypeOK
    <3>2. \A r \in Requests : d \notin request'[r].docs
      BY <1>1, <2>3 DEF OInv, RequestsRestart
    <3>3. \A i, k \in LiveJobs(d)' : i = k
      BY <2>2, <2>3 DEF LiveJobs
    <3>4. \A t \in Steps : ~(Rank(t) < Rank("VALIDATE"))
      BY RankTable, RankOf, ConstantsAssumption
    <3>. QED  BY <3>1, <3>2, <3>3, <3>4 DEF Alone, Rank, STEP_TRANSITIONS
  <2>5. \A i \in JobIds : RowStep(i)
    <3>1. RowStep(n)
      BY <2>2, <2>4, ConstantsAssumption DEF RowStep
    <3>2. \A i \in JobIds : i # n => RowStep(i)
      BY <2>2, UpdatesKeep DEF RowStep, IInv, TypeOK
    <3>. QED  BY <3>1, <3>2
  <2>6. \A e \in Docs : DocumentStep(e) /\ UploadStep(e)
    BY <1>6 DEF UploadEnqueue, DocumentStep, UploadStep, IInv, TypeOK
  <2>7. ASSUME NEW v \in Workers PROVE HoldStep(v)
    <3>1. CASE worker[v].pc # "idle"
      BY <1>1, <2>2, <3>1, WorkingThread DEF HoldStep
    <3>. QED  BY <1>1, <3>1 DEF HoldStep
  <2>. QED  BY <1>2, <2>5, <2>6, <2>7 DEF OrderlyStep
<1>. QED  BY <1>3, <1>4, <1>5, <1>6

LEMMA RequestSteps ==
  ASSUME Orderly, IInv, OInv, NEW r \in Requests,
         \/ \E d \in Docs : ReadForUploadRetry(r, d) \/ ReadForReprocess(r, d)
         \/ RequestAborts(r)
  PROVE  OrderlyStep
<1>1. UNCHANGED <<doc, jobs, worker, upload>>
  BY DEF ReadForUploadRetry, ReadForReprocess, Reads, RequestAborts
<1>2. ASSUME NEW q \in Requests PROVE ReadStep(q)
  <2>1. CASE q # r
    <3>1. \E new : request' = [request EXCEPT ![r] = new]
      BY DEF ReadForUploadRetry, ReadForReprocess, Reads, RequestAborts
    <3>. QED  BY <2>1, <3>1 DEF ReadStep, IInv, TypeOK
  <2>2. CASE RequestAborts(r) /\ q = r
    BY <2>2 DEF RequestAborts, ReadStep, IInv, TypeOK
  <2>3. ASSUME NEW d \in Docs, ReadForUploadRetry(r, d) \/ ReadForReprocess(r, d), q = r
        PROVE  ReadStep(q)
    <3>1. doc[d] # "SPLIT_COMPLETE"
      BY DEF OInv, NothingSplit
    <3>2. PICK op \in {"upload_retry", "reprocess"} :
            request' = [request EXCEPT ![r] = [op |-> op, docs |-> {d}]] /\ doc[d] = "FAILED"
      BY <2>3, <3>1 DEF ReadForUploadRetry, ReadForReprocess, Reads
    <3>3. request'[r] = [op |-> op, docs |-> {d}]
      BY <3>2 DEF IInv, TypeOK
    <3>. QED  BY <1>1, <2>3, <3>2, <3>3 DEF ReadStep
  <2>. QED  BY <2>1, <2>2, <2>3
<1>3. \A d \in Docs : DocumentStep(d) /\ UploadStep(d)
  BY <1>1 DEF DocumentStep, UploadStep
<1>4. \A v \in Workers : \/ worker'[v].pc = "idle"
                         \/ worker[v].pc # "idle" /\ worker'[v].job = worker[v].job
  BY <1>1
<1>. QED  BY <1>1, <1>2, <1>3, <1>4, QuietStep

\* A restart finds nothing live to cancel and queues the only job of its document.
LEMMA CommitRestartStep ==
  ASSUME Orderly, IInv, OInv, NEW r \in Requests, CommitRestart(r)
  PROVE  OrderlyStep
<1>. DEFINE D == request[r].docs  kept == CancelledJobs(jobs, D)
<1>1. /\ D \subseteq Docs /\ request[r].op \in {"upload_retry", "reprocess"}
      /\ \A d \in D : LiveJobs(d) = {} /\ upload[d] # "inserted"
  BY DEF OInv, RequestsRestart, IInv, TypeOK, Request, CommitRestart
<1>2. /\ doc' = [d \in Docs |-> IF d \in D THEN "UPLOADED" ELSE doc[d]]
      /\ request' = [request EXCEPT ![r] = NoRequest] /\ UNCHANGED <<worker, upload>>
  BY <1>1 DEF CommitRestart
<1>3. PICK new \in InsertsFor(D) : jobs' = Insert(kept, new, "VALIDATE")
  BY DEF CommitRestart
<1>4. /\ new \in [D -> Fresh] /\ \A d \in D : jobs'[new[d]] = NewJob(d, "VALIDATE")
      /\ \A i \in JobIds : jobs'[i] = kept[i] \/ \E d \in D : i = new[d]
      /\ \A i \in JobIds \ Fresh : jobs'[i] = kept[i]
  <2>1. Evolves(kept)
    BY UnchangedEvolves, CancelledEvolves
  <2>2. "VALIDATE" \in Steps
    BY ConstantsAssumption
  <2>3. new \in [D -> Fresh]
    BY DEF InsertsFor, Injection
  <2>4. \A i \in JobIds : jobs'[i] = kept[i] \/ \E d \in D : i = new[d]
    BY <1>3, <2>3 DEF Insert
  <2>. QED  BY <1>1, <1>3, <2>1, <2>2, <2>3, <2>4, InsertEvolves
<1>5. \A i \in JobIds :
        RowKept(jobs[i], kept[i]) /\ (jobs[i].status \in LiveStatus => kept[i] = jobs[i])
  <2>1. ASSUME NEW i \in JobIds PROVE RowKept(jobs[i], kept[i])
    BY UpdatesKeep DEF CancelledJobs, IInv, TypeOK
  <2>2. ASSUME NEW i \in JobIds, jobs[i].status \in LiveStatus PROVE kept[i] = jobs[i]
    BY <1>1, <2>2 DEF CancelledJobs, LiveJobs
  <2>. QED  BY <2>1, <2>2
<1>6. \A d \in D : new[d] \in JobIds /\ jobs[new[d]].status = "ABSENT"
  BY <1>4 DEF Fresh
<1>7. ASSUME NEW d \in D
      PROVE  Alone(d, "VALIDATE")'
  <2>1. doc'[d] \notin QuietStatus /\ upload'[d] # "inserted"
    BY <1>1, <1>2 DEF QuietStatus
  <2>2. \A q \in Requests : d \notin request'[q].docs
    BY <1>2 DEF Orderly, NoRequest, IInv, TypeOK
  <2>3. ASSUME NEW i \in JobIds, jobs'[i].doc = d, jobs'[i].status \in LiveStatus
        PROVE  i = new[d]
    <3>1. jobs'[i] # kept[i]
      BY <1>1, <1>5, <2>3 DEF RowKept, LiveJobs
    <3>2. PICK e \in D : i = new[e]
      BY <1>4, <3>1
    <3>3. jobs'[i] = NewJob(e, "VALIDATE")
      BY <1>4, <3>2
    <3>4. e = d
      BY <2>3, <3>3 DEF NewJob
    <3>. QED  BY <3>2, <3>4
  <2>4. \A i, k \in LiveJobs(d)' : i = k
    BY <2>3 DEF LiveJobs
  <2>5. \A t \in Steps : ~(Rank(t) < Rank("VALIDATE"))
    BY RankTable, RankOf, ConstantsAssumption
  <2>. QED  BY <2>1, <2>2, <2>4, <2>5 DEF Alone, Rank, STEP_TRANSITIONS
<1>8. ASSUME NEW i \in JobIds PROVE RowStep(i)
  <2>1. CASE jobs'[i] = kept[i]
    BY <1>5, <2>1 DEF RowStep
  <2>2. ASSUME NEW d \in D, i = new[d] PROVE RowStep(i)
    BY <1>1, <1>4, <1>6, <1>7, <2>2, ConstantsAssumption DEF RowStep
  <2>. QED  BY <1>4, <2>1, <2>2
<1>9. \A d \in Docs : DocumentStep(d) /\ UploadStep(d)
  BY <1>1, <1>2 DEF DocumentStep, UploadStep, Busy, DocStatus, QuietStatus
<1>10. \A q \in Requests : ReadStep(q)
  BY <1>2 DEF ReadStep, IInv, TypeOK
<1>11. ASSUME NEW v \in Workers PROVE HoldStep(v)
  <2>1. CASE worker[v].pc # "idle"
    <3>1. /\ worker[v].job \in JobIds /\ jobs[worker[v].job].status = "PROCESSING"
          /\ "PROCESSING" \in LiveStatus
      BY <2>1, WorkingThread DEF OInv, ThreadsOwn, At, LiveStatus
    <3>2. worker[v].job \notin Fresh
      BY <3>1 DEF Fresh
    <3>. QED  BY <1>2, <1>4, <1>5, <2>1, <3>1, <3>2 DEF HoldStep
  <2>. QED  BY <1>2, <2>1 DEF HoldStep
<1>. QED  BY <1>8, <1>9, <1>10, <1>11 DEF OrderlyStep

LEMMA NextOrderly ==
  ASSUME Orderly, IInv, OInv, [Next]_vars
  PROVE  OrderlyStep
<1>1. CASE UNCHANGED vars
  <2>1. UNCHANGED <<doc, jobs, worker, request, upload>>
    BY <1>1 DEF vars
  <2>2. \A d \in Docs : DocumentStep(d) /\ UploadStep(d)
    BY <2>1 DEF DocumentStep, UploadStep
  <2>3. \A r \in Requests : ReadStep(r)
    BY <2>1 DEF ReadStep
  <2>. QED  BY <2>1, <2>2, <2>3, QuietStep
<1>2. ASSUME NEW w \in Workers, HandlerRaises(w) \/ CompletionRaises(w) \/ Crash(w)
      PROVE  OrderlyStep
  <2>1. UNCHANGED <<doc, jobs, request, upload>>
    BY <1>2 DEF HandlerRaises, CompletionRaises, Crash
  <2>2. \A d \in Docs : DocumentStep(d) /\ UploadStep(d)
    BY <2>1 DEF DocumentStep, UploadStep
  <2>3. \A r \in Requests : ReadStep(r)
    BY <2>1 DEF ReadStep
  <2>4. \A v \in Workers : \/ worker'[v].pc = "idle"
                           \/ worker[v].pc # "idle" /\ worker'[v].job = worker[v].job
    BY <1>2 DEF HandlerRaises, CompletionRaises, Crash, Goto, At, Idle, IInv, TypeOK, Worker
  <2>. QED  BY <2>1, <2>2, <2>3, <2>4, QuietStep
<1>3. ASSUME NEW w \in Workers, HandlerSplits(w) \/ CompleteSplitParent(w)
      PROVE  FALSE
  <2>1. ~At(w, "idle")
    BY <1>3 DEF HandlerSplits, CompleteSplitParent, At
  <2>. QED  BY <1>3, <2>1, OwnDocument DEF HandlerSplits, CompleteSplitParent, Splits,
               IsSplitParent, Orderly
<1>4. ASSUME NEW r \in Requests,
             CommitReprocessSplit(r) \/ \E D \in SUBSET Docs : ReadForBatch(r, D)
      PROVE  FALSE
  BY <1>4 DEF CommitReprocessSplit, ReadForBatch, Orderly, OInv, RequestsRestart
<1>. QED  BY <1>1, <1>2, <1>3, <1>4, NextActions, PollClaimsStep, PollFindsNothingStep,
             HandlerReturnsStep, CompleteAndQueueStep, CompleteLastStep, DeadLetterStep,
             RetryStep, LockExpiresStep, UploadSteps, RequestSteps, CommitRestartStep

LEMMA InitOInv == Init => OInv
<1>. SUFFICES ASSUME Init PROVE OInv
  OBVIOUS
<1>1. \A d \in Docs : LiveJobs(d) = {}
  BY DEF Init, LiveJobs, NoRow, LiveStatus
<1>2. /\ OneLiveJobPerDocument /\ QuietDocuments /\ UploadsWait
      /\ NothingSplit /\ SearchableRanEveryStep
  BY <1>1 DEF Init, OneLiveJobPerDocument, QuietDocuments, UploadsWait, NothingSplit,
              SearchableRanEveryStep
<1>3. ThreadsOwn /\ RequestsRestart
  BY DEF Init, ThreadsOwn, RequestsRestart, Idle, NoRequest, At
<1>4. StepsInOrder
  BY DEF Init, StepsInOrder, NoRow, LiveStatus
<1>. QED  BY <1>2, <1>3, <1>4 DEF OInv

-----------------------------------------------------------------------------
(* The theorems.                                                           *)

THEOREM OrderlyInvariant == Orderly => (Spec => [](IInv /\ OInv))
<1>. SUFFICES ASSUME Orderly PROVE Spec => [](IInv /\ OInv)
  OBVIOUS
<1>1. Init => IInv /\ OInv
  BY InitIInv, InitOInv
<1>2. IInv /\ OInv /\ [Next]_vars => (IInv /\ OInv)'
  BY NextIInv, NextOrderly, OrderlyStepKeeps
<1>. QED  BY <1>1, <1>2, PTL DEF Spec

\* No pipeline forks: at most one job of a document is in the queue, although attempts
\* fail, threads die and requests restart failed documents; and a document that failed
\* has none, so that the request that restarts it cancels no running job.
THEOREM OnePipeline == Orderly => (Spec => []AtMostOnePipeline)
<1>1. IInv /\ OInv => OneLiveJobPerDocument
  BY DEF OInv
<1>2. IInv /\ OInv => FailedHasNoLiveJob
  BY DEF OInv, QuietDocuments, QuietStatus, FailedHasNoLiveJob
<1>3. IInv /\ OInv => AtMostOnePipeline
  BY <1>1, <1>2 DEF AtMostOnePipeline
<1>. QED  BY <1>3, OrderlyInvariant, PTL

\* A document is SEARCHABLE or ACTIVE only when each step before the last has
\* a completed job, whatever was retried or restarted on the way.
THEOREM SearchableRan == Orderly => (Spec => []SearchableRanEveryStep)
<1>1. IInv /\ OInv => SearchableRanEveryStep
  BY DEF OInv
<1>. QED  BY <1>1, OrderlyInvariant, PTL

-----------------------------------------------------------------------------
(* The chunks beside the queue.                                            *)

LEMMA ChunkActions ==
  ASSUME NEW w \in Workers,
         ChunkDeletes(w) \/ ChunkInserts(w) \/ EmbedSelects(w) \/ EmbedUpdates(w)
  PROVE  UNCHANGED vars
BY DEF ChunkDeletes, ChunkInserts, EmbedSelects, EmbedUpdates

LEMMA CsStepIsQueueStep == [CsNext]_csVars => [Next]_vars
<1>. SUFFICES ASSUME [CsNext]_csVars PROVE [Next]_vars
  OBVIOUS
<1>1. ASSUME NEW w \in Workers, CsWorkerStep(w) PROVE [Next]_vars
  BY <1>1, ChunkActions DEF CsWorkerStep, Next, WorkerStep, Handler
<1>2. ASSUME NEW r \in Requests, CsRequestStep(r) PROVE Next
  BY <1>2 DEF CsRequestStep, Next, RequestStep
<1>3. CASE \/ \E j \in JobIds : LockExpires(j)
           \/ \E d \in Docs : Upload(d) \/ SoftDelete(d)
  BY <1>3 DEF Next
<1>4. CASE UNCHANGED csVars
  BY <1>4 DEF csVars, vars
<1>. QED  BY <1>1, <1>2, <1>3, <1>4 DEF CsNext

\* The queue with the chunks implements the queue alone: the handlers' statements are
\* stutters of it, everything else is one of its steps.
THEOREM ChunkStoreImplementsQueue == CsSpec => Spec
<1>1. CsInit => Init
  BY DEF CsInit
<1>. QED  BY <1>1, CsStepIsQueueStep, PTL DEF CsSpec, Spec

-----------------------------------------------------------------------------
(* Where a KG_EXTRACT job and a status that retrieval serves come from.    *)

KgOnly ==
  \A d \in Docs : doc[d] \in RetrievedStatus =>
    \A j \in LiveJobs(d) : jobs[j].step = "KG_EXTRACT"

EmbedReturned(w) == At(w, "returned") /\ StepOf(w) = "EMBED"

LEMMA RetrievedTable ==
  ASSUME NEW s \in AllSteps
  PROVE  /\ DuringStatus(s) \in RetrievedStatus => s = "KG_EXTRACT"
         /\ AfterStatus(s) \in RetrievedStatus => s \in {"EMBED", "KG_EXTRACT"}
<1>1. DuringStatus(s) \in RetrievedStatus => s = "KG_EXTRACT"
  BY DEF AllSteps, DuringStatus, STEP_TRANSITIONS, RetrievedStatus
<1>2. AfterStatus(s) \in RetrievedStatus => s \in {"EMBED", "KG_EXTRACT"}
  BY DEF AllSteps, AfterStatus, STEP_TRANSITIONS, RetrievedStatus
<1>. QED  BY <1>1, <1>2

\* KG_EXTRACT is queued by EMBED and by nothing else, and queues nothing.
LEMMA KgFollowsEmbed ==
  ASSUME NEW s \in Steps, NEW t \in NextSteps(s)
  PROVE  s # "KG_EXTRACT" /\ (t = "KG_EXTRACT" <=> s = "EMBED")
<1>1. /\ s \in AllSteps /\ t \in AllSteps /\ "EMBED" \in Steps
      /\ Rank(s) < Rank(t) /\ ~(Rank(s) < Rank("EMBED") /\ Rank("EMBED") < Rank(t))
  BY ConstantsAssumption DEF NextSteps
<1>. QED  BY <1>1, RankOf DEF AllSteps

\* A row is inserted by an upload or a restart, for VALIDATE, or for the step after
\* the one that completed.
LEMMA NewRows ==
  ASSUME Orderly, IInv, OInv, [Next]_vars, NEW j \in JobIds,
         jobs[j].status = "ABSENT", jobs'[j].status # "ABSENT"
  PROVE  \/ /\ jobs'[j].step = "VALIDATE"
            /\ doc'[jobs'[j].doc] \in {"UPLOADED", "DELETED"}
         \/ \E w \in Workers, s \in Steps :
              CompleteAndQueue(w, s) /\ jobs'[j] = NewJob(DocOf(w), s)
<1>. DEFINE Goal ==
       \/ /\ jobs'[j].step = "VALIDATE"
          /\ doc'[jobs'[j].doc] \in {"UPLOADED", "DELETED"}
       \/ \E w \in Workers, s \in Steps :
            CompleteAndQueue(w, s) /\ jobs'[j] = NewJob(DocOf(w), s)
<1>1. ASSUME NEW w \in Workers, ~At(w, "idle"), NEW row, jobs' = SetJob(worker[w].job, row)
      PROVE  FALSE
  <2>1. worker[w].job \in JobIds /\ worker[w].job # j
    BY <1>1, OwnRow DEF OInv, LiveStatus
  <2>. QED  BY <1>1, <2>1 DEF SetJob, IInv, TypeOK
<1>2. ReapedJobs[j] = jobs[j] /\ j \notin Claimable(ReapedJobs)
  BY DEF ReapedJobs, Stale, Claimable
<1>3. ~\E w \in Workers : PollFindsNothing(w)
  BY <1>2 DEF PollFindsNothing
<1>4. ~\E w \in Workers, i \in JobIds : PollClaims(w, i)
  BY <1>2 DEF PollClaims, ReapedJobs
<1>5. ~\E w \in Workers : DeadLetter(w) \/ Retry(w) \/ CompleteLast(w)
  BY <1>1 DEF DeadLetter, Retry, CompleteLast, At
<1>6. ~\E i \in JobIds : LockExpires(i)
  BY DEF LockExpires, IInv, TypeOK, Job
<1>7. jobs' # jobs
  OBVIOUS
<1>8. ~\E w \in Workers :
         \/ HandlerReturns(w) \/ HandlerRaises(w) \/ CompletionRaises(w) \/ Crash(w)
         \/ HandlerSplits(w) \/ CompleteSplitParent(w)
  <2>1. ~\E w \in Workers :
           HandlerReturns(w) \/ HandlerRaises(w) \/ CompletionRaises(w) \/ Crash(w)
    BY <1>7 DEF HandlerReturns, HandlerRaises, CompletionRaises, Crash
  <2>2. ASSUME NEW w \in Workers, HandlerSplits(w) \/ CompleteSplitParent(w)
        PROVE  FALSE
    <3>1. ~At(w, "idle")
      BY <2>2 DEF HandlerSplits, CompleteSplitParent, At
    <3>. QED  BY <2>2, <3>1, OwnDocument DEF HandlerSplits, CompleteSplitParent, Splits,
                 IsSplitParent, Orderly
  <2>. QED  BY <2>1, <2>2
<1>9. /\ ~\E d \in Docs : UploadInsert(d) \/ UploadCrash(d) \/ SoftDelete(d)
      /\ ~\E r \in Requests : RequestAborts(r) \/ CommitReprocessSplit(r)
      /\ ~\E r \in Requests, d \in Docs : ReadForUploadRetry(r, d) \/ ReadForReprocess(r, d)
      /\ ~\E r \in Requests, D \in SUBSET Docs : ReadForBatch(r, D)
      /\ ~UNCHANGED vars
  <2>1. ~\E r \in Requests : CommitReprocessSplit(r)
    BY DEF CommitReprocessSplit, OInv, RequestsRestart
  <2>. QED  BY <1>7, <2>1 DEF UploadInsert, UploadCrash, SoftDelete, RequestAborts,
               ReadForUploadRetry, ReadForReprocess, ReadForBatch, Reads, vars
<1>10. ASSUME NEW d \in Docs, UploadEnqueue(d) PROVE Goal
  <2>1. PICK n \in Fresh : jobs' = [jobs EXCEPT ![n] = NewJob(d, "VALIDATE")]
    BY <1>10 DEF UploadEnqueue
  <2>2. jobs'[j] = NewJob(d, "VALIDATE")
    BY <2>1 DEF IInv, TypeOK
  <2>3. doc'[d] \in {"UPLOADED", "DELETED"}
    BY <1>10 DEF UploadEnqueue, OInv, UploadsWait
  <2>. QED  BY <2>2, <2>3 DEF NewJob
<1>11. ASSUME NEW r \in Requests, CommitRestart(r) PROVE Goal
  <2>. DEFINE D == request[r].docs  kept == CancelledJobs(jobs, D)
  <2>1. D \subseteq Docs /\ request[r].op \in {"upload_retry", "reprocess"}
    BY <1>11 DEF OInv, RequestsRestart, IInv, TypeOK, Request, CommitRestart
  <2>2. PICK new \in InsertsFor(D) : jobs' = Insert(kept, new, "VALIDATE")
    BY <1>11 DEF CommitRestart
  <2>3. new \in [D -> Fresh]
    BY DEF InsertsFor, Injection
  <2>4. kept[j] = jobs[j]
    BY DEF CancelledJobs, Cancellable, LiveStatus
  <2>5. PICK d \in D : j = new[d]
    BY <2>2, <2>3, <2>4 DEF Insert
  <2>6. Evolves(kept) /\ "VALIDATE" \in Steps
    BY UnchangedEvolves, CancelledEvolves, ConstantsAssumption
  <2>7. jobs'[j] = NewJob(d, "VALIDATE")
    BY <2>1, <2>2, <2>5, <2>6, InsertEvolves
  <2>8. doc'[d] = "UPLOADED"
    BY <1>11, <2>1, <2>5 DEF CommitRestart
  <2>. QED  BY <2>7, <2>8 DEF NewJob
<1>12. ASSUME NEW w \in Workers, NEW s \in Steps, CompleteAndQueue(w, s) PROVE Goal
  <2>1. ~At(w, "idle")
    BY <1>12 DEF CompleteAndQueue, At
  <2>2. worker[w].job \in JobIds /\ worker[w].job # j
    BY <2>1, OwnRow DEF OInv, LiveStatus
  <2>3. PICK n \in Fresh :
          jobs' = [SetJob(worker[w].job, Completed(jobs[worker[w].job])) EXCEPT
                     ![n] = NewJob(DocOf(w), s)]
    BY <1>12 DEF CompleteAndQueue, QueueNext
  <2>4. SetJob(worker[w].job, Completed(jobs[worker[w].job]))[j] = jobs[j]
    BY <2>2 DEF SetJob, IInv, TypeOK
  <2>5. jobs'[j] = NewJob(DocOf(w), s)
    BY <2>3, <2>4 DEF SetJob, IInv, TypeOK
  <2>. QED  BY <1>12, <2>5
<1>13. Goal
  <2>. HIDE DEF Goal
  <2>. QED  BY <1>3, <1>4, <1>5, <1>6, <1>8, <1>9, <1>10, <1>11, <1>12, NextActions
<1>. QED  BY <1>13

LEMMA KgRows ==
  ASSUME Orderly, IInv, OInv, [Next]_vars, NEW j \in JobIds,
         jobs'[j].status \in LiveStatus, jobs'[j].step = "KG_EXTRACT"
  PROVE  /\ jobs'[j].doc \in Docs
         /\ \/ /\ jobs[j].status \in LiveStatus /\ jobs[j].step = "KG_EXTRACT"
               /\ jobs[j].doc = jobs'[j].doc
            \/ \E w \in Workers : EmbedReturned(w) /\ DocOf(w) = jobs'[j].doc
<1>1. OrderlyStep
  BY NextOrderly
<1>2. CASE RowKept(jobs[j], jobs'[j])
  BY <1>2 DEF RowKept, IInv, RowsNameDocuments, LiveStatus
<1>3. CASE jobs[j].status = "ABSENT"
  <2>1. PICK w \in Workers, s \in Steps : CompleteAndQueue(w, s) /\ jobs'[j] = NewJob(DocOf(w), s)
    BY <1>3, NewRows DEF LiveStatus
  <2>2. ~At(w, "idle") /\ At(w, "returned") /\ s \in NextSteps(StepOf(w)) /\ s = "KG_EXTRACT"
    BY <2>1 DEF CompleteAndQueue, At, NewJob
  <2>3. StepOf(w) \in Steps /\ DocOf(w) \in Docs
    BY <2>2, OwnDocument, OwnRow DEF OInv
  <2>4. StepOf(w) = "EMBED"
    BY <2>2, <2>3, KgFollowsEmbed
  <2>5. EmbedReturned(w) /\ jobs'[j].doc = DocOf(w)
    BY <2>1, <2>2, <2>4 DEF EmbedReturned, NewJob
  <2>. QED  BY <2>3, <2>5
<1>. QED  BY <1>1, <1>2, <1>3 DEF OrderlyStep, RowStep

\* A document comes to be served by a KG_EXTRACT job of its own, or by the
\* completion of its EMBED job.
ServedBy(d) ==
  \/ doc'[d] = doc[d]
  \/ \E j \in LiveJobs(d) : jobs[j].step = "KG_EXTRACT"
  \/ \E w \in Workers : /\ EmbedReturned(w) /\ DocOf(w) = d
                        /\ jobs'[worker[w].job].status \notin LiveStatus

LEMMA CompletionServes ==
  ASSUME IInv, OInv, NEW w \in Workers, At(w, "returned"), NEW d \in Docs,
         doc' = SetStatus(DocOf(w), AfterStatus(StepOf(w))),
         jobs'[worker[w].job].status = "COMPLETED",
         doc'[d] \in RetrievedStatus
  PROVE  ServedBy(d)
<1>. DEFINE j == worker[w].job
<1>1. ~At(w, "idle")
  BY DEF At
<1>2. /\ StepOf(w) \in AllSteps /\ StepOf(w) = jobs[j].step
      /\ LiveJobs(DocOf(w)) = {j} /\ "COMPLETED" \notin LiveStatus
  BY <1>1, OwnRow, OwnDocument DEF OInv, LiveStatus
<1>3. CASE d # DocOf(w)
  BY <1>3 DEF SetStatus, ServedBy
<1>4. CASE d = DocOf(w)
  <2>1. doc'[d] = doc[d] \/ doc'[d] = AfterStatus(StepOf(w))
    BY <1>4 DEF SetStatus, IInv, TypeOK
  <2>2. CASE doc'[d] = AfterStatus(StepOf(w))
    <3>1. StepOf(w) \in {"EMBED", "KG_EXTRACT"}
      BY <1>2, <2>2, RetrievedTable
    <3>. QED  BY <1>2, <1>4, <3>1 DEF ServedBy, EmbedReturned
  <2>. QED  BY <2>1, <2>2 DEF ServedBy
<1>. QED  BY <1>3, <1>4

LEMMA Serves ==
  ASSUME Orderly, IInv, OInv, [Next]_vars, NEW d \in Docs, doc'[d] \in RetrievedStatus
  PROVE  ServedBy(d)
<1>. RetrievedStatus = {"SEARCHABLE", "KG_EXTRACTING", "ACTIVE"}
  BY DEF RetrievedStatus
<1>1. ASSUME UNCHANGED doc PROVE ServedBy(d)
  BY <1>1 DEF ServedBy
<1>2. ASSUME NEW w \in Workers, PollFindsNothing(w) PROVE ServedBy(d)
  BY <1>2, ReapedKeeps DEF PollFindsNothing, ServedBy
<1>3. ASSUME NEW w \in Workers, NEW j \in JobIds, PollClaims(w, j) PROVE ServedBy(d)
  <2>1. CASE d # jobs[j].doc
    <3>1. doc'[d] = ReapedDocs[d]
      BY <1>3, <2>1 DEF PollClaims, ReapedDocs
    <3>. QED  BY <3>1, ReapedKeeps DEF ServedBy
  <2>2. CASE d = jobs[j].doc
    <3>1. jobs[j].step \in AllSteps
      BY DEF IInv, TypeOK, Job
    <3>2. doc'[d] = DuringStatus(jobs[j].step)
      BY <1>3, <2>2 DEF PollClaims, ReapedDocs
    <3>3. j \in LiveJobs(d)
      <4>1. ReapedJobs[j].status \in LiveStatus
        BY <1>3 DEF PollClaims, Claimable, LiveStatus
      <4>2. jobs[j].status \in LiveStatus
        BY <4>1, ReapedKeeps DEF RowKept
      <4>. QED  BY <2>2, <4>2 DEF LiveJobs
    <3>. QED  BY <3>1, <3>2, <3>3, RetrievedTable DEF ServedBy
  <2>. QED  BY <2>1, <2>2
<1>4. ASSUME NEW w \in Workers, HandlerReturns(w) PROVE ServedBy(d)
  <2>1. ~At(w, "idle")
    BY <1>4 DEF HandlerReturns, At
  <2>2. /\ DocOf(w) \in Docs /\ StepOf(w) = jobs[worker[w].job].step
        /\ LiveJobs(DocOf(w)) = {worker[w].job}
    BY <2>1, OwnRow, OwnDocument DEF OInv
  <2>3. CASE StepOf(w) = "KG_EXTRACT" /\ d = DocOf(w)
    BY <2>2, <2>3 DEF ServedBy
  <2>4. CASE ~(StepOf(w) = "KG_EXTRACT" /\ d = DocOf(w))
    BY <1>4, <2>4 DEF HandlerReturns, SetStatus, ServedBy
  <2>. QED  BY <2>3, <2>4
<1>5. ASSUME NEW w \in Workers, NEW s \in Steps, CompleteAndQueue(w, s) PROVE ServedBy(d)
  <2>. DEFINE j == worker[w].job
  <2>1. ~At(w, "idle") /\ At(w, "returned")
    BY <1>5 DEF CompleteAndQueue, At
  <2>2. j \in JobIds /\ jobs[j].status = "PROCESSING" /\ jobs[j] \in Job
    BY <2>1, OwnRow DEF OInv
  <2>3. PICK n \in Fresh :
          jobs' = [SetJob(j, Completed(jobs[j])) EXCEPT ![n] = NewJob(DocOf(w), s)]
    BY <1>5 DEF CompleteAndQueue, QueueNext
  <2>4. n # j
    BY <2>2 DEF Fresh
  <2>5. jobs'[j] = Completed(jobs[j])
    BY <2>2, <2>3, <2>4 DEF SetJob, Gone, IInv, TypeOK
  <2>6. jobs'[j].status = "COMPLETED"
    BY <2>2, <2>5 DEF Completed, Job
  <2>. QED  BY <1>5, <2>1, <2>6, CompletionServes DEF CompleteAndQueue
<1>6. ASSUME NEW w \in Workers, CompleteLast(w) PROVE ServedBy(d)
  <2>. DEFINE j == worker[w].job
  <2>1. ~At(w, "idle") /\ At(w, "returned")
    BY <1>6 DEF CompleteLast, At
  <2>2. j \in JobIds /\ jobs[j].status = "PROCESSING" /\ jobs[j] \in Job
    BY <2>1, OwnRow DEF OInv
  <2>3. jobs'[j] = Completed(jobs[j])
    BY <1>6, <2>2 DEF CompleteLast, SetJob, Gone, IInv, TypeOK
  <2>4. jobs'[j].status = "COMPLETED"
    BY <2>2, <2>3 DEF Completed, Job
  <2>. QED  BY <1>6, <2>1, <2>4, CompletionServes DEF CompleteLast
<1>7. ASSUME NEW w \in Workers, DeadLetter(w) PROVE ServedBy(d)
  BY <1>7 DEF DeadLetter, SetStatus, ServedBy, IInv, TypeOK
<1>8. ASSUME NEW e \in Docs, UploadInsert(e) \/ SoftDelete(e) PROVE ServedBy(d)
  BY <1>8 DEF UploadInsert, SoftDelete, ServedBy, IInv, TypeOK
<1>9. ASSUME NEW r \in Requests, CommitRestart(r) PROVE ServedBy(d)
  BY <1>9 DEF CommitRestart, ServedBy
<1>10. \A w \in Workers :
         HandlerRaises(w) \/ CompletionRaises(w) \/ Retry(w) \/ Crash(w)
         \/ CompleteSplitParent(w) => UNCHANGED doc
  BY DEF HandlerRaises, CompletionRaises, Retry, Crash, CompleteSplitParent
<1>11. ASSUME NEW w \in Workers, HandlerSplits(w) PROVE FALSE
  BY <1>11 DEF HandlerSplits, Splits, Orderly
<1>12. /\ \A j \in JobIds : LockExpires(j) => UNCHANGED doc
       /\ \A e \in Docs : UploadEnqueue(e) \/ UploadCrash(e) => UNCHANGED doc
       /\ UNCHANGED vars => UNCHANGED doc
  BY DEF LockExpires, UploadEnqueue, UploadCrash, vars
<1>13. \A r \in Requests :
         /\ \A e \in Docs : ReadForUploadRetry(r, e) \/ ReadForReprocess(r, e) => UNCHANGED doc
         /\ \A D \in SUBSET Docs : ReadForBatch(r, D) => UNCHANGED doc
         /\ RequestAborts(r) => UNCHANGED doc
         /\ ~CommitReprocessSplit(r)
  BY DEF ReadForUploadRetry, ReadForReprocess, ReadForBatch, Reads, RequestAborts,
         CommitReprocessSplit, OInv, RequestsRestart
<1>. QED  BY <1>1, <1>2, <1>3, <1>4, <1>5, <1>6, <1>7, <1>8, <1>9, <1>10, <1>11, <1>12,
             <1>13, NextActions

LEMMA KgOnlyAfter ==
  ASSUME Orderly, IInv, OInv, KgOnly, [Next]_vars
  PROVE  KgOnly'
<1>. SUFFICES ASSUME NEW d \in Docs, doc'[d] \in RetrievedStatus,
                     NEW i \in JobIds, jobs'[i].doc = d, jobs'[i].status \in LiveStatus
              PROVE  jobs'[i].step = "KG_EXTRACT"
  BY DEF KgOnly, LiveJobs, RetrievedStatus
<1>1. OrderlyStep
  BY NextOrderly
<1>2. CASE RowKept(jobs[i], jobs'[i])
  <2>1. i \in LiveJobs(d) /\ jobs'[i].step = jobs[i].step
    BY <1>2 DEF RowKept, LiveJobs
  <2>2. ASSUME NEW w \in Workers, EmbedReturned(w), DocOf(w) = d,
               jobs'[worker[w].job].status \notin LiveStatus
        PROVE  FALSE
    <3>1. LiveJobs(d) = {worker[w].job}
      BY <2>2, OwnDocument DEF EmbedReturned, At
    <3>. QED  BY <2>1, <2>2, <3>1
  <2>3. ASSUME NEW j \in LiveJobs(d), jobs[j].step = "KG_EXTRACT"
        PROVE  jobs[i].step = "KG_EXTRACT"
    BY <2>1, <2>3 DEF OInv, OneLiveJobPerDocument
  <2>4. doc'[d] = doc[d] => jobs[i].step = "KG_EXTRACT"
    BY <2>1 DEF KgOnly
  <2>. QED  BY <2>1, <2>2, <2>3, <2>4, Serves DEF ServedBy
<1>3. CASE jobs[i].status = "ABSENT"
  <2>1. PICK w \in Workers, s \in Steps : CompleteAndQueue(w, s) /\ jobs'[i] = NewJob(DocOf(w), s)
    BY <1>3, NewRows DEF LiveStatus, RetrievedStatus
  <2>2. ~At(w, "idle") /\ s \in NextSteps(StepOf(w)) /\ DocOf(w) = d
    BY <2>1 DEF CompleteAndQueue, At, NewJob
  <2>3. StepOf(w) \in Steps /\ StepOf(w) \in AllSteps /\ doc[d] \notin Gone
    BY <2>2, OwnDocument, OwnRow DEF OInv
  <2>4. doc'[d] = AfterStatus(StepOf(w))
    BY <2>1, <2>2, <2>3 DEF CompleteAndQueue, SetStatus, IInv, TypeOK
  <2>5. s = "KG_EXTRACT"
    BY <2>2, <2>3, <2>4, RetrievedTable, KgFollowsEmbed
  <2>. QED  BY <2>1, <2>5 DEF NewJob
<1>. QED  BY <1>1, <1>2, <1>3 DEF OrderlyStep, RowStep

-----------------------------------------------------------------------------
(* The chunks of a document and the thread that works on them.             *)

Embedded(d) == \A c \in chunks[d] : c.embedded
OneChunkRun(d) == \A b, c \in chunks[d] : b = c

\* What a thread in the middle of CHUNK or EMBED knows of its document's chunks.
HandlerKnows(w) ==
  /\ ~At(w, "running") => handler[w].pc = "start"
  /\ handler[w].pc = "replacing" =>
       StepOf(w) = "CHUNK" /\ \A c \in chunks[DocOf(w)] : c.by \in handler[w].seen
  /\ handler[w].pc = "embedding" =>
       \A c \in chunks[DocOf(w)] : c.embedded \/ c.by \in handler[w].seen
  /\ (handler[w].pc = "written" \/ At(w, "returned")) /\ StepOf(w) = "EMBED" =>
       Embedded(DocOf(w))

\* What a document is served with has been embedded, and so has what KG_EXTRACT reads.
CInv ==
  /\ CsTypeOK
  /\ KgOnly
  /\ \A d \in Docs : OneChunkRun(d)
  /\ \A d \in Docs : doc[d] \in RetrievedStatus => Embedded(d)
  /\ \A j \in JobIds :
       jobs[j].status \in LiveStatus /\ jobs[j].step = "KG_EXTRACT" => Embedded(jobs[j].doc)
  /\ \A w \in Workers : HandlerKnows(w)

\* A step of the queue that leaves the chunks alone, but for those of documents
\* with nothing in the queue, and lets handlers only go on or end.
QueueStep ==
  /\ CsTypeOK'
  /\ \A d \in Docs : chunks'[d] = chunks[d] \/ (chunks'[d] = {} /\ LiveJobs(d) = {})
  /\ \A w \in Workers :
       /\ \/ handler'[w].pc = "start"
          \/ handler'[w] = handler[w] /\ At(w, "running") /\ At(w, "running")'
       /\ At(w, "returned")' =>
            \/ At(w, "returned")
            \/ At(w, "running") /\ (StepOf(w) = "EMBED" => handler[w].pc = "written")

LEMMA QueueStepKeeps ==
  ASSUME Orderly, IInv, OInv, CInv, [Next]_vars, QueueStep
  PROVE  CInv'
<1>. OrderlyStep
  BY NextOrderly
<1>1. \A d \in Docs : Embedded(d) => Embedded(d)'
  BY DEF QueueStep, Embedded
<1>2. \A d \in Docs : OneChunkRun(d)'
  BY DEF QueueStep, OneChunkRun, CInv
<1>3. KgOnly'
  BY KgOnlyAfter DEF CInv
<1>4. ASSUME NEW w \in Workers, EmbedReturned(w)
      PROVE  Embedded(DocOf(w))
  BY <1>4 DEF CInv, HandlerKnows, EmbedReturned
<1>5. ASSUME NEW d \in Docs, doc'[d] \in RetrievedStatus
      PROVE  Embedded(d)'
  <2>1. CASE doc'[d] = doc[d]
    BY <1>1, <1>5, <2>1 DEF CInv
  <2>2. ASSUME NEW j \in LiveJobs(d), jobs[j].step = "KG_EXTRACT"
        PROVE  Embedded(d)
    BY <2>2 DEF CInv, LiveJobs
  <2>3. ServedBy(d)
    BY <1>5, Serves
  <2>. QED  BY <1>1, <1>4, <2>1, <2>2, <2>3 DEF ServedBy
<1>6. ASSUME NEW j \in JobIds, jobs'[j].status \in LiveStatus, jobs'[j].step = "KG_EXTRACT",
             NEW d \in Docs, d = jobs'[j].doc
      PROVE  Embedded(d)'
  <2>1. Embedded(d)
    BY <1>4, <1>6, KgRows DEF CInv
  <2>. QED  BY <1>1, <2>1
<1>7. \A j \in JobIds : jobs'[j].status \in LiveStatus /\ jobs'[j].step = "KG_EXTRACT" =>
        (\A c \in chunks'[jobs'[j].doc] : c.embedded)
  BY <1>6, KgRows DEF Embedded
<1>8. ASSUME NEW w \in Workers PROVE HandlerKnows(w)'
  <2>1. CASE worker'[w].pc = "idle"
    <3>1. handler'[w].pc = "start"
      BY <2>1 DEF QueueStep, At
    <3>. QED  BY <2>1, <3>1 DEF HandlerKnows, At
  <2>2. CASE worker'[w].pc # "idle" /\ worker[w].pc = "idle"
    <3>1. handler'[w].pc = "start" /\ worker'[w].pc # "returned"
      BY <2>2 DEF QueueStep, At
    <3>. QED  BY <3>1 DEF HandlerKnows, At
  <2>3. CASE worker'[w].pc # "idle" /\ worker[w].pc # "idle"
    <3>. DEFINE d == DocOf(w)
    <3>1. ThreadStep(w) /\ d \in Docs /\ worker[w].job \in JobIds
      BY <2>3, ThreadSteps, WorkingThread
    <3>2. worker'[w].job = worker[w].job
      BY <2>3, <3>1 DEF ThreadStep, Idle, PollClaims
    <3>3. jobs'[worker[w].job] = jobs[worker[w].job]
      <4>1. HoldStep(w)
        BY DEF OrderlyStep
      <4>. QED  BY <2>3, <4>1 DEF HoldStep
    <3>4. DocOf(w)' = d /\ StepOf(w)' = StepOf(w)
      BY <3>2, <3>3 DEF DocOf, StepOf
    <3>5. LiveJobs(d) # {}
      BY <2>3, OwnDocument DEF At
    <3>6. chunks'[d] = chunks[d]
      BY <3>1, <3>5 DEF QueueStep
    <3>7. HandlerKnows(w) /\ d = DocOf(w)
      BY DEF CInv
    <3>8. At(w, "returned")' /\ StepOf(w) = "EMBED" => Embedded(d)
      BY <3>7 DEF QueueStep, HandlerKnows
    <3>. HIDE DEF d
    <3>9. ~At(w, "running")' => handler'[w].pc = "start"
      BY DEF QueueStep
    <3>10. /\ handler'[w].pc = "replacing" =>
                StepOf(w) = "CHUNK" /\ \A c \in chunks'[d] : c.by \in handler'[w].seen
           /\ handler'[w].pc = "embedding" =>
                \A c \in chunks'[d] : c.embedded \/ c.by \in handler'[w].seen
           /\ handler'[w].pc = "written" /\ StepOf(w) = "EMBED" =>
                \A c \in chunks'[d] : c.embedded
      BY <3>6, <3>7 DEF QueueStep, HandlerKnows, Embedded
    <3>. QED  BY <3>4, <3>6, <3>8, <3>9, <3>10 DEF HandlerKnows, Embedded
  <2>. QED  BY <2>1, <2>2, <2>3
<1>. QED  BY <1>2, <1>3, <1>5, <1>7, <1>8 DEF CInv, QueueStep, Embedded

\* A statement of a handler changes its own document's chunks and its own locals.
LEMMA ChunkStepKeeps ==
  ASSUME IInv, OInv, CInv, NEW w \in Workers, At(w, "running"), UNCHANGED vars, CsTypeOK',
         \A d \in Docs \ {DocOf(w)} : chunks'[d] = chunks[d],
         \A v \in Workers \ {w} : handler'[v] = handler[v],
         OneChunkRun(DocOf(w))',
         HandlerKnows(w)',
         Embedded(DocOf(w)) /\ StepOf(w) = "EMBED" => Embedded(DocOf(w))',
         StepOf(w) \in {"CHUNK", "EMBED"}
  PROVE  CInv'
<1>. DEFINE d == DocOf(w)
<1>. UNCHANGED <<doc, jobs, worker>>
  BY DEF vars
<1>1. /\ d \in Docs /\ LiveJobs(d) = {worker[w].job}
      /\ jobs[worker[w].job].step = StepOf(w) /\ ~At(w, "idle")
  BY OwnRow, OwnDocument DEF OInv, At
<1>2. KgOnly'
  BY DEF CInv, KgOnly, LiveJobs, RetrievedStatus
<1>3. DocOf(w)' = d
  BY DEF DocOf
<1>4. \A e \in Docs : OneChunkRun(e)'
  <2>1. \A b, c \in chunks'[d] : b = c
    BY <1>3 DEF OneChunkRun
  <2>. QED  BY <2>1 DEF OneChunkRun, CInv
<1>5. doc[d] \notin RetrievedStatus
  BY <1>1 DEF CInv, KgOnly
<1>6. \A e \in Docs : doc'[e] \in RetrievedStatus => Embedded(e)'
  BY <1>5 DEF CInv, Embedded, RetrievedStatus
<1>7. ASSUME NEW j \in JobIds, jobs'[j].status \in LiveStatus, jobs'[j].step = "KG_EXTRACT"
      PROVE  \A c \in chunks'[jobs'[j].doc] : c.embedded
  <2>1. jobs[j].doc \in Docs
    BY <1>7 DEF IInv, RowsNameDocuments, LiveStatus
  <2>2. jobs[j].doc # d
    BY <1>1, <1>7 DEF LiveJobs
  <2>. QED  BY <1>7, <2>1, <2>2 DEF CInv, Embedded
<1>8. ASSUME NEW v \in Workers PROVE HandlerKnows(v)'
  <2>1. CASE v # w /\ ~At(v, "idle")
    <3>1. DocOf(v) \in Docs /\ DocOf(v) # d
      <4>1. /\ worker[v].job # worker[w].job /\ DocOf(v) \in Docs
            /\ LiveJobs(DocOf(v)) = {worker[v].job}
        BY <1>1, <2>1, OwnDocument, OwnRow DEF OInv, ThreadsOwn
      <4>. QED  BY <1>1, <4>1
    <3>2. chunks'[DocOf(v)] = chunks[DocOf(v)] /\ handler'[v] = handler[v]
      BY <2>1, <3>1
    <3>3. DocOf(v)' = DocOf(v) /\ StepOf(v)' = StepOf(v)
      BY DEF DocOf, StepOf
    <3>4. HandlerKnows(v)
      BY DEF CInv
    <3>. QED  BY <3>2, <3>3, <3>4 DEF HandlerKnows, Embedded, At
  <2>2. CASE v # w /\ At(v, "idle")
    <3>1. handler'[v].pc = "start" /\ worker'[v].pc = "idle"
      BY <2>2 DEF CInv, HandlerKnows, At
    <3>. QED  BY <3>1 DEF HandlerKnows, At
  <2>3. CASE v = w
    BY <2>3
  <2>. QED  BY <2>1, <2>2, <2>3
<1>. QED  BY <1>2, <1>4, <1>6, <1>7, <1>8 DEF CInv, Embedded

LEMMA HandlerGoesOn ==
  ASSUME CsTypeOK, NEW w \in Workers,
         NEW pc \in {"start", "replacing", "embedding", "written"},
         NEW seen \in SUBSET (JobIds \X Nat), HandlerGoes(w, pc, seen)
  PROVE  /\ handler' \in [Workers -> Handling]
         /\ handler'[w].pc = pc /\ handler'[w].seen = seen
         /\ \A v \in Workers \ {w} : handler'[v] = handler[v]
<1>1. [pc |-> pc, seen |-> seen] \in Handling
  BY DEF Handling
<1>. QED  BY <1>1 DEF HandlerGoes, CsTypeOK

LEMMA HandlerStops ==
  ASSUME CsTypeOK, NEW w \in Workers, HandlerEnds(w)
  PROVE  /\ handler' \in [Workers -> Handling]
         /\ handler'[w].pc = "start"
         /\ \A v \in Workers \ {w} : handler'[v] = handler[v]
<1>1. NotStarted \in Handling /\ NotStarted.pc = "start"
  BY DEF Handling, NotStarted
<1>. QED  BY <1>1 DEF HandlerEnds, CsTypeOK

\* The locals and the chunks of the document of a thread in a handler.
LEMMA HandlerContext ==
  ASSUME IInv, OInv, CInv, NEW w \in Workers, At(w, "running")
  PROVE  /\ DocOf(w) \in Docs /\ ~At(w, "idle")
         /\ chunks[DocOf(w)] \subseteq Chunk
         /\ {c.by : c \in chunks[DocOf(w)]} \in SUBSET (JobIds \X Nat)
         /\ handler[w].seen \in SUBSET (JobIds \X Nat)
         /\ ChunksBy(w) \in Chunk /\ OneChunkRun(DocOf(w)) /\ HandlerKnows(w)
<1>1. ~At(w, "idle")
  BY DEF At
<1>2. /\ DocOf(w) \in Docs /\ worker[w].job \in JobIds /\ worker[w].attempt \in Nat
  BY <1>1, WorkingThread DEF At
<1>3. chunks[DocOf(w)] \subseteq Chunk /\ OneChunkRun(DocOf(w)) /\ HandlerKnows(w)
  BY <1>2 DEF CInv, CsTypeOK
<1>4. {c.by : c \in chunks[DocOf(w)]} \in SUBSET (JobIds \X Nat)
  BY <1>3 DEF Chunk
<1>5. handler[w].seen \in SUBSET (JobIds \X Nat)
  BY DEF CInv, CsTypeOK, Handling
<1>6. ChunksBy(w) \in Chunk
  BY <1>2 DEF ChunksBy, Chunk
<1>. QED  BY <1>1, <1>2, <1>3, <1>4, <1>5, <1>6

LEMMA ChunkDeletesKeeps ==
  ASSUME IInv, OInv, CInv, NEW w \in Workers, ChunkDeletes(w)
  PROVE  CInv'
<1>. DEFINE d == DocOf(w)  seen == {c.by : c \in chunks[DocOf(w)]}
<1>1. /\ At(w, "running") /\ StepOf(w) = "CHUNK" /\ UNCHANGED vars /\ chunks' = chunks
      /\ HandlerGoes(w, "replacing", seen)
  BY DEF ChunkDeletes, Runs
<1>2. /\ handler' \in [Workers -> Handling] /\ handler'[w].pc = "replacing"
      /\ handler'[w].seen = seen /\ \A v \in Workers \ {w} : handler'[v] = handler[v]
  BY <1>1, HandlerContext, HandlerGoesOn DEF CInv
<1>3. CsTypeOK'
  BY <1>1, <1>2 DEF CInv, CsTypeOK
<1>4. DocOf(w)' = d /\ StepOf(w)' = StepOf(w) /\ At(w, "running")'
  BY <1>1 DEF DocOf, StepOf, At, vars
<1>5. HandlerKnows(w)'
  BY <1>1, <1>2, <1>4 DEF HandlerKnows, At
<1>6. OneChunkRun(DocOf(w))' /\ (Embedded(d) => Embedded(DocOf(w))')
  BY <1>1, <1>4, HandlerContext DEF OneChunkRun, Embedded
<1>. QED  BY <1>1, <1>2, <1>3, <1>5, <1>6, ChunkStepKeeps

LEMMA EmbedSelectsKeeps ==
  ASSUME IInv, OInv, CInv, NEW w \in Workers, EmbedSelects(w)
  PROVE  CInv'
<1>. DEFINE d == DocOf(w)  seen == {c.by : c \in {x \in chunks[DocOf(w)] : ~x.embedded}}
<1>1. /\ At(w, "running") /\ StepOf(w) = "EMBED" /\ UNCHANGED vars /\ chunks' = chunks
      /\ HandlerGoes(w, "embedding", seen)
  BY DEF EmbedSelects, Runs
<1>2. /\ handler' \in [Workers -> Handling] /\ handler'[w].pc = "embedding"
      /\ handler'[w].seen = seen /\ \A v \in Workers \ {w} : handler'[v] = handler[v]
  <2>1. seen \in SUBSET (JobIds \X Nat)
    BY <1>1, HandlerContext
  <2>. QED  BY <1>1, <2>1, HandlerGoesOn DEF CInv
<1>3. CsTypeOK'
  BY <1>1, <1>2 DEF CInv, CsTypeOK
<1>4. DocOf(w)' = d /\ StepOf(w)' = StepOf(w) /\ At(w, "running")'
  BY <1>1 DEF DocOf, StepOf, At, vars
<1>5. HandlerKnows(w)'
  BY <1>1, <1>2, <1>4 DEF HandlerKnows, At
<1>6. OneChunkRun(DocOf(w))' /\ (Embedded(d) => Embedded(DocOf(w))')
  BY <1>1, <1>4, HandlerContext DEF OneChunkRun, Embedded
<1>. QED  BY <1>1, <1>2, <1>3, <1>5, <1>6, ChunkStepKeeps

\* The INSERT: the DELETE before it saw every chunk there was.
LEMMA ChunkInsertsKeeps ==
  ASSUME IInv, OInv, CInv, NEW w \in Workers, ChunkInserts(w)
  PROVE  CInv'
<1>. DEFINE d == DocOf(w)
<1>1. /\ At(w, "running") /\ StepOf(w) = "CHUNK" /\ handler[w].pc = "replacing"
      /\ UNCHANGED vars /\ HandlerGoes(w, "written", {})
  BY DEF ChunkInserts, Runs
<1>2. PICK new \in {{}, {ChunksBy(w)}} :
        chunks' = [chunks EXCEPT ![d] = ReplacedChunks(chunks[d], handler[w].seen, new)]
  BY DEF ChunkInserts
<1>3. /\ d \in Docs /\ \A c \in chunks[d] : c.by \in handler[w].seen
      /\ ChunksBy(w) \in Chunk
  BY <1>1, HandlerContext DEF HandlerKnows
<1>4. ReplacedChunks(chunks[d], handler[w].seen, new) = new
  BY <1>3 DEF ReplacedChunks
<1>5. chunks' \in [Docs -> SUBSET Chunk] /\ chunks'[d] = new
      /\ \A e \in Docs \ {d} : chunks'[e] = chunks[e]
  BY <1>2, <1>3, <1>4 DEF CInv, CsTypeOK
<1>6. /\ handler' \in [Workers -> Handling] /\ handler'[w].pc = "written"
      /\ \A v \in Workers \ {w} : handler'[v] = handler[v]
  BY <1>1, HandlerGoesOn DEF CInv
<1>7. CsTypeOK'
  BY <1>5, <1>6 DEF CsTypeOK
<1>8. DocOf(w)' = d /\ StepOf(w)' = StepOf(w) /\ At(w, "running")'
  BY <1>1 DEF DocOf, StepOf, At, vars
<1>9. HandlerKnows(w)'
  BY <1>1, <1>6, <1>8 DEF HandlerKnows, At
<1>10. OneChunkRun(DocOf(w))'
  <2>1. \A b, c \in chunks'[d] : b = c
    BY <1>5
  <2>. QED  BY <1>8, <2>1 DEF OneChunkRun
<1>. QED  BY <1>1, <1>5, <1>6, <1>7, <1>9, <1>10, ChunkStepKeeps

LEMMA EmbedUpdatesKeeps ==
  ASSUME IInv, OInv, CInv, NEW w \in Workers, EmbedUpdates(w)
  PROVE  CInv'
<1>. DEFINE d == DocOf(w)
            updated(c) == IF c.by \in handler[w].seen THEN [c EXCEPT !.embedded = TRUE] ELSE c
<1>1. /\ At(w, "running") /\ StepOf(w) = "EMBED" /\ handler[w].pc = "embedding"
      /\ UNCHANGED vars /\ HandlerGoes(w, "written", {})
  BY DEF EmbedUpdates, Runs
<1>2. chunks' = [chunks EXCEPT ![d] = {updated(c) : c \in chunks[d]}]
  BY DEF EmbedUpdates
<1>3. /\ d \in Docs /\ \A c \in chunks[d] : c.embedded \/ c.by \in handler[w].seen
      /\ chunks[d] \subseteq Chunk /\ \A b, c \in chunks[d] : b = c
  BY <1>1, HandlerContext DEF HandlerKnows, OneChunkRun
<1>4. \A c \in chunks[d] : updated(c) \in Chunk /\ updated(c).embedded
  <2>. TAKE c \in chunks[d]
  <2>1. CASE c.by \in handler[w].seen
    <3>1. [c EXCEPT !.embedded = TRUE] \in Chunk /\ [c EXCEPT !.embedded = TRUE].embedded
      BY <1>3 DEF Chunk
    <3>. QED  BY <2>1, <3>1
  <2>2. CASE c.by \notin handler[w].seen
    BY <1>3, <2>2
  <2>. QED  BY <2>1, <2>2
<1>5. /\ chunks'[d] = {updated(c) : c \in chunks[d]}
      /\ \A e \in Docs \ {d} : chunks'[e] = chunks[e]
  BY <1>2, <1>3 DEF CInv, CsTypeOK
<1>6. chunks' \in [Docs -> SUBSET Chunk]
  <2>1. {updated(c) : c \in chunks[d]} \in SUBSET Chunk
    BY <1>4
  <2>. QED  BY <1>2, <2>1 DEF CInv, CsTypeOK
<1>7. /\ handler' \in [Workers -> Handling] /\ handler'[w].pc = "written"
      /\ \A v \in Workers \ {w} : handler'[v] = handler[v]
  BY <1>1, HandlerGoesOn DEF CInv
<1>8. CsTypeOK'
  BY <1>6, <1>7 DEF CsTypeOK
<1>9. DocOf(w)' = d /\ StepOf(w)' = StepOf(w) /\ At(w, "running")'
  BY <1>1 DEF DocOf, StepOf, At, vars
<1>10. \A c \in chunks'[d] : c.embedded
  BY <1>4, <1>5
<1>11. \A b, c \in chunks'[d] : b = c
  BY <1>3, <1>5
<1>12. Embedded(DocOf(w))' /\ OneChunkRun(DocOf(w))'
  BY <1>9, <1>10, <1>11 DEF Embedded, OneChunkRun
<1>13. HandlerKnows(w)'
  BY <1>1, <1>7, <1>9, <1>12 DEF HandlerKnows, At
<1>. QED  BY <1>1, <1>5, <1>7, <1>8, <1>12, <1>13, ChunkStepKeeps

-----------------------------------------------------------------------------
(* The steps of the queue, as the chunks see them.                         *)

\* A thread comes back from its handler, or its handler ends otherwise.
LEMMA HandlerEndsKeeps ==
  ASSUME Orderly, IInv, OInv, CInv, [Next]_vars, NEW w \in Workers,
         \/ HandlerReturns(w) /\ HandlerDone(w)
         \/ HandlerRaises(w) \/ Crash(w),
         HandlerEnds(w), UNCHANGED chunks
  PROVE  CInv'
<1>1. /\ handler' \in [Workers -> Handling] /\ handler'[w].pc = "start"
      /\ \A v \in Workers \ {w} : handler'[v] = handler[v]
  BY HandlerStops DEF CInv
<1>2. \A v \in Workers \ {w} : worker'[v] = worker[v]
  BY DEF HandlerReturns, HandlerRaises, Crash, Goto, IInv, TypeOK
<1>3. At(w, "returned")' => At(w, "running") /\ HandlerDone(w)
  BY DEF HandlerReturns, HandlerRaises, Crash, Goto, At, Idle, IInv, TypeOK, Worker
<1>4. CsTypeOK'
  BY <1>1 DEF CInv, CsTypeOK
<1>5. ASSUME NEW v \in Workers
      PROVE  /\ \/ handler'[v].pc = "start"
                \/ handler'[v] = handler[v] /\ At(v, "running") /\ At(v, "running")'
             /\ At(v, "returned")' =>
                  \/ At(v, "returned")
                  \/ At(v, "running") /\ (StepOf(v) = "EMBED" => handler[v].pc = "written")
  <2>1. CASE v = w
    BY <1>1, <1>3, <2>1 DEF HandlerDone
  <2>2. CASE v # w
    <3>1. handler'[v] = handler[v] /\ worker'[v] = worker[v]
      BY <1>1, <1>2, <2>2
    <3>. QED  BY <3>1 DEF At, CInv, HandlerKnows
  <2>. QED  BY <2>1, <2>2
<1>. QED  BY <1>4, <1>5, QueueStepKeeps DEF QueueStep

\* The other steps of a thread: it is in no handler before, and at the start of
\* one, if at all, after.
LEMMA ThreadStepKeeps ==
  ASSUME Orderly, IInv, OInv, CInv, [Next]_vars, NEW w \in Workers,
         Poll(w) \/ HandlerSplits(w) \/ Finish(w), UNCHANGED <<chunks, handler>>
  PROVE  CInv'
<1>1. ~HandlerSplits(w)
  BY DEF HandlerSplits, Splits, Orderly
<1>2. /\ worker[w].pc # "running" /\ (worker'[w].pc = "returned" => worker[w].pc = "returned")
      /\ \A v \in Workers \ {w} : worker'[v] = worker[v]
  <2>1. CASE Poll(w)
    BY <2>1 DEF Poll, PollClaims, PollFindsNothing, IInv, TypeOK
  <2>2. CASE Complete(w)
    BY <2>2 DEF Complete, CompleteSplitParent, CompleteLast, CompleteAndQueue, Idle, At,
                IInv, TypeOK
  <2>3. CASE CompletionRaises(w) \/ DeadLetter(w) \/ Retry(w)
    BY <2>3 DEF CompletionRaises, DeadLetter, Retry, Goto, Idle, At, IInv, TypeOK
  <2>. QED  BY <1>1, <2>1, <2>2, <2>3 DEF Finish
<1>3. handler[w].pc = "start"
  BY <1>2 DEF CInv, HandlerKnows, At
<1>4. CsTypeOK'
  BY DEF CInv, CsTypeOK
<1>5. ASSUME NEW v \in Workers
      PROVE  /\ \/ handler'[v].pc = "start"
                \/ handler'[v] = handler[v] /\ At(v, "running") /\ At(v, "running")'
             /\ At(v, "returned")' => At(v, "returned")
  BY <1>2, <1>3 DEF At, CInv, HandlerKnows
<1>. QED  BY <1>4, <1>5, QueueStepKeeps DEF QueueStep

\* A step of no thread: it may clear the chunks of documents with an empty queue.
LEMMA OutsideStepKeeps ==
  ASSUME Orderly, IInv, OInv, CInv, [Next]_vars, UNCHANGED <<worker, handler>>,
         chunks' \in [Docs -> SUBSET Chunk],
         \A d \in Docs : chunks'[d] = chunks[d] \/ (chunks'[d] = {} /\ LiveJobs(d) = {})
  PROVE  CInv'
<1>1. CsTypeOK'
  BY DEF CInv, CsTypeOK
<1>2. ASSUME NEW v \in Workers
      PROVE  /\ \/ handler'[v].pc = "start"
                \/ handler'[v] = handler[v] /\ At(v, "running") /\ At(v, "running")'
             /\ At(v, "returned")' => At(v, "returned")
  BY DEF At, CInv, HandlerKnows
<1>. QED  BY <1>1, <1>2, QueueStepKeeps DEF QueueStep

LEMMA NextCInv ==
  ASSUME Orderly, IInv, OInv, CInv, [CsNext]_csVars
  PROVE  CInv'
<1>. [Next]_vars
  BY CsStepIsQueueStep
<1>0. chunks \in [Docs -> SUBSET Chunk]
  BY DEF CInv, CsTypeOK
<1>1. ASSUME NEW w \in Workers, CsWorkerStep(w) PROVE CInv'
  BY <1>1, ChunkDeletesKeeps, ChunkInsertsKeeps, EmbedSelectsKeeps, EmbedUpdatesKeeps,
     HandlerEndsKeeps, ThreadStepKeeps DEF CsWorkerStep
<1>2. ASSUME NEW r \in Requests, CsRequestStep(r) PROVE CInv'
  <2>1. CASE UNCHANGED <<chunks, handler>>
             /\ (\/ RequestAborts(r)
                 \/ \E d \in Docs : ReadForUploadRetry(r, d) \/ ReadForReprocess(r, d)
                 \/ \E D \in SUBSET Docs : ReadForBatch(r, D))
    <3>1. UNCHANGED worker
      BY <2>1 DEF RequestAborts, ReadForUploadRetry, ReadForReprocess, ReadForBatch, Reads
    <3>. QED  BY <1>0, <2>1, <3>1, OutsideStepKeeps
  <2>2. CASE /\ CommitRestart(r) \/ CommitReprocessSplit(r)
             /\ ChunksCleared(RestartClears(r)) /\ UNCHANGED handler
    <3>1. request[r].op \in {"upload_retry", "reprocess"} /\ UNCHANGED worker
      BY <2>2 DEF CommitRestart, CommitReprocessSplit, OInv, RequestsRestart
    <3>2. RestartClears(r) = request[r].docs
      BY <3>1 DEF RestartClears
    <3>3. \A d \in request[r].docs : LiveJobs(d) = {}
      BY DEF OInv, RequestsRestart
    <3>. QED  BY <1>0, <2>2, <3>1, <3>2, <3>3, OutsideStepKeeps DEF ChunksCleared
  <2>. QED  BY <1>2, <2>1, <2>2 DEF CsRequestStep
<1>3. CASE /\ \/ \E j \in JobIds : LockExpires(j)
              \/ \E d \in Docs : Upload(d) \/ SoftDelete(d)
           /\ UNCHANGED <<chunks, handler>>
  <2>1. UNCHANGED worker
    BY <1>3 DEF LockExpires, Upload, UploadInsert, UploadEnqueue, UploadCrash, SoftDelete
  <2>. QED  BY <1>0, <1>3, <2>1, OutsideStepKeeps
<1>4. CASE UNCHANGED csVars
  <2>1. UNCHANGED <<worker, chunks, handler>>
    BY <1>4 DEF csVars
  <2>. QED  BY <1>0, <2>1, OutsideStepKeeps
<1>. QED  BY <1>1, <1>2, <1>3, <1>4 DEF CsNext

LEMMA InitCInv == CsInit => CInv
<1>. SUFFICES ASSUME CsInit PROVE CInv
  OBVIOUS
<1>1. /\ \A d \in Docs : doc[d] = "ABSENT" /\ chunks[d] = {}
      /\ \A j \in JobIds : jobs[j].status = "ABSENT"
      /\ \A w \in Workers : handler[w].pc = "start" /\ worker[w].pc = "idle"
  BY DEF CsInit, Init, NoRow, Idle, NotStarted
<1>2. CsTypeOK
  <2>1. NotStarted \in Handling
    BY DEF NotStarted, Handling
  <2>. QED  BY <2>1 DEF CsInit, CsTypeOK
<1>3. \A w \in Workers : HandlerKnows(w)
  BY <1>1 DEF HandlerKnows, At
<1>4. KgOnly
  BY <1>1 DEF KgOnly, RetrievedStatus
<1>5. \A d \in Docs : OneChunkRun(d) /\ (doc[d] \in RetrievedStatus => Embedded(d))
  BY <1>1 DEF OneChunkRun, Embedded
<1>6. \A j \in JobIds : jobs[j].status \notin LiveStatus
  BY <1>1 DEF LiveStatus
<1>. QED  BY <1>2, <1>3, <1>4, <1>5, <1>6 DEF CInv

THEOREM ChunkInvariant == Orderly => (CsSpec => [](IInv /\ OInv /\ CInv))
<1>. SUFFICES ASSUME Orderly PROVE CsSpec => [](IInv /\ OInv /\ CInv)
  OBVIOUS
<1>1. CsInit => IInv /\ OInv /\ CInv
  BY InitIInv, InitOInv, InitCInv DEF CsInit
<1>2. IInv /\ OInv /\ CInv /\ [CsNext]_csVars => (IInv /\ OInv /\ CInv)'
  BY NextIInv, NextOrderly, OrderlyStepKeeps, NextCInv, CsStepIsQueueStep
<1>. QED  BY <1>1, <1>2, PTL DEF CsSpec

\* What retrieval returns of a document is the work of one run of CHUNK and
\* embedded to the last row, where no pipeline forks.
THEOREM EmbeddedWhenServed == Orderly => (CsSpec => []SearchableIsEmbedded)
<1>1. IInv /\ OInv /\ CInv => SearchableIsEmbedded
  BY DEF CInv, SearchableIsEmbedded, Embedded, OneChunkRun
<1>. QED  BY <1>1, ChunkInvariant, PTL
=============================================================================
