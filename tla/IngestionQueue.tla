--------------------------- MODULE IngestionQueue ---------------------------
(***************************************************************************)
(* The document ingestion queue: the tables document and ingestion_job,    *)
(* the poller threads of the worker (apps/worker/src/job_poller.py) that   *)
(* claim and run jobs, and the API requests that feed, restart and delete  *)
(* documents (apps/api/src/routes/document-routes.ts, ingestion-routes.ts).*)
(*                                                                         *)
(* One action is one database transaction (or one statement outside a      *)
(* transaction); whatever runs between two transactions of the same thread *)
(* is a place where the other threads, the requests and crashes interleave.*)
(***************************************************************************)
EXTENDS Naturals, FiniteSets, Functions

CONSTANTS
  Docs,          \* document rows that may ever exist: uploads and PDF parts
  Oversized,     \* documents whose file is a PDF above the split threshold
  JobIds,        \* BOUND: ingestion_job rows that may ever be inserted
  Workers,       \* poller threads, over all worker processes
  Requests,      \* API requests that may be in flight at once
  AdminOps,      \* the API operations a run lets happen
  MaxAttempts,   \* ingestion_job.max_attempts
  Steps,         \* pipeline steps kept; a skipped one differs only in names
  LockOutlivesHandler, \* does every handler finish before locked_until?
  NoDoc, NoJob

AllSteps == {"VALIDATE", "SPLIT", "NORMALIZE", "CONVERT", "METADATA_EXTRACT",
             "REDACT", "TRANSLATE", "CHUNK", "EMBED", "KG_EXTRACT"}

AllAdminOps == {"upload_retry", "reprocess", "batch_reprocess", "delete"}

ASSUME ConstantsAssumption ==
  /\ NoDoc \notin Docs /\ NoJob \notin JobIds
  /\ Oversized \subseteq Docs
  /\ AdminOps \subseteq AllAdminOps
  /\ MaxAttempts \in Nat \ {0}
  /\ Steps \subseteq AllSteps /\ {"VALIDATE", "SPLIT", "EMBED"} \subseteq Steps
  /\ LockOutlivesHandler \in BOOLEAN

VARIABLES
  doc,      \* document.status, with ABSENT (no row yet) and REMOVED (row deleted)
  parent,   \* document.parent_document_id
  jobs,     \* the ingestion_job rows
  worker,   \* what each poller thread is doing, with its local copy of attempt
  request,  \* what each API request has read and not yet acted on
  upload    \* how far the upload request that inserts a document has come

vars == <<doc, parent, jobs, worker, request, upload>>

-----------------------------------------------------------------------------
(* Documents, job rows, threads and requests.                              *)

SettledStatus == {"SEARCHABLE", "ACTIVE", "FAILED", "DELETED", "SPLIT_COMPLETE"}
Gone == {"ABSENT", "REMOVED"}
DocStatus ==
  SettledStatus \cup Gone \cup
  {"UPLOADED", "VALIDATING", "VALIDATED", "SPLITTING", "NORMALIZING",
   "CONVERTING", "METADATA_EXTRACTING", "REDACTING", "TRANSLATING",
   "TRANSLATED", "CHUNKING", "CHUNKED", "EMBEDDING", "KG_EXTRACTING",
   "REPROCESSING"}

LiveStatus == {"PENDING", "RETRYING", "PROCESSING"}
JobStatus == LiveStatus \cup {"COMPLETED", "FAILED", "DEAD_LETTER"} \cup Gone

\* lock abstracts locked_until: NULL, in the future, in the past.
Job == [doc : Docs \cup {NoDoc}, step : AllSteps, status : JobStatus,
        attempt : Nat, lock : {"none", "held", "expired"}]
Worker == [pc : {"idle", "running", "returned", "raised"},
           job : JobIds \cup {NoJob}, attempt : Nat]
RequestOp == {"none", "upload_retry", "reprocess", "reprocess_split",
              "batch_reprocess"}
Request == [op : RequestOp, docs : SUBSET Docs]

NoRow == [doc |-> NoDoc, step |-> "VALIDATE", status |-> "ABSENT",
          attempt |-> 0, lock |-> "none"]
Idle == [pc |-> "idle", job |-> NoJob, attempt |-> 0]
NoRequest == [op |-> "none", docs |-> {}]

LiveJobs(d) == {j \in JobIds : jobs[j].doc = d /\ jobs[j].status \in LiveStatus}
Fresh == {j \in JobIds : jobs[j].status = "ABSENT"}

-----------------------------------------------------------------------------
(* The step table.  rank orders the steps; a completed step queues the     *)
(* next kept one, EMBED queues KG_EXTRACT only when the feature flag is on.*)

STEP_TRANSITIONS(s) ==
  CASE s = "VALIDATE"  -> [rank |-> 1, during |-> "VALIDATING", after |-> "VALIDATED"]
    [] s = "SPLIT"     -> [rank |-> 2, during |-> "SPLITTING", after |-> "NORMALIZING"]
    [] s = "NORMALIZE" -> [rank |-> 3, during |-> "NORMALIZING", after |-> "CONVERTING"]
    [] s = "CONVERT"   -> [rank |-> 4, during |-> "CONVERTING", after |-> "METADATA_EXTRACTING"]
    [] s = "METADATA_EXTRACT"
                       -> [rank |-> 5, during |-> "METADATA_EXTRACTING", after |-> "REDACTING"]
    [] s = "REDACT"    -> [rank |-> 6, during |-> "REDACTING", after |-> "TRANSLATING"]
    [] s = "TRANSLATE" -> [rank |-> 7, during |-> "TRANSLATING", after |-> "TRANSLATED"]
    [] s = "CHUNK"     -> [rank |-> 8, during |-> "CHUNKING", after |-> "CHUNKED"]
    [] s = "EMBED"     -> [rank |-> 9, during |-> "EMBEDDING", after |-> "SEARCHABLE"]
    [] s = "KG_EXTRACT" -> [rank |-> 10, during |-> "KG_EXTRACTING", after |-> "ACTIVE"]

Rank(s) == STEP_TRANSITIONS(s).rank

\* The steps that have no unconditional next step.
LastSteps == {"EMBED", "KG_EXTRACT"}

\* Skips over steps.
NextStepsAny(s) == {t \in Steps : Rank(s) < Rank(t)}
\* The step queued when s completes, if one is.
NextSteps(s) ==
  {t \in Steps : /\ Rank(s) < Rank(t)
                 /\ \A u \in Steps : ~(Rank(s) < Rank(u) /\ Rank(u) < Rank(t))}

\* Writes the name of the step where a status belongs.
DuringStatusStepName(s) == s
DuringStatus(s) == STEP_TRANSITIONS(s).during
AfterStatus(s) == STEP_TRANSITIONS(s).after

-----------------------------------------------------------------------------
(* What the statements of the code do to one row.  An UPDATE that names a  *)
(* row the database no longer has changes nothing.                         *)

SetStatus(d, s) == IF doc[d] \in Gone THEN doc ELSE [doc EXCEPT ![d] = s]
SetJob(j, row) == IF jobs[j].status \in Gone THEN jobs ELSE [jobs EXCEPT ![j] = row]

NewJob(d, s) ==
  [doc |-> d, step |-> s, status |-> "PENDING", attempt |-> 0, lock |-> "none"]

Claimed(row) ==
  [row EXCEPT !.status = "PROCESSING", !.attempt = @ + 1, !.lock = "held"]

Completed(row) == [row EXCEPT !.status = "COMPLETED", !.lock = "none"]
Retried(row) == [row EXCEPT !.status = "RETRYING", !.lock = "held"]
DeadLettered(row) == [row EXCEPT !.status = "DEAD_LETTER", !.lock = "none"]

\* Off by one.
ExhaustedEarly(attempt) == attempt >= MaxAttempts - 1
Exhausted(attempt) == attempt >= MaxAttempts

\* One insert per document of D: which fresh row id each of them gets.
InsertsFor(D) == Injection(D, Fresh)
Insert(rows, new, s) ==
  [j \in JobIds |-> IF \E d \in DOMAIN new : new[d] = j
                    THEN NewJob(CHOOSE d \in DOMAIN new : new[d] = j, s)
                    ELSE rows[j]]

-----------------------------------------------------------------------------
(* One poll: reclaim what is stale, then claim one job, in one transaction.*)

\* Forgets the stale jobs that have no attempt left.
StaleNotExhausted ==
  {j \in JobIds : /\ jobs[j].status = "PROCESSING" /\ jobs[j].lock = "expired"
                  /\ ~Exhausted(jobs[j].attempt)}
Stale == {j \in JobIds : jobs[j].status = "PROCESSING" /\ jobs[j].lock = "expired"}

\* Retries every stale job, exhausted or not.
ReapedRowAlwaysRetry(row) == [row EXCEPT !.status = "RETRYING", !.lock = "none"]
ReapedRow(row) ==
  [row EXCEPT !.status = IF Exhausted(row.attempt) THEN "DEAD_LETTER" ELSE "RETRYING",
              !.lock = "none"]
ReapedJobs == [j \in JobIds |-> IF j \in Stale THEN ReapedRow(jobs[j]) ELSE jobs[j]]

ReapedDocs ==
  [d \in Docs |->
     IF \E j \in Stale : jobs[j].doc = d /\ Exhausted(jobs[j].attempt)
     THEN "FAILED" ELSE doc[d]]

Claimable(rows) ==
  {j \in JobIds : rows[j].status \in {"PENDING", "RETRYING"} /\ rows[j].lock # "held"}

\* The SELECT takes the oldest claimable row another poll has not locked: any
\* claimable row, since created_at is the start of the inserting transaction.
PollClaims(w, j) ==
  /\ worker[w].pc = "idle"
  /\ j \in Claimable(ReapedJobs)
  /\ jobs' = [ReapedJobs EXCEPT ![j] = Claimed(@)]
  /\ doc' = [ReapedDocs EXCEPT ![jobs[j].doc] = DuringStatus(jobs[j].step)]
  /\ worker' = [worker EXCEPT ![w] =
       [pc |-> "running", job |-> j, attempt |-> jobs[j].attempt + 1]]
  /\ UNCHANGED <<parent, request, upload>>

\* A poll that finds nothing to claim still commits what it reclaimed.
PollFindsNothing(w) ==
  /\ worker[w].pc = "idle"
  /\ Claimable(ReapedJobs) = {}
  /\ Stale # {}
  /\ jobs' = ReapedJobs
  /\ doc' = ReapedDocs
  /\ UNCHANGED <<parent, worker, request, upload>>

Poll(w) == PollFindsNothing(w) \/ \E j \in JobIds : PollClaims(w, j)

-----------------------------------------------------------------------------
(* The handler, outside any transaction of the poller.  Only two of the    *)
(* handlers write document.status or ingestion_job rows themselves.        *)

StepOf(w) == jobs[worker[w].job].step
DocOf(w) == jobs[worker[w].job].doc

At(w, pc) == worker[w].pc = pc
Goto(w, pc) == worker' = [worker EXCEPT ![w].pc = pc]

Splits(w) == StepOf(w) = "SPLIT" /\ DocOf(w) \in Oversized

HandlerReturns(w) ==
  /\ At(w, "running") /\ ~Splits(w)
  /\ doc' = IF StepOf(w) = "KG_EXTRACT" THEN SetStatus(DocOf(w), "ACTIVE") ELSE doc
  /\ Goto(w, "returned")
  /\ UNCHANGED <<parent, jobs, request, upload>>

\* split_document inserts the parts, a job for each, and marks the parent, in
\* one transaction.  At least two parts: num_parts >= 2 and total_pages >= 2.
\* Parts are below the threshold, so they are never split again.
HandlerSplits(w) ==
  /\ At(w, "running") /\ Splits(w) /\ doc[DocOf(w)] \notin Gone
  /\ \E parts \in SUBSET {d \in Docs \ Oversized : doc[d] = "ABSENT"} :
       /\ Cardinality(parts) >= 2
       /\ doc' = [d \in Docs |-> CASE d \in parts -> "UPLOADED"
                                   [] d = DocOf(w) -> "SPLIT_COMPLETE"
                                   [] OTHER -> doc[d]]
       /\ parent' = [d \in Docs |-> IF d \in parts THEN DocOf(w) ELSE parent[d]]
       /\ \E new \in InsertsFor(parts), s \in NextSteps("SPLIT") :
            jobs' = Insert(jobs, new, s)
  /\ Goto(w, "returned")
  /\ UNCHANGED <<request, upload>>

HandlerRaises(w) ==
  /\ At(w, "running")
  /\ Goto(w, "raised")
  /\ UNCHANGED <<doc, parent, jobs, request, upload>>

-----------------------------------------------------------------------------
(* The transaction after the handler.  It names the job by id only: it does*)
(* not ask whether the row is still PROCESSING, nor by whom.               *)

\* split_document has marked the document, so its parent pipeline ends here.
IsSplitParentNever(w) == FALSE
IsSplitParent(w) == StepOf(w) = "SPLIT" /\ doc[DocOf(w)] = "SPLIT_COMPLETE"

CompleteSplitParent(w) ==
  /\ At(w, "returned") /\ IsSplitParent(w)
  /\ jobs' = SetJob(worker[w].job, Completed(jobs[worker[w].job]))
  /\ worker' = [worker EXCEPT ![w] = Idle]
  /\ UNCHANGED <<doc, parent, request, upload>>

\* Forgets the INSERT of the step that follows.
QueueNothing(rows, d, s) == {rows}
QueueNext(rows, d, s) == {[rows EXCEPT ![n] = NewJob(d, s)] : n \in Fresh}

CompleteAndQueue(w, s) ==
  /\ At(w, "returned") /\ s \in NextSteps(StepOf(w))
  /\ ~IsSplitParent(w)
  /\ doc[DocOf(w)] \notin Gone
  /\ jobs' \in QueueNext(SetJob(worker[w].job, Completed(jobs[worker[w].job])), DocOf(w), s)
  /\ doc' = SetStatus(DocOf(w), AfterStatus(StepOf(w)))
  /\ worker' = [worker EXCEPT ![w] = Idle]
  /\ UNCHANGED <<parent, request, upload>>

\* KG_EXTRACT, or EMBED with the kg_extraction flag off.
CompleteLast(w) ==
  /\ At(w, "returned") /\ StepOf(w) \in LastSteps
  /\ jobs' = SetJob(worker[w].job, Completed(jobs[worker[w].job]))
  /\ doc' = SetStatus(DocOf(w), AfterStatus(StepOf(w)))
  /\ worker' = [worker EXCEPT ![w] = Idle]
  /\ UNCHANGED <<parent, request, upload>>

\* A database error, a deadlock with a request, or the foreign key of a
\* document that was deleted: the transaction rolls back, the except clause runs.
CompletionRaises(w) ==
  /\ At(w, "returned")
  /\ Goto(w, "raised")
  /\ UNCHANGED <<doc, parent, jobs, request, upload>>

\* The except clause decides by the attempt it claimed, not the row's.
DeadLetter(w) ==
  /\ At(w, "raised") /\ Exhausted(worker[w].attempt)
  /\ jobs' = SetJob(worker[w].job, DeadLettered(jobs[worker[w].job]))
  /\ doc' = SetStatus(DocOf(w), "FAILED")
  /\ worker' = [worker EXCEPT ![w] = Idle]
  /\ UNCHANGED <<parent, request, upload>>

Retry(w) ==
  /\ At(w, "raised") /\ ~Exhausted(worker[w].attempt)
  /\ jobs' = SetJob(worker[w].job, Retried(jobs[worker[w].job]))
  /\ worker' = [worker EXCEPT ![w] = Idle]
  /\ UNCHANGED <<doc, parent, request, upload>>

\* The process dies, or the except clause's own transaction fails and
\* run_poller swallows it: the thread comes back idle, the row stays as it is.
Crash(w) ==
  /\ ~At(w, "idle")
  /\ worker' = [worker EXCEPT ![w] = Idle]
  /\ UNCHANGED <<doc, parent, jobs, request, upload>>

HeldBy(j) == {w \in Workers : ~At(w, "idle") /\ worker[w].job = j}

\* Time passes locked_until.
LockExpires(j) ==
  /\ jobs[j].lock = "held"
  /\ (LockOutlivesHandler /\ jobs[j].status = "PROCESSING") => HeldBy(j) = {}
  /\ jobs' = [jobs EXCEPT ![j].lock = "expired"]
  /\ UNCHANGED <<doc, parent, worker, request, upload>>

-----------------------------------------------------------------------------
(* Uploads: the document and its first job are two separate statements.    *)

UploadInsert(d) ==
  /\ doc[d] = "ABSENT"
  /\ doc' = [doc EXCEPT ![d] = "UPLOADED"]
  /\ upload' = [upload EXCEPT ![d] = "inserted"]
  /\ UNCHANGED <<parent, jobs, worker, request>>

UploadEnqueue(d) ==
  /\ upload[d] = "inserted"
  /\ \E n \in Fresh : jobs' = [jobs EXCEPT ![n] = NewJob(d, "VALIDATE")]
  /\ upload' = [upload EXCEPT ![d] = "enqueued"]
  /\ UNCHANGED <<doc, parent, worker, request>>

UploadCrash(d) ==
  /\ upload[d] = "inserted"
  /\ upload' = [upload EXCEPT ![d] = "crashed"]
  /\ UNCHANGED <<doc, parent, jobs, worker, request>>

(* Requests that restart documents read the status first and act on it in  *)
(* a later transaction that does not look at the status again.             *)

Reads(r, op, D) ==
  /\ request[r].op = "none"
  /\ request' = [request EXCEPT ![r] = [op |-> op, docs |-> D]]
  /\ UNCHANGED <<doc, parent, jobs, worker, upload>>

\* Retries a document in any status.
ReadForUploadRetryAny(r, d) ==
  "upload_retry" \in AdminOps /\ doc[d] \notin Gone /\ Reads(r, "upload_retry", {d})
ReadForUploadRetry(r, d) ==
  "upload_retry" \in AdminOps /\ doc[d] = "FAILED" /\ Reads(r, "upload_retry", {d})

\* Restarts a document in any status.
ReadForReprocessAny(r, d) ==
  /\ "reprocess" \in AdminOps
  /\ doc[d] \notin Gone \cup {"DELETED"} /\ Reads(r, "reprocess", {d})
ReadForReprocess(r, d) ==
  /\ "reprocess" \in AdminOps
  /\ \/ doc[d] = "FAILED" /\ Reads(r, "reprocess", {d})
     \/ doc[d] = "SPLIT_COMPLETE" /\ Reads(r, "reprocess_split", {d})

ReadForBatch(r, D) ==
  /\ "batch_reprocess" \in AdminOps
  /\ D # {} /\ \A d \in D : doc[d] \notin Gone \cup {"DELETED"}
  /\ Reads(r, "batch_reprocess", D)

\* Leaves a job that is waiting for its backoff to pass in the queue.
CancellableNotRetrying == {"PENDING", "PROCESSING", "DEAD_LETTER"}
Cancellable == LiveStatus \cup {"DEAD_LETTER"}
Cancelled(row) == [row EXCEPT !.status = "FAILED", !.lock = "none"]
CancelledJobs(rows, D) ==
  [j \in JobIds |-> IF rows[j].doc \in D /\ rows[j].status \in Cancellable
                    THEN Cancelled(rows[j]) ELSE rows[j]]

\* DELETE of the parts of a parent; their jobs go with them.
Parts(D) == {c \in Docs : parent[c] \in D /\ doc[c] # "REMOVED"}
RemovedJobs(rows, C) ==
  [j \in JobIds |-> IF rows[j].doc \in C THEN [rows[j] EXCEPT !.status = "REMOVED"]
                                         ELSE rows[j]]

\* The transaction of upload retry, reprocess (of a failed document) and
\* batch reprocess: set the status, cancel the jobs, queue VALIDATE.
CommitRestart(r) ==
  LET D == request[r].docs
      restarted == IF request[r].op = "batch_reprocess" THEN "REPROCESSING" ELSE "UPLOADED"
  IN /\ request[r].op \in {"upload_retry", "reprocess", "batch_reprocess"}
     /\ \A d \in D : doc[d] \notin Gone
     /\ doc' = [d \in Docs |-> IF d \in D THEN restarted ELSE doc[d]]
     /\ \E new \in InsertsFor(D) : jobs' = Insert(CancelledJobs(jobs, D), new, "VALIDATE")
     /\ request' = [request EXCEPT ![r] = NoRequest]
     /\ UNCHANGED <<parent, worker, upload>>

\* The same for a document read as SPLIT_COMPLETE: its parts are deleted first.
CommitReprocessSplit(r) ==
  LET D == request[r].docs
  IN /\ request[r].op = "reprocess_split"
     /\ \A d \in D : doc[d] \notin Gone
     /\ doc' = [d \in Docs |-> CASE d \in Parts(D) -> "REMOVED"
                                 [] d \in D -> "UPLOADED"
                                 [] OTHER -> doc[d]]
     /\ \E d \in D :
          jobs' \in QueueNext(CancelledJobs(RemovedJobs(jobs, Parts(D)), D), d, "VALIDATE")
     /\ request' = [request EXCEPT ![r] = NoRequest]
     /\ UNCHANGED <<parent, worker, upload>>

\* The request dies, or its transaction rolls back: the INSERT of a job for a
\* document that no longer exists breaks the foreign key.
RequestAborts(r) ==
  /\ request[r].op # "none"
  /\ request' = [request EXCEPT ![r] = NoRequest]
  /\ UNCHANGED <<doc, parent, jobs, worker, upload>>

\* One UPDATE; the jobs of the document are left alone.
SoftDelete(d) ==
  /\ "delete" \in AdminOps
  /\ doc[d] \notin Gone \cup {"DELETED"}
  /\ doc' = [doc EXCEPT ![d] = "DELETED"]
  /\ UNCHANGED <<parent, jobs, worker, request, upload>>

-----------------------------------------------------------------------------

Init ==
  /\ doc = [d \in Docs |-> "ABSENT"]
  /\ parent = [d \in Docs |-> NoDoc]
  /\ jobs = [j \in JobIds |-> NoRow]
  /\ worker = [w \in Workers |-> Idle]
  /\ request = [r \in Requests |-> NoRequest]
  /\ upload = [d \in Docs |-> "none"]

Handler(w) == HandlerReturns(w) \/ HandlerSplits(w) \/ HandlerRaises(w)
Complete(w) ==
  \/ CompleteSplitParent(w) \/ CompleteLast(w)
  \/ \E s \in Steps : CompleteAndQueue(w, s)
Finish(w) == Complete(w) \/ CompletionRaises(w) \/ DeadLetter(w) \/ Retry(w)
WorkerStep(w) == Poll(w) \/ Handler(w) \/ Finish(w)

Upload(d) == UploadInsert(d) \/ UploadEnqueue(d) \/ UploadCrash(d)
RequestStep(r) ==
  \/ \E d \in Docs : ReadForUploadRetry(r, d) \/ ReadForReprocess(r, d)
  \/ \E D \in SUBSET Docs : ReadForBatch(r, D)
  \/ CommitRestart(r) \/ CommitReprocessSplit(r) \/ RequestAborts(r)

Next ==
  \/ \E w \in Workers : WorkerStep(w) \/ Crash(w)
  \/ \E j \in JobIds : LockExpires(j)
  \/ \E d \in Docs : Upload(d) \/ SoftDelete(d)
  \/ \E r \in Requests : RequestStep(r)

Spec == Init /\ [][Next]_vars

-----------------------------------------------------------------------------
(* Properties.                                                             *)

\* Every row, thread and request is of its declared shape; in particular a
\* document only ever gets a status of document_status_check (migration 031).
TypeOK ==
  /\ doc \in [Docs -> DocStatus]
  /\ parent \in [Docs -> Docs \cup {NoDoc}]
  /\ jobs \in [JobIds -> Job]
  /\ worker \in [Workers -> Worker]
  /\ request \in [Requests -> Request]
  /\ upload \in [Docs -> {"none", "inserted", "enqueued", "crashed"}]

\* No document is stranded half way through the pipeline: one whose status says
\* that work remains has a job that some poll will pick up or reclaim.  The one
\* exception is a fresh upload whose request has not yet, or never, inserted
\* the first job (document-routes.ts:949-969).
NoStrandedDocument ==
  \A d \in Docs :
    doc[d] \notin SettledStatus \cup Gone =>
      \/ LiveJobs(d) # {}
      \/ doc[d] = "UPLOADED" /\ upload[d] \in {"inserted", "crashed"}

\* A job row in PROCESSING always carries a lock, whatever late writers do to
\* it: without one _reclaim_stale_processing_jobs could never recover it.
ProcessingIsLocked ==
  \A j \in JobIds : jobs[j].status = "PROCESSING" => jobs[j].lock # "none"

\* A job is dead-lettered only after it has used all its attempts, also when
\* the thread that gives up on it holds an older attempt than the row.
DeadLetterUsedAllAttempts ==
  \A j \in JobIds : jobs[j].status = "DEAD_LETTER" => jobs[j].attempt >= MaxAttempts

\* Threads that fail late can push a job past max_attempts, but not without
\* end: each attempt below the limit can put the row back at most once.
OvershootIsBounded ==
  \A j \in JobIds : jobs[j].attempt <= 2 * MaxAttempts - 1

\* A thread owns its job while the row is still in the attempt it claimed.
Owns(w) ==
  LET j == worker[w].job
  IN ~At(w, "idle") /\ jobs[j].status = "PROCESSING" /\ jobs[j].attempt = worker[w].attempt

\* A document gets a second live job in two ways only: a thread that no longer
\* owns its job reports on it, or an upload queues its first job after a batch
\* reprocess has already queued one.  No request forks a pipeline by itself.
ForksOnlyFromLateWriters ==
  [][\A d \in Docs :
       Cardinality(LiveJobs(d)') > 1 /\ Cardinality(LiveJobs(d)') > Cardinality(LiveJobs(d))
       => \/ \E w \in Workers : ~At(w, "idle") /\ At(w, "idle")' /\ DocOf(w) = d /\ ~Owns(w)
          \/ upload[d] = "inserted" /\ upload'[d] = "enqueued"]_vars

\* No second pipeline: at most one job of a document is in the queue, and none of one
\* that failed, so that a request that read FAILED cancels no running job.  Holds when
\* no lock expires under a running handler, nothing is split, and one request at a
\* time restarts documents it read as FAILED.
OneLiveJobPerDocument ==
  \A d \in Docs : \A i, j \in LiveJobs(d) : i = j
FailedHasNoLiveJob ==
  \A d \in Docs : doc[d] = "FAILED" => LiveJobs(d) = {}
AtMostOnePipeline == OneLiveJobPerDocument /\ FailedHasNoLiveJob

\* A searchable document went through the whole pipeline: each step before the
\* last has a completed job, whatever was retried or restarted on the way.
SearchableRanEveryStep ==
  \A d \in Docs :
    doc[d] \in {"SEARCHABLE", "ACTIVE"} =>
      \A s \in Steps \ {"KG_EXTRACT"} :
        \E j \in JobIds : jobs[j].doc = d /\ jobs[j].step = s /\ jobs[j].status = "COMPLETED"

\* Between the split of a PDF and its completion, while nobody else works on the
\* document and it has no other live job, no job of a later step comes up for it, and the
\* mark that makes the completion stop there (job_poller.py:199-207) stays, unless a soft
\* delete takes it away or the thread loses its job, to a restart or to the reaper.
LaterJobs(d) == {j \in LiveJobs(d) : Rank(jobs[j].step) > Rank("SPLIT")}
HasSplit(w) ==
  /\ At(w, "returned") /\ Splits(w) /\ Owns(w) /\ doc[DocOf(w)] = "SPLIT_COMPLETE"
  /\ LiveJobs(DocOf(w)) = {worker[w].job}
  /\ \A v \in Workers \ {w} : ~At(v, "idle") => DocOf(v) # DocOf(w)
SplitParentStops ==
  [][\A w \in Workers : \A d \in Docs :
       HasSplit(w) /\ d = DocOf(w) =>
         /\ LaterJobs(d)' = {}
         /\ doc'[d] \in {"SPLIT_COMPLETE", "DELETED"} \/ ~Owns(w)']_vars

\* A deletion can be undone by what was under way when it came (DeletedIsTerminal below),
\* and by nothing else: once no job of the document is in the queue or in a
\* thread's hands, no request has read it and no upload is half done, it stays deleted and
\* nothing is started for it, until it is removed with the document it is a part of.
\* document-routes.ts:1172 leaves the jobs of the document as they are.
UnderWay(d) ==
  \/ LiveJobs(d) # {}
  \/ \E w \in Workers : ~At(w, "idle") /\ DocOf(w) = d
  \/ \E r \in Requests : d \in request[r].docs
  \/ upload[d] = "inserted"
QuietDeletionLasts ==
  [][\A d \in Docs :
       doc[d] = "DELETED" /\ ~UnderWay(d) =>
         \/ doc'[d] = "REMOVED"
         \/ doc'[d] = "DELETED" /\ ~UnderWay(d)']_vars

\* Every document whose upload completed ends up settled with an empty queue,
\* whatever its handlers do and however often the workers crash.
IngestionConverges ==
  \A d \in Docs :
    <>[](upload[d] = "enqueued" => doc[d] \in SettledStatus /\ LiveJobs(d) = {})

-----------------------------------------------------------------------------
(* What the repository says of the queue and the code does not keep.       *)

\* DELETED is a terminal state (document-workflow.ts:26, :49-53).
DeletedIsTerminal ==
  [][\A d \in Docs : doc[d] = "DELETED" => doc'[d] = "DELETED"]_vars
=============================================================================
