------------------------ MODULE IngestionQueueProofs ------------------------
(***************************************************************************)
(* What holds of IngestionQueue for every number of documents, job rows,   *)
(* threads and requests.                                                   *)
(***************************************************************************)
EXTENDS IngestionQueue, FiniteSetTheorems, TLAPS

\* A thread that works holds the id of an inserted row, and the row's attempt
\* is not behind the thread's own copy of it.
WorkersHoldRows ==
  \A w \in Workers :
    worker[w].pc # "idle" =>
      /\ worker[w].job \in JobIds
      /\ jobs[worker[w].job].status # "ABSENT"
      /\ worker[w].attempt <= jobs[worker[w].job].attempt

\* The rows that were inserted are those that name a document.
RowsNameDocuments ==
  \A j \in JobIds : jobs[j].status # "ABSENT" <=> jobs[j].doc \in Docs

\* The request that deletes parts and restarts their parent names one document.
SplitRequestsNameOne ==
  \A r \in Requests :
    request[r].op = "reprocess_split" => \E d \in Docs : request[r].docs = {d}

\* What ProcessingIsLocked and DeadLetterUsedAllAttempts say of one row.
SoundRow(row) ==
  /\ row.status = "PROCESSING" => row.lock # "none"
  /\ row.status = "DEAD_LETTER" => row.attempt >= MaxAttempts

RowsAreSound == \A j \in JobIds : SoundRow(jobs[j])

IInv ==
  /\ TypeOK
  /\ WorkersHoldRows
  /\ RowsNameDocuments
  /\ SplitRequestsNameOne
  /\ RowsAreSound

-----------------------------------------------------------------------------
(* Lemmas about the operators.                                             *)

\* The status a document gets while a step runs says that work remains; the one
\* it gets after the last step says that none does.
LEMMA StepTable ==
  ASSUME NEW s \in AllSteps
  PROVE  /\ DuringStatus(s) \in DocStatus \ (SettledStatus \cup Gone)
         /\ AfterStatus(s) \in DocStatus \ Gone
         /\ s \in LastSteps => AfterStatus(s) \in SettledStatus
<1>1. DuringStatus(s) \in DocStatus \ (SettledStatus \cup Gone)
  BY DEF AllSteps, DuringStatus, STEP_TRANSITIONS, DocStatus, SettledStatus, Gone
<1>2. AfterStatus(s) \in DocStatus \ Gone
  BY DEF AllSteps, AfterStatus, STEP_TRANSITIONS, DocStatus, SettledStatus, Gone
<1>3. s \in LastSteps => AfterStatus(s) \in SettledStatus
  BY DEF AllSteps, AfterStatus, STEP_TRANSITIONS, SettledStatus, LastSteps
<1>. QED  BY <1>1, <1>2, <1>3

\* What the statements do to a row leaves it a sound row, of the same document,
\* with no smaller an attempt, and never takes it back to ABSENT.
SameJob(new, old) ==
  /\ new \in Job
  /\ SoundRow(new)
  /\ new.doc = old.doc
  /\ new.attempt >= old.attempt
  /\ new.status # "ABSENT"

LEMMA RowUpdates ==
  ASSUME NEW row \in Job, row.status # "ABSENT"
  PROVE  /\ SoundRow(row) => SameJob(row, row)
         /\ SameJob(Claimed(row), row)
         /\ SameJob(Completed(row), row)
         /\ SameJob(Retried(row), row)
         /\ row.attempt >= MaxAttempts => SameJob(DeadLettered(row), row)
         /\ SameJob(ReapedRow(row), row)
         /\ SameJob(Cancelled(row), row)
         /\ SameJob([row EXCEPT !.status = "REMOVED"], row)
         /\ SoundRow(row) => SameJob([row EXCEPT !.lock = "expired"], row)
<1>0. row.attempt \in Nat
  BY DEF Job
<1>1. ASSUME NEW s \in JobStatus \ {"ABSENT"}, NEW k \in {"none", "held", "expired"},
             s = "PROCESSING" => k # "none", s = "DEAD_LETTER" => row.attempt >= MaxAttempts
      PROVE  SameJob([row EXCEPT !.status = s, !.lock = k], row)
  <2>. DEFINE new == [row EXCEPT !.status = s, !.lock = k]
  <2>1. new \in Job
    BY DEF Job
  <2>2. new.doc = row.doc /\ new.attempt = row.attempt /\ new.status = s /\ new.lock = k
    BY DEF Job
  <2>. HIDE DEF new
  <2>3. SameJob(new, row)
    BY <1>0, <1>1, <2>1, <2>2 DEF SameJob, SoundRow
  <2>. QED  BY <2>3 DEF new
<1>2. {"PROCESSING", "COMPLETED", "RETRYING", "DEAD_LETTER", "FAILED", "REMOVED"}
        \subseteq JobStatus \ {"ABSENT"}
  BY DEF JobStatus, LiveStatus, Gone
<1>3. SoundRow(row) => SameJob(row, row)
  BY <1>0 DEF SameJob
<1>4. SameJob(Claimed(row), row)
  <2>1. row.attempt + 1 \in Nat /\ row.attempt + 1 >= row.attempt
    BY <1>0
  <2>2. Claimed(row) \in Job
    BY <2>1, <1>2 DEF Claimed, Job
  <2>3. /\ Claimed(row).doc = row.doc /\ Claimed(row).status = "PROCESSING"
        /\ Claimed(row).attempt = row.attempt + 1 /\ Claimed(row).lock = "held"
    BY DEF Claimed, Job
  <2>. QED  BY <2>1, <2>2, <2>3 DEF SameJob, SoundRow
<1>5. SameJob(Completed(row), row)
  BY <1>1, <1>2 DEF Completed
<1>6. SameJob(Retried(row), row)
  <2>1. "RETRYING" \in JobStatus \ {"ABSENT"}
    BY <1>2
  <2>. QED  BY <1>1, <2>1 DEF Retried
<1>7. row.attempt >= MaxAttempts => SameJob(DeadLettered(row), row)
  BY <1>1, <1>2 DEF DeadLettered
<1>8. SameJob(ReapedRow(row), row)
  <2>1. CASE Exhausted(row.attempt)
    <3>1. "DEAD_LETTER" \in JobStatus \ {"ABSENT"} /\ row.attempt >= MaxAttempts
      BY <1>2, <2>1 DEF Exhausted
    <3>2. ReapedRow(row) = [row EXCEPT !.status = "DEAD_LETTER", !.lock = "none"]
      BY <2>1 DEF ReapedRow
    <3>3. SameJob([row EXCEPT !.status = "DEAD_LETTER", !.lock = "none"], row)
      BY <1>1, <3>1
    <3>. QED  BY <3>2, <3>3
  <2>2. CASE ~Exhausted(row.attempt)
    <3>1. "RETRYING" \in JobStatus \ {"ABSENT"}
      BY <1>2
    <3>2. ReapedRow(row) = [row EXCEPT !.status = "RETRYING", !.lock = "none"]
      BY <2>2 DEF ReapedRow
    <3>3. SameJob([row EXCEPT !.status = "RETRYING", !.lock = "none"], row)
      BY <1>1, <3>1
    <3>. QED  BY <3>2, <3>3
  <2>. QED  BY <2>1, <2>2
<1>9. SameJob(Cancelled(row), row)
  BY <1>1, <1>2 DEF Cancelled
<1>10. SameJob([row EXCEPT !.status = "REMOVED"], row)
  <2>. DEFINE new == [row EXCEPT !.status = "REMOVED"]
  <2>1. new \in Job /\ new.doc = row.doc /\ new.attempt = row.attempt /\ new.status = "REMOVED"
    BY <1>2 DEF Job
  <2>. HIDE DEF new
  <2>2. SameJob(new, row)
    BY <1>0, <2>1 DEF SameJob, SoundRow
  <2>. QED  BY <2>2 DEF new
<1>11. SoundRow(row) => SameJob([row EXCEPT !.lock = "expired"], row)
  <2>. DEFINE new == [row EXCEPT !.lock = "expired"]
  <2>1. /\ new \in Job /\ new.doc = row.doc /\ new.attempt = row.attempt
        /\ new.status = row.status /\ new.lock = "expired"
    BY DEF Job
  <2>. HIDE DEF new
  <2>2. SoundRow(row) => SameJob(new, row)
    BY <1>0, <2>1 DEF SameJob, SoundRow
  <2>. QED  BY <2>2 DEF new
<1>. QED  BY <1>3, <1>4, <1>5, <1>6, <1>7, <1>8, <1>9, <1>10, <1>11

LEMMA SameJobTransitive ==
  ASSUME NEW a, NEW b, NEW c \in Job, SameJob(a, b), SameJob(b, c)
  PROVE  SameJob(a, c)
<1>1. a.attempt \in Nat /\ b.attempt \in Nat /\ c.attempt \in Nat
  BY DEF SameJob, Job
<1>. QED  BY <1>1 DEF SameJob

LEMMA NewJobType ==
  ASSUME NEW d \in Docs, NEW s \in Steps
  PROVE  /\ NewJob(d, s) \in Job /\ SoundRow(NewJob(d, s))
         /\ NewJob(d, s).status = "PENDING" /\ NewJob(d, s).doc = d
BY ConstantsAssumption DEF NewJob, Job, JobStatus, LiveStatus, SoundRow

-----------------------------------------------------------------------------
(* The actions of Next, one disjunct each.                                 *)

LEMMA NextActions ==
  ASSUME [Next]_vars
  PROVE  \/ UNCHANGED vars
         \/ \E w \in Workers, j \in JobIds : PollClaims(w, j)
         \/ \E w \in Workers : PollFindsNothing(w)
         \/ \E w \in Workers : HandlerReturns(w)
         \/ \E w \in Workers : HandlerSplits(w)
         \/ \E w \in Workers : HandlerRaises(w)
         \/ \E w \in Workers : CompleteSplitParent(w)
         \/ \E w \in Workers, s \in Steps : CompleteAndQueue(w, s)
         \/ \E w \in Workers : CompleteLast(w)
         \/ \E w \in Workers : CompletionRaises(w)
         \/ \E w \in Workers : DeadLetter(w)
         \/ \E w \in Workers : Retry(w)
         \/ \E w \in Workers : Crash(w)
         \/ \E j \in JobIds : LockExpires(j)
         \/ \E d \in Docs : UploadInsert(d)
         \/ \E d \in Docs : UploadEnqueue(d)
         \/ \E d \in Docs : UploadCrash(d)
         \/ \E d \in Docs : SoftDelete(d)
         \/ \E r \in Requests, d \in Docs : ReadForUploadRetry(r, d)
         \/ \E r \in Requests, d \in Docs : ReadForReprocess(r, d)
         \/ \E r \in Requests, D \in SUBSET Docs : ReadForBatch(r, D)
         \/ \E r \in Requests : CommitRestart(r)
         \/ \E r \in Requests : CommitReprocessSplit(r)
         \/ \E r \in Requests : RequestAborts(r)
<1>1. CASE \E w \in Workers : WorkerStep(w) \/ Crash(w)
  BY <1>1 DEF WorkerStep, Poll, Handler, Complete, Finish
<1>2. CASE \E d \in Docs : Upload(d) \/ SoftDelete(d)
  BY <1>2 DEF Upload
<1>3. CASE \E r \in Requests : RequestStep(r)
  BY <1>3 DEF RequestStep
<1>. QED  BY <1>1, <1>2, <1>3 DEF Next

-----------------------------------------------------------------------------
(* How the rows of ingestion_job evolve.                                   *)

\* rows is a successor of jobs: an inserted row stays the job it was, a row
\* inserted now names a document.
Evolves(rows) ==
  /\ rows \in [JobIds -> Job]
  /\ \A j \in JobIds : jobs[j].status # "ABSENT" => SameJob(rows[j], jobs[j])
  /\ \A j \in JobIds : rows[j].status # "ABSENT" <=> rows[j].doc \in Docs
  /\ \A j \in JobIds : SoundRow(rows[j])

LEMMA UnchangedEvolves ==
  ASSUME IInv
  PROVE  Evolves(jobs)
<1>1. \A j \in JobIds : jobs[j].status # "ABSENT" => SameJob(jobs[j], jobs[j])
  BY RowUpdates DEF IInv, TypeOK, RowsAreSound
<1>. QED  BY <1>1 DEF IInv, TypeOK, RowsNameDocuments, RowsAreSound, Evolves

LEMMA UpdateEvolves ==
  ASSUME IInv, NEW old, Evolves(old), NEW rows \in [JobIds -> Job],
         \A j \in JobIds :
           \/ rows[j] = old[j]
           \/ old[j].status # "ABSENT" /\ SameJob(rows[j], old[j])
  PROVE  Evolves(rows)
<1>1. ASSUME NEW j \in JobIds, jobs[j].status # "ABSENT"
      PROVE  SameJob(rows[j], jobs[j])
  <2>1. jobs[j] \in Job /\ SameJob(old[j], jobs[j])
    BY <1>1 DEF IInv, TypeOK, Evolves
  <2>. QED  BY <2>1, SameJobTransitive
<1>2. \A j \in JobIds : rows[j].status # "ABSENT" <=> rows[j].doc \in Docs
  BY DEF Evolves, SameJob
<1>3. \A j \in JobIds : SoundRow(rows[j])
  BY DEF Evolves, SameJob
<1>. QED  BY <1>1, <1>2, <1>3 DEF Evolves

LEMMA SetJobEvolves ==
  ASSUME IInv, NEW j \in JobIds, NEW row, jobs[j].status # "ABSENT",
         SameJob(row, jobs[j])
  PROVE  Evolves(SetJob(j, row))
<1>1. row \in Job
  BY DEF SameJob
<1>2. SetJob(j, row) \in [JobIds -> Job]
  BY <1>1 DEF SetJob, IInv, TypeOK
<1>. QED  BY <1>2, UnchangedEvolves, UpdateEvolves DEF SetJob, IInv, TypeOK

LEMMA ReapedEvolves ==
  ASSUME IInv
  PROVE  Evolves(ReapedJobs)
<1>1. \A j \in JobIds : jobs[j] \in Job
  BY DEF IInv, TypeOK
<1>2. \A j \in Stale : j \in JobIds /\ jobs[j].status # "ABSENT"
  BY DEF Stale
<1>3. \A j \in Stale : SameJob(ReapedRow(jobs[j]), jobs[j])
  BY <1>1, <1>2, RowUpdates
<1>4. ReapedJobs \in [JobIds -> Job]
  BY <1>1, <1>3 DEF ReapedJobs, SameJob
<1>. QED  BY <1>2, <1>3, <1>4, UnchangedEvolves, UpdateEvolves DEF ReapedJobs

LEMMA CancelledEvolves ==
  ASSUME IInv, NEW rows, Evolves(rows), NEW D
  PROVE  Evolves(CancelledJobs(rows, D))
<1>1. \A j \in JobIds : rows[j] \in Job
  BY DEF Evolves
<1>2. \A j \in JobIds : rows[j].status \in Cancellable => rows[j].status # "ABSENT"
  BY DEF Cancellable, LiveStatus
<1>3. \A j \in JobIds : rows[j].status \in Cancellable => SameJob(Cancelled(rows[j]), rows[j])
  BY <1>1, <1>2, RowUpdates
<1>4. CancelledJobs(rows, D) \in [JobIds -> Job]
  BY <1>1, <1>3 DEF CancelledJobs, SameJob
<1>. QED  BY <1>2, <1>3, <1>4, UpdateEvolves DEF CancelledJobs

LEMMA RemovedEvolves ==
  ASSUME IInv, NEW C, C \subseteq Docs
  PROVE  Evolves(RemovedJobs(jobs, C))
<1>1. \A j \in JobIds : jobs[j] \in Job
  BY DEF IInv, TypeOK
<1>2. \A j \in JobIds : jobs[j].doc \in C => jobs[j].status # "ABSENT"
  BY DEF IInv, RowsNameDocuments
<1>3. \A j \in JobIds :
        jobs[j].doc \in C => SameJob([jobs[j] EXCEPT !.status = "REMOVED"], jobs[j])
  BY <1>1, <1>2, RowUpdates
<1>4. RemovedJobs(jobs, C) \in [JobIds -> Job]
  BY <1>1, <1>3 DEF RemovedJobs, SameJob
<1>. QED  BY <1>2, <1>3, <1>4, UnchangedEvolves, UpdateEvolves DEF RemovedJobs

LEMMA QueueNextEvolves ==
  ASSUME NEW rows, Evolves(rows), NEW d \in Docs, NEW s \in Steps,
         NEW new \in QueueNext(rows, d, s)
  PROVE  Evolves(new)
<1>1. PICK n \in Fresh : new = [rows EXCEPT ![n] = NewJob(d, s)]
  BY DEF QueueNext
<1>2. n \in JobIds /\ jobs[n].status = "ABSENT"
  BY DEF Fresh
<1>. QED  BY <1>1, <1>2, NewJobType DEF Evolves

LEMMA InsertEvolves ==
  ASSUME NEW rows, Evolves(rows), NEW D, D \subseteq Docs, NEW new \in InsertsFor(D),
         NEW s \in Steps
  PROVE  /\ Evolves(Insert(rows, new, s))
         /\ \A d \in D : new[d] \in Fresh /\ Insert(rows, new, s)[new[d]] = NewJob(d, s)
         /\ \A j \in JobIds \ Fresh : Insert(rows, new, s)[j] = rows[j]
<1>1. new \in [D -> Fresh] /\ \A a, b \in D : new[a] = new[b] => a = b
  BY DEF InsertsFor, Injection, IsInjective
<1>2. Fresh \subseteq JobIds /\ \A j \in Fresh : jobs[j].status = "ABSENT"
  BY DEF Fresh
<1>3. \A d \in D : Insert(rows, new, s)[new[d]] = NewJob(d, s)
  <2>. TAKE d \in D
  <2>1. (CHOOSE e \in DOMAIN new : new[e] = new[d]) = d
    BY <1>1
  <2>. QED  BY <1>1, <1>2, <2>1 DEF Insert
<1>4. \A j \in JobIds \ Fresh : Insert(rows, new, s)[j] = rows[j]
  BY <1>1 DEF Insert
<1>5. \A j \in JobIds : Insert(rows, new, s)[j] = rows[j] \/ \E d \in D : j = new[d]
  BY <1>1 DEF Insert
<1>6. \A d \in D : /\ NewJob(d, s) \in Job /\ SoundRow(NewJob(d, s))
                   /\ NewJob(d, s).doc \in Docs /\ NewJob(d, s).status # "ABSENT"
  BY NewJobType
<1>7. Insert(rows, new, s) \in [JobIds -> Job]
  <2>1. \A j \in JobIds : Insert(rows, new, s)[j] \in Job
    BY <1>3, <1>5, <1>6 DEF Evolves
  <2>. QED  BY <2>1 DEF Insert
<1>8. \A j \in JobIds : jobs[j].status # "ABSENT" =>
        SameJob(Insert(rows, new, s)[j], jobs[j])
  BY <1>2, <1>4 DEF Evolves
<1>9. \A j \in JobIds : Insert(rows, new, s)[j].status # "ABSENT" <=>
        Insert(rows, new, s)[j].doc \in Docs
  BY <1>3, <1>5, <1>6 DEF Evolves
<1>10. \A j \in JobIds : SoundRow(Insert(rows, new, s)[j])
  BY <1>3, <1>5, <1>6 DEF Evolves
<1>. QED  BY <1>1, <1>3, <1>4, <1>7, <1>8, <1>9, <1>10 DEF Evolves

-----------------------------------------------------------------------------
(* Every step lets the rows evolve.                                        *)

\* The job of a thread that works is an inserted row of a document.
LEMMA WorkingThread ==
  ASSUME IInv, NEW w \in Workers, worker[w].pc # "idle"
  PROVE  /\ worker[w].job \in JobIds
         /\ jobs[worker[w].job] \in Job
         /\ jobs[worker[w].job].status # "ABSENT"
         /\ DocOf(w) = jobs[worker[w].job].doc /\ DocOf(w) \in Docs
         /\ StepOf(w) = jobs[worker[w].job].step /\ StepOf(w) \in AllSteps
         /\ worker[w].attempt \in Nat
         /\ worker[w].attempt <= jobs[worker[w].job].attempt
<1>1. worker[w].job \in JobIds /\ jobs[worker[w].job].status # "ABSENT"
      /\ worker[w].attempt <= jobs[worker[w].job].attempt
  BY DEF IInv, WorkersHoldRows
<1>2. jobs[worker[w].job] \in Job /\ worker[w].attempt \in Nat
  BY <1>1 DEF IInv, TypeOK, Worker
<1>3. jobs[worker[w].job].doc \in Docs
  BY <1>1 DEF IInv, RowsNameDocuments
<1>. QED  BY <1>1, <1>2, <1>3 DEF DocOf, StepOf, Job

LEMMA RowsEvolve ==
  ASSUME IInv, [Next]_vars
  PROVE  Evolves(jobs')
<1>0. ASSUME NEW w \in Workers, NEW row, worker[w].pc # "idle",
             SameJob(row, jobs[worker[w].job])
      PROVE  Evolves(SetJob(worker[w].job, row))
  BY <1>0, WorkingThread, SetJobEvolves
<1>1. ASSUME NEW w \in Workers, NEW j \in JobIds, PollClaims(w, j)
      PROVE  Evolves(jobs')
  <2>. DEFINE row == Claimed(ReapedJobs[j])
  <2>1. ReapedJobs[j] \in Job /\ ReapedJobs[j].status # "ABSENT"
    BY <1>1, ReapedEvolves DEF PollClaims, Claimable, Evolves
  <2>2. SameJob(row, ReapedJobs[j])
    BY <2>1, RowUpdates
  <2>3. jobs' = [ReapedJobs EXCEPT ![j] = row]
    BY <1>1 DEF PollClaims
  <2>. HIDE DEF row
  <2>4. ReapedJobs \in [JobIds -> Job] /\ row \in Job
    BY <2>2, ReapedEvolves DEF Evolves, SameJob
  <2>5. jobs' \in [JobIds -> Job]
    BY <2>3, <2>4
  <2>6. \A i \in JobIds : jobs'[i] = IF i = j THEN row ELSE ReapedJobs[i]
    BY <2>3, <2>4
  <2>. QED  BY <2>1, <2>2, <2>5, <2>6, ReapedEvolves, UpdateEvolves
<1>2. ASSUME NEW w \in Workers, PollFindsNothing(w)
      PROVE  Evolves(jobs')
  BY <1>2, ReapedEvolves DEF PollFindsNothing
<1>3. ASSUME NEW w \in Workers, HandlerSplits(w)
      PROVE  Evolves(jobs')
  <2>1. PICK parts \in SUBSET Docs :
          \E new \in InsertsFor(parts), s \in NextSteps("SPLIT") : jobs' = Insert(jobs, new, s)
    BY <1>3 DEF HandlerSplits
  <2>. QED  BY <2>1, UnchangedEvolves, InsertEvolves DEF NextSteps
<1>4. ASSUME NEW w \in Workers, CompleteSplitParent(w) \/ CompleteLast(w)
      PROVE  Evolves(jobs')
  <2>. worker[w].pc # "idle"
    BY <1>4 DEF CompleteSplitParent, CompleteLast, At
  <2>. QED  BY <1>0, <1>4, WorkingThread, RowUpdates DEF CompleteSplitParent, CompleteLast
<1>5. ASSUME NEW w \in Workers, NEW s \in Steps, CompleteAndQueue(w, s)
      PROVE  Evolves(jobs')
  <2>1. worker[w].pc # "idle"
    BY <1>5 DEF CompleteAndQueue, At
  <2>2. Evolves(SetJob(worker[w].job, Completed(jobs[worker[w].job])))
    BY <1>0, <2>1, WorkingThread, RowUpdates
  <2>3. DocOf(w) \in Docs
    BY <2>1, WorkingThread
  <2>. QED  BY <1>5, <2>2, <2>3, QueueNextEvolves DEF CompleteAndQueue
<1>6. ASSUME NEW w \in Workers, DeadLetter(w) \/ Retry(w)
      PROVE  Evolves(jobs')
  <2>. worker[w].pc # "idle"
    BY <1>6 DEF DeadLetter, Retry, At
  <2>1. CASE DeadLetter(w)
    <3>1. /\ worker[w].attempt >= MaxAttempts
          /\ MaxAttempts \in Nat /\ worker[w].attempt \in Nat
          /\ jobs[worker[w].job].attempt \in Nat
      BY <2>1, ConstantsAssumption, WorkingThread DEF DeadLetter, Exhausted, Job
    <3>2. jobs[worker[w].job].attempt >= MaxAttempts
      BY <3>1, WorkingThread
    <3>. QED  BY <1>0, <2>1, <3>2, WorkingThread, RowUpdates DEF DeadLetter
  <2>2. CASE Retry(w)
    BY <1>0, <2>2, WorkingThread, RowUpdates DEF Retry
  <2>. QED  BY <1>6, <2>1, <2>2
<1>7. ASSUME NEW j \in JobIds, LockExpires(j)
      PROVE  Evolves(jobs')
  <2>. DEFINE row == [jobs[j] EXCEPT !.lock = "expired"]
  <2>1. jobs' = [jobs EXCEPT ![j] = row]
    BY <1>7 DEF LockExpires
  <2>2. jobs[j] \in Job
    BY DEF IInv, TypeOK
  <2>3. row \in Job /\ row.status = jobs[j].status /\ row.doc = jobs[j].doc
        /\ row.attempt = jobs[j].attempt /\ row.lock = "expired"
    BY <2>2 DEF Job
  <2>4. SoundRow(jobs[j])
    BY DEF IInv, RowsAreSound
  <2>5. jobs[j].status # "ABSENT" => SameJob(row, jobs[j])
    BY <2>2, <2>4, RowUpdates
  <2>. HIDE DEF row
  <2>6. SoundRow(row)
    BY <2>3, <2>4 DEF SoundRow
  <2>7. jobs' \in [JobIds -> Job] /\ jobs'[j] = row
        /\ \A i \in JobIds : i # j => jobs'[i] = jobs[i]
    BY <2>1, <2>3 DEF IInv, TypeOK
  <2>. QED  BY <2>3, <2>5, <2>6, <2>7, UnchangedEvolves DEF Evolves
<1>8. ASSUME NEW d \in Docs, UploadEnqueue(d)
      PROVE  Evolves(jobs')
  <2>1. "VALIDATE" \in Steps
    BY ConstantsAssumption
  <2>2. jobs' \in QueueNext(jobs, d, "VALIDATE")
    BY <1>8 DEF UploadEnqueue, QueueNext
  <2>. QED  BY <2>1, <2>2, UnchangedEvolves, QueueNextEvolves
<1>9. ASSUME NEW r \in Requests, CommitRestart(r)
      PROVE  Evolves(jobs')
  <2>1. "VALIDATE" \in Steps /\ request[r].docs \subseteq Docs
    BY ConstantsAssumption DEF IInv, TypeOK, Request
  <2>2. Evolves(CancelledJobs(jobs, request[r].docs))
    BY UnchangedEvolves, CancelledEvolves
  <2>. QED  BY <1>9, <2>1, <2>2, InsertEvolves DEF CommitRestart
<1>10. ASSUME NEW r \in Requests, CommitReprocessSplit(r)
       PROVE  Evolves(jobs')
  <2>. DEFINE D == request[r].docs
  <2>1. "VALIDATE" \in Steps /\ D \subseteq Docs /\ Parts(D) \subseteq Docs
    BY ConstantsAssumption DEF IInv, TypeOK, Request, Parts
  <2>2. PICK d \in D :
          jobs' \in QueueNext(CancelledJobs(RemovedJobs(jobs, Parts(D)), D), d, "VALIDATE")
    BY <1>10 DEF CommitReprocessSplit
  <2>3. Evolves(CancelledJobs(RemovedJobs(jobs, Parts(D)), D))
    BY <2>1, RemovedEvolves, CancelledEvolves
  <2>. QED  BY <2>1, <2>2, <2>3, QueueNextEvolves
<1>11. CASE UNCHANGED jobs
  BY <1>11, UnchangedEvolves
<1>12. \A w \in Workers :
         HandlerReturns(w) \/ HandlerRaises(w) \/ CompletionRaises(w) \/ Crash(w)
         => UNCHANGED jobs
  BY DEF HandlerReturns, HandlerRaises, CompletionRaises, Crash
<1>13. \A d \in Docs : UploadInsert(d) \/ UploadCrash(d) \/ SoftDelete(d) => UNCHANGED jobs
  BY DEF UploadInsert, UploadCrash, SoftDelete
<1>14. \A r \in Requests :
         /\ \A d \in Docs : ReadForUploadRetry(r, d) \/ ReadForReprocess(r, d) => UNCHANGED jobs
         /\ \A D \in SUBSET Docs : ReadForBatch(r, D) => UNCHANGED jobs
         /\ RequestAborts(r) => UNCHANGED jobs
  BY DEF ReadForUploadRetry, ReadForReprocess, ReadForBatch, Reads, RequestAborts
<1>15. UNCHANGED vars => UNCHANGED jobs
  BY DEF vars
<1>. QED  BY <1>1, <1>2, <1>3, <1>4, <1>5, <1>6, <1>7, <1>8, <1>9, <1>10, <1>11, <1>12,
             <1>13, <1>14, <1>15, NextActions

-----------------------------------------------------------------------------
(* The inductive invariant.                                                *)

LEMMA InitIInv == Init => IInv
<1>. SUFFICES ASSUME Init PROVE IInv
  OBVIOUS
<1>1. TypeOK
  BY DEF Init, TypeOK, DocStatus, Gone, NoRow, Job, JobStatus, AllSteps, Idle, Worker,
         NoRequest, Request, RequestOp
<1>2. WorkersHoldRows /\ SplitRequestsNameOne
  BY DEF Init, WorkersHoldRows, SplitRequestsNameOne, Idle, NoRequest
<1>3. RowsNameDocuments
  BY ConstantsAssumption DEF Init, RowsNameDocuments, NoRow
<1>4. RowsAreSound
  BY DEF Init, RowsAreSound, SoundRow, NoRow
<1>. QED  BY <1>1, <1>2, <1>3, <1>4 DEF IInv

\* A status a step writes is one of the declared ones.
LEMMA SetStatusType ==
  ASSUME IInv, NEW d \in Docs, NEW s \in DocStatus
  PROVE  SetStatus(d, s) \in [Docs -> DocStatus]
BY DEF IInv, TypeOK, SetStatus

LEMMA DocumentsTyped ==
  ASSUME IInv, [Next]_vars
  PROVE  doc' \in [Docs -> DocStatus]
<1>. doc \in [Docs -> DocStatus]
  BY DEF IInv, TypeOK
<1>. {"FAILED", "ACTIVE", "SPLIT_COMPLETE", "UPLOADED", "REPROCESSING", "DELETED", "REMOVED"}
       \subseteq DocStatus
  BY DEF DocStatus, SettledStatus, Gone
<1>1. ASSUME NEW w \in Workers, NEW j \in JobIds, PollClaims(w, j)
      PROVE  doc' \in [Docs -> DocStatus]
  <2>1. ReapedDocs \in [Docs -> DocStatus]
    BY DEF ReapedDocs
  <2>2. DuringStatus(jobs[j].step) \in DocStatus
    <3>1. jobs[j].step \in AllSteps
      BY DEF IInv, TypeOK, Job
    <3>. QED  BY <3>1, StepTable
  <2>3. doc' = [ReapedDocs EXCEPT ![jobs[j].doc] = DuringStatus(jobs[j].step)]
    BY <1>1 DEF PollClaims
  <2>. QED  BY <2>1, <2>2, <2>3
<1>2. ASSUME NEW w \in Workers, PollFindsNothing(w)
      PROVE  doc' \in [Docs -> DocStatus]
  BY <1>2 DEF PollFindsNothing, ReapedDocs
<1>3. ASSUME NEW w \in Workers, HandlerReturns(w) \/ DeadLetter(w)
      PROVE  doc' \in [Docs -> DocStatus]
  <2>1. worker[w].pc # "idle"
    BY <1>3 DEF HandlerReturns, DeadLetter, At
  <2>2. DocOf(w) \in Docs
    BY <2>1, WorkingThread
  <2>3. doc \in [Docs -> DocStatus] /\ "ACTIVE" \in DocStatus /\ "FAILED" \in DocStatus
    BY DEF IInv, TypeOK, DocStatus, SettledStatus
  <2>4. \/ doc' = doc
        \/ doc' = SetStatus(DocOf(w), "ACTIVE")
        \/ doc' = SetStatus(DocOf(w), "FAILED")
    BY <1>3 DEF HandlerReturns, DeadLetter
  <2>. QED  BY <2>2, <2>3, <2>4, SetStatusType
<1>4. ASSUME NEW w \in Workers, HandlerSplits(w)
      PROVE  doc' \in [Docs -> DocStatus]
  BY <1>4 DEF HandlerSplits
<1>5. ASSUME NEW w \in Workers, CompleteLast(w) \/ \E s \in Steps : CompleteAndQueue(w, s)
      PROVE  doc' \in [Docs -> DocStatus]
  <2>1. worker[w].pc # "idle"
    BY <1>5 DEF CompleteLast, CompleteAndQueue, At
  <2>2. DocOf(w) \in Docs /\ StepOf(w) \in AllSteps
    BY <2>1, WorkingThread
  <2>3. AfterStatus(StepOf(w)) \in DocStatus
    BY <2>2, StepTable
  <2>. QED  BY <1>5, <2>2, <2>3, SetStatusType DEF CompleteLast, CompleteAndQueue
<1>6. ASSUME NEW d \in Docs, UploadInsert(d) \/ SoftDelete(d)
      PROVE  doc' \in [Docs -> DocStatus]
  BY <1>6 DEF UploadInsert, SoftDelete
<1>7. ASSUME NEW r \in Requests, CommitRestart(r) \/ CommitReprocessSplit(r)
      PROVE  doc' \in [Docs -> DocStatus]
  BY <1>7 DEF CommitRestart, CommitReprocessSplit
<1>8. \A w \in Workers :
        HandlerRaises(w) \/ CompleteSplitParent(w) \/ CompletionRaises(w) \/ Retry(w) \/ Crash(w)
        => UNCHANGED doc
  BY DEF HandlerRaises, CompleteSplitParent, CompletionRaises, Retry, Crash
<1>9. /\ \A j \in JobIds : LockExpires(j) => UNCHANGED doc
      /\ \A d \in Docs : UploadEnqueue(d) \/ UploadCrash(d) => UNCHANGED doc
      /\ UNCHANGED vars => UNCHANGED doc
  BY DEF LockExpires, UploadEnqueue, UploadCrash, vars
<1>10. \A r \in Requests :
         /\ \A d \in Docs : ReadForUploadRetry(r, d) \/ ReadForReprocess(r, d) => UNCHANGED doc
         /\ \A D \in SUBSET Docs : ReadForBatch(r, D) => UNCHANGED doc
         /\ RequestAborts(r) => UNCHANGED doc
  BY DEF ReadForUploadRetry, ReadForReprocess, ReadForBatch, Reads, RequestAborts
<1>. QED  BY <1>1, <1>2, <1>3, <1>4, <1>5, <1>6, <1>7, <1>8, <1>9, <1>10, NextActions

\* What a step does to a thread: nothing, or it goes idle, or it goes on with
\* the same job and attempt, or it claims a job.
ThreadStep(v) ==
  \/ worker'[v] = worker[v]
  \/ worker'[v] = Idle
  \/ /\ worker[v].pc # "idle"
     /\ worker'[v].job = worker[v].job
     /\ worker'[v].attempt = worker[v].attempt
  \/ \E j \in JobIds : PollClaims(v, j) /\ worker'[v].job = j
                       /\ worker'[v].attempt = jobs[j].attempt + 1

LEMMA ThreadSteps ==
  ASSUME IInv, [Next]_vars
  PROVE  worker' \in [Workers -> Worker] /\ \A v \in Workers : ThreadStep(v)
<1>. DEFINE Goal == worker' \in [Workers -> Worker] /\ \A v \in Workers : ThreadStep(v)
<1>. worker \in [Workers -> Worker] /\ Idle \in Worker
  BY DEF IInv, TypeOK, Idle, Worker
<1>1. ASSUME NEW w \in Workers, NEW j \in JobIds, PollClaims(w, j)
      PROVE  Goal
  <2>. DEFINE new == [pc |-> "running", job |-> j, attempt |-> jobs[j].attempt + 1]
  <2>1. jobs[j].attempt \in Nat
    BY DEF IInv, TypeOK, Job
  <2>2. new \in Worker
    BY <2>1 DEF Worker
  <2>3. worker' = [worker EXCEPT ![w] = new]
    BY <1>1 DEF PollClaims
  <2>. QED  BY <1>1, <2>2, <2>3 DEF ThreadStep
<1>2. ASSUME NEW w \in Workers, worker[w].pc # "idle", NEW p \in {"returned", "raised"}, Goto(w, p)
      PROVE  Goal
  <2>1. worker[w] \in Worker
    OBVIOUS
  <2>2. [worker[w] EXCEPT !.pc = p] \in Worker
    BY <2>1 DEF Worker
  <2>3. /\ [worker[w] EXCEPT !.pc = p].job = worker[w].job
        /\ [worker[w] EXCEPT !.pc = p].attempt = worker[w].attempt
    BY <2>1 DEF Worker
  <2>4. worker' = [worker EXCEPT ![w] = [worker[w] EXCEPT !.pc = p]]
    BY <1>2 DEF Goto
  <2>. QED  BY <1>2, <2>2, <2>3, <2>4 DEF ThreadStep
<1>3. ASSUME NEW w \in Workers, worker' = [worker EXCEPT ![w] = Idle]
      PROVE  Goal
  BY <1>3 DEF ThreadStep
<1>4. ASSUME worker' = worker
      PROVE  Goal
  BY <1>4 DEF ThreadStep
<1>5. \A w \in Workers :
        HandlerReturns(w) \/ HandlerSplits(w) \/ HandlerRaises(w) \/ CompletionRaises(w)
        => worker[w].pc # "idle" /\ (Goto(w, "returned") \/ Goto(w, "raised"))
  BY DEF HandlerReturns, HandlerSplits, HandlerRaises, CompletionRaises, At
<1>6. \A w \in Workers :
        \/ CompleteSplitParent(w) \/ CompleteLast(w) \/ DeadLetter(w) \/ Retry(w) \/ Crash(w)
        \/ \E s \in Steps : CompleteAndQueue(w, s)
        => worker' = [worker EXCEPT ![w] = Idle]
  BY DEF CompleteSplitParent, CompleteLast, DeadLetter, Retry, Crash, CompleteAndQueue
<1>7. /\ \A w \in Workers : PollFindsNothing(w) => worker' = worker
      /\ \A j \in JobIds : LockExpires(j) => worker' = worker
      /\ UNCHANGED vars => worker' = worker
  BY DEF PollFindsNothing, LockExpires, vars
<1>8. \A d \in Docs :
        UploadInsert(d) \/ UploadEnqueue(d) \/ UploadCrash(d) \/ SoftDelete(d) => worker' = worker
  BY DEF UploadInsert, UploadEnqueue, UploadCrash, SoftDelete
<1>9. \A r \in Requests :
        /\ \A d \in Docs : ReadForUploadRetry(r, d) \/ ReadForReprocess(r, d) => worker' = worker
        /\ \A D \in SUBSET Docs : ReadForBatch(r, D) => worker' = worker
        /\ CommitRestart(r) \/ CommitReprocessSplit(r) \/ RequestAborts(r) => worker' = worker
  BY DEF ReadForUploadRetry, ReadForReprocess, ReadForBatch, Reads, CommitRestart,
         CommitReprocessSplit, RequestAborts
<1>10. Goal
  <2>. HIDE DEF Goal
  <2>. QED  BY <1>1, <1>2, <1>3, <1>4, <1>5, <1>6, <1>7, <1>8, <1>9, NextActions
<1>. QED  BY <1>10

LEMMA ThreadsHoldRows ==
  ASSUME IInv, [Next]_vars
  PROVE  WorkersHoldRows'
<1>. SUFFICES ASSUME NEW v \in Workers, worker'[v].pc # "idle"
              PROVE  /\ worker'[v].job \in JobIds
                     /\ jobs'[worker'[v].job].status # "ABSENT"
                     /\ worker'[v].attempt <= jobs'[worker'[v].job].attempt
  BY DEF WorkersHoldRows
<1>1. CASE worker[v].pc # "idle" /\ worker'[v].job = worker[v].job
           /\ worker'[v].attempt = worker[v].attempt
  <2>. DEFINE j == worker[v].job
  <2>1. /\ j \in JobIds /\ jobs[j].status # "ABSENT" /\ jobs[j] \in Job
        /\ worker[v].attempt \in Nat /\ worker[v].attempt <= jobs[j].attempt
    BY <1>1, WorkingThread
  <2>2. SameJob(jobs'[j], jobs[j])
    BY <2>1, RowsEvolve DEF Evolves
  <2>3. jobs[j].attempt \in Nat /\ jobs'[j].attempt \in Nat
    BY <2>1, <2>2 DEF SameJob, Job
  <2>. QED  BY <1>1, <2>1, <2>2, <2>3 DEF SameJob
<1>2. ASSUME NEW j \in JobIds, PollClaims(v, j), worker'[v].job = j,
             worker'[v].attempt = jobs[j].attempt + 1
      PROVE  /\ worker'[v].job \in JobIds
             /\ jobs'[worker'[v].job].status # "ABSENT"
             /\ worker'[v].attempt <= jobs'[worker'[v].job].attempt
  <2>1. jobs[j] \in Job /\ ReapedJobs \in [JobIds -> Job]
    BY ReapedEvolves DEF IInv, TypeOK, Evolves
  <2>2. ReapedJobs[j].attempt = jobs[j].attempt /\ jobs[j].attempt \in Nat
    BY <2>1 DEF ReapedJobs, ReapedRow, Job
  <2>3. jobs'[j] = Claimed(ReapedJobs[j])
    BY <1>2, <2>1 DEF PollClaims
  <2>4. jobs'[j].status = "PROCESSING" /\ jobs'[j].attempt = jobs[j].attempt + 1
    <3>1. ReapedJobs[j] \in Job
      BY <2>1
    <3>. QED  BY <2>2, <2>3, <3>1 DEF Claimed, Job
  <2>. QED  BY <1>2, <2>2, <2>4
<1>3. worker'[v] # Idle
  BY DEF Idle
<1>. QED  BY <1>1, <1>2, <1>3, ThreadSteps DEF ThreadStep

LEMMA RequestsTyped ==
  ASSUME IInv, [Next]_vars
  PROVE  request' \in [Requests -> Request] /\ SplitRequestsNameOne'
<1>. DEFINE Goal == request' \in [Requests -> Request] /\ SplitRequestsNameOne'
<1>. request \in [Requests -> Request] /\ NoRequest \in Request /\ NoRequest.op = "none"
  BY DEF IInv, TypeOK, NoRequest, Request, RequestOp
<1>1. ASSUME NEW r \in Requests, NEW op \in RequestOp, NEW D \in SUBSET Docs,
             op = "reprocess_split" => \E d \in Docs : D = {d}, Reads(r, op, D)
      PROVE  Goal
  <2>. DEFINE new == [op |-> op, docs |-> D]
  <2>1. new \in Request /\ new.op = op /\ new.docs = D
    BY DEF Request
  <2>2. request' = [request EXCEPT ![r] = new]
    BY <1>1 DEF Reads
  <2>. HIDE DEF new
  <2>3. /\ request' \in [Requests -> Request] /\ request'[r] = new
        /\ \A q \in Requests : q # r => request'[q] = request[q]
    BY <2>1, <2>2
  <2>4. SplitRequestsNameOne'
    BY <1>1, <2>1, <2>3 DEF IInv, SplitRequestsNameOne
  <2>. QED  BY <2>3, <2>4
<1>2. ASSUME NEW r \in Requests, request' = [request EXCEPT ![r] = NoRequest]
      PROVE  Goal
  BY <1>2 DEF IInv, SplitRequestsNameOne
<1>3. ASSUME request' = request
      PROVE  Goal
  BY <1>3 DEF IInv, SplitRequestsNameOne
<1>4. ASSUME NEW r \in Requests, NEW d \in Docs, ReadForUploadRetry(r, d)
      PROVE  Goal
  BY <1>1, <1>4 DEF ReadForUploadRetry, RequestOp
<1>5. ASSUME NEW r \in Requests, NEW d \in Docs, ReadForReprocess(r, d)
      PROVE  Goal
  BY <1>1, <1>5 DEF ReadForReprocess, RequestOp
<1>6. ASSUME NEW r \in Requests, NEW D \in SUBSET Docs, ReadForBatch(r, D)
      PROVE  Goal
  BY <1>1, <1>6 DEF ReadForBatch, RequestOp
<1>7. \A r \in Requests :
        CommitRestart(r) \/ CommitReprocessSplit(r) \/ RequestAborts(r)
        => request' = [request EXCEPT ![r] = NoRequest]
  BY DEF CommitRestart, CommitReprocessSplit, RequestAborts
<1>8. \A w \in Workers :
        \/ PollFindsNothing(w) \/ HandlerReturns(w) \/ HandlerSplits(w) \/ HandlerRaises(w)
        \/ CompleteSplitParent(w) \/ CompleteLast(w) \/ CompletionRaises(w)
        \/ DeadLetter(w) \/ Retry(w) \/ Crash(w)
        \/ \E j \in JobIds : PollClaims(w, j)
        \/ \E s \in Steps : CompleteAndQueue(w, s)
        => request' = request
  BY DEF PollFindsNothing, HandlerReturns, HandlerSplits, HandlerRaises, CompleteSplitParent,
         CompleteLast, CompletionRaises, DeadLetter, Retry, Crash, PollClaims, CompleteAndQueue
<1>9. /\ \A j \in JobIds : LockExpires(j) => request' = request
      /\ \A d \in Docs :
           UploadInsert(d) \/ UploadEnqueue(d) \/ UploadCrash(d) \/ SoftDelete(d)
           => request' = request
      /\ UNCHANGED vars => request' = request
  BY DEF LockExpires, UploadInsert, UploadEnqueue, UploadCrash, SoftDelete, vars
<1>10. Goal
  <2>. HIDE DEF Goal
  <2>. QED  BY <1>2, <1>3, <1>4, <1>5, <1>6, <1>7, <1>8, <1>9, NextActions
<1>. QED  BY <1>10

LEMMA PartsAndUploadsTyped ==
  ASSUME IInv, [Next]_vars
  PROVE  /\ parent' \in [Docs -> Docs \cup {NoDoc}]
         /\ upload' \in [Docs -> {"none", "inserted", "enqueued", "crashed"}]
<1>. /\ parent \in [Docs -> Docs \cup {NoDoc}]
     /\ upload \in [Docs -> {"none", "inserted", "enqueued", "crashed"}]
  BY DEF IInv, TypeOK
<1>1. ASSUME NEW w \in Workers, HandlerSplits(w)
      PROVE  parent' \in [Docs -> Docs \cup {NoDoc}] /\ UNCHANGED upload
  <2>1. worker[w].pc # "idle"
    BY <1>1 DEF HandlerSplits, At
  <2>2. DocOf(w) \in Docs
    BY <2>1, WorkingThread
  <2>. QED  BY <1>1, <2>2 DEF HandlerSplits
<1>2. ASSUME NEW d \in Docs, UploadInsert(d) \/ UploadEnqueue(d) \/ UploadCrash(d)
      PROVE  /\ UNCHANGED parent
             /\ upload' \in [Docs -> {"none", "inserted", "enqueued", "crashed"}]
  BY <1>2 DEF UploadInsert, UploadEnqueue, UploadCrash
<1>3. \A w \in Workers :
        \/ PollFindsNothing(w) \/ HandlerReturns(w) \/ HandlerRaises(w)
        \/ CompleteSplitParent(w) \/ CompleteLast(w) \/ CompletionRaises(w)
        \/ DeadLetter(w) \/ Retry(w) \/ Crash(w)
        \/ \E j \in JobIds : PollClaims(w, j)
        \/ \E s \in Steps : CompleteAndQueue(w, s)
        => UNCHANGED <<parent, upload>>
  BY DEF PollFindsNothing, HandlerReturns, HandlerRaises, CompleteSplitParent,
         CompleteLast, CompletionRaises, DeadLetter, Retry, Crash, PollClaims, CompleteAndQueue
<1>4. /\ \A j \in JobIds : LockExpires(j) => UNCHANGED <<parent, upload>>
      /\ \A d \in Docs : SoftDelete(d) => UNCHANGED <<parent, upload>>
      /\ UNCHANGED vars => UNCHANGED <<parent, upload>>
  BY DEF LockExpires, SoftDelete, vars
<1>5. \A r \in Requests :
        /\ \A d \in Docs :
             ReadForUploadRetry(r, d) \/ ReadForReprocess(r, d) => UNCHANGED <<parent, upload>>
        /\ \A D \in SUBSET Docs : ReadForBatch(r, D) => UNCHANGED <<parent, upload>>
        /\ CommitRestart(r) \/ CommitReprocessSplit(r) \/ RequestAborts(r)
           => UNCHANGED <<parent, upload>>
  BY DEF ReadForUploadRetry, ReadForReprocess, ReadForBatch, Reads, CommitRestart,
         CommitReprocessSplit, RequestAborts
<1>. QED  BY <1>1, <1>2, <1>3, <1>4, <1>5, NextActions

\* IInv is inductive.
LEMMA NextIInv == IInv /\ [Next]_vars => IInv'
<1>. SUFFICES ASSUME IInv, [Next]_vars PROVE IInv'
  OBVIOUS
<1>1. jobs' \in [JobIds -> Job] /\ RowsNameDocuments' /\ RowsAreSound'
  BY RowsEvolve DEF Evolves, RowsNameDocuments, RowsAreSound
<1>2. TypeOK'
  BY <1>1, ThreadSteps, DocumentsTyped, RequestsTyped, PartsAndUploadsTyped DEF TypeOK
<1>. QED  BY <1>1, <1>2, ThreadsHoldRows, RequestsTyped DEF IInv

THEOREM Invariant == Spec => []IInv
BY InitIInv, NextIInv, PTL DEF Spec

\* Rows, threads and requests keep their declared shape, and a document only
\* ever gets a status of document_status_check (migration 031).
THEOREM TypeCorrect == Spec => []TypeOK
<1>1. IInv => TypeOK
  BY DEF IInv
<1>. QED  BY <1>1, Invariant, PTL

\* Whatever late threads and requests do to a row in PROCESSING, it keeps a lock
\* that will expire, so that the reaper of some poll can recover it.
THEOREM ProcessingLocked == Spec => []ProcessingIsLocked
<1>1. IInv => ProcessingIsLocked
  BY DEF IInv, RowsAreSound, SoundRow, ProcessingIsLocked
<1>. QED  BY <1>1, Invariant, PTL

\* Nothing is dead-lettered before the row has used max_attempts, although the
\* except clause decides by the thread's own copy of the attempt.
THEOREM DeadLetterExhausted == Spec => []DeadLetterUsedAllAttempts
<1>1. IInv => DeadLetterUsedAllAttempts
  BY DEF IInv, RowsAreSound, SoundRow, DeadLetterUsedAllAttempts
<1>. QED  BY <1>1, Invariant, PTL

-----------------------------------------------------------------------------
(* No document is stranded.  The invariant is inductive together with IInv:*)
(* a step that takes the last live job of a document either settles the    *)
(* document or queues another job in the same transaction.                 *)

HasLive(rows, d) == \E j \in JobIds : rows[j].doc = d /\ rows[j].status \in LiveStatus

\* NoStrandedDocument for one document, in any state of the three tables.
NotStranded(status, rows, up, d) ==
  status[d] \notin SettledStatus \cup Gone =>
    \/ HasLive(rows, d)
    \/ status[d] = "UPLOADED" /\ up[d] \in {"inserted", "crashed"}

LEMMA NotStrandedEach ==
  /\ NoStrandedDocument <=> \A d \in Docs : NotStranded(doc, jobs, upload, d)
  /\ NoStrandedDocument' <=> \A d \in Docs : NotStranded(doc', jobs', upload', d)
BY DEF NoStrandedDocument, NotStranded, LiveJobs, HasLive

\* A thread that writes its row leaves the jobs of other documents alone.
LEMMA SetJobLive ==
  ASSUME IInv, NEW w \in Workers, worker[w].pc # "idle", NEW row, NEW d,
         HasLive(jobs, d), d # DocOf(w)
  PROVE  HasLive(SetJob(worker[w].job, row), d)
<1>1. PICK i \in JobIds : jobs[i].doc = d /\ jobs[i].status \in LiveStatus
  BY DEF HasLive
<1>2. i # worker[w].job
  BY <1>1 DEF DocOf
<1>3. SetJob(worker[w].job, row)[i] = jobs[i]
  BY <1>1, <1>2 DEF SetJob, IInv, TypeOK
<1>. QED  BY <1>1, <1>3 DEF HasLive

\* The rows in the transaction that adds new ones: no fresh id is taken.
LEMMA QueueNextLive ==
  ASSUME NEW rows \in [JobIds -> Job], \A n \in Fresh : rows[n].status = "ABSENT",
         NEW e \in Docs, NEW s \in Steps, NEW new \in QueueNext(rows, e, s)
  PROVE  /\ HasLive(new, e)
         /\ \A d : HasLive(rows, d) => HasLive(new, d)
<1>1. PICK n \in Fresh : new = [rows EXCEPT ![n] = NewJob(e, s)]
  BY DEF QueueNext
<1>2. n \in JobIds /\ rows[n].status = "ABSENT"
  BY <1>1 DEF Fresh
<1>3. new[n] = NewJob(e, s) /\ \A i \in JobIds : i # n => new[i] = rows[i]
  BY <1>1, <1>2
<1>4. HasLive(new, e)
  BY <1>2, <1>3, NewJobType DEF HasLive, LiveStatus
<1>5. ASSUME NEW d, HasLive(rows, d)
      PROVE  HasLive(new, d)
  BY <1>2, <1>3, <1>5 DEF HasLive, LiveStatus
<1>. QED  BY <1>4, <1>5

\* What the reaper takes from the queue it marks as failed.
LEMMA ReapedLive ==
  ASSUME IInv, NEW d \in Docs, NotStranded(doc, jobs, upload, d)
  PROVE  NotStranded(ReapedDocs, ReapedJobs, upload, d)
<1>1. CASE \E j \in Stale : jobs[j].doc = d /\ Exhausted(jobs[j].attempt)
  BY <1>1 DEF ReapedDocs, NotStranded, SettledStatus
<1>2. CASE ~\E j \in Stale : jobs[j].doc = d /\ Exhausted(jobs[j].attempt)
  <2>1. ReapedDocs[d] = doc[d]
    BY <1>2 DEF ReapedDocs
  <2>2. ASSUME NEW i \in JobIds, jobs[i].doc = d, jobs[i].status \in LiveStatus
        PROVE  ReapedJobs[i].doc = d /\ ReapedJobs[i].status \in LiveStatus
    <3>1. CASE i \in Stale
      <4>1. ~Exhausted(jobs[i].attempt) /\ jobs[i] \in Job
        BY <1>2, <2>2, <3>1 DEF IInv, TypeOK
      <4>2. ReapedRow(jobs[i]).doc = d /\ ReapedRow(jobs[i]).status = "RETRYING"
        BY <2>2, <4>1 DEF ReapedRow, Job
      <4>. QED  BY <3>1, <4>2 DEF ReapedJobs, LiveStatus
    <3>2. CASE i \notin Stale
      BY <2>2, <3>2 DEF ReapedJobs
    <3>. QED  BY <3>1, <3>2
  <2>. QED  BY <2>1, <2>2 DEF NotStranded, HasLive
<1>. QED  BY <1>1, <1>2

LEMMA NextNotStranded ==
  ASSUME IInv, NoStrandedDocument, [Next]_vars
  PROVE  NoStrandedDocument'
<1>. SUFFICES ASSUME NEW d \in Docs, NotStranded(doc, jobs, upload, d)
              PROVE  NotStranded(doc', jobs', upload', d)
  BY NotStrandedEach
<1>. DEFINE Goal == NotStranded(doc', jobs', upload', d)
<1>. /\ jobs \in [JobIds -> Job] /\ doc \in [Docs -> DocStatus]
     /\ upload \in [Docs -> {"none", "inserted", "enqueued", "crashed"}]
  BY DEF IInv, TypeOK
<1>0. "VALIDATE" \in Steps
  BY ConstantsAssumption
\* A document the step leaves as it was keeps its live job if the rows do.
<1>a. ASSUME doc'[d] = doc[d], upload'[d] = upload[d], HasLive(jobs, d) => HasLive(jobs', d)
      PROVE  Goal
  BY <1>a DEF NotStranded
<1>b. ASSUME doc'[d] \in SettledStatus \cup Gone
      PROVE  Goal
  BY <1>b DEF NotStranded
<1>c. ASSUME HasLive(jobs', d)
      PROVE  Goal
  BY <1>c DEF NotStranded
<1>1. ASSUME NEW w \in Workers, NEW j \in JobIds, PollClaims(w, j)
      PROVE  Goal
  <2>1. /\ ReapedJobs \in [JobIds -> Job] /\ ReapedJobs[j] \in Job
        /\ ReapedJobs[j].doc = jobs[j].doc
    <3>1. jobs[j] \in Job
      OBVIOUS
    <3>2. ReapedJobs[j].doc = jobs[j].doc
      BY <3>1 DEF ReapedJobs, ReapedRow, Job
    <3>. QED  BY <3>2, ReapedEvolves DEF Evolves
  <2>2. jobs'[j] = Claimed(ReapedJobs[j])
        /\ \A i \in JobIds : i # j => jobs'[i] = ReapedJobs[i]
    BY <1>1, <2>1 DEF PollClaims
  <2>3. jobs'[j].doc = jobs[j].doc /\ jobs'[j].status = "PROCESSING"
    BY <2>1, <2>2 DEF Claimed, Job
  <2>4. CASE jobs[j].doc = d
    BY <1>c, <2>3, <2>4 DEF HasLive, LiveStatus
  <2>5. CASE jobs[j].doc # d
    <3>1. doc'[d] = ReapedDocs[d] /\ upload'[d] = upload[d]
      BY <1>1, <2>5 DEF PollClaims, ReapedDocs
    <3>2. HasLive(ReapedJobs, d) => HasLive(jobs', d)
      BY <2>1, <2>2, <2>5 DEF HasLive
    <3>. QED  BY <3>1, <3>2, ReapedLive DEF NotStranded
  <2>. QED  BY <2>4, <2>5
<1>2. ASSUME NEW w \in Workers, PollFindsNothing(w)
      PROVE  Goal
  BY <1>2, ReapedLive DEF PollFindsNothing
<1>3. ASSUME NEW w \in Workers, HandlerReturns(w)
      PROVE  Goal
  <2>1. doc'[d] = doc[d] \/ doc'[d] = "ACTIVE"
    BY <1>3 DEF HandlerReturns, SetStatus
  <2>. QED  BY <1>3, <1>a, <1>b, <2>1 DEF HandlerReturns, SettledStatus
<1>4. ASSUME NEW w \in Workers, HandlerSplits(w)
      PROVE  Goal
  <2>1. PICK parts \in SUBSET {c \in Docs \ Oversized : doc[c] = "ABSENT"} :
          /\ doc' = [c \in Docs |-> CASE c \in parts -> "UPLOADED"
                                      [] c = DocOf(w) -> "SPLIT_COMPLETE"
                                      [] OTHER -> doc[c]]
          /\ \E new \in InsertsFor(parts), s \in NextSteps("SPLIT") : jobs' = Insert(jobs, new, s)
    BY <1>4 DEF HandlerSplits
  <2>2. PICK new \in InsertsFor(parts), s \in NextSteps("SPLIT") : jobs' = Insert(jobs, new, s)
    BY <2>1
  <2>3. parts \subseteq Docs /\ s \in Steps
    BY DEF NextSteps
  <2>4. /\ \A c \in parts : new[c] \in Fresh /\ jobs'[new[c]] = NewJob(c, s)
        /\ \A i \in JobIds \ Fresh : jobs'[i] = jobs[i]
    BY <2>2, <2>3, UnchangedEvolves, InsertEvolves
  <2>5. CASE d \in parts
    BY <1>c, <2>3, <2>4, <2>5, NewJobType DEF HasLive, LiveStatus, Fresh
  <2>6. CASE d \notin parts /\ d = DocOf(w)
    BY <1>b, <2>1, <2>6 DEF SettledStatus
  <2>7. CASE d \notin parts /\ d # DocOf(w)
    <3>1. doc'[d] = doc[d] /\ upload'[d] = upload[d]
      BY <1>4, <2>1, <2>7 DEF HandlerSplits
    <3>2. HasLive(jobs, d) => HasLive(jobs', d)
      BY <2>4 DEF HasLive, LiveStatus, Fresh
    <3>. QED  BY <1>a, <3>1, <3>2
  <2>. QED  BY <2>5, <2>6, <2>7
<1>5. ASSUME NEW w \in Workers, NEW row, worker[w].pc # "idle", d # DocOf(w),
             jobs' = SetJob(worker[w].job, row), doc'[d] = doc[d], upload'[d] = upload[d]
      PROVE  Goal
  BY <1>5, <1>a, SetJobLive
<1>6. ASSUME NEW w \in Workers, CompleteSplitParent(w)
      PROVE  Goal
  <2>1. worker[w].pc # "idle"
    BY <1>6 DEF CompleteSplitParent, At
  <2>2. CASE d = DocOf(w)
    BY <1>6, <1>b, <2>2 DEF CompleteSplitParent, IsSplitParent, SettledStatus
  <2>3. CASE d # DocOf(w)
    BY <1>5, <1>6, <2>1, <2>3 DEF CompleteSplitParent
  <2>. QED  BY <2>2, <2>3
<1>7. ASSUME NEW w \in Workers, NEW s \in Steps, CompleteAndQueue(w, s)
      PROVE  Goal
  <2>. DEFINE rows == SetJob(worker[w].job, Completed(jobs[worker[w].job]))
  <2>1. worker[w].pc # "idle"
    BY <1>7 DEF CompleteAndQueue, At
  <2>2. DocOf(w) \in Docs /\ jobs[worker[w].job].status # "ABSENT"
    BY <2>1, WorkingThread
  <2>3. rows \in [JobIds -> Job]
    BY <2>1, WorkingThread, RowUpdates, SetJobEvolves DEF Evolves
  <2>4. \A n \in Fresh : rows[n].status = "ABSENT"
    BY <2>2 DEF Fresh, SetJob
  <2>5. jobs' \in QueueNext(rows, DocOf(w), s)
    BY <1>7 DEF CompleteAndQueue
  <2>6. d # DocOf(w) /\ HasLive(jobs, d) => HasLive(rows, d)
    BY <2>1, SetJobLive
  <2>. HIDE DEF rows
  <2>7. HasLive(jobs', DocOf(w)) /\ (HasLive(rows, d) => HasLive(jobs', d))
    BY <2>2, <2>3, <2>4, <2>5, QueueNextLive
  <2>8. CASE d = DocOf(w)
    BY <1>c, <2>7, <2>8
  <2>9. CASE d # DocOf(w)
    <3>1. doc'[d] = doc[d] /\ upload'[d] = upload[d]
      BY <1>7, <2>9 DEF CompleteAndQueue, SetStatus
    <3>. QED  BY <1>a, <2>6, <2>7, <2>9, <3>1
  <2>. QED  BY <2>8, <2>9
<1>8. ASSUME NEW w \in Workers, CompleteLast(w) \/ DeadLetter(w)
      PROVE  Goal
  <2>1. worker[w].pc # "idle"
    BY <1>8 DEF CompleteLast, DeadLetter, At
  <2>2. CASE d = DocOf(w)
    <3>1. CompleteLast(w) => AfterStatus(StepOf(w)) \in SettledStatus
      BY <2>1, WorkingThread, StepTable DEF CompleteLast
    <3>2. doc'[d] \in SettledStatus \cup Gone
      BY <1>8, <2>2, <3>1 DEF CompleteLast, DeadLetter, SetStatus, SettledStatus
    <3>. QED  BY <1>b, <3>2
  <2>3. CASE d # DocOf(w)
    BY <1>5, <1>8, <2>1, <2>3 DEF CompleteLast, DeadLetter, SetStatus
  <2>. QED  BY <2>2, <2>3
<1>9. ASSUME NEW w \in Workers, Retry(w)
      PROVE  Goal
  <2>1. worker[w].pc # "idle"
    BY <1>9 DEF Retry, At
  <2>2. doc'[d] = doc[d] /\ upload'[d] = upload[d]
    BY <1>9 DEF Retry
  <2>3. CASE d # DocOf(w)
    BY <1>5, <1>9, <2>1, <2>2, <2>3 DEF Retry
  <2>4. CASE d = DocOf(w)
    <3>. DEFINE j == worker[w].job
    <3>1. j \in JobIds /\ jobs[j] \in Job /\ jobs[j].doc = d
      BY <2>1, <2>4, WorkingThread
    <3>2. Retried(jobs[j]).doc = d /\ Retried(jobs[j]).status = "RETRYING"
      BY <3>1 DEF Retried, Job
    <3>3. jobs' = SetJob(j, Retried(jobs[j]))
      BY <1>9 DEF Retry
    <3>4. HasLive(jobs, d) => HasLive(jobs', d)
      BY <3>1, <3>2, <3>3 DEF SetJob, HasLive, LiveStatus
    <3>. QED  BY <1>a, <2>2, <3>4
  <2>. QED  BY <2>3, <2>4
<1>10. ASSUME NEW j \in JobIds, LockExpires(j)
       PROVE  Goal
  <2>1. jobs[j] \in Job
    OBVIOUS
  <2>2. [jobs[j] EXCEPT !.lock = "expired"].doc = jobs[j].doc
        /\ [jobs[j] EXCEPT !.lock = "expired"].status = jobs[j].status
    BY <2>1 DEF Job
  <2>3. jobs' = [jobs EXCEPT ![j] = [jobs[j] EXCEPT !.lock = "expired"]]
    BY <1>10 DEF LockExpires
  <2>4. \A i \in JobIds : jobs'[i].doc = jobs[i].doc /\ jobs'[i].status = jobs[i].status
    BY <2>2, <2>3
  <2>5. HasLive(jobs, d) => HasLive(jobs', d)
    BY <2>4 DEF HasLive
  <2>. QED  BY <1>10, <1>a, <2>5 DEF LockExpires
<1>11. ASSUME NEW e \in Docs, UploadInsert(e) \/ UploadCrash(e) \/ SoftDelete(e)
       PROVE  Goal
  BY <1>11 DEF UploadInsert, UploadCrash, SoftDelete, NotStranded, SettledStatus
<1>12. ASSUME NEW e \in Docs, UploadEnqueue(e)
       PROVE  Goal
  <2>1. jobs' \in QueueNext(jobs, e, "VALIDATE")
    BY <1>12 DEF UploadEnqueue, QueueNext
  <2>2. \A n \in Fresh : jobs[n].status = "ABSENT"
    BY DEF Fresh
  <2>3. HasLive(jobs', e) /\ (HasLive(jobs, d) => HasLive(jobs', d))
    BY <1>0, <2>1, <2>2, QueueNextLive
  <2>4. d # e => doc'[d] = doc[d] /\ upload'[d] = upload[d]
    BY <1>12 DEF UploadEnqueue
  <2>. QED  BY <1>a, <1>c, <2>3, <2>4
<1>13. ASSUME NEW r \in Requests, CommitRestart(r)
       PROVE  Goal
  <2>. DEFINE D == request[r].docs
  <2>1. D \subseteq Docs
    BY DEF IInv, TypeOK, Request
  <2>2. Evolves(CancelledJobs(jobs, D))
    BY UnchangedEvolves, CancelledEvolves
  <2>3. PICK new \in InsertsFor(D) : jobs' = Insert(CancelledJobs(jobs, D), new, "VALIDATE")
    BY <1>13 DEF CommitRestart
  <2>4. /\ \A c \in D : new[c] \in Fresh /\ jobs'[new[c]] = NewJob(c, "VALIDATE")
        /\ \A i \in JobIds \ Fresh : jobs'[i] = CancelledJobs(jobs, D)[i]
    BY <1>0, <2>1, <2>2, <2>3, InsertEvolves
  <2>5. CASE d \in D
    BY <1>0, <1>c, <2>4, <2>5, NewJobType DEF HasLive, LiveStatus, Fresh
  <2>6. CASE d \notin D
    <3>1. doc'[d] = doc[d] /\ upload'[d] = upload[d]
      BY <1>13, <2>6 DEF CommitRestart
    <3>2. \A i \in JobIds : jobs[i].doc = d => CancelledJobs(jobs, D)[i] = jobs[i]
      BY <2>6 DEF CancelledJobs
    <3>3. HasLive(jobs, d) => HasLive(jobs', d)
      BY <2>4, <3>2 DEF HasLive, LiveStatus, Fresh
    <3>. QED  BY <1>a, <3>1, <3>3
  <2>. QED  BY <2>5, <2>6
<1>14. ASSUME NEW r \in Requests, CommitReprocessSplit(r)
       PROVE  Goal
  <2>. DEFINE D == request[r].docs
              removed == RemovedJobs(jobs, Parts(D))
              rows == CancelledJobs(removed, D)
  <2>1. PICK e \in Docs : D = {e}
    BY <1>14 DEF CommitReprocessSplit, IInv, SplitRequestsNameOne
  <2>2. Parts(D) \subseteq Docs
    BY DEF Parts
  <2>3. rows \in [JobIds -> Job]
    BY <2>2, RemovedEvolves, CancelledEvolves DEF Evolves
  <2>4. \A n \in Fresh : rows[n].status = "ABSENT"
    BY <2>2 DEF Fresh, IInv, RowsNameDocuments, RemovedJobs, CancelledJobs, Cancellable, LiveStatus
  <2>5. jobs' \in QueueNext(rows, e, "VALIDATE")
    BY <1>14, <2>1 DEF CommitReprocessSplit
  <2>6. \A i \in JobIds : jobs[i].doc \notin D \cup Parts(D) => rows[i] = jobs[i]
    BY DEF RemovedJobs, CancelledJobs
  <2>. HIDE DEF rows
  <2>7. HasLive(jobs', e) /\ (HasLive(rows, d) => HasLive(jobs', d))
    BY <1>0, <2>3, <2>4, <2>5, QueueNextLive
  <2>8. CASE d = e
    BY <1>c, <2>7, <2>8
  <2>9. CASE d # e /\ d \in Parts(D)
    BY <1>14, <1>b, <2>1, <2>9 DEF CommitReprocessSplit, Gone
  <2>10. CASE d # e /\ d \notin Parts(D)
    <3>1. doc'[d] = doc[d] /\ upload'[d] = upload[d]
      BY <1>14, <2>1, <2>10 DEF CommitReprocessSplit
    <3>2. HasLive(jobs, d) => HasLive(rows, d)
      BY <2>1, <2>6, <2>10 DEF HasLive
    <3>. QED  BY <1>a, <2>7, <3>1, <3>2
  <2>. QED  BY <2>8, <2>9, <2>10
<1>15. ASSUME UNCHANGED <<doc, jobs, upload>>
       PROVE  Goal
  BY <1>15, <1>a
<1>16. \A w \in Workers :
         HandlerRaises(w) \/ CompletionRaises(w) \/ Crash(w) => UNCHANGED <<doc, jobs, upload>>
  BY DEF HandlerRaises, CompletionRaises, Crash
<1>17. \A r \in Requests :
         /\ \A c \in Docs :
              ReadForUploadRetry(r, c) \/ ReadForReprocess(r, c) => UNCHANGED <<doc, jobs, upload>>
         /\ \A C \in SUBSET Docs : ReadForBatch(r, C) => UNCHANGED <<doc, jobs, upload>>
         /\ RequestAborts(r) => UNCHANGED <<doc, jobs, upload>>
  BY DEF ReadForUploadRetry, ReadForReprocess, ReadForBatch, Reads, RequestAborts
<1>18. UNCHANGED vars => UNCHANGED <<doc, jobs, upload>>
  BY DEF vars
<1>19. Goal
  <2>. HIDE DEF Goal
  <2>. QED  BY <1>1, <1>2, <1>3, <1>4, <1>6, <1>7, <1>8, <1>9, <1>10, <1>11, <1>12, <1>13,
               <1>14, <1>15, <1>16, <1>17, <1>18, NextActions
<1>. QED  BY <1>19

\* A document whose status says that work remains has a job in the queue, in
\* every interleaving of threads, crashes, expiring locks and requests.
THEOREM NothingStranded == Spec => []NoStrandedDocument
<1>1. Init => NoStrandedDocument
  BY DEF Init, NoStrandedDocument, Gone
<1>2. IInv /\ NoStrandedDocument /\ [Next]_vars => NoStrandedDocument'
  BY NextNotStranded
<1>. QED  BY <1>1, <1>2, Invariant, PTL DEF Spec

-----------------------------------------------------------------------------
(* How far late threads push a job past max_attempts.  An attempt number   *)
(* below the limit belongs to one thread at most and puts the row back in  *)
(* the queue at most once: a thread that claims at or above the limit never*)
(* does.  So the attempts still held below the limit, with the claim that  *)
(* a waiting row admits, are what the row can still gain.                  *)

Waiting(row) == row.status \in {"PENDING", "RETRYING"}
Working(w, j) == worker[w].pc # "idle" /\ worker[w].job = j

BelowLimit == 1..(MaxAttempts - 1)
AttemptsHeld(j) == {a \in BelowLimit : \E w \in Workers : Working(w, j) /\ worker[w].attempt = a}
StillToCome(j) == Cardinality(AttemptsHeld(j)) + IF Waiting(jobs[j]) THEN 1 ELSE 0

\* Two threads that work on a job are in different attempts of it.
AttemptsDiffer ==
  \A v, w \in Workers :
    /\ worker[v].pc # "idle" /\ worker[w].pc # "idle"
    /\ worker[v].job = worker[w].job /\ worker[v].attempt = worker[w].attempt
    => v = w

AttemptsStartAtOne == \A w \in Workers : worker[w].pc # "idle" => worker[w].attempt >= 1

Bounded(j) ==
  jobs[j].attempt >= MaxAttempts => jobs[j].attempt + StillToCome(j) <= 2 * MaxAttempts - 1

OvershootInv ==
  /\ AttemptsDiffer
  /\ AttemptsStartAtOne
  /\ \A j \in JobIds : Bounded(j)

\* Finitely many attempts lie below the limit.
LEMMA AttemptsBelowLimit ==
  /\ IsFiniteSet(BelowLimit)
  /\ Cardinality(BelowLimit) = MaxAttempts - 1
  /\ \A S \in SUBSET BelowLimit :
       IsFiniteSet(S) /\ Cardinality(S) \in Nat /\ Cardinality(S) <= MaxAttempts - 1
<1>0. MaxAttempts \in Nat \ {0}
  BY ConstantsAssumption
<1>1. IsFiniteSet(1..(MaxAttempts - 1)) /\ Cardinality(1..(MaxAttempts - 1)) = MaxAttempts - 1
  BY <1>0, FS_Interval
<1>2. ASSUME NEW S \in SUBSET BelowLimit
      PROVE  IsFiniteSet(S) /\ Cardinality(S) \in Nat /\ Cardinality(S) <= MaxAttempts - 1
  BY <1>1, FS_Subset, FS_CardinalityType DEF BelowLimit
<1>. QED  BY <1>1, <1>2 DEF BelowLimit

\* What a step does to the attempt of a row, and when it puts the row back in
\* the queue.
RowAttempts(j) ==
  \/ jobs'[j].attempt = 0
  \/ /\ jobs'[j].attempt = jobs[j].attempt
     /\ Waiting(jobs'[j]) => Waiting(jobs[j]) \/ jobs[j].attempt < MaxAttempts
  \/ \E w \in Workers : PollClaims(w, j)
  \/ \E w \in Workers : Retry(w) /\ worker[w].job = j /\ jobs'[j].attempt = jobs[j].attempt

\* The same for what one statement makes of a row.
Calm(new, old) ==
  /\ new.attempt = old.attempt
  /\ Waiting(new) => Waiting(old) \/ old.attempt < MaxAttempts

LEMMA CalmUpdates ==
  ASSUME NEW row \in Job
  PROVE  /\ Calm(row, row)
         /\ Calm(Completed(row), row)
         /\ Calm(DeadLettered(row), row)
         /\ Calm(ReapedRow(row), row)
         /\ Calm(Cancelled(row), row)
         /\ Calm([row EXCEPT !.status = "REMOVED"], row)
         /\ Calm([row EXCEPT !.lock = "expired"], row)
<1>0. row.attempt \in Nat /\ MaxAttempts \in Nat
  BY ConstantsAssumption DEF Job
<1>1. /\ Calm(row, row) /\ Calm(Completed(row), row) /\ Calm(DeadLettered(row), row)
      /\ Calm(Cancelled(row), row)
  BY DEF Calm, Waiting, Completed, DeadLettered, Cancelled, Job
<1>2. Calm([row EXCEPT !.status = "REMOVED"], row) /\ Calm([row EXCEPT !.lock = "expired"], row)
  BY DEF Calm, Waiting, Job
<1>3. Calm(ReapedRow(row), row)
  BY <1>0 DEF Calm, Waiting, ReapedRow, Exhausted, Job
<1>. QED  BY <1>1, <1>2, <1>3

LEMMA RowSteps ==
  ASSUME IInv, [Next]_vars, NEW j \in JobIds
  PROVE  RowAttempts(j)
<1>. /\ jobs \in [JobIds -> Job] /\ jobs[j] \in Job
  BY DEF IInv, TypeOK
<1>0. "VALIDATE" \in Steps
  BY ConstantsAssumption
<1>a. ASSUME Calm(jobs'[j], jobs[j]) \/ jobs'[j].attempt = 0
      PROVE  RowAttempts(j)
  BY <1>a DEF Calm, RowAttempts
<1>b. ASSUME NEW w \in Workers, NEW row, worker[w].pc # "idle", jobs' = SetJob(worker[w].job, row),
             Calm(row, jobs[worker[w].job])
      PROVE  Calm(jobs'[j], jobs[j])
  BY <1>b, CalmUpdates DEF SetJob
<1>c. ASSUME NEW rows \in [JobIds -> Job], NEW d \in Docs, NEW s \in Steps,
             jobs' \in QueueNext(rows, d, s), Calm(rows[j], jobs[j])
      PROVE  Calm(jobs'[j], jobs[j]) \/ jobs'[j].attempt = 0
  <2>1. PICK n \in Fresh : jobs' = [rows EXCEPT ![n] = NewJob(d, s)]
    BY <1>c DEF QueueNext
  <2>. QED  BY <1>c, <2>1 DEF NewJob
<1>d. ASSUME NEW rows, NEW new, NEW s, jobs' = Insert(rows, new, s), Calm(rows[j], jobs[j])
      PROVE  Calm(jobs'[j], jobs[j]) \/ jobs'[j].attempt = 0
  BY <1>d DEF Insert, NewJob
<1>e. Calm(ReapedJobs[j], jobs[j])
  BY CalmUpdates DEF ReapedJobs
<1>f. ASSUME NEW rows \in [JobIds -> Job], NEW D, Calm(rows[j], jobs[j])
      PROVE  Calm(CancelledJobs(rows, D)[j], jobs[j])
  <2>1. rows[j] \in Job
    OBVIOUS
  <2>2. Calm(Cancelled(rows[j]), rows[j]) /\ ~Waiting(Cancelled(rows[j]))
    BY <2>1, CalmUpdates DEF Cancelled, Waiting, Job
  <2>. QED  BY <1>f, <2>2 DEF CancelledJobs, Calm
<1>1. ASSUME NEW w \in Workers, NEW i \in JobIds, PollClaims(w, i)
      PROVE  RowAttempts(j)
  <2>1. CASE i = j
    BY <1>1, <2>1 DEF RowAttempts
  <2>2. CASE i # j
    <3>1. jobs'[j] = ReapedJobs[j]
      BY <1>1, <2>2 DEF PollClaims, ReapedJobs
    <3>. QED  BY <1>a, <1>e, <3>1
  <2>. QED  BY <2>1, <2>2
<1>2. ASSUME NEW w \in Workers, PollFindsNothing(w)
      PROVE  RowAttempts(j)
  BY <1>2, <1>a, <1>e DEF PollFindsNothing
<1>3. ASSUME NEW w \in Workers, HandlerSplits(w)
      PROVE  RowAttempts(j)
  <2>1. \E new, s : jobs' = Insert(jobs, new, s)
    BY <1>3 DEF HandlerSplits
  <2>. QED  BY <1>a, <1>d, <2>1, CalmUpdates
<1>4. ASSUME NEW w \in Workers, CompleteSplitParent(w) \/ CompleteLast(w) \/ DeadLetter(w)
      PROVE  RowAttempts(j)
  <2>1. worker[w].pc # "idle"
    BY <1>4 DEF CompleteSplitParent, CompleteLast, DeadLetter, At
  <2>2. jobs[worker[w].job] \in Job
    BY <2>1, WorkingThread
  <2>. QED  BY <1>4, <1>a, <1>b, <2>1, <2>2, CalmUpdates
              DEF CompleteSplitParent, CompleteLast, DeadLetter
<1>5. ASSUME NEW w \in Workers, NEW s \in Steps, CompleteAndQueue(w, s)
      PROVE  RowAttempts(j)
  <2>. DEFINE i == worker[w].job
              rows == SetJob(i, Completed(jobs[i]))
  <2>1. worker[w].pc # "idle"
    BY <1>5 DEF CompleteAndQueue, At
  <2>2. i \in JobIds /\ jobs[i] \in Job /\ jobs[i].status # "ABSENT" /\ DocOf(w) \in Docs
    BY <2>1, WorkingThread
  <2>3. rows \in [JobIds -> Job]
    BY <2>2, RowUpdates, SetJobEvolves DEF Evolves
  <2>4. Calm(rows[j], jobs[j])
    BY <2>2, CalmUpdates DEF SetJob
  <2>5. jobs' \in QueueNext(rows, DocOf(w), s)
    BY <1>5 DEF CompleteAndQueue
  <2>. QED  BY <1>a, <1>c, <2>2, <2>3, <2>4, <2>5
<1>6. ASSUME NEW w \in Workers, Retry(w)
      PROVE  RowAttempts(j)
  <2>. DEFINE i == worker[w].job
  <2>1. worker[w].pc # "idle" /\ jobs' = SetJob(i, Retried(jobs[i]))
    BY <1>6 DEF Retry, At
  <2>2. i \in JobIds /\ jobs[i] \in Job
    BY <2>1, WorkingThread
  <2>3. Retried(jobs[i]).attempt = jobs[i].attempt
    BY <2>2 DEF Retried, Job
  <2>4. i # j => jobs'[j] = jobs[j]
    BY <2>1, <2>2 DEF SetJob
  <2>5. i = j => jobs'[j].attempt = jobs[j].attempt
    BY <2>1, <2>2, <2>3 DEF SetJob
  <2>6. CASE i = j
    BY <1>6, <2>5, <2>6 DEF RowAttempts
  <2>7. CASE i # j
    BY <1>a, <2>4, <2>7, CalmUpdates
  <2>. QED  BY <2>6, <2>7
<1>7. ASSUME NEW i \in JobIds, LockExpires(i)
      PROVE  RowAttempts(j)
  <2>1. jobs' = [jobs EXCEPT ![i] = [jobs[i] EXCEPT !.lock = "expired"]]
    BY <1>7 DEF LockExpires
  <2>2. Calm(jobs'[j], jobs[j])
    BY <2>1, CalmUpdates
  <2>. QED  BY <1>a, <2>2
<1>8. ASSUME NEW d \in Docs, UploadEnqueue(d)
      PROVE  RowAttempts(j)
  <2>1. jobs' \in QueueNext(jobs, d, "VALIDATE")
    BY <1>8 DEF UploadEnqueue, QueueNext
  <2>. QED  BY <1>0, <1>a, <1>c, <2>1, CalmUpdates
<1>9. ASSUME NEW r \in Requests, CommitRestart(r)
      PROVE  RowAttempts(j)
  <2>1. \E new : jobs' = Insert(CancelledJobs(jobs, request[r].docs), new, "VALIDATE")
    BY <1>9 DEF CommitRestart
  <2>2. Calm(CancelledJobs(jobs, request[r].docs)[j], jobs[j])
    BY <1>f, CalmUpdates
  <2>. QED  BY <1>a, <1>d, <2>1, <2>2
<1>10. ASSUME NEW r \in Requests, CommitReprocessSplit(r)
       PROVE  RowAttempts(j)
  <2>. DEFINE D == request[r].docs
              removed == RemovedJobs(jobs, Parts(D))
              rows == CancelledJobs(removed, D)
  <2>1. D \subseteq Docs /\ Parts(D) \subseteq Docs
    BY DEF IInv, TypeOK, Request, Parts
  <2>2. removed \in [JobIds -> Job] /\ rows \in [JobIds -> Job]
    BY <2>1, RemovedEvolves, CancelledEvolves DEF Evolves
  <2>3. Calm(removed[j], jobs[j])
    BY CalmUpdates DEF RemovedJobs
  <2>. HIDE DEF removed
  <2>4. Calm(rows[j], jobs[j])
    BY <1>f, <2>2, <2>3
  <2>5. PICK d \in D : jobs' \in QueueNext(rows, d, "VALIDATE")
    BY <1>10 DEF CommitReprocessSplit, removed
  <2>. HIDE DEF rows
  <2>6. Calm(jobs'[j], jobs[j]) \/ jobs'[j].attempt = 0
    BY <1>0, <1>c, <2>1, <2>2, <2>4, <2>5
  <2>. QED  BY <1>a, <2>6
<1>11. CASE UNCHANGED jobs
  BY <1>11, <1>a, CalmUpdates
<1>12. \A w \in Workers :
         HandlerReturns(w) \/ HandlerRaises(w) \/ CompletionRaises(w) \/ Crash(w)
         => UNCHANGED jobs
  BY DEF HandlerReturns, HandlerRaises, CompletionRaises, Crash
<1>13. \A d \in Docs : UploadInsert(d) \/ UploadCrash(d) \/ SoftDelete(d) => UNCHANGED jobs
  BY DEF UploadInsert, UploadCrash, SoftDelete
<1>14. \A r \in Requests :
         /\ \A d \in Docs : ReadForUploadRetry(r, d) \/ ReadForReprocess(r, d) => UNCHANGED jobs
         /\ \A D \in SUBSET Docs : ReadForBatch(r, D) => UNCHANGED jobs
         /\ RequestAborts(r) => UNCHANGED jobs
  BY DEF ReadForUploadRetry, ReadForReprocess, ReadForBatch, Reads, RequestAborts
<1>15. UNCHANGED vars => UNCHANGED jobs
  BY DEF vars
<1>. QED  BY <1>1, <1>2, <1>3, <1>4, <1>5, <1>6, <1>7, <1>8, <1>9, <1>10, <1>11, <1>12,
             <1>13, <1>14, <1>15, NextActions

\* A poll claims a waiting row, as the reaper leaves it, and counts the attempt.
LEMMA ClaimSteps ==
  ASSUME IInv, NEW w \in Workers, NEW j \in JobIds, PollClaims(w, j)
  PROVE  /\ jobs'[j].attempt = jobs[j].attempt + 1
         /\ ~Waiting(jobs'[j])
         /\ Waiting(jobs[j]) \/ jobs[j].attempt < MaxAttempts
         /\ worker[w].pc = "idle"
         /\ worker' = [worker EXCEPT ![w] =
              [pc |-> "running", job |-> j, attempt |-> jobs[j].attempt + 1]]
<1>1. ReapedJobs \in [JobIds -> Job] /\ ReapedJobs[j] \in Job /\ jobs[j] \in Job
  BY ReapedEvolves DEF IInv, TypeOK, Evolves
<1>2. Calm(ReapedJobs[j], jobs[j]) /\ Waiting(ReapedJobs[j])
  BY <1>1, CalmUpdates DEF ReapedJobs, PollClaims, Claimable, Waiting
<1>3. jobs'[j] = Claimed(ReapedJobs[j])
  BY <1>1 DEF PollClaims
<1>4. jobs'[j].attempt = ReapedJobs[j].attempt + 1 /\ jobs'[j].status = "PROCESSING"
  BY <1>1, <1>3 DEF Claimed, Job
<1>. QED  BY <1>2, <1>4 DEF Calm, Waiting, PollClaims

\* Unless a poll claims the job, no thread that was not in it comes in.
LEMMA ThreadsLeave ==
  ASSUME IInv, [Next]_vars, NEW v \in Workers, NEW j, worker'[v].pc # "idle",
         worker'[v].job = j, ~\E i \in JobIds : PollClaims(v, i)
  PROVE  Working(v, j) /\ worker'[v].attempt = worker[v].attempt
<1>1. ThreadStep(v)
  BY ThreadSteps
<1>2. worker'[v] # Idle
  BY DEF Idle
<1>. QED  BY <1>1, <1>2 DEF ThreadStep, Working

LEMMA NextAttemptsDiffer ==
  ASSUME IInv, AttemptsDiffer, AttemptsStartAtOne, [Next]_vars
  PROVE  AttemptsDiffer' /\ AttemptsStartAtOne'
<1>1. CASE \E w \in Workers, j \in JobIds : PollClaims(w, j)
  <2>1. PICK w \in Workers, j \in JobIds : PollClaims(w, j)
    BY <1>1
  <2>2. worker \in [Workers -> Worker] /\ jobs[j].attempt \in Nat
    BY DEF IInv, TypeOK, Job
  <2>3. /\ worker'[w].job = j /\ worker'[w].attempt = jobs[j].attempt + 1
        /\ \A v \in Workers : v # w => worker'[v] = worker[v]
    BY <2>1, <2>2, ClaimSteps
  <2>4. ASSUME NEW v \in Workers, Working(v, j)
        PROVE  worker[v].attempt \in Nat /\ worker[v].attempt <= jobs[j].attempt
    BY <2>4, WorkingThread DEF Working
  <2>5. AttemptsDiffer'
    <3>1. ASSUME NEW v \in Workers, v # w, worker'[v].pc # "idle", worker'[v].job = j
          PROVE  worker'[v].attempt # jobs[j].attempt + 1
      BY <2>2, <2>3, <2>4, <3>1 DEF Working
    <3>. QED  BY <2>3, <3>1 DEF AttemptsDiffer
  <2>6. AttemptsStartAtOne'
    BY <2>2, <2>3 DEF AttemptsStartAtOne
  <2>. QED  BY <2>5, <2>6
<1>2. CASE ~\E w \in Workers, j \in JobIds : PollClaims(w, j)
  <2>1. \A v \in Workers : worker'[v].pc # "idle" =>
          /\ worker[v].pc # "idle" /\ worker'[v].job = worker[v].job
          /\ worker'[v].attempt = worker[v].attempt
    BY <1>2, ThreadsLeave DEF Working
  <2>. QED  BY <2>1 DEF AttemptsDiffer, AttemptsStartAtOne
<1>. QED  BY <1>1, <1>2

LEMMA NextBounded ==
  ASSUME IInv, OvershootInv, [Next]_vars, NEW j \in JobIds
  PROVE  Bounded(j)'
<1>. DEFINE a == jobs[j].attempt
            H == AttemptsHeld(j)
            K == AttemptsHeld(j)'
<1>. SUFFICES ASSUME jobs'[j].attempt >= MaxAttempts
              PROVE  jobs'[j].attempt + StillToCome(j)' <= 2 * MaxAttempts - 1
  BY DEF Bounded
<1>1. MaxAttempts \in Nat \ {0} /\ a \in Nat
  BY ConstantsAssumption DEF IInv, TypeOK, Job
<1>2. /\ H \in SUBSET BelowLimit /\ K \in SUBSET BelowLimit
      /\ IsFiniteSet(H) /\ Cardinality(H) \in Nat /\ Cardinality(H) <= MaxAttempts - 1
      /\ IsFiniteSet(K) /\ Cardinality(K) \in Nat /\ Cardinality(K) <= MaxAttempts - 1
  BY AttemptsBelowLimit DEF AttemptsHeld
<1>3. /\ StillToCome(j)' = Cardinality(K) + IF Waiting(jobs'[j]) THEN 1 ELSE 0
      /\ StillToCome(j) = Cardinality(H) + IF Waiting(jobs[j]) THEN 1 ELSE 0
      /\ a >= MaxAttempts => a + StillToCome(j) <= 2 * MaxAttempts - 1
  BY DEF StillToCome, OvershootInv, Bounded
<1>. HIDE DEF a, H, K
<1>4. RowAttempts(j)
  BY RowSteps
<1>5. CASE \E w \in Workers : PollClaims(w, j)
  <2>1. PICK w \in Workers : PollClaims(w, j)
    BY <1>5
  <2>2. /\ jobs'[j].attempt = a + 1 /\ ~Waiting(jobs'[j])
        /\ Waiting(jobs[j]) \/ a < MaxAttempts
        /\ worker' = [worker EXCEPT ![w] = [pc |-> "running", job |-> j, attempt |-> a + 1]]
    BY <2>1, ClaimSteps DEF a
  <2>3. a + 1 \notin BelowLimit
    BY <1>1, <2>2 DEF BelowLimit
  <2>4. K \subseteq H
    <3>. SUFFICES ASSUME NEW b \in K PROVE b \in H
      OBVIOUS
    <3>1. PICK v \in Workers : worker'[v].pc # "idle" /\ worker'[v].job = j /\ worker'[v].attempt = b
      BY DEF K, AttemptsHeld, Working
    <3>2. b \in BelowLimit
      BY <1>2
    <3>3. v # w
      BY <2>2, <2>3, <3>1, <3>2 DEF IInv, TypeOK
    <3>4. worker'[v] = worker[v]
      BY <2>2, <3>3 DEF IInv, TypeOK
    <3>. QED  BY <3>1, <3>2, <3>4 DEF H, AttemptsHeld, Working
  <2>5. Cardinality(K) <= Cardinality(H)
    BY <1>2, <2>4, FS_Subset
  <2>6. CASE a >= MaxAttempts
    BY <1>1, <1>2, <1>3, <2>2, <2>5, <2>6
  <2>7. CASE a < MaxAttempts
    BY <1>1, <1>2, <1>3, <2>2, <2>7
  <2>. QED  BY <1>1, <2>6, <2>7
<1>6. CASE ~\E w \in Workers : PollClaims(w, j)
  <2>1. jobs'[j].attempt = a
    BY <1>1, <1>4, <1>6 DEF RowAttempts, a
  <2>2. ASSUME NEW v \in Workers, worker'[v].pc # "idle", worker'[v].job = j
        PROVE  Working(v, j) /\ worker'[v].attempt = worker[v].attempt
    <3>1. ~\E i \in JobIds : PollClaims(v, i)
      BY <1>6, <2>2, ClaimSteps DEF IInv, TypeOK
    <3>. QED  BY <2>2, <3>1, ThreadsLeave
  <2>3. K \subseteq H
    BY <2>2 DEF H, K, AttemptsHeld, Working
  <2>4. Cardinality(K) <= Cardinality(H)
    BY <1>2, <2>3, FS_Subset
  <2>5. CASE Waiting(jobs'[j]) => Waiting(jobs[j])
    BY <1>1, <1>2, <1>3, <2>1, <2>4, <2>5
  <2>6. CASE Waiting(jobs'[j]) /\ ~Waiting(jobs[j])
    <3>1. PICK w \in Workers : Retry(w) /\ worker[w].job = j
      BY <1>1, <1>4, <1>6, <2>1, <2>6 DEF RowAttempts, a
    <3>2. /\ worker[w].pc # "idle" /\ worker' = [worker EXCEPT ![w] = Idle]
          /\ worker[w].attempt \in Nat /\ ~(worker[w].attempt >= MaxAttempts)
      BY <3>1, WorkingThread DEF Retry, At, Exhausted
    <3>3. worker[w].attempt \in H
      <4>1. worker[w].attempt >= 1
        BY <3>2 DEF OvershootInv, AttemptsStartAtOne
      <4>2. worker[w].attempt \in BelowLimit
        BY <1>1, <3>2, <4>1 DEF BelowLimit
      <4>. QED  BY <3>1, <3>2, <4>2 DEF H, AttemptsHeld, Working
    <3>4. K \subseteq H \ {worker[w].attempt}
      <4>. SUFFICES ASSUME NEW b \in K PROVE b \in H /\ b # worker[w].attempt
        OBVIOUS
      <4>1. PICK v \in Workers : worker'[v].pc # "idle" /\ worker'[v].job = j /\ worker'[v].attempt = b
        BY DEF K, AttemptsHeld, Working
      <4>2. v # w
        BY <3>2, <4>1 DEF IInv, TypeOK, Idle
      <4>3. Working(v, j) /\ worker[v].attempt = b
        BY <2>2, <4>1
      <4>. QED  BY <2>3, <3>1, <3>2, <4>2, <4>3 DEF OvershootInv, AttemptsDiffer, Working
    <3>5. /\ IsFiniteSet(H \ {worker[w].attempt})
          /\ Cardinality(H \ {worker[w].attempt}) = Cardinality(H) - 1
      BY <1>2, <3>3, FS_RemoveElement
    <3>6. Cardinality(K) <= Cardinality(H) - 1
      BY <3>4, <3>5, FS_Subset
    <3>. QED  BY <1>1, <1>2, <1>3, <2>1, <2>6, <3>6
  <2>. QED  BY <2>5, <2>6
<1>. QED  BY <1>5, <1>6

\* A job gains max_attempts - 1 attempts at most beyond its limit, however many
\* threads still hold an attempt that the reaper has given to another.
THEOREM OvershootLimited == Spec => []OvershootIsBounded
<1>1. Init => OvershootInv
  <2>. SUFFICES ASSUME Init PROVE OvershootInv
    OBVIOUS
  <2>1. AttemptsDiffer /\ AttemptsStartAtOne
    BY DEF Init, Idle, AttemptsDiffer, AttemptsStartAtOne
  <2>2. \A j \in JobIds : Bounded(j)
    BY ConstantsAssumption DEF Init, NoRow, Bounded
  <2>. QED  BY <2>1, <2>2 DEF OvershootInv
<1>2. IInv /\ OvershootInv /\ [Next]_vars => OvershootInv'
  BY NextAttemptsDiffer, NextBounded DEF OvershootInv
<1>3. IInv /\ OvershootInv => OvershootIsBounded
  <2>. SUFFICES ASSUME IInv, OvershootInv, NEW j \in JobIds
                PROVE  jobs[j].attempt <= 2 * MaxAttempts - 1
    BY DEF OvershootIsBounded
  <2>1. jobs[j].attempt \in Nat /\ MaxAttempts \in Nat \ {0}
    BY ConstantsAssumption DEF IInv, TypeOK, Job
  <2>2. StillToCome(j) \in Nat
    BY AttemptsBelowLimit DEF StillToCome, AttemptsHeld
  <2>3. jobs[j].attempt >= MaxAttempts => jobs[j].attempt + StillToCome(j) <= 2 * MaxAttempts - 1
    BY DEF OvershootInv, Bounded
  <2>. QED  BY <2>1, <2>2, <2>3
<1>. QED  BY <1>1, <1>2, <1>3, Invariant, PTL DEF Spec

-----------------------------------------------------------------------------
(* Where a second live job of a document comes from.  Each step leaves the *)
(* live jobs of a document a subset of what they were, or one job, or puts *)
(* one job in the place of another; what is left are the exceptions that   *)
(* ForksOnlyFromLateWriters names.                                         *)

Live(rows, d) == {j \in JobIds : rows[j].doc = d /\ rows[j].status \in LiveStatus}

\* A document that was never inserted has no job, and no request is about to
\* queue one: the parts a split inserts get their first job from it.
AbsentIsUnqueued ==
  \A d \in Docs :
    doc[d] = "ABSENT" => upload[d] # "inserted" /\ \A j \in JobIds : jobs[j].doc # d

LiveIsFinite == \A d \in Docs : IsFiniteSet(LiveJobs(d))

ReportsLate(d) ==
  \E w \in Workers : ~At(w, "idle") /\ At(w, "idle")' /\ DocOf(w) = d /\ ~Owns(w)
EnqueuesUpload(d) == upload[d] = "inserted" /\ upload'[d] = "enqueued"

LiveStep(d) ==
  \/ LiveJobs(d)' \subseteq LiveJobs(d)
  \/ \E n \in JobIds : LiveJobs(d)' \subseteq {n}
  \/ \E j \in LiveJobs(d), n \in JobIds : LiveJobs(d)' \subseteq (LiveJobs(d) \ {j}) \cup {n}
  \/ /\ ReportsLate(d) \/ EnqueuesUpload(d)
     /\ \E n \in JobIds : LiveJobs(d)' \subseteq LiveJobs(d) \cup {n}

LEMMA LiveOfRows ==
  ASSUME NEW d
  PROVE  LiveJobs(d) = Live(jobs, d) /\ LiveJobs(d)' = Live(jobs', d)
BY DEF LiveJobs, Live

\* What a statement that adds nothing to the queue makes of a row.
NotAdded(new, old) ==
  new.doc = old.doc /\ (new.status \in LiveStatus => old.status \in LiveStatus)

LEMMA NotAddedLive ==
  ASSUME NEW rows, NEW old, \A j \in JobIds : NotAdded(rows[j], old[j]), NEW d
  PROVE  Live(rows, d) \subseteq Live(old, d)
BY DEF NotAdded, Live

LEMMA NotAddedUpdates ==
  ASSUME NEW row \in Job
  PROVE  /\ NotAdded(row, row)
         /\ NotAdded(Completed(row), row)
         /\ NotAdded(DeadLettered(row), row)
         /\ row.status = "PROCESSING" => NotAdded(ReapedRow(row), row)
         /\ row.status \in LiveStatus => NotAdded(Claimed(row), row) /\ NotAdded(Retried(row), row)
         /\ NotAdded(Cancelled(row), row)
         /\ NotAdded([row EXCEPT !.status = "REMOVED"], row)
         /\ NotAdded([row EXCEPT !.lock = "expired"], row)
<1>1. NotAdded(row, row) /\ NotAdded(Completed(row), row) /\ NotAdded(DeadLettered(row), row)
  BY DEF NotAdded, LiveStatus, Completed, DeadLettered, Job
<1>2. row.status = "PROCESSING" => NotAdded(ReapedRow(row), row)
  BY DEF NotAdded, LiveStatus, ReapedRow, Job
<1>3. row.status \in LiveStatus => NotAdded(Claimed(row), row) /\ NotAdded(Retried(row), row)
  BY DEF NotAdded, Claimed, Retried, Job
<1>4. NotAdded(Cancelled(row), row)
  BY DEF NotAdded, LiveStatus, Cancelled, Job
<1>5. NotAdded([row EXCEPT !.status = "REMOVED"], row)
  BY DEF NotAdded, LiveStatus, Job
<1>6. NotAdded([row EXCEPT !.lock = "expired"], row)
  BY DEF NotAdded, Job
<1>. QED  BY <1>1, <1>2, <1>3, <1>4, <1>5, <1>6

LEMMA ReapedNotAdded ==
  ASSUME IInv, NEW j \in JobIds
  PROVE  NotAdded(ReapedJobs[j], jobs[j])
<1>1. jobs[j] \in Job
  BY DEF IInv, TypeOK
<1>. QED  BY <1>1, NotAddedUpdates DEF ReapedJobs, Stale

LEMMA CancelledNotAdded ==
  ASSUME NEW rows \in [JobIds -> Job], NEW D, NEW j \in JobIds
  PROVE  /\ NotAdded(CancelledJobs(rows, D)[j], rows[j])
         /\ rows[j].doc \in D => CancelledJobs(rows, D)[j].status \notin LiveStatus
         /\ rows[j].doc \notin D => CancelledJobs(rows, D)[j] = rows[j]
<1>1. rows[j] \in Job
  OBVIOUS
<1>2. Cancelled(rows[j]).status \notin LiveStatus
  BY <1>1 DEF Cancelled, LiveStatus, Job
<1>. QED  BY <1>1, <1>2, NotAddedUpdates DEF CancelledJobs, Cancellable

LEMMA RemovedNotAdded ==
  ASSUME IInv, NEW C, NEW j \in JobIds
  PROVE  /\ NotAdded(RemovedJobs(jobs, C)[j], jobs[j])
         /\ RemovedJobs(jobs, C)[j].doc = jobs[j].doc
<1>1. jobs[j] \in Job
  BY DEF IInv, TypeOK
<1>2. NotAdded(RemovedJobs(jobs, C)[j], jobs[j])
  BY <1>1, NotAddedUpdates DEF RemovedJobs
<1>. QED  BY <1>2 DEF NotAdded

LEMMA SetJobNotAdded ==
  ASSUME IInv, NEW i \in JobIds, NEW row, NotAdded(row, jobs[i]), NEW j \in JobIds
  PROVE  NotAdded(SetJob(i, row)[j], jobs[j])
<1>1. jobs \in [JobIds -> Job] /\ jobs[j] \in Job
  BY DEF IInv, TypeOK
<1>. QED  BY <1>1, NotAddedUpdates DEF SetJob

\* One row more for one document.
LEMMA QueueNextLiveSet ==
  ASSUME NEW rows \in [JobIds -> Job], NEW e \in Docs, NEW s \in Steps, NEW new \in QueueNext(rows, e, s)
  PROVE  \E n \in Fresh :
           /\ \A d : d # e => Live(new, d) \subseteq Live(rows, d)
           /\ Live(new, e) \subseteq Live(rows, e) \cup {n}
           /\ \A j \in JobIds : new[j].doc = e \/ new[j].doc = rows[j].doc
<1>1. PICK n \in Fresh : new = [rows EXCEPT ![n] = NewJob(e, s)]
  BY DEF QueueNext
<1>2. /\ n \in JobIds /\ new[n] = NewJob(e, s) /\ new[n].doc = e
      /\ \A j \in JobIds : j # n => new[j] = rows[j]
  BY <1>1, NewJobType DEF Fresh
<1>. QED  BY <1>1, <1>2 DEF Live

\* One row more for each document of D.
LEMMA InsertLiveSet ==
  ASSUME NEW rows, Evolves(rows), NEW D, D \subseteq Docs, NEW new \in InsertsFor(D),
         NEW s \in Steps
  PROVE  /\ \A d : d \notin D => Live(Insert(rows, new, s), d) \subseteq Live(rows, d)
         /\ \A d \in D : Live(Insert(rows, new, s), d) \subseteq Live(rows, d) \cup {new[d]}
         /\ \A d \in D : new[d] \in JobIds
         /\ \A j \in JobIds : \/ Insert(rows, new, s)[j].doc \in D
                              \/ Insert(rows, new, s)[j] = rows[j]
<1>1. DOMAIN new = D
  BY DEF InsertsFor, Injection, IsInjective
<1>2. \A d \in D : new[d] \in JobIds /\ Insert(rows, new, s)[new[d]] = NewJob(d, s)
                   /\ NewJob(d, s).doc = d
  BY InsertEvolves, NewJobType DEF Fresh
<1>3. \A j \in JobIds : Insert(rows, new, s)[j] = rows[j] \/ \E d \in D : j = new[d]
  BY <1>1 DEF Insert
<1>. QED  BY <1>2, <1>3 DEF Live

LEMMA LiveSteps ==
  ASSUME IInv, AbsentIsUnqueued, [Next]_vars, NEW d \in Docs
  PROVE  LiveStep(d)
<1>. jobs \in [JobIds -> Job]
  BY DEF IInv, TypeOK
<1>0. "VALIDATE" \in Steps
  BY ConstantsAssumption
<1>a. ASSUME \A j \in JobIds : NotAdded(jobs'[j], jobs[j])
      PROVE  LiveStep(d)
  BY <1>a, NotAddedLive, LiveOfRows DEF LiveStep
<1>b. ASSUME Live(jobs', d) \subseteq Live(jobs, d)
      PROVE  LiveStep(d)
  BY <1>b, LiveOfRows DEF LiveStep
<1>1. ASSUME NEW w \in Workers, NEW i \in JobIds, PollClaims(w, i)
      PROVE  LiveStep(d)
  <2>1. ReapedJobs \in [JobIds -> Job] /\ ReapedJobs[i] \in Job
    BY ReapedEvolves DEF Evolves
  <2>2. NotAdded(Claimed(ReapedJobs[i]), ReapedJobs[i])
    BY <1>1, <2>1, NotAddedUpdates DEF PollClaims, Claimable, LiveStatus
  <2>3. \A j \in JobIds : jobs'[j] = IF j = i THEN Claimed(ReapedJobs[i]) ELSE ReapedJobs[j]
    BY <1>1, <2>1 DEF PollClaims
  <2>4. \A j \in JobIds : NotAdded(jobs'[j], jobs[j])
    BY <2>2, <2>3, ReapedNotAdded DEF NotAdded
  <2>. QED  BY <1>a, <2>4
<1>2. ASSUME NEW w \in Workers, PollFindsNothing(w)
      PROVE  LiveStep(d)
  BY <1>2, <1>a, ReapedNotAdded DEF PollFindsNothing
<1>3. ASSUME NEW w \in Workers, HandlerSplits(w)
      PROVE  LiveStep(d)
  <2>1. PICK parts \in SUBSET {c \in Docs \ Oversized : doc[c] = "ABSENT"} :
          \E new \in InsertsFor(parts), s \in NextSteps("SPLIT") : jobs' = Insert(jobs, new, s)
    BY <1>3 DEF HandlerSplits
  <2>2. PICK new \in InsertsFor(parts), s \in NextSteps("SPLIT") : jobs' = Insert(jobs, new, s)
    BY <2>1
  <2>3. parts \subseteq Docs /\ s \in Steps
    BY DEF NextSteps
  <2>4. /\ d \notin parts => Live(jobs', d) \subseteq Live(jobs, d)
        /\ d \in parts => Live(jobs', d) \subseteq Live(jobs, d) \cup {new[d]} /\ new[d] \in JobIds
    BY <2>2, <2>3, UnchangedEvolves, InsertLiveSet
  <2>5. CASE d \in parts
    <3>1. Live(jobs, d) = {}
      BY <2>5 DEF AbsentIsUnqueued, Live
    <3>. QED  BY <2>4, <2>5, <3>1, LiveOfRows DEF LiveStep
  <2>. QED  BY <1>b, <2>4, <2>5
<1>4. ASSUME NEW w \in Workers, CompleteSplitParent(w) \/ CompleteLast(w) \/ DeadLetter(w)
      PROVE  LiveStep(d)
  <2>1. worker[w].pc # "idle"
    BY <1>4 DEF CompleteSplitParent, CompleteLast, DeadLetter, At
  <2>2. worker[w].job \in JobIds /\ jobs[worker[w].job] \in Job
    BY <2>1, WorkingThread
  <2>. QED  BY <1>4, <1>a, <2>2, NotAddedUpdates, SetJobNotAdded
              DEF CompleteSplitParent, CompleteLast, DeadLetter
<1>5. ASSUME NEW w \in Workers, NEW s \in Steps, CompleteAndQueue(w, s)
      PROVE  LiveStep(d)
  <2>. DEFINE i == worker[w].job
              rows == SetJob(i, Completed(jobs[i]))
  <2>1. worker[w].pc # "idle" /\ worker' = [worker EXCEPT ![w] = Idle]
    BY <1>5 DEF CompleteAndQueue, At
  <2>2. /\ i \in JobIds /\ jobs[i] \in Job /\ jobs[i].status # "ABSENT"
        /\ DocOf(w) \in Docs /\ DocOf(w) = jobs[i].doc
    BY <2>1, WorkingThread
  <2>3. rows \in [JobIds -> Job]
    BY <2>2, RowUpdates, SetJobEvolves DEF Evolves
  <2>4. \A j \in JobIds : NotAdded(rows[j], jobs[j])
    BY <2>2, NotAddedUpdates, SetJobNotAdded
  <2>5. Completed(jobs[i]).status \notin LiveStatus
    BY <2>2 DEF Completed, LiveStatus, Job
  <2>6. jobs[i].status \in LiveStatus => rows[i].status \notin LiveStatus
    BY <2>2, <2>5 DEF SetJob, LiveStatus, Gone
  <2>7. jobs' \in QueueNext(rows, DocOf(w), s)
    BY <1>5 DEF CompleteAndQueue
  <2>. HIDE DEF rows
  <2>8. PICK n \in Fresh : /\ \A e : e # DocOf(w) => Live(jobs', e) \subseteq Live(rows, e)
                           /\ Live(jobs', DocOf(w)) \subseteq Live(rows, DocOf(w)) \cup {n}
    BY <2>2, <2>3, <2>7, QueueNextLiveSet
  <2>9. n \in JobIds /\ Live(rows, d) \subseteq Live(jobs, d)
    BY <2>4, NotAddedLive DEF Fresh
  <2>10. CASE d # DocOf(w)
    BY <1>b, <2>8, <2>9, <2>10
  <2>11. CASE d = DocOf(w) /\ jobs[i].status \in LiveStatus
    <3>1. i \in Live(jobs, d) /\ i \notin Live(rows, d)
      BY <2>2, <2>6, <2>11 DEF Live
    <3>2. Live(jobs', d) \subseteq (Live(jobs, d) \ {i}) \cup {n}
      BY <2>8, <2>9, <2>11, <3>1
    <3>. QED  BY <2>9, <3>1, <3>2, LiveOfRows DEF LiveStep
  <2>12. CASE d = DocOf(w) /\ jobs[i].status \notin LiveStatus
    <3>1. ~Owns(w)
      BY <2>12 DEF Owns, LiveStatus
    <3>2. At(w, "idle")'
      BY <2>1 DEF At, Idle, IInv, TypeOK
    <3>3. ReportsLate(d)
      BY <2>1, <2>12, <3>1, <3>2 DEF ReportsLate, At
    <3>4. Live(jobs', d) \subseteq Live(jobs, d) \cup {n}
      BY <2>8, <2>9, <2>12
    <3>. QED  BY <2>9, <3>3, <3>4, LiveOfRows DEF LiveStep
  <2>. QED  BY <2>10, <2>11, <2>12
<1>6. ASSUME NEW w \in Workers, Retry(w)
      PROVE  LiveStep(d)
  <2>. DEFINE i == worker[w].job
  <2>1. worker[w].pc # "idle" /\ jobs' = SetJob(i, Retried(jobs[i]))
        /\ worker' = [worker EXCEPT ![w] = Idle]
    BY <1>6 DEF Retry, At
  <2>2. i \in JobIds /\ jobs[i] \in Job /\ DocOf(w) = jobs[i].doc
    BY <2>1, WorkingThread
  <2>3. CASE jobs[i].status \in LiveStatus
    <3>1. NotAdded(Retried(jobs[i]), jobs[i])
      BY <2>2, <2>3, NotAddedUpdates
    <3>2. \A j \in JobIds : NotAdded(jobs'[j], jobs[j])
      BY <2>1, <2>2, <3>1, SetJobNotAdded
    <3>. QED  BY <1>a, <3>2
  <2>4. CASE jobs[i].status \notin LiveStatus
    <3>1. ~Owns(w)
      BY <2>4 DEF Owns, LiveStatus
    <3>2. At(w, "idle")'
      BY <2>1 DEF At, Idle, IInv, TypeOK
    <3>3. \A j \in JobIds : j # i => jobs'[j] = jobs[j]
      BY <2>1, <2>2 DEF SetJob
    <3>4. Retried(jobs[i]).doc = jobs[i].doc
      BY <2>2 DEF Retried, Job
    <3>5. jobs'[i].doc = jobs[i].doc
      BY <2>1, <2>2, <3>4 DEF SetJob
    <3>6. CASE d = DocOf(w)
      <4>1. ReportsLate(d)
        BY <2>1, <3>1, <3>2, <3>6 DEF ReportsLate, At
      <4>2. Live(jobs', d) \subseteq Live(jobs, d) \cup {i}
        BY <3>3 DEF Live
      <4>. QED  BY <2>2, <4>1, <4>2, LiveOfRows DEF LiveStep
    <3>7. CASE d # DocOf(w)
      <4>1. Live(jobs', d) \subseteq Live(jobs, d)
        BY <2>2, <3>3, <3>5, <3>7 DEF Live
      <4>. QED  BY <1>b, <4>1
    <3>. QED  BY <3>6, <3>7
  <2>. QED  BY <2>3, <2>4
<1>7. ASSUME NEW i \in JobIds, LockExpires(i)
      PROVE  LiveStep(d)
  <2>1. jobs' = [jobs EXCEPT ![i] = [jobs[i] EXCEPT !.lock = "expired"]]
    BY <1>7 DEF LockExpires
  <2>2. \A j \in JobIds : NotAdded(jobs'[j], jobs[j])
    BY <2>1, NotAddedUpdates
  <2>. QED  BY <1>a, <2>2
<1>8. ASSUME NEW e \in Docs, UploadEnqueue(e)
      PROVE  LiveStep(d)
  <2>1. jobs' \in QueueNext(jobs, e, "VALIDATE")
    BY <1>8 DEF UploadEnqueue, QueueNext
  <2>2. PICK n \in Fresh : /\ \A c : c # e => Live(jobs', c) \subseteq Live(jobs, c)
                           /\ Live(jobs', e) \subseteq Live(jobs, e) \cup {n}
    BY <1>0, <2>1, QueueNextLiveSet
  <2>3. EnqueuesUpload(e)
    BY <1>8 DEF UploadEnqueue, EnqueuesUpload, IInv, TypeOK
  <2>4. n \in JobIds
    BY DEF Fresh
  <2>5. CASE d = e
    BY <2>2, <2>3, <2>4, <2>5, LiveOfRows DEF LiveStep
  <2>6. CASE d # e
    BY <1>b, <2>2, <2>6
  <2>. QED  BY <2>5, <2>6
<1>9. ASSUME NEW r \in Requests, CommitRestart(r)
      PROVE  LiveStep(d)
  <2>. DEFINE D == request[r].docs
              rows == CancelledJobs(jobs, D)
  <2>1. D \subseteq Docs
    BY DEF IInv, TypeOK, Request
  <2>2. Evolves(rows)
    BY UnchangedEvolves, CancelledEvolves
  <2>3. PICK new \in InsertsFor(D) : jobs' = Insert(rows, new, "VALIDATE")
    BY <1>9 DEF CommitRestart
  <2>4. Live(rows, d) \subseteq Live(jobs, d) /\ (d \in D => Live(rows, d) = {})
    BY CancelledNotAdded DEF NotAdded, Live
  <2>. HIDE DEF rows
  <2>5. /\ d \notin D => Live(jobs', d) \subseteq Live(rows, d)
        /\ d \in D => Live(jobs', d) \subseteq Live(rows, d) \cup {new[d]} /\ new[d] \in JobIds
    BY <1>0, <2>1, <2>2, <2>3, InsertLiveSet
  <2>6. CASE d \in D
    BY <2>4, <2>5, <2>6, LiveOfRows DEF LiveStep
  <2>7. CASE d \notin D
    BY <1>b, <2>4, <2>5, <2>7
  <2>. QED  BY <2>6, <2>7
<1>10. ASSUME NEW r \in Requests, CommitReprocessSplit(r)
       PROVE  LiveStep(d)
  <2>. DEFINE D == request[r].docs
              removed == RemovedJobs(jobs, Parts(D))
              rows == CancelledJobs(removed, D)
  <2>1. PICK e \in Docs : D = {e}
    BY <1>10 DEF CommitReprocessSplit, IInv, SplitRequestsNameOne
  <2>2. Parts(D) \subseteq Docs
    BY DEF Parts
  <2>3. removed \in [JobIds -> Job] /\ rows \in [JobIds -> Job]
    BY <2>2, RemovedEvolves, CancelledEvolves DEF Evolves
  <2>4. \A j \in JobIds : NotAdded(removed[j], jobs[j])
    BY RemovedNotAdded
  <2>5. jobs' \in QueueNext(rows, e, "VALIDATE")
    BY <1>10, <2>1 DEF CommitReprocessSplit
  <2>. HIDE DEF removed
  <2>6. /\ Live(rows, d) \subseteq Live(removed, d)
        /\ d = e => Live(rows, d) = {}
    BY <2>1, <2>3, CancelledNotAdded DEF NotAdded, Live
  <2>7. Live(removed, d) \subseteq Live(jobs, d)
    BY <2>4, NotAddedLive
  <2>. HIDE DEF rows
  <2>8. PICK n \in Fresh : /\ \A c : c # e => Live(jobs', c) \subseteq Live(rows, c)
                           /\ Live(jobs', e) \subseteq Live(rows, e) \cup {n}
    BY <1>0, <2>3, <2>5, QueueNextLiveSet
  <2>9. n \in JobIds
    BY DEF Fresh
  <2>10. CASE d = e
    BY <2>6, <2>8, <2>9, <2>10, LiveOfRows DEF LiveStep
  <2>11. CASE d # e
    BY <1>b, <2>6, <2>7, <2>8, <2>11
  <2>. QED  BY <2>10, <2>11
<1>11. CASE UNCHANGED jobs
  BY <1>11, <1>b
<1>12. \A w \in Workers :
         HandlerReturns(w) \/ HandlerRaises(w) \/ CompletionRaises(w) \/ Crash(w)
         => UNCHANGED jobs
  BY DEF HandlerReturns, HandlerRaises, CompletionRaises, Crash
<1>13. \A e \in Docs : UploadInsert(e) \/ UploadCrash(e) \/ SoftDelete(e) => UNCHANGED jobs
  BY DEF UploadInsert, UploadCrash, SoftDelete
<1>14. \A r \in Requests :
         /\ \A e \in Docs : ReadForUploadRetry(r, e) \/ ReadForReprocess(r, e) => UNCHANGED jobs
         /\ \A D \in SUBSET Docs : ReadForBatch(r, D) => UNCHANGED jobs
         /\ RequestAborts(r) => UNCHANGED jobs
  BY DEF ReadForUploadRetry, ReadForReprocess, ReadForBatch, Reads, RequestAborts
<1>15. UNCHANGED vars => UNCHANGED jobs
  BY DEF vars
<1>. QED  BY <1>1, <1>2, <1>3, <1>4, <1>5, <1>6, <1>7, <1>8, <1>9, <1>10, <1>11, <1>12,
             <1>13, <1>14, <1>15, NextActions

\* A row a step inserts is of a document that exists after it.
LEMMA RowsOfInserted ==
  ASSUME IInv, AbsentIsUnqueued, [Next]_vars, NEW j \in JobIds
  PROVE  jobs'[j].doc = jobs[j].doc \/ doc'[jobs'[j].doc] # "ABSENT"
<1>. DEFINE Goal == jobs'[j].doc = jobs[j].doc \/ doc'[jobs'[j].doc] # "ABSENT"
<1>. jobs \in [JobIds -> Job] /\ doc \in [Docs -> DocStatus]
  BY DEF IInv, TypeOK
<1>0. "VALIDATE" \in Steps
  BY ConstantsAssumption
<1>a. ASSUME jobs[j].status # "ABSENT"
      PROVE  Goal
  BY <1>a, RowsEvolve DEF Evolves, SameJob
<1>b. ASSUME jobs'[j] = jobs[j]
      PROVE  Goal
  BY <1>b
<1>c. ASSUME NEW rows \in [JobIds -> Job], NEW e \in Docs, NEW s \in Steps,
             jobs' \in QueueNext(rows, e, s), doc'[e] # "ABSENT",
             \A i \in JobIds : rows[i].doc = jobs[i].doc
      PROVE  Goal
  <2>1. jobs'[j].doc = e \/ jobs'[j].doc = rows[j].doc
    BY <1>c, QueueNextLiveSet
  <2>. QED  BY <1>c, <2>1
<1>1. ASSUME NEW w \in Workers, HandlerSplits(w)
      PROVE  Goal
  <2>1. PICK parts \in SUBSET {c \in Docs \ Oversized : doc[c] = "ABSENT"} :
          /\ doc' = [c \in Docs |-> CASE c \in parts -> "UPLOADED"
                                      [] c = DocOf(w) -> "SPLIT_COMPLETE"
                                      [] OTHER -> doc[c]]
          /\ \E new \in InsertsFor(parts), s \in NextSteps("SPLIT") : jobs' = Insert(jobs, new, s)
    BY <1>1 DEF HandlerSplits
  <2>2. PICK new \in InsertsFor(parts), s \in NextSteps("SPLIT") : jobs' = Insert(jobs, new, s)
    BY <2>1
  <2>3. parts \subseteq Docs /\ s \in Steps
    BY DEF NextSteps
  <2>4. jobs'[j].doc \in parts \/ jobs'[j] = jobs[j]
    BY <2>2, <2>3, UnchangedEvolves, InsertLiveSet
  <2>. QED  BY <2>1, <2>3, <2>4
<1>2. ASSUME NEW w \in Workers, NEW s \in Steps, CompleteAndQueue(w, s)
      PROVE  Goal
  <2>. DEFINE i == worker[w].job
              rows == SetJob(i, Completed(jobs[i]))
  <2>1. worker[w].pc # "idle"
    BY <1>2 DEF CompleteAndQueue, At
  <2>2. /\ i \in JobIds /\ jobs[i] \in Job /\ jobs[i].status # "ABSENT" /\ DocOf(w) \in Docs
        /\ StepOf(w) \in AllSteps
    BY <2>1, WorkingThread
  <2>3. rows \in [JobIds -> Job]
    BY <2>2, RowUpdates, SetJobEvolves DEF Evolves
  <2>4. \A k \in JobIds : rows[k].doc = jobs[k].doc
    BY <2>2, NotAddedUpdates, SetJobNotAdded DEF NotAdded
  <2>5. doc'[DocOf(w)] # "ABSENT"
    <3>1. AfterStatus(StepOf(w)) # "ABSENT"
      BY <2>2, StepTable DEF Gone
    <3>. QED  BY <1>2, <2>2, <3>1 DEF CompleteAndQueue, SetStatus, Gone
  <2>6. jobs' \in QueueNext(rows, DocOf(w), s)
    BY <1>2 DEF CompleteAndQueue
  <2>. HIDE DEF rows
  <2>. QED  BY <1>c, <2>2, <2>3, <2>4, <2>5, <2>6
<1>3. ASSUME NEW e \in Docs, UploadEnqueue(e)
      PROVE  Goal
  <2>1. jobs' \in QueueNext(jobs, e, "VALIDATE")
    BY <1>3 DEF UploadEnqueue, QueueNext
  <2>2. doc'[e] # "ABSENT"
    BY <1>3 DEF UploadEnqueue, AbsentIsUnqueued
  <2>. QED  BY <1>0, <1>c, <2>1, <2>2
<1>4. ASSUME NEW r \in Requests, CommitRestart(r)
      PROVE  Goal
  <2>. DEFINE D == request[r].docs
  <2>1. D \subseteq Docs
    BY DEF IInv, TypeOK, Request
  <2>2. Evolves(CancelledJobs(jobs, D))
    BY UnchangedEvolves, CancelledEvolves
  <2>3. PICK new \in InsertsFor(D) : jobs' = Insert(CancelledJobs(jobs, D), new, "VALIDATE")
    BY <1>4 DEF CommitRestart
  <2>4. jobs'[j].doc \in D \/ jobs'[j] = CancelledJobs(jobs, D)[j]
    BY <1>0, <2>1, <2>2, <2>3, InsertLiveSet
  <2>5. CancelledJobs(jobs, D)[j].doc = jobs[j].doc
    BY CancelledNotAdded DEF NotAdded
  <2>6. \A e \in D : doc'[e] # "ABSENT"
    BY <1>4, <2>1 DEF CommitRestart
  <2>. QED  BY <2>4, <2>5, <2>6
<1>5. ASSUME NEW r \in Requests, CommitReprocessSplit(r)
      PROVE  Goal
  <2>. DEFINE D == request[r].docs
              removed == RemovedJobs(jobs, Parts(D))
              rows == CancelledJobs(removed, D)
  <2>1. PICK e \in Docs : D = {e}
    BY <1>5 DEF CommitReprocessSplit, IInv, SplitRequestsNameOne
  <2>2. Parts(D) \subseteq Docs
    BY DEF Parts
  <2>3. removed \in [JobIds -> Job] /\ rows \in [JobIds -> Job]
    BY <2>2, RemovedEvolves, CancelledEvolves DEF Evolves
  <2>4. \A i \in JobIds : removed[i].doc = jobs[i].doc
    BY RemovedNotAdded
  <2>5. jobs' \in QueueNext(rows, e, "VALIDATE")
    BY <1>5, <2>1 DEF CommitReprocessSplit
  <2>6. doc'[e] # "ABSENT"
    BY <1>5, <2>1 DEF CommitReprocessSplit
  <2>. HIDE DEF removed
  <2>7. \A i \in JobIds : rows[i].doc = jobs[i].doc
    BY <2>3, <2>4, CancelledNotAdded DEF NotAdded
  <2>. HIDE DEF rows
  <2>. QED  BY <1>0, <1>c, <2>3, <2>5, <2>6, <2>7
<1>6. ASSUME jobs[j].status = "ABSENT"
      PROVE  Goal
  <2>1. ASSUME NEW w \in Workers, NEW i \in JobIds, PollClaims(w, i)
        PROVE  Goal
    <3>1. j \notin Stale
      BY <1>6 DEF Stale
    <3>2. ReapedJobs[j] = jobs[j]
      BY <3>1 DEF ReapedJobs
    <3>3. j # i
      BY <1>6, <2>1, <3>2 DEF PollClaims, Claimable
    <3>. QED  BY <1>b, <2>1, <3>2, <3>3 DEF PollClaims, ReapedJobs
  <2>2. ASSUME NEW w \in Workers, PollFindsNothing(w)
        PROVE  Goal
    BY <1>6, <1>b, <2>2 DEF PollFindsNothing, ReapedJobs, Stale
  <2>3. ASSUME NEW w \in Workers, CompleteSplitParent(w) \/ CompleteLast(w) \/ DeadLetter(w) \/ Retry(w)
        PROVE  Goal
    <3>1. worker[w].pc # "idle"
      BY <2>3 DEF CompleteSplitParent, CompleteLast, DeadLetter, Retry, At
    <3>2. worker[w].job # j
      BY <1>6, <3>1, WorkingThread
    <3>. QED  BY <1>b, <2>3, <3>2 DEF CompleteSplitParent, CompleteLast, DeadLetter, Retry, SetJob
  <2>4. ASSUME NEW i \in JobIds, LockExpires(i)
        PROVE  Goal
    <3>1. jobs' = [jobs EXCEPT ![i] = [jobs[i] EXCEPT !.lock = "expired"]]
      BY <2>4 DEF LockExpires
    <3>2. jobs[i] \in Job
      OBVIOUS
    <3>3. jobs'[j].doc = jobs[j].doc
      BY <3>1, <3>2 DEF Job
    <3>. QED  BY <3>3
  <2>5. CASE UNCHANGED jobs
    BY <1>b, <2>5
  <2>6. \A w \in Workers :
          HandlerReturns(w) \/ HandlerRaises(w) \/ CompletionRaises(w) \/ Crash(w)
          => UNCHANGED jobs
    BY DEF HandlerReturns, HandlerRaises, CompletionRaises, Crash
  <2>7. \A e \in Docs : UploadInsert(e) \/ UploadCrash(e) \/ SoftDelete(e) => UNCHANGED jobs
    BY DEF UploadInsert, UploadCrash, SoftDelete
  <2>8. \A r \in Requests :
          /\ \A e \in Docs : ReadForUploadRetry(r, e) \/ ReadForReprocess(r, e) => UNCHANGED jobs
          /\ \A D \in SUBSET Docs : ReadForBatch(r, D) => UNCHANGED jobs
          /\ RequestAborts(r) => UNCHANGED jobs
    BY DEF ReadForUploadRetry, ReadForReprocess, ReadForBatch, Reads, RequestAborts
  <2>9. UNCHANGED vars => UNCHANGED jobs
    BY DEF vars
  <2>. HIDE DEF Goal
  <2>. QED  BY <1>1, <1>2, <1>3, <1>4, <1>5, <2>1, <2>2, <2>3, <2>4, <2>5, <2>6, <2>7, <2>8,
               <2>9, NextActions
<1>. QED  BY <1>6, <1>a

\* No step takes a document back to where it was never inserted, and the upload
\* that is about to queue a job has inserted its document.
LEMMA AbsentSteps ==
  ASSUME IInv, AbsentIsUnqueued, [Next]_vars, NEW d \in Docs, doc'[d] = "ABSENT"
  PROVE  doc[d] = "ABSENT" /\ upload'[d] # "inserted"
<1>. DEFINE Goal == doc[d] = "ABSENT" /\ upload'[d] # "inserted"
<1>. /\ jobs \in [JobIds -> Job] /\ doc \in [Docs -> DocStatus]
     /\ upload \in [Docs -> {"none", "inserted", "enqueued", "crashed"}]
  BY DEF IInv, TypeOK
<1>a. ASSUME doc[d] = "ABSENT", upload' = upload
      PROVE  Goal
  BY <1>a DEF AbsentIsUnqueued
<1>b. ASSUME NEW e, NEW s, doc' = SetStatus(e, s) \/ doc' = doc, s # "ABSENT", upload' = upload
      PROVE  Goal
  BY <1>a, <1>b DEF SetStatus
<1>1. ASSUME NEW w \in Workers, NEW j \in JobIds, PollClaims(w, j) \/ PollFindsNothing(w)
      PROVE  Goal
  <2>1. DuringStatus(jobs[j].step) # "ABSENT"
    BY StepTable DEF Gone, Job
  <2>2. ReapedDocs[d] = "ABSENT" => doc[d] = "ABSENT"
    BY DEF ReapedDocs
  <2>3. doc'[d] = ReapedDocs[d] \/ doc'[d] = DuringStatus(jobs[j].step)
    BY <1>1 DEF PollClaims, PollFindsNothing, ReapedDocs
  <2>. QED  BY <1>1, <1>a, <2>1, <2>2, <2>3 DEF PollClaims, PollFindsNothing
<1>2. ASSUME NEW w \in Workers, PollFindsNothing(w)
      PROVE  Goal
  BY <1>2, <1>a DEF PollFindsNothing, ReapedDocs
<1>3. ASSUME NEW w \in Workers, HandlerReturns(w) \/ DeadLetter(w)
      PROVE  Goal
  BY <1>3, <1>b DEF HandlerReturns, DeadLetter
<1>4. ASSUME NEW w \in Workers, HandlerSplits(w)
      PROVE  Goal
  BY <1>4, <1>a DEF HandlerSplits
<1>5. ASSUME NEW w \in Workers, CompleteLast(w) \/ \E s \in Steps : CompleteAndQueue(w, s)
      PROVE  Goal
  <2>1. worker[w].pc # "idle"
    BY <1>5 DEF CompleteLast, CompleteAndQueue, At
  <2>2. AfterStatus(StepOf(w)) # "ABSENT"
    BY <2>1, WorkingThread, StepTable DEF Gone
  <2>. QED  BY <1>5, <1>b, <2>2 DEF CompleteLast, CompleteAndQueue
<1>6. ASSUME NEW e \in Docs, UploadInsert(e) \/ UploadEnqueue(e) \/ UploadCrash(e) \/ SoftDelete(e)
      PROVE  Goal
  BY <1>6 DEF UploadInsert, UploadEnqueue, UploadCrash, SoftDelete, AbsentIsUnqueued
<1>7. ASSUME NEW r \in Requests, CommitRestart(r) \/ CommitReprocessSplit(r)
      PROVE  Goal
  BY <1>7, <1>a DEF CommitRestart, CommitReprocessSplit
<1>8. ASSUME UNCHANGED <<doc, upload>>
      PROVE  Goal
  BY <1>8, <1>a
<1>9. \A w \in Workers :
        HandlerRaises(w) \/ CompleteSplitParent(w) \/ CompletionRaises(w) \/ Retry(w) \/ Crash(w)
        => UNCHANGED <<doc, upload>>
  BY DEF HandlerRaises, CompleteSplitParent, CompletionRaises, Retry, Crash
<1>10. /\ \A j \in JobIds : LockExpires(j) => UNCHANGED <<doc, upload>>
       /\ UNCHANGED vars => UNCHANGED <<doc, upload>>
  BY DEF LockExpires, vars
<1>11. \A r \in Requests :
         /\ \A e \in Docs : ReadForUploadRetry(r, e) \/ ReadForReprocess(r, e)
              => UNCHANGED <<doc, upload>>
         /\ \A D \in SUBSET Docs : ReadForBatch(r, D) => UNCHANGED <<doc, upload>>
         /\ RequestAborts(r) => UNCHANGED <<doc, upload>>
  BY DEF ReadForUploadRetry, ReadForReprocess, ReadForBatch, Reads, RequestAborts
<1>12. Goal
  <2>. HIDE DEF Goal
  <2>. QED  BY <1>1, <1>2, <1>3, <1>4, <1>5, <1>6, <1>7, <1>8, <1>9, <1>10, <1>11, NextActions
<1>. QED  BY <1>12

LEMMA NextAbsentIsUnqueued ==
  ASSUME IInv, AbsentIsUnqueued, [Next]_vars
  PROVE  AbsentIsUnqueued'
<1>. SUFFICES ASSUME NEW d \in Docs, doc'[d] = "ABSENT"
              PROVE  upload'[d] # "inserted" /\ \A j \in JobIds : jobs'[j].doc # d
  BY DEF AbsentIsUnqueued
<1>. QED  BY AbsentSteps, RowsOfInserted DEF AbsentIsUnqueued

LEMMA NextLiveIsFinite ==
  ASSUME IInv, AbsentIsUnqueued, LiveIsFinite, [Next]_vars
  PROVE  LiveIsFinite'
<1>. SUFFICES ASSUME NEW d \in Docs PROVE IsFiniteSet(LiveJobs(d))'
  BY DEF LiveIsFinite
<1>1. IsFiniteSet(LiveJobs(d))
  BY DEF LiveIsFinite
<1>2. PICK n : LiveJobs(d)' \subseteq LiveJobs(d) \cup {n}
  BY LiveSteps DEF LiveStep
<1>3. IsFiniteSet(LiveJobs(d) \cup {n})
  BY <1>1, FS_AddElement
<1>. QED  BY <1>2, <1>3, FS_Subset

\* A document gets a second live job from a thread that no longer owns the job
\* it reports on, or from the upload's own first job, and from nothing else.
THEOREM ForksNamed == Spec => ForksOnlyFromLateWriters
<1>. DEFINE Inv == IInv /\ AbsentIsUnqueued /\ LiveIsFinite
<1>1. Init => AbsentIsUnqueued /\ LiveIsFinite
  <2>. SUFFICES ASSUME Init PROVE AbsentIsUnqueued /\ LiveIsFinite
    OBVIOUS
  <2>1. AbsentIsUnqueued
    BY ConstantsAssumption DEF Init, AbsentIsUnqueued, NoRow
  <2>2. \A d \in Docs : LiveJobs(d) = {}
    BY DEF Init, LiveJobs, NoRow, LiveStatus
  <2>. QED  BY <2>1, <2>2, FS_EmptySet DEF LiveIsFinite
<1>2. Inv /\ [Next]_vars => (AbsentIsUnqueued /\ LiveIsFinite)'
  BY NextAbsentIsUnqueued, NextLiveIsFinite
<1>3. Inv /\ [Next]_vars =>
        [\A d \in Docs :
           Cardinality(LiveJobs(d)') > 1 /\ Cardinality(LiveJobs(d)') > Cardinality(LiveJobs(d))
           => \/ \E w \in Workers : ~At(w, "idle") /\ At(w, "idle")' /\ DocOf(w) = d /\ ~Owns(w)
              \/ upload[d] = "inserted" /\ upload'[d] = "enqueued"]_vars
  <2>. SUFFICES ASSUME Inv, [Next]_vars, NEW d \in Docs,
                       Cardinality(LiveJobs(d)') > 1,
                       Cardinality(LiveJobs(d)') > Cardinality(LiveJobs(d))
                PROVE  ReportsLate(d) \/ EnqueuesUpload(d)
    BY DEF ReportsLate, EnqueuesUpload
  <2>. DEFINE L == LiveJobs(d)
              K == LiveJobs(d)'
  <2>1. IsFiniteSet(L) /\ IsFiniteSet(K)
    BY NextLiveIsFinite DEF LiveIsFinite
  <2>2. Cardinality(L) \in Nat /\ Cardinality(K) \in Nat /\ LiveStep(d)
    BY <2>1, FS_CardinalityType, LiveSteps
  <2>3. ~(K \subseteq L)
    BY <2>1, <2>2, FS_Subset
  <2>4. ASSUME NEW n, K \subseteq {n}
        PROVE  FALSE
    <3>1. IsFiniteSet({n}) /\ Cardinality({n}) = 1
      BY FS_Singleton
    <3>2. Cardinality(K) <= 1
      BY <2>4, <3>1, FS_Subset
    <3>. QED  BY <2>2, <3>2
  <2>5. ASSUME NEW j \in L, NEW n, K \subseteq (L \ {j}) \cup {n}
        PROVE  FALSE
    <3>1. IsFiniteSet(L \ {j}) /\ Cardinality(L \ {j}) = Cardinality(L) - 1
      BY <2>1, FS_RemoveElement
    <3>. DEFINE M == L \ {j}
    <3>2. /\ IsFiniteSet(M \cup {n})
          /\ Cardinality(M \cup {n}) <= Cardinality(L)
      <4>1. IsFiniteSet(M) /\ Cardinality(M) = Cardinality(L) - 1
        BY <3>1
      <4>. HIDE DEF M, L
      <4>2. /\ IsFiniteSet(M \cup {n})
            /\ Cardinality(M \cup {n}) = IF n \in M THEN Cardinality(M) ELSE Cardinality(M) + 1
        BY <4>1, FS_AddElement
      <4>. QED  BY <2>2, <4>1, <4>2
    <3>3. Cardinality(K) <= Cardinality((L \ {j}) \cup {n})
      BY <2>5, <3>2, FS_Subset
    <3>4. Cardinality((L \ {j}) \cup {n}) \in Nat
      BY <3>2, FS_CardinalityType
    <3>. QED  BY <2>2, <3>2, <3>3, <3>4
  <2>. QED  BY <2>2, <2>3, <2>4, <2>5 DEF LiveStep
<1>. QED  BY <1>1, <1>2, <1>3, Invariant, PTL DEF Spec, ForksOnlyFromLateWriters

-----------------------------------------------------------------------------
(* The parent of a split PDF, while the thread that split it is alone with *)
(* it: no row of a later step comes up, and the mark stays.                *)

\* A row that is not a live job of d of a step after SPLIT.
Early(row, d) == row.doc = d /\ row.status \in LiveStatus => ~(Rank(row.step) > Rank("SPLIT"))

LEMMA EarlyJobs ==
  ASSUME NEW d
  PROVE  /\ LaterJobs(d) = {} <=> \A j \in JobIds : Early(jobs[j], d)
         /\ LaterJobs(d)' = {} <=> \A j \in JobIds : Early(jobs'[j], d)
BY DEF LaterJobs, LiveJobs, Early

LEMMA EarlySteps ==
  /\ ~(Rank("SPLIT") > Rank("SPLIT"))
  /\ \A d, e : Early(NewJob(e, "VALIDATE"), d)
BY DEF Rank, STEP_TRANSITIONS, Early, NewJob

LEMMA EarlyKept ==
  ASSUME NEW new, NEW old, NotAdded(new, old), new.step = old.step, NEW d, Early(old, d)
  PROVE  Early(new, d)
BY DEF NotAdded, Early

LEMMA UpdatesKeepStep ==
  ASSUME NEW row \in Job
  PROVE  /\ Claimed(row).step = row.step /\ Completed(row).step = row.step
         /\ Retried(row).step = row.step /\ DeadLettered(row).step = row.step
         /\ ReapedRow(row).step = row.step /\ Cancelled(row).step = row.step
         /\ [row EXCEPT !.status = "REMOVED"].step = row.step
         /\ [row EXCEPT !.lock = "expired"].step = row.step
BY DEF Job, Claimed, Completed, Retried, DeadLettered, ReapedRow, Cancelled

LEMMA EarlyUpdates ==
  ASSUME NEW row \in Job, NEW d, Early(row, d)
  PROVE  /\ Early(Completed(row), d) /\ Early(DeadLettered(row), d) /\ Early(Cancelled(row), d)
         /\ row.status = "PROCESSING" => Early(ReapedRow(row), d)
         /\ row.status \in LiveStatus => Early(Claimed(row), d) /\ Early(Retried(row), d)
         /\ Early([row EXCEPT !.status = "REMOVED"], d)
         /\ Early([row EXCEPT !.lock = "expired"], d)
BY NotAddedUpdates, UpdatesKeepStep, EarlyKept

LEMMA EarlyInserts ==
  ASSUME NEW rows, NEW D, NEW new \in InsertsFor(D), NEW d,
         \A j \in JobIds : Early(rows[j], d)
  PROVE  \A j \in JobIds : Early(Insert(rows, new, "VALIDATE")[j], d)
BY EarlySteps DEF Insert

LEMMA EarlyQueued ==
  ASSUME NEW rows \in [JobIds -> Job], NEW e, NEW s, NEW d, \A j \in JobIds : Early(rows[j], d),
         e # d \/ s = "VALIDATE", jobs' \in QueueNext(rows, e, s)
  PROVE  \A j \in JobIds : Early(jobs'[j], d)
<1>1. PICK n \in Fresh : jobs' = [rows EXCEPT ![n] = NewJob(e, s)]
  BY DEF QueueNext
<1>2. \A j \in JobIds : jobs'[j] = IF j = n THEN NewJob(e, s) ELSE rows[j]
  BY <1>1
<1>3. Early(NewJob(e, s), d)
  BY EarlySteps DEF Early, NewJob
<1>. QED  BY <1>2, <1>3

\* What HasSplit says of the row, the thread and everybody else.
LEMMA SplitAlone ==
  ASSUME IInv, NEW w \in Workers, NEW d \in Docs, HasSplit(w), d = DocOf(w)
  PROVE  /\ worker[w].pc = "returned" /\ worker[w].job \in JobIds
         /\ jobs[worker[w].job] \in Job /\ jobs[worker[w].job].doc = d
         /\ jobs[worker[w].job].status = "PROCESSING" /\ StepOf(w) = "SPLIT"
         /\ jobs[worker[w].job].attempt = worker[w].attempt
         /\ doc[d] = "SPLIT_COMPLETE"
         /\ \A j \in JobIds : jobs[j].doc = d /\ jobs[j].status \in LiveStatus => j = worker[w].job
         /\ \A v \in Workers : v # w /\ worker[v].pc # "idle" => DocOf(v) # d
         /\ \A j \in JobIds : Early(jobs[j], d)
<1>1. /\ worker[w].pc = "returned" /\ StepOf(w) = "SPLIT" /\ doc[d] = "SPLIT_COMPLETE"
      /\ jobs[worker[w].job].status = "PROCESSING"
      /\ jobs[worker[w].job].attempt = worker[w].attempt
      /\ LiveJobs(d) = {worker[w].job}
      /\ \A v \in Workers : v # w /\ worker[v].pc # "idle" => DocOf(v) # d
  BY DEF HasSplit, At, Splits, Owns
<1>2. worker[w].job \in JobIds /\ jobs[worker[w].job] \in Job /\ jobs[worker[w].job].doc = d
      /\ jobs[worker[w].job].step = "SPLIT"
  BY <1>1, WorkingThread
<1>3. \A j \in JobIds : jobs[j].doc = d /\ jobs[j].status \in LiveStatus => j = worker[w].job
  BY <1>1 DEF LiveJobs
<1>4. \A j \in JobIds : Early(jobs[j], d)
  BY <1>2, <1>3, EarlySteps DEF Early
<1>. QED  BY <1>1, <1>2, <1>3, <1>4

LEMMA NothingLaterComesUp ==
  ASSUME IInv, [Next]_vars, NEW w \in Workers, NEW d \in Docs, HasSplit(w), d = DocOf(w)
  PROVE  \A j \in JobIds : Early(jobs'[j], d)
<1>. DEFINE Goal == \A j \in JobIds : Early(jobs'[j], d)
<1>. jobs \in [JobIds -> Job]
  BY DEF IInv, TypeOK
<1>0. \A j \in JobIds : jobs[j] \in Job /\ Early(jobs[j], d)
  BY SplitAlone
<1>r. \A j \in JobIds : ReapedJobs[j] \in Job /\ Early(ReapedJobs[j], d)
  BY <1>0, EarlyUpdates, ReapedEvolves DEF ReapedJobs, Stale, Evolves
<1>1. ASSUME NEW v \in Workers, NEW i \in JobIds, PollClaims(v, i)
      PROVE  Goal
  <2>1. ReapedJobs[i].status \in LiveStatus
    BY <1>1 DEF PollClaims, Claimable, LiveStatus
  <2>2. Early(Claimed(ReapedJobs[i]), d)
    BY <1>r, <2>1, EarlyUpdates
  <2>3. \A j \in JobIds : jobs'[j] = IF j = i THEN Claimed(ReapedJobs[i]) ELSE ReapedJobs[j]
    BY <1>1 DEF PollClaims, ReapedJobs
  <2>. QED  BY <1>r, <2>2, <2>3
<1>2. ASSUME NEW v \in Workers, PollFindsNothing(v)
      PROVE  Goal
  BY <1>2, <1>r DEF PollFindsNothing
<1>3. ASSUME NEW v \in Workers, HandlerSplits(v)
      PROVE  Goal
  <2>1. PICK parts \in SUBSET {c \in Docs \ Oversized : doc[c] = "ABSENT"} :
          \E new \in InsertsFor(parts), s \in NextSteps("SPLIT") : jobs' = Insert(jobs, new, s)
    BY <1>3 DEF HandlerSplits
  <2>2. PICK new \in InsertsFor(parts), s \in NextSteps("SPLIT") : jobs' = Insert(jobs, new, s)
    BY <2>1
  <2>3. parts \subseteq Docs /\ s \in Steps
    BY DEF NextSteps
  <2>4. \A j \in JobIds : jobs'[j].doc \in parts \/ jobs'[j] = jobs[j]
    BY <2>2, <2>3, UnchangedEvolves, InsertLiveSet
  <2>5. d \notin parts
    BY SplitAlone
  <2>. QED  BY <1>0, <2>4, <2>5 DEF Early
<1>4. ASSUME NEW v \in Workers, CompleteSplitParent(v) \/ CompleteLast(v) \/ DeadLetter(v)
      PROVE  Goal
  <2>1. worker[v].pc # "idle"
    BY <1>4 DEF CompleteSplitParent, CompleteLast, DeadLetter, At
  <2>2. worker[v].job \in JobIds
    BY <2>1, WorkingThread
  <2>3. \A j \in JobIds : \/ jobs'[j] = jobs[j]
                           \/ jobs'[j] = Completed(jobs[j]) \/ jobs'[j] = DeadLettered(jobs[j])
    BY <1>4, <2>2 DEF CompleteSplitParent, CompleteLast, DeadLetter, SetJob
  <2>4. \A j \in JobIds : Early(Completed(jobs[j]), d) /\ Early(DeadLettered(jobs[j]), d)
    BY <1>0, EarlyUpdates
  <2>. QED  BY <1>0, <2>3, <2>4
<1>5. ASSUME NEW v \in Workers, NEW s \in Steps, CompleteAndQueue(v, s)
      PROVE  Goal
  <2>. DEFINE i == worker[v].job
              rows == SetJob(i, Completed(jobs[i]))
  <2>1. worker[v].pc # "idle" /\ ~IsSplitParent(v) /\ jobs' \in QueueNext(rows, DocOf(v), s)
    BY <1>5 DEF CompleteAndQueue, At
  <2>2. i \in JobIds /\ jobs[i] \in Job /\ jobs[i].status # "ABSENT"
    BY <2>1, WorkingThread
  <2>3. v # w
    BY <2>1, SplitAlone DEF IsSplitParent
  <2>4. DocOf(v) # d
    BY <2>1, <2>3, SplitAlone
  <2>5. \A j \in JobIds : Early(rows[j], d)
    BY <1>0, <2>2, EarlyUpdates DEF SetJob
  <2>6. rows \in [JobIds -> Job]
    BY <2>2, RowUpdates, SetJobEvolves DEF Evolves
  <2>. HIDE DEF rows
  <2>. QED  BY <2>1, <2>4, <2>5, <2>6, EarlyQueued
<1>6. ASSUME NEW v \in Workers, Retry(v)
      PROVE  Goal
  <2>. DEFINE i == worker[v].job
  <2>1. worker[v].pc = "raised" /\ jobs' = SetJob(i, Retried(jobs[i]))
    BY <1>6 DEF Retry, At
  <2>2. i \in JobIds /\ jobs[i] \in Job /\ DocOf(v) = jobs[i].doc
    BY <2>1, WorkingThread
  <2>3. jobs[i].doc # d
    BY <2>1, <2>2, SplitAlone
  <2>4. Retried(jobs[i]).doc # d
    BY <2>2, <2>3 DEF Retried, Job
  <2>5. \A j \in JobIds : jobs'[j] = jobs[j] \/ jobs'[j] = Retried(jobs[i])
    BY <2>1, <2>2 DEF SetJob
  <2>. QED  BY <1>0, <2>4, <2>5 DEF Early
<1>7. ASSUME NEW i \in JobIds, LockExpires(i)
      PROVE  Goal
  <2>1. jobs' = [jobs EXCEPT ![i] = [jobs[i] EXCEPT !.lock = "expired"]]
    BY <1>7 DEF LockExpires
  <2>2. Early([jobs[i] EXCEPT !.lock = "expired"], d)
    BY <1>0, EarlyUpdates
  <2>3. \A j \in JobIds : jobs'[j] = jobs[j] \/ jobs'[j] = [jobs[i] EXCEPT !.lock = "expired"]
    BY <2>1
  <2>. QED  BY <1>0, <2>2, <2>3
<1>8. ASSUME NEW e \in Docs, UploadEnqueue(e)
      PROVE  Goal
  <2>1. jobs' \in QueueNext(jobs, e, "VALIDATE")
    BY <1>8 DEF UploadEnqueue, QueueNext
  <2>. QED  BY <1>0, <2>1, EarlyQueued
<1>9. ASSUME NEW r \in Requests, CommitRestart(r)
      PROVE  Goal
  <2>. DEFINE D == request[r].docs
  <2>1. PICK new \in InsertsFor(D) : jobs' = Insert(CancelledJobs(jobs, D), new, "VALIDATE")
    BY <1>9 DEF CommitRestart
  <2>2. \A j \in JobIds : Early(CancelledJobs(jobs, D)[j], d)
    BY <1>0, EarlyUpdates DEF CancelledJobs
  <2>. QED  BY <2>1, <2>2, EarlyInserts
<1>10. ASSUME NEW r \in Requests, CommitReprocessSplit(r)
       PROVE  Goal
  <2>. DEFINE D == request[r].docs
              removed == RemovedJobs(jobs, Parts(D))
              rows == CancelledJobs(removed, D)
  <2>1. PICK e \in Docs : jobs' \in QueueNext(rows, e, "VALIDATE")
    BY <1>10 DEF CommitReprocessSplit, IInv, SplitRequestsNameOne
  <2>2. Parts(D) \subseteq Docs
    BY DEF Parts
  <2>3. removed \in [JobIds -> Job] /\ rows \in [JobIds -> Job]
    BY <2>2, RemovedEvolves, CancelledEvolves DEF Evolves
  <2>4. \A j \in JobIds : Early(removed[j], d)
    BY <1>0, EarlyUpdates DEF RemovedJobs
  <2>. HIDE DEF removed
  <2>5. \A j \in JobIds : Early(rows[j], d)
    BY <2>3, <2>4, EarlyUpdates DEF CancelledJobs
  <2>. HIDE DEF rows
  <2>. QED  BY <2>1, <2>3, <2>5, EarlyQueued
<1>11. ASSUME UNCHANGED jobs
       PROVE  Goal
  BY <1>0, <1>11
<1>12. \A v \in Workers :
         HandlerReturns(v) \/ HandlerRaises(v) \/ CompletionRaises(v) \/ Crash(v)
         => UNCHANGED jobs
  BY DEF HandlerReturns, HandlerRaises, CompletionRaises, Crash
<1>13. \A e \in Docs : UploadInsert(e) \/ UploadCrash(e) \/ SoftDelete(e) => UNCHANGED jobs
  BY DEF UploadInsert, UploadCrash, SoftDelete
<1>14. \A r \in Requests :
         /\ \A e \in Docs : ReadForUploadRetry(r, e) \/ ReadForReprocess(r, e) => UNCHANGED jobs
         /\ \A D \in SUBSET Docs : ReadForBatch(r, D) => UNCHANGED jobs
         /\ RequestAborts(r) => UNCHANGED jobs
  BY DEF ReadForUploadRetry, ReadForReprocess, ReadForBatch, Reads, RequestAborts
<1>15. UNCHANGED vars => UNCHANGED jobs
  BY DEF vars
<1>16. Goal
  <2>. HIDE DEF Goal
  <2>. QED  BY <1>1, <1>2, <1>3, <1>4, <1>5, <1>6, <1>7, <1>8, <1>9, <1>10, <1>11, <1>12,
               <1>13, <1>14, <1>15, NextActions
<1>. QED  BY <1>16

\* A document whose only live job belongs to w is not touched by a poll, unless
\* the poll takes the job from w.
LEMMA PollsLeave ==
  ASSUME IInv, NEW w \in Workers, NEW d \in Docs, HasSplit(w), d = DocOf(w),
         worker[w].job \notin Stale
  PROVE  /\ ReapedDocs[d] = doc[d]
         /\ \A k \in Claimable(ReapedJobs) : jobs[k].doc # d
<1>. DEFINE i == worker[w].job
<1>1. \A j \in Stale : jobs[j].doc # d
  BY SplitAlone DEF Stale, LiveStatus
<1>2. ReapedDocs[d] = doc[d]
  BY <1>1 DEF ReapedDocs
<1>3. ASSUME NEW k \in Claimable(ReapedJobs)
      PROVE  jobs[k].doc # d
  <2>1. k \in JobIds /\ ReapedJobs[k].status \in {"PENDING", "RETRYING"}
    BY DEF Claimable
  <2>2. CASE k \in Stale
    BY <1>1, <2>2
  <2>3. CASE k \notin Stale
    <3>1. jobs[k].status \in {"PENDING", "RETRYING"}
      BY <2>1, <2>3 DEF ReapedJobs
    <3>. QED  BY <2>1, <3>1, SplitAlone DEF LiveStatus
  <2>. QED  BY <2>2, <2>3
<1>. QED  BY <1>2, <1>3

LEMMA MarkStays ==
  ASSUME IInv, [Next]_vars, NEW w \in Workers, NEW d \in Docs, HasSplit(w), d = DocOf(w)
  PROVE  doc'[d] \in {"SPLIT_COMPLETE", "DELETED"} \/ ~Owns(w)'
<1>. DEFINE Goal == doc'[d] \in {"SPLIT_COMPLETE", "DELETED"} \/ ~Owns(w)'
            i == worker[w].job
<1>. /\ jobs \in [JobIds -> Job] /\ doc \in [Docs -> DocStatus]
  BY DEF IInv, TypeOK
<1>0. /\ worker[w].pc = "returned" /\ i \in JobIds /\ jobs[i] \in Job /\ jobs[i].doc = d
      /\ jobs[i].status = "PROCESSING" /\ StepOf(w) = "SPLIT"
      /\ jobs[i].attempt = worker[w].attempt /\ doc[d] = "SPLIT_COMPLETE"
      /\ \A v \in Workers : v # w /\ worker[v].pc # "idle" => DocOf(v) # d
  BY SplitAlone
<1>a. ASSUME doc'[d] = doc[d]
      PROVE  Goal
  BY <1>0, <1>a
<1>b. ASSUME NEW e, e # d, NEW s, doc' = SetStatus(e, s)
      PROVE  Goal
  BY <1>0, <1>b DEF SetStatus
<1>c. ASSUME worker' = worker, jobs'[i].status # "PROCESSING" \/ jobs'[i].attempt # jobs[i].attempt
      PROVE  Goal
  BY <1>0, <1>c DEF Owns
<1>1. ASSUME NEW v \in Workers, NEW k \in JobIds, PollClaims(v, k)
      PROVE  Goal
  <2>1. k \in Claimable(ReapedJobs) /\ v # w /\ worker'[w] = worker[w]
    BY <1>0, <1>1 DEF PollClaims, IInv, TypeOK
  <2>2. \A j \in JobIds : jobs'[j] = IF j = k THEN Claimed(ReapedJobs[k]) ELSE ReapedJobs[j]
    BY <1>1 DEF PollClaims, ReapedJobs
  <2>3. CASE i \in Stale
    <3>1. ReapedJobs[i] = ReapedRow(jobs[i])
      BY <2>3 DEF ReapedJobs, Stale
    <3>2. ReapedRow(jobs[i]).status # "PROCESSING" /\ ReapedRow(jobs[i]).attempt = jobs[i].attempt
          /\ ReapedRow(jobs[i]) \in Job
      <4>1. jobs[i] \in Job
        BY <1>0
      <4>2. ReapedRow(jobs[i]) \in Job
        BY <1>0, <4>1, RowUpdates DEF SameJob
      <4>3. ReapedRow(jobs[i]).status # "PROCESSING" /\ ReapedRow(jobs[i]).attempt = jobs[i].attempt
        BY <4>1 DEF ReapedRow, Job
      <4>. QED  BY <4>2, <4>3
    <3>3. Claimed(ReapedRow(jobs[i])).attempt = jobs[i].attempt + 1
      BY <3>2 DEF Claimed, Job
    <3>4. jobs[i].attempt \in Nat
      BY <1>0 DEF Job
    <3>5. jobs'[i].status # "PROCESSING" \/ jobs'[i].attempt # jobs[i].attempt
      BY <1>0, <2>2, <3>1, <3>2, <3>3, <3>4
    <3>. QED  BY <1>0, <2>1, <3>5 DEF Owns
  <2>4. CASE i \notin Stale
    <3>1. ReapedDocs[d] = doc[d] /\ jobs[k].doc # d
      BY <2>1, <2>4, PollsLeave
    <3>2. doc'[d] = doc[d]
      BY <1>1, <3>1 DEF PollClaims, ReapedDocs
    <3>. QED  BY <1>a, <3>2
  <2>. QED  BY <2>3, <2>4
<1>2. ASSUME NEW v \in Workers, PollFindsNothing(v)
      PROVE  Goal
  <2>1. CASE i \in Stale
    <3>1. jobs'[i] = ReapedRow(jobs[i])
      BY <1>2, <2>1 DEF PollFindsNothing, ReapedJobs, Stale
    <3>2. ReapedRow(jobs[i]).status # "PROCESSING"
      BY <1>0 DEF ReapedRow, Job
    <3>. QED  BY <1>2, <1>c, <3>1, <3>2 DEF PollFindsNothing
  <2>2. CASE i \notin Stale
    <3>1. doc'[d] = doc[d]
      BY <1>2, <2>2, PollsLeave DEF PollFindsNothing
    <3>. QED  BY <1>a, <3>1
  <2>. QED  BY <2>1, <2>2
<1>3. ASSUME NEW v \in Workers, HandlerReturns(v)
      PROVE  Goal
  <2>1. v # w /\ worker[v].pc # "idle"
    BY <1>0, <1>3 DEF HandlerReturns, At
  <2>2. doc' = doc \/ doc' = SetStatus(DocOf(v), "ACTIVE")
    BY <1>3 DEF HandlerReturns
  <2>. QED  BY <1>0, <1>a, <1>b, <2>1, <2>2
<1>4. ASSUME NEW v \in Workers, HandlerSplits(v)
      PROVE  Goal
  <2>1. DocOf(v) # d
    BY <1>0, <1>4 DEF HandlerSplits, At
  <2>2. PICK parts \in SUBSET {c \in Docs \ Oversized : doc[c] = "ABSENT"} :
          doc' = [c \in Docs |-> CASE c \in parts -> "UPLOADED"
                                   [] c = DocOf(v) -> "SPLIT_COMPLETE"
                                   [] OTHER -> doc[c]]
    BY <1>4 DEF HandlerSplits
  <2>3. d \notin parts
    BY <1>0
  <2>4. doc'[d] = doc[d]
    BY <2>1, <2>2, <2>3
  <2>. QED  BY <1>a, <2>4
<1>5. ASSUME NEW v \in Workers, NEW s \in Steps, CompleteAndQueue(v, s)
      PROVE  Goal
  <2>1. v # w
    BY <1>0, <1>5 DEF CompleteAndQueue, IsSplitParent
  <2>. QED  BY <1>0, <1>5, <1>b, <2>1 DEF CompleteAndQueue, At
<1>6. ASSUME NEW v \in Workers, CompleteLast(v) \/ DeadLetter(v)
      PROVE  Goal
  <2>1. v # w
    BY <1>0, <1>6 DEF CompleteLast, DeadLetter, LastSteps, At
  <2>2. worker[v].pc # "idle"
    BY <1>6 DEF CompleteLast, DeadLetter, At
  <2>3. DocOf(v) # d
    BY <1>0, <2>1, <2>2
  <2>. QED  BY <1>6, <1>b, <2>3 DEF CompleteLast, DeadLetter
<1>7. ASSUME NEW e \in Docs, UploadInsert(e) \/ SoftDelete(e)
      PROVE  Goal
  BY <1>0, <1>7 DEF UploadInsert, SoftDelete
<1>8. ASSUME NEW r \in Requests, CommitRestart(r)
      PROVE  Goal
  <2>. DEFINE D == request[r].docs
              rows == CancelledJobs(jobs, D)
  <2>1. CASE d \in D
    <3>1. PICK new \in InsertsFor(D) : jobs' = Insert(rows, new, "VALIDATE")
      BY <1>8 DEF CommitRestart
    <3>2. /\ D \subseteq Docs /\ Evolves(rows) /\ "VALIDATE" \in Steps /\ i \in JobIds \ Fresh
      BY <1>0, UnchangedEvolves, CancelledEvolves, ConstantsAssumption
         DEF IInv, TypeOK, Request, Fresh
    <3>3. jobs'[i] = rows[i]
      <4>. HIDE DEF rows
      <4>. QED  BY <3>1, <3>2, InsertEvolves
    <3>4. rows[i].status # "PROCESSING"
      BY <1>0, <2>1 DEF CancelledJobs, Cancelled, Cancellable, LiveStatus, Job
    <3>. QED  BY <1>8, <1>c, <3>3, <3>4 DEF CommitRestart
  <2>2. CASE d \notin D
    BY <1>8, <1>a, <2>2 DEF CommitRestart
  <2>. QED  BY <2>1, <2>2
<1>9. ASSUME NEW r \in Requests, CommitReprocessSplit(r)
      PROVE  Goal
  <2>. DEFINE D == request[r].docs
              removed == RemovedJobs(jobs, Parts(D))
              rows == CancelledJobs(removed, D)
  <2>1. CASE d \in D \/ d \in Parts(D)
    <3>1. PICK e \in D : jobs' \in QueueNext(rows, e, "VALIDATE")
      BY <1>9 DEF CommitReprocessSplit
    <3>2. PICK n \in Fresh : jobs' = [rows EXCEPT ![n] = NewJob(e, "VALIDATE")]
      BY <3>1 DEF QueueNext
    <3>3. n # i
      BY <1>0 DEF Fresh
    <3>4. removed[i].doc = d /\ (d \in Parts(D) => removed[i].status # "PROCESSING")
          /\ (d \notin Parts(D) => removed[i] = jobs[i])
      BY <1>0 DEF RemovedJobs, Job
    <3>5. Cancelled(removed[i]).status # "PROCESSING"
      BY <1>0 DEF RemovedJobs, Cancelled, Job
    <3>6. rows[i].status # "PROCESSING"
      <4>. HIDE DEF removed
      <4>. QED  BY <1>0, <2>1, <3>4, <3>5 DEF CancelledJobs, Cancellable, LiveStatus
    <3>7. jobs'[i] = rows[i]
      BY <1>0, <3>2, <3>3 DEF CancelledJobs
    <3>. QED  BY <1>9, <1>c, <3>6, <3>7 DEF CommitReprocessSplit
  <2>2. CASE d \notin D /\ d \notin Parts(D)
    BY <1>9, <1>a, <2>2 DEF CommitReprocessSplit
  <2>. QED  BY <2>1, <2>2
<1>10. ASSUME UNCHANGED doc
       PROVE  Goal
  BY <1>10, <1>a
<1>11. \A v \in Workers :
         HandlerRaises(v) \/ CompleteSplitParent(v) \/ CompletionRaises(v) \/ Retry(v) \/ Crash(v)
         => UNCHANGED doc
  BY DEF HandlerRaises, CompleteSplitParent, CompletionRaises, Retry, Crash
<1>12. /\ \A j \in JobIds : LockExpires(j) => UNCHANGED doc
       /\ \A e \in Docs : UploadEnqueue(e) \/ UploadCrash(e) => UNCHANGED doc
       /\ UNCHANGED vars => UNCHANGED doc
  BY DEF LockExpires, UploadEnqueue, UploadCrash, vars
<1>13. \A r \in Requests :
         /\ \A e \in Docs : ReadForUploadRetry(r, e) \/ ReadForReprocess(r, e) => UNCHANGED doc
         /\ \A D \in SUBSET Docs : ReadForBatch(r, D) => UNCHANGED doc
         /\ RequestAborts(r) => UNCHANGED doc
  BY DEF ReadForUploadRetry, ReadForReprocess, ReadForBatch, Reads, RequestAborts
<1>14. Goal
  <2>. HIDE DEF Goal
  <2>. QED  BY <1>1, <1>2, <1>3, <1>4, <1>5, <1>6, <1>7, <1>8, <1>9, <1>10, <1>11, <1>12,
               <1>13, NextActions
<1>. QED  BY <1>14

\* Between a split and its completion the parent gets no job of a later step, and the
\* mark stays unless a soft delete takes it or the thread loses its job, whoever else
\* is at work on other documents (job_poller.py:199-207).
THEOREM SplitStops == Spec => SplitParentStops
<1>1. IInv /\ [Next]_vars =>
        [\A w \in Workers : \A d \in Docs :
           HasSplit(w) /\ d = DocOf(w) =>
             /\ LaterJobs(d)' = {}
             /\ doc'[d] \in {"SPLIT_COMPLETE", "DELETED"} \/ ~Owns(w)']_vars
  BY NothingLaterComesUp, MarkStays, EarlyJobs
<1>. QED  BY <1>1, Invariant, PTL DEF Spec, SplitParentStops

-----------------------------------------------------------------------------
(* A deleted document with nothing under way stays so.                     *)

Quiet(d) == doc[d] = "DELETED" /\ ~UnderWay(d)

\* What the actions are checked against: no job of it is in the queue or with a thread.
LEMMA QuietParts ==
  ASSUME IInv, NEW d \in Docs, Quiet(d)
  PROVE  /\ \A j \in JobIds : jobs[j].doc = d => jobs[j].status \notin LiveStatus
         /\ Live(jobs, d) = {}
         /\ \A w \in Workers : worker[w].pc # "idle" => DocOf(w) # d
         /\ \A r \in Requests : d \notin request[r].docs
         /\ doc[d] = "DELETED" /\ upload[d] # "inserted"
BY DEF Quiet, UnderWay, LiveJobs, Live, At

\* A poll takes and reclaims jobs of other documents.
LEMMA PollsPassQuiet ==
  ASSUME IInv, NEW d \in Docs, Quiet(d)
  PROVE  /\ ReapedDocs[d] = doc[d]
         /\ \A k \in Claimable(ReapedJobs) : jobs[k].doc # d
<1>1. \A j \in Stale : jobs[j].doc # d
  BY QuietParts DEF Stale, LiveStatus
<1>2. ReapedDocs[d] = doc[d]
  BY <1>1 DEF ReapedDocs
<1>3. ASSUME NEW k \in Claimable(ReapedJobs)
      PROVE  jobs[k].doc # d
  <2>1. k \in JobIds /\ ReapedJobs[k].status \in LiveStatus
    BY DEF Claimable, LiveStatus
  <2>2. NotAdded(ReapedJobs[k], jobs[k])
    BY <2>1, ReapedNotAdded
  <2>. QED  BY <2>1, <2>2, QuietParts DEF NotAdded
<1>. QED  BY <1>2, <1>3

LEMMA QuietUnqueued ==
  ASSUME IInv, [Next]_vars, NEW d \in Docs, Quiet(d)
  PROVE  LiveJobs(d)' = {}
<1>. DEFINE Goal == Live(jobs', d) = {}
<1>. jobs \in [JobIds -> Job]
  BY DEF IInv, TypeOK
<1>0. "VALIDATE" \in Steps
  BY ConstantsAssumption
<1>a. ASSUME \A j \in JobIds : NotAdded(jobs'[j], jobs[j])
      PROVE  Goal
  BY <1>a, NotAddedLive, QuietParts
<1>1. ASSUME NEW w \in Workers, NEW i \in JobIds, PollClaims(w, i)
      PROVE  Goal
  <2>1. ReapedJobs \in [JobIds -> Job] /\ ReapedJobs[i] \in Job
    BY ReapedEvolves DEF Evolves
  <2>2. NotAdded(Claimed(ReapedJobs[i]), ReapedJobs[i])
    BY <1>1, <2>1, NotAddedUpdates DEF PollClaims, Claimable, LiveStatus
  <2>3. \A j \in JobIds : jobs'[j] = IF j = i THEN Claimed(ReapedJobs[i]) ELSE ReapedJobs[j]
    BY <1>1, <2>1 DEF PollClaims
  <2>4. \A j \in JobIds : NotAdded(jobs'[j], jobs[j])
    BY <2>2, <2>3, ReapedNotAdded DEF NotAdded
  <2>. QED  BY <1>a, <2>4
<1>2. ASSUME NEW w \in Workers, PollFindsNothing(w)
      PROVE  Goal
  BY <1>2, <1>a, ReapedNotAdded DEF PollFindsNothing
<1>3. ASSUME NEW w \in Workers, HandlerSplits(w)
      PROVE  Goal
  <2>1. PICK parts \in SUBSET {c \in Docs \ Oversized : doc[c] = "ABSENT"} :
          \E new \in InsertsFor(parts), s \in NextSteps("SPLIT") : jobs' = Insert(jobs, new, s)
    BY <1>3 DEF HandlerSplits
  <2>2. PICK new \in InsertsFor(parts), s \in NextSteps("SPLIT") : jobs' = Insert(jobs, new, s)
    BY <2>1
  <2>3. parts \subseteq Docs /\ s \in Steps /\ d \notin parts
    BY QuietParts DEF NextSteps
  <2>4. Live(jobs', d) \subseteq Live(jobs, d)
    BY <2>2, <2>3, UnchangedEvolves, InsertLiveSet
  <2>. QED  BY <2>4, QuietParts
<1>4. ASSUME NEW w \in Workers, CompleteSplitParent(w) \/ CompleteLast(w) \/ DeadLetter(w)
      PROVE  Goal
  <2>1. worker[w].pc # "idle"
    BY <1>4 DEF CompleteSplitParent, CompleteLast, DeadLetter, At
  <2>2. worker[w].job \in JobIds /\ jobs[worker[w].job] \in Job
    BY <2>1, WorkingThread
  <2>3. \E row : jobs' = SetJob(worker[w].job, row) /\ NotAdded(row, jobs[worker[w].job])
    BY <1>4, <2>2, NotAddedUpdates DEF CompleteSplitParent, CompleteLast, DeadLetter
  <2>. QED  BY <1>a, <2>2, <2>3, SetJobNotAdded
<1>5. ASSUME NEW w \in Workers, NEW s \in Steps, CompleteAndQueue(w, s)
      PROVE  Goal
  <2>. DEFINE i == worker[w].job
              rows == SetJob(i, Completed(jobs[i]))
  <2>1. worker[w].pc # "idle"
    BY <1>5 DEF CompleteAndQueue, At
  <2>2. i \in JobIds /\ jobs[i] \in Job /\ jobs[i].status # "ABSENT" /\ DocOf(w) \in Docs
    BY <2>1, WorkingThread
  <2>3. rows \in [JobIds -> Job]
    BY <2>2, RowUpdates, SetJobEvolves DEF Evolves
  <2>4. Live(rows, d) \subseteq Live(jobs, d)
    <3>1. \A j \in JobIds : NotAdded(rows[j], jobs[j])
      BY <2>2, NotAddedUpdates, SetJobNotAdded
    <3>. HIDE DEF rows
    <3>. QED  BY <3>1, NotAddedLive
  <2>5. jobs' \in QueueNext(rows, DocOf(w), s) /\ DocOf(w) # d
    BY <1>5, <2>1, QuietParts DEF CompleteAndQueue
  <2>. HIDE DEF rows
  <2>6. Live(jobs', d) \subseteq Live(rows, d)
    BY <2>2, <2>3, <2>5, QueueNextLiveSet
  <2>. QED  BY <2>4, <2>6, QuietParts
<1>6. ASSUME NEW w \in Workers, Retry(w)
      PROVE  Goal
  <2>. DEFINE i == worker[w].job
  <2>1. worker[w].pc # "idle" /\ jobs' = SetJob(i, Retried(jobs[i]))
    BY <1>6 DEF Retry, At
  <2>2. i \in JobIds /\ jobs[i] \in Job /\ DocOf(w) = jobs[i].doc
    BY <2>1, WorkingThread
  <2>3. jobs[i].doc # d /\ Retried(jobs[i]).doc = jobs[i].doc
    BY <2>1, <2>2, QuietParts DEF Retried, Job
  <2>4. \A j \in JobIds : jobs'[j].doc = d => jobs'[j] = jobs[j]
    BY <2>1, <2>2, <2>3 DEF SetJob
  <2>. QED  BY <2>4, QuietParts DEF Live
<1>7. ASSUME NEW i \in JobIds, LockExpires(i)
      PROVE  Goal
  <2>1. jobs' = [jobs EXCEPT ![i] = [jobs[i] EXCEPT !.lock = "expired"]]
    BY <1>7 DEF LockExpires
  <2>2. \A j \in JobIds : NotAdded(jobs'[j], jobs[j])
    BY <2>1, NotAddedUpdates
  <2>. QED  BY <1>a, <2>2
<1>8. ASSUME NEW e \in Docs, UploadEnqueue(e)
      PROVE  Goal
  <2>1. jobs' \in QueueNext(jobs, e, "VALIDATE") /\ e # d
    BY <1>8, QuietParts DEF UploadEnqueue, QueueNext
  <2>2. Live(jobs', d) \subseteq Live(jobs, d)
    BY <1>0, <2>1, QueueNextLiveSet
  <2>. QED  BY <2>2, QuietParts
<1>9. ASSUME NEW r \in Requests, CommitRestart(r)
      PROVE  Goal
  <2>. DEFINE D == request[r].docs
              rows == CancelledJobs(jobs, D)
  <2>1. D \subseteq Docs /\ d \notin D
    BY QuietParts DEF IInv, TypeOK, Request
  <2>2. Evolves(rows)
    BY UnchangedEvolves, CancelledEvolves
  <2>3. PICK new \in InsertsFor(D) : jobs' = Insert(rows, new, "VALIDATE")
    BY <1>9 DEF CommitRestart
  <2>4. Live(rows, d) \subseteq Live(jobs, d)
    BY CancelledNotAdded DEF NotAdded, Live
  <2>. HIDE DEF rows
  <2>5. Live(jobs', d) \subseteq Live(rows, d)
    BY <1>0, <2>1, <2>2, <2>3, InsertLiveSet
  <2>. QED  BY <2>4, <2>5, QuietParts
<1>10. ASSUME NEW r \in Requests, CommitReprocessSplit(r)
       PROVE  Goal
  <2>. DEFINE D == request[r].docs
              removed == RemovedJobs(jobs, Parts(D))
              rows == CancelledJobs(removed, D)
  <2>1. PICK e \in Docs : D = {e}
    BY <1>10 DEF CommitReprocessSplit, IInv, SplitRequestsNameOne
  <2>2. Parts(D) \subseteq Docs /\ e # d
    BY <2>1, QuietParts DEF Parts
  <2>3. removed \in [JobIds -> Job] /\ rows \in [JobIds -> Job]
    BY <2>2, RemovedEvolves, CancelledEvolves DEF Evolves
  <2>4. \A j \in JobIds : NotAdded(removed[j], jobs[j])
    BY RemovedNotAdded
  <2>5. jobs' \in QueueNext(rows, e, "VALIDATE")
    BY <1>10, <2>1 DEF CommitReprocessSplit
  <2>. HIDE DEF removed
  <2>6. Live(rows, d) \subseteq Live(removed, d)
    BY <2>3, CancelledNotAdded DEF NotAdded, Live
  <2>7. Live(removed, d) \subseteq Live(jobs, d)
    BY <2>4, NotAddedLive
  <2>. HIDE DEF rows
  <2>8. Live(jobs', d) \subseteq Live(rows, d)
    BY <1>0, <2>2, <2>3, <2>5, QueueNextLiveSet
  <2>. QED  BY <2>6, <2>7, <2>8, QuietParts
<1>11. ASSUME UNCHANGED jobs
       PROVE  Goal
  BY <1>11, QuietParts
<1>12. \A w \in Workers :
         HandlerReturns(w) \/ HandlerRaises(w) \/ CompletionRaises(w) \/ Crash(w)
         => UNCHANGED jobs
  BY DEF HandlerReturns, HandlerRaises, CompletionRaises, Crash
<1>13. \A e \in Docs : UploadInsert(e) \/ UploadCrash(e) \/ SoftDelete(e) => UNCHANGED jobs
  BY DEF UploadInsert, UploadCrash, SoftDelete
<1>14. \A r \in Requests :
         /\ \A e \in Docs : ReadForUploadRetry(r, e) \/ ReadForReprocess(r, e) => UNCHANGED jobs
         /\ \A D \in SUBSET Docs : ReadForBatch(r, D) => UNCHANGED jobs
         /\ RequestAborts(r) => UNCHANGED jobs
  BY DEF ReadForUploadRetry, ReadForReprocess, ReadForBatch, Reads, RequestAborts
<1>15. UNCHANGED vars => UNCHANGED jobs
  BY DEF vars
<1>16. Goal
  <2>. HIDE DEF Goal
  <2>. QED  BY <1>1, <1>2, <1>3, <1>4, <1>5, <1>6, <1>7, <1>8, <1>9, <1>10, <1>11, <1>12,
               <1>13, <1>14, <1>15, NextActions
<1>. QED  BY <1>16, LiveOfRows

LEMMA QuietStaysDeleted ==
  ASSUME IInv, [Next]_vars, NEW d \in Docs, Quiet(d)
  PROVE  doc'[d] \in {"DELETED", "REMOVED"}
<1>. DEFINE Goal == doc'[d] \in {"DELETED", "REMOVED"}
<1>. doc \in [Docs -> DocStatus]
  BY DEF IInv, TypeOK
<1>0. /\ doc[d] = "DELETED"
      /\ \A w \in Workers : worker[w].pc # "idle" => DocOf(w) # d
      /\ \A r \in Requests : d \notin request[r].docs
  BY QuietParts
<1>a. ASSUME doc'[d] = doc[d]
      PROVE  Goal
  BY <1>0, <1>a
<1>b. ASSUME NEW e, e # d, NEW s, doc' = SetStatus(e, s)
      PROVE  Goal
  BY <1>0, <1>b DEF SetStatus
<1>1. ASSUME NEW w \in Workers, NEW k \in JobIds, PollClaims(w, k)
      PROVE  Goal
  <2>1. k \in Claimable(ReapedJobs)
        /\ doc' = [ReapedDocs EXCEPT ![jobs[k].doc] = DuringStatus(jobs[k].step)]
    BY <1>1 DEF PollClaims
  <2>2. ReapedDocs[d] = doc[d] /\ jobs[k].doc # d
    BY <2>1, PollsPassQuiet
  <2>3. doc'[d] = doc[d]
    BY <2>1, <2>2 DEF ReapedDocs
  <2>. QED  BY <1>a, <2>3
<1>2. ASSUME NEW w \in Workers, PollFindsNothing(w)
      PROVE  Goal
  BY <1>2, <1>a, PollsPassQuiet DEF PollFindsNothing
<1>3. ASSUME NEW w \in Workers,
             HandlerReturns(w) \/ CompleteLast(w) \/ DeadLetter(w) \/ \E s \in Steps : CompleteAndQueue(w, s)
      PROVE  Goal
  <2>1. worker[w].pc # "idle"
    BY <1>3 DEF HandlerReturns, CompleteLast, DeadLetter, CompleteAndQueue, At
  <2>2. doc' = doc \/ \E s : doc' = SetStatus(DocOf(w), s)
    BY <1>3 DEF HandlerReturns, CompleteLast, DeadLetter, CompleteAndQueue
  <2>. QED  BY <1>0, <1>a, <1>b, <2>1, <2>2
<1>4. ASSUME NEW w \in Workers, HandlerSplits(w)
      PROVE  Goal
  <2>1. DocOf(w) # d
    BY <1>0, <1>4 DEF HandlerSplits, At
  <2>2. PICK parts \in SUBSET {c \in Docs \ Oversized : doc[c] = "ABSENT"} :
          doc' = [c \in Docs |-> CASE c \in parts -> "UPLOADED"
                                   [] c = DocOf(w) -> "SPLIT_COMPLETE"
                                   [] OTHER -> doc[c]]
    BY <1>4 DEF HandlerSplits
  <2>3. d \notin parts
    BY <1>0
  <2>4. doc'[d] = doc[d]
    BY <2>1, <2>2, <2>3
  <2>. QED  BY <1>a, <2>4
<1>5. ASSUME NEW e \in Docs, UploadInsert(e) \/ SoftDelete(e)
      PROVE  Goal
  BY <1>0, <1>5 DEF UploadInsert, SoftDelete
<1>6. ASSUME NEW r \in Requests, CommitRestart(r)
      PROVE  Goal
  BY <1>0, <1>6 DEF CommitRestart
<1>7. ASSUME NEW r \in Requests, CommitReprocessSplit(r)
      PROVE  Goal
  BY <1>0, <1>7 DEF CommitReprocessSplit
<1>8. ASSUME UNCHANGED doc
      PROVE  Goal
  BY <1>8, <1>a
<1>9. \A w \in Workers :
         HandlerRaises(w) \/ CompleteSplitParent(w) \/ CompletionRaises(w) \/ Retry(w) \/ Crash(w)
         => UNCHANGED doc
  BY DEF HandlerRaises, CompleteSplitParent, CompletionRaises, Retry, Crash
<1>10. /\ \A j \in JobIds : LockExpires(j) => UNCHANGED doc
       /\ \A e \in Docs : UploadEnqueue(e) \/ UploadCrash(e) => UNCHANGED doc
       /\ UNCHANGED vars => UNCHANGED doc
  BY DEF LockExpires, UploadEnqueue, UploadCrash, vars
<1>11. \A r \in Requests :
         /\ \A e \in Docs : ReadForUploadRetry(r, e) \/ ReadForReprocess(r, e) => UNCHANGED doc
         /\ \A D \in SUBSET Docs : ReadForBatch(r, D) => UNCHANGED doc
         /\ RequestAborts(r) => UNCHANGED doc
  BY DEF ReadForUploadRetry, ReadForReprocess, ReadForBatch, Reads, RequestAborts
<1>12. Goal
  <2>. HIDE DEF Goal
  <2>. QED  BY <1>1, <1>2, <1>3, <1>4, <1>5, <1>6, <1>7, <1>8, <1>9, <1>10, <1>11, NextActions
<1>. QED  BY <1>12

\* No thread comes to hold a job of it: threads keep their jobs, jobs their documents.
LEMMA QuietUntouched ==
  ASSUME IInv, [Next]_vars, NEW d \in Docs, Quiet(d), NEW w \in Workers, ~At(w, "idle")'
  PROVE  DocOf(w)' # d
<1>1. ThreadStep(w) /\ Evolves(jobs') /\ worker \in [Workers -> Worker]
  BY ThreadSteps, RowsEvolve DEF IInv, TypeOK
<1>2. \A j \in JobIds : jobs[j].status # "ABSENT" => jobs'[j].doc = jobs[j].doc
  BY <1>1 DEF Evolves, SameJob
<1>3. CASE worker[w].pc # "idle" /\ worker'[w].job = worker[w].job
  <2>1. worker[w].job \in JobIds /\ jobs[worker[w].job].status # "ABSENT"
        /\ jobs[worker[w].job].doc # d
    BY <1>3, WorkingThread, QuietParts
  <2>2. jobs'[worker'[w].job].doc # d
    BY <1>2, <1>3, <2>1
  <2>. QED  BY <2>2 DEF DocOf
<1>4. CASE \E j \in JobIds : PollClaims(w, j) /\ worker'[w].job = j
  <2>1. PICK j \in JobIds : PollClaims(w, j) /\ worker'[w].job = j
    BY <1>4
  <2>2. j \in Claimable(ReapedJobs)
    BY <2>1 DEF PollClaims
  <2>3. jobs[j].doc # d /\ jobs[j].status # "ABSENT"
    <3>1. jobs[j].doc # d
      BY <2>2, PollsPassQuiet
    <3>2. ReapedJobs[j].status \in LiveStatus /\ NotAdded(ReapedJobs[j], jobs[j])
      BY <2>2, ReapedNotAdded DEF Claimable, LiveStatus
    <3>. QED  BY <3>1, <3>2 DEF NotAdded, LiveStatus
  <2>4. jobs'[worker'[w].job].doc # d
    BY <1>2, <2>1, <2>3
  <2>. QED  BY <2>4 DEF DocOf
<1>. QED  BY <1>1, <1>3, <1>4 DEF ThreadStep, At, Idle

\* No request reads it, and nothing inserts it again.
LEMMA QuietUnread ==
  ASSUME IInv, [Next]_vars, NEW d \in Docs, Quiet(d)
  PROVE  upload'[d] # "inserted" /\ \A r \in Requests : d \notin request'[r].docs
<1>. DEFINE Goal == upload'[d] # "inserted" /\ \A r \in Requests : d \notin request'[r].docs
<1>0. /\ doc[d] = "DELETED" /\ upload[d] # "inserted"
      /\ \A r \in Requests : d \notin request[r].docs
      /\ upload \in [Docs -> {"none", "inserted", "enqueued", "crashed"}]
      /\ request \in [Requests -> Request]
  BY QuietParts DEF IInv, TypeOK
<1>a. ASSUME UNCHANGED <<request, upload>>
      PROVE  Goal
  BY <1>0, <1>a
<1>1. ASSUME NEW e \in Docs, UploadInsert(e) \/ UploadEnqueue(e) \/ UploadCrash(e)
      PROVE  Goal
  BY <1>0, <1>1 DEF UploadInsert, UploadEnqueue, UploadCrash
<1>2. ASSUME NEW r \in Requests, NEW op, NEW D, Reads(r, op, D), d \notin D
      PROVE  Goal
  BY <1>0, <1>2 DEF Reads
<1>3. ASSUME NEW r \in Requests, NEW e \in Docs, ReadForUploadRetry(r, e) \/ ReadForReprocess(r, e)
      PROVE  Goal
  <2>1. e # d
    BY <1>0, <1>3 DEF ReadForUploadRetry, ReadForReprocess
  <2>2. \E op : Reads(r, op, {e})
    BY <1>3 DEF ReadForUploadRetry, ReadForReprocess
  <2>. QED  BY <1>2, <2>1, <2>2
<1>4. ASSUME NEW r \in Requests, NEW D \in SUBSET Docs, ReadForBatch(r, D)
      PROVE  Goal
  <2>1. Reads(r, "batch_reprocess", D) /\ d \notin D
    BY <1>0, <1>4 DEF ReadForBatch
  <2>. QED  BY <1>2, <2>1
<1>5. ASSUME NEW r \in Requests, CommitRestart(r) \/ CommitReprocessSplit(r) \/ RequestAborts(r)
      PROVE  Goal
  <2>1. request' = [request EXCEPT ![r] = NoRequest] /\ upload' = upload
    BY <1>5 DEF CommitRestart, CommitReprocessSplit, RequestAborts
  <2>. QED  BY <1>0, <2>1 DEF NoRequest
<1>6. \A w \in Workers :
        /\ \A j \in JobIds : PollClaims(w, j) => UNCHANGED <<request, upload>>
        /\ PollFindsNothing(w) \/ Crash(w) => UNCHANGED <<request, upload>>
        /\ HandlerReturns(w) \/ HandlerSplits(w) \/ HandlerRaises(w) => UNCHANGED <<request, upload>>
  BY DEF PollClaims, PollFindsNothing, Crash, HandlerReturns, HandlerSplits, HandlerRaises
<1>7. \A w \in Workers :
        /\ CompleteSplitParent(w) \/ CompleteLast(w) \/ CompletionRaises(w)
             => UNCHANGED <<request, upload>>
        /\ DeadLetter(w) \/ Retry(w) => UNCHANGED <<request, upload>>
        /\ \A s \in Steps : CompleteAndQueue(w, s) => UNCHANGED <<request, upload>>
  BY DEF CompleteSplitParent, CompleteLast, CompletionRaises, DeadLetter, Retry, CompleteAndQueue
<1>8. /\ \A j \in JobIds : LockExpires(j) => UNCHANGED <<request, upload>>
      /\ \A e \in Docs : SoftDelete(e) => UNCHANGED <<request, upload>>
      /\ UNCHANGED vars => UNCHANGED <<request, upload>>
  BY DEF LockExpires, SoftDelete, vars
<1>9. Goal
  <2>. HIDE DEF Goal
  <2>. QED  BY <1>a, <1>1, <1>3, <1>4, <1>5, <1>6, <1>7, <1>8, NextActions
<1>. QED  BY <1>9

\* What undoes a deletion was under way when it was made: once nothing is, the document
\* stays deleted and nothing starts work on it, whatever the threads and requests do for
\* other documents, until it is removed with its parent (document-routes.ts:1172).
THEOREM DeletionLasts == Spec => QuietDeletionLasts
<1>1. IInv /\ [Next]_vars =>
        [\A d \in Docs :
           doc[d] = "DELETED" /\ ~UnderWay(d) =>
             \/ doc'[d] = "REMOVED"
             \/ doc'[d] = "DELETED" /\ ~UnderWay(d)']_vars
  <2>. SUFFICES ASSUME IInv, [Next]_vars, NEW d \in Docs, Quiet(d)
                PROVE  doc'[d] = "REMOVED" \/ (doc'[d] = "DELETED" /\ ~UnderWay(d)')
    BY DEF Quiet
  <2>1. ~UnderWay(d)'
    BY QuietUnqueued, QuietUntouched, QuietUnread DEF UnderWay
  <2>. QED  BY <2>1, QuietStaysDeleted
<1>. QED  BY <1>1, Invariant, PTL DEF Spec, QuietDeletionLasts

=============================================================================
