--------------------------- MODULE DistrictBatch ---------------------------
(***************************************************************************)
(* Batch jobs of district-court acquisition: the API enqueues them         *)
(* (district-batch-routes.ts), one thread of each worker process runs them *)
(* (batch_worker.py): seeding.py fills the acquisition queue, discovery.py *)
(* asks the portal for guessed case numbers, processing.py makes documents *)
(* of stored texts.  Fetching, modelled in DistrictAcquisition, is here    *)
(* only what it does to the rows these jobs read.                          *)
(***************************************************************************)
EXTENDS Naturals, FiniteSets

CONSTANTS
  BatchJobs,   \* BOUND: district_batch_job rows that are inserted
  Pollers,     \* batch threads, one of each worker process
  Cnrs,        \* BOUND: case numbers
  NoBatchJob

ASSUME BatchAssumption ==
  NoBatchJob \notin BatchJobs /\ IsFiniteSet(Pollers)

VARIABLES
  batchJob,   \* district_batch_job
  poller,     \* what each batch thread is doing: the locals of its job
  caseRow,    \* district_case, which has one row of a case number, whoever inserts it
  enumerated, \* the cases that discovery inserted
  toFetch,    \* the cases with a row in district_acquisition_queue
  stored,     \* the cases with a row in district_text_artifact
  madeOf      \* how many documents were made of that row; document_id is NULL at 0

batchVars == <<batchJob, poller, caseRow, enumerated, toFetch, stored, madeOf>>

-----------------------------------------------------------------------------
JobTypes == {"seed", "discover", "process"}
\* other is not a criminal target; ready is a target that has its text.
CaseState == {"absent", "other", "target", "ready"}

\* result holds the rows that the counts of the job's result count.
BatchJob == [type : JobTypes, attempt : Nat, result : SUBSET Cnrs,
             status : {"absent", "pending", "processing", "succeeded", "failed"}]
NotEnqueued == [type |-> "seed", attempt |-> 0, result |-> {}, status |-> "absent"]

\* todo are the rows selected at the start and still to come, holding the one whose row is
\* locked, found what the portal resolved, counted the rows that the result will count.
Poller == [pc : {"idle", "dispatch", "seed", "discover", "process", "done"},
           job : BatchJobs \cup {NoBatchJob}, todo : SUBSET Cnrs, holding : SUBSET Cnrs,
           found : SUBSET (Cnrs \X {"other", "target"}), counted : SUBSET Cnrs]
IdleBatch == [pc |-> "idle", job |-> NoBatchJob, todo |-> {}, holding |-> {}, found |-> {}, counted |-> {}]

PollerAt(w, pc) == poller[w].pc = pc
TypeOf(w) == batchJob[poller[w].job].type
CasesThat(S) == {c \in Cnrs : caseRow[c] \in S}

-----------------------------------------------------------------------------
(* The queue of batch jobs.                                                *)

EnqueueBatchJob(j, type) ==
  /\ batchJob[j] = NotEnqueued
  /\ batchJob' = [batchJob EXCEPT ![j].status = "pending", ![j].type = type]
  /\ UNCHANGED <<poller, caseRow, enumerated, toFetch, stored, madeOf>>

\* A pending row never has a lock: only the claim sets locked_until.
ClaimableBatch(j) == batchJob[j].status = "pending"

ClaimBatchJob(w, j) ==
  /\ PollerAt(w, "idle") /\ ClaimableBatch(j)
  /\ batchJob' = [batchJob EXCEPT ![j].status = "processing", ![j].attempt = @ + 1]
  /\ poller' = [poller EXCEPT ![w] = [IdleBatch EXCEPT !.pc = "dispatch", !.job = j]]
  /\ UNCHANGED <<caseRow, enumerated, toFetch, stored, madeOf>>

Finish(w, status, rows) ==
  /\ batchJob' = [batchJob EXCEPT ![poller[w].job].status = status,
                                  ![poller[w].job].result = rows]
  /\ poller' = [poller EXCEPT ![w] = IdleBatch]
  /\ UNCHANGED <<caseRow, enumerated, toFetch, stored, madeOf>>

JobSucceeds(w) == PollerAt(w, "done") /\ Finish(w, "succeeded", poller[w].counted)

\* The handler raises, or the report of success does; what was committed stays.  An error
\* with one artifact ends only the transaction of that one: SkipStored.
JobFails(w) ==
  /\ poller[w].pc \in {"dispatch", "seed", "discover", "done"}
  /\ Finish(w, "failed", {})

\* The process dies, or not even the failure can be reported: no one takes the job again.
PollerDies(w) ==
  /\ ~PollerAt(w, "idle")
  /\ poller' = [poller EXCEPT ![w] = IdleBatch]
  /\ UNCHANGED <<batchJob, caseRow, enumerated, toFetch, stored, madeOf>>

(* seed: one transaction, whose rows appear when it commits.               *)

SeedReads(w) ==
  /\ PollerAt(w, "dispatch") /\ TypeOf(w) = "seed"
  /\ \E C \in SUBSET (CasesThat({"target"}) \ toFetch) :
       poller' = [poller EXCEPT ![w].pc = "seed", ![w].todo = C]
  /\ UNCHANGED <<batchJob, caseRow, enumerated, toFetch, stored, madeOf>>

SeedInserts(w) ==
  /\ PollerAt(w, "seed")
  /\ toFetch' = toFetch \cup poller[w].todo
  /\ poller' = [poller EXCEPT ![w].pc = "done", ![w].todo = {}, ![w].counted = poller[w].todo \ toFetch]
  /\ UNCHANGED <<batchJob, caseRow, enumerated, stored, madeOf>>

(* discover: a look at the table, the portal, number by number, and at the *)
(* end the inserts, in one transaction.                                    *)

DiscoverReads(w) ==
  /\ PollerAt(w, "dispatch") /\ TypeOf(w) = "discover"
  /\ \E C \in SUBSET CasesThat({"absent"}) :
       poller' = [poller EXCEPT ![w].pc = "discover", ![w].todo = C]
  /\ UNCHANGED <<batchJob, caseRow, enumerated, toFetch, stored, madeOf>>

\* Found, and classified; or not found, or an error; or a captcha, which ends the search.
Probe(w, c) ==
  /\ PollerAt(w, "discover") /\ c \in poller[w].todo
  /\ \/ \E kind \in {"other", "target"} :
          poller' = [poller EXCEPT ![w].todo = @ \ {c}, ![w].found = @ \cup {<<c, kind>>}]
     \/ poller' = [poller EXCEPT ![w].todo = @ \ {c}]
     \/ poller' = [poller EXCEPT ![w].todo = {}]
  /\ UNCHANGED <<batchJob, caseRow, enumerated, toFetch, stored, madeOf>>

\* ON CONFLICT names the constraint of one source.  A number that the loader has inserted
\* since the look violates the other, on cnr, and undoes the transaction: JobFails.
DiscoverInserts(w) ==
  LET new == {f \in poller[w].found : f[1] \notin enumerated}
  IN /\ PollerAt(w, "discover") /\ poller[w].todo = {}
     /\ \A f \in new : caseRow[f[1]] = "absent"
     /\ caseRow' = [c \in Cnrs |-> IF <<c, "target">> \in new THEN "target"
                                  ELSE IF <<c, "other">> \in new THEN "other" ELSE caseRow[c]]
     /\ enumerated' = enumerated \cup {f[1] : f \in new}
     /\ poller' = [poller EXCEPT ![w].pc = "done", ![w].found = {}, ![w].counted = {f[1] : f \in new}]
     /\ UNCHANGED <<batchJob, toFetch, stored, madeOf>>

(* process: the ids are read first, then one transaction for each.         *)

ProcessReads(w) ==
  /\ PollerAt(w, "dispatch") /\ TypeOf(w) = "process"
  /\ \E A \in SUBSET {c \in stored : madeOf[c] = 0} :
       poller' = [poller EXCEPT ![w].pc = "process", ![w].todo = A]
  /\ UNCHANGED <<batchJob, caseRow, enumerated, toFetch, stored, madeOf>>

LockedRows == UNION {poller[w].holding : w \in Pollers}

\* Trusts the list of ids.
StillUnprocessedTrusted(c) == c \notin LockedRows
StillUnprocessed(c) == c \notin LockedRows /\ madeOf[c] = 0

LockStored(w, c) ==
  /\ PollerAt(w, "process") /\ poller[w].holding = {}
  /\ c \in poller[w].todo /\ StillUnprocessed(c)
  /\ poller' = [poller EXCEPT ![w].todo = @ \ {c}, ![w].holding = {c}]
  /\ UNCHANGED <<batchJob, caseRow, enumerated, toFetch, stored, madeOf>>

\* Another job has the row, or had it; or this transaction raised and was rolled back.
SkipStored(w, c) ==
  /\ PollerAt(w, "process")
  /\ \/ poller[w].holding = {} /\ c \in poller[w].todo /\ ~StillUnprocessed(c)
     \/ poller[w].holding = {c}
  /\ poller' = [poller EXCEPT ![w].todo = @ \ {c}, ![w].holding = {}]
  /\ UNCHANGED <<batchJob, caseRow, enumerated, toFetch, stored, madeOf>>

ProcessStoredArtifact(w, c) ==
  /\ PollerAt(w, "process") /\ poller[w].holding = {c}
  /\ madeOf' = [madeOf EXCEPT ![c] = @ + 1]
  /\ caseRow' = [caseRow EXCEPT ![c] = "ready"]
  /\ poller' = [poller EXCEPT ![w].holding = {}, ![w].counted = @ \cup {c}]
  /\ UNCHANGED <<batchJob, toFetch, stored, enumerated>>

ProcessEnds(w) ==
  /\ PollerAt(w, "process") /\ poller[w].todo = {} /\ poller[w].holding = {}
  /\ poller' = [poller EXCEPT ![w].pc = "done"]
  /\ UNCHANGED <<batchJob, caseRow, enumerated, toFetch, stored, madeOf>>

(* What others do to the same rows: the loader of published metadata, the  *)
(* fetch-judgment request and the acquisition threads.                     *)

\* The row of a number that discovery has inserted makes the load fail.
LoadCase(c, kind) ==
  /\ caseRow[c] = "absent" /\ kind \in {"other", "target"}
  /\ caseRow' = [caseRow EXCEPT ![c] = kind]
  /\ UNCHANGED <<batchJob, poller, enumerated, toFetch, stored, madeOf>>

RequestFetch(c) ==
  /\ caseRow[c] = "target" /\ c \notin toFetch
  /\ toFetch' = toFetch \cup {c}
  /\ UNCHANGED <<batchJob, poller, caseRow, enumerated, stored, madeOf>>

\* A hit; the trigger on district_text_artifact promotes the case.
StoreFetched(c) ==
  /\ c \in toFetch \ stored
  /\ stored' = stored \cup {c}
  /\ caseRow' = [caseRow EXCEPT ![c] = "ready"]
  /\ UNCHANGED <<batchJob, poller, toFetch, madeOf, enumerated>>

-----------------------------------------------------------------------------
BatchInit ==
  /\ batchJob = [j \in BatchJobs |-> NotEnqueued]
  /\ poller = [w \in Pollers |-> IdleBatch]
  /\ caseRow = [c \in Cnrs |-> "absent"]
  /\ enumerated = {} /\ toFetch = {} /\ stored = {} /\ madeOf = [c \in Cnrs |-> 0]

RunBatchJob(w) ==
  \/ SeedReads(w) \/ DiscoverReads(w) \/ ProcessReads(w)
  \/ SeedInserts(w) \/ DiscoverInserts(w) \/ ProcessEnds(w)
  \/ \E c \in Cnrs :
       Probe(w, c) \/ LockStored(w, c) \/ SkipStored(w, c) \/ ProcessStoredArtifact(w, c)

BatchNext ==
  \/ \E j \in BatchJobs, type \in JobTypes : EnqueueBatchJob(j, type)
  \/ \E w \in Pollers :
       \/ \E j \in BatchJobs : ClaimBatchJob(w, j)
       \/ RunBatchJob(w) \/ JobSucceeds(w) \/ JobFails(w) \/ PollerDies(w)
  \/ \E c \in Cnrs, kind \in {"other", "target"} : LoadCase(c, kind)
  \/ \E c \in Cnrs : RequestFetch(c) \/ StoreFetched(c)

BatchSpec == BatchInit /\ [][BatchNext]_batchVars

-----------------------------------------------------------------------------
(* Properties.                                                             *)

\* Types of the variables.
BatchTypeOK ==
  /\ batchJob \in [BatchJobs -> BatchJob]
  /\ poller \in [Pollers -> Poller]
  /\ caseRow \in [Cnrs -> CaseState]
  /\ enumerated \subseteq Cnrs /\ toFetch \subseteq Cnrs /\ stored \subseteq Cnrs
  /\ madeOf \in [Cnrs -> Nat]

Enqueued == {j \in BatchJobs : batchJob[j].status # "absent"}

\* What the result of a job counts, or will when its thread gets there.
CreditOf(j) ==
  batchJob[j].result \cup UNION {poller[w].counted : w \in {v \in Pollers : poller[v].job = j}}

\* What jobs of a type bring about.
BroughtAbout(type) ==
  CASE type = "seed" -> toFetch
    [] type = "discover" -> enumerated
    [] type = "process" -> {c \in Cnrs : madeOf[c] = 1}

\* How often the job was started and its thread still runs it or came to its end.
RunsOf(j) ==
  Cardinality({w \in Pollers : poller[w].job = j})
    + (IF batchJob[j].status \in {"succeeded", "failed"} THEN 1 ELSE 0)

\* Two jobs never take credit for one row, whatever they selected together, lost to a request
\* or the loader meanwhile, or left behind in a crash: the results that the jobs of a type
\* show add up to no more than there is, a stored text becomes one document, and no job is run
\* a second time (rowcount of _QUEUE_INSERT and _CASE_INSERT; _LOCK_ROW; the claim).
BatchResultsAddUp ==
  /\ \A c \in Cnrs : madeOf[c] <= 1
  /\ \A j \in Enqueued :
       /\ RunsOf(j) <= batchJob[j].attempt /\ batchJob[j].attempt <= 1
       /\ CreditOf(j) \subseteq BroughtAbout(batchJob[j].type)
       /\ \A k \in Enqueued \ {j} :
            batchJob[k].type = batchJob[j].type => CreditOf(j) \cap CreditOf(k) = {}
=============================================================================
