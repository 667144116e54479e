# Generic-RAG-app: models, checks and proofs

This directory holds TLA+ models of the parts of Generic-RAG-app where several
processes share state: what they model, what TLC checks on small instances and
what TLAPS proves for all of them. Every definition is translated from the
source; `PROJECT.json` maps each one to the file and lines it stands for.

Contents: 1 inventory, 2 hard behaviours, 3 modules and plan, 4 IngestionQueue,
5 ChunkStore, 6 DistrictAcquisition and DistrictBatch, 7 Ask, 8 WorkflowEngine, 9 LlmProvider,
10 ConfigGovernance and Idempotency, 11 Uploads and Chat, 12 what the runs
refute, 13 bounds and fairness, 14 proofs, 15 what is not modelled, 16 how to run.

## 1. Inventory

The program is an API (`apps/api`, TypeScript, Fastify), a worker (`apps/worker`,
Python, polling threads), shared packages (`packages/*`) and a web client. API
and worker communicate through PostgreSQL only: the API inserts rows, the
worker's threads claim them with `FOR UPDATE SKIP LOCKED`, and neither ever waits
for the other.

| Component | State | Operations | What makes it correct | Module |
|---|---|---|---|---|
| Ingestion queue (`job_poller.py`) | `ingestion_job`, `document.status`; a thread's locals `job`, `attempt` | claim, reap stale jobs, run a handler, complete and queue the next step, retry, dead-letter, crash | no document is stranded; a job is given up only when its attempts are used; one pipeline per document; a searchable document ran every step; the queue drains | IngestionQueue |
| Document requests (`document-routes.ts`, `ingestion-routes.ts`) | the same rows; what a request has read | upload, re-upload of a failed file, reprocess, batch reprocess, soft delete | a restart forks no pipeline; a deleted document stays deleted; a content that is there is not stored again | IngestionQueue, Ask, Uploads |
| PDF splitting (`pdf_splitter.py`) | part documents, `parent_document_id`, SPLIT_COMPLETE | persist the parts and their first jobs in one transaction | the parent stops where its parts start; the parts partition the pages | IngestionQueue (not the page arithmetic) |
| Derived data (`chunker.py`, `embedder.py`, `kg_extractor.py`) | `chunk`, `extraction_result`, graph tables | delete and insert chunks, embed, extract | what retrieval returns belongs to one run of the pipeline and is embedded; citations refer to chunks that exist | ChunkStore, Ask (not the graph) |
| District acquisition (`district/acquisition_worker.py`, `rate_governor.py`, `seeding.py`, `district-analytics-routes.ts`) | `district_acquisition_queue`, `district_case.text_status`, `district_text_artifact`, `district_fetch_attempt` | poll, reap, ask the governor, fetch, report, request a fetch, seed | acquired text stays visible; the daily limit; one fetch per row; every row ends | DistrictAcquisition |
| District processing and batch jobs (`processing.py`, `batch_worker.py`, `discovery.py`, `district-batch-routes.ts`) | `district_batch_job`, artifacts without a document; a batch thread's list of ids | enqueue, claim, seed, discover, process, finish | one document per artifact; a job runs once; the results of jobs add up | DistrictBatch (`ProcessStored` in DistrictAcquisition) |
| Retrieval, conversations, answer cache (`retrieval/pipeline.ts`, `cache.ts`, `rag-routes.ts`, `conversation-routes.ts`) | `conversation`, `message`, `citation`, `answer_cache`; a request's locals | ask, follow up, regenerate, answer from the cache; patch, archive, delete a conversation; invalidate | counts agree with rows; an answer stays in the cases asked about; the user's filters stay the user's; an archived conversation does not grow; no citation is left behind | Ask, CaseScopes |
| Workflow engine, SLA scheduler, tasks (`packages/workflow-engine`, `api-core`) | entity state and version, tasks, audit trail | transition with guards, create and close tasks, hooks, escalate | the engine implements its contract: one move at a time, each in the audit trail; tasks belong to the current state | WorkflowContract, WorkflowEngine |
| LLM provider (`llm-provider.ts`, `llm-config-routes.ts`) | provider rows, system prompts, caches and circuit breaker in memory | complete; create and change providers; new prompt | one default; each instance's cache follows the table; one active prompt; the circuit opens on sustained failures | LlmProvider |
| Configuration governance | versions and their status | create, submit, approve, publish, roll back | maker is not checker; one published version | ConfigGovernance |
| Idempotency middleware | key, stored answer, expiry | look up, store, expire, clean up | a request takes effect once | Idempotency |
| Web client: uploads (`DocumentUpload.tsx`, `lib/api.ts`) | the list, a batch's locals, a session flag | add, remove, upload with retries, refresh the session | what leaves the list is stored; no redirect during an upload | Uploads |
| Web client: chat (`ChatPanel.tsx`, `QueryPage.tsx`) | conversation shown, mutation, hidden messages | ask, regenerate, switch | answers show up where they belong; nothing stays hidden | Chat |
| Authentication | failed-login counter, sessions, revoked tokens | log in, refresh, log out | the lock-out counts every failure; a revoked token is refused | none |
| Connectors (`api-integrations`) | schedules, retries, dead letters | run, retry, give up | backoff bounds; nothing is lost on the way to the dead letter | none |
| Reports, dashboards, administration, access control, the rest of the web client | none shared, or single-statement CRUD | | | none, see section 15 |

Interaction: uploads, reprocess requests and Stage 2 insert VALIDATE jobs;
poller threads turn one job into the next until EMBED and KG_EXTRACT; retrieval
reads the chunks of documents whose status is SEARCHABLE, KG_EXTRACTING or
ACTIVE, and its citations refer to those chunks while reprocessing deletes them.
Stage 1 of district acquisition feeds Stage 2, which feeds the ingestion queue
like an upload does. The workflow engine, configuration governance and the
idempotency middleware are library code: no application in the repository
registers them, so they are modelled by what they do for any caller.

## 2. Hard behaviours

- A lock (`locked_until`) is a time, not a database lock. A handler that runs
  longer is still running when its job is reclaimed, and both threads report by
  row id alone.
- Requests read outside the transaction in which they act. What they read may
  have changed.
- A worker process can die between any two transactions; only the reaper finds
  its rows, and only if they carry an expired lock.
- Two statements of an upload, a split and its completion, a claim and the
  report of a fetch, the INSERT of a message and its count, unset and set of a
  default, supersede and publish: pairs of transactions with a gap between.
- Counters that gate (attempts, the daily limit) are read by several threads
  before any of them writes.
- A batch job reads a list of ids in one transaction and works on it in others,
  beside other jobs, requests and the loader.
- A question takes a dozen awaits, none in a transaction, and the conversation,
  the cache and the documents change under it.
- Caches in memory (LLM configuration) belong to one of several instances of the
  API, and are cleared by a request to that one, maybe while a SELECT that fills
  them is under way.
- The browser retries what the server may still be doing, and callbacks of a
  question outlive the conversation that it was asked in.

`PROJECT.json` lists each hazard at its line, with the properties that cover it.

## 3. Modules and plan

| Module | Extends or instantiates | Checked by (MC module) | Proofs |
|---|---|---|---|
| IngestionQueue | | MCIngestionQueue, MCConvergence | IngestionQueueProofs, OrderlyProofs |
| ChunkStore | EXTENDS IngestionQueue, refines it | MCChunkStore | OrderlyProofs |
| DistrictAcquisition | | MCDistrictAcquisition, MCDistrict, MCConvergence | DistrictProofs |
| DistrictBatch | | MCDistrict | DistrictProofs |
| CaseScopes | | (by Ask) | CaseScopesProofs |
| ConversationContract | | (by Ask) | |
| Ask | EXTENDS CaseScopes, INSTANCE ConversationContract WITH a refinement mapping | MCAsk | AskProofs |
| WorkflowContract | | (by WorkflowEngine) | |
| WorkflowEngine | INSTANCE WorkflowContract WITH a refinement mapping | MCOffice | WorkflowProofs |
| LlmProvider | | MCOffice | ApiCoreProofs |
| ConfigGovernance | | MCOffice | ApiCoreProofs |
| Idempotency | | MCOffice | ApiCoreProofs |
| Uploads | | MCOffice | OfficeProofs |
| Chat | | MCOffice | OfficeProofs |

Three abstract specifications: WorkflowContract, which WorkflowEngine implements
(`MovesAreAudited` is the contract's specification), ConversationContract, which
Ask implements (`ConversationsAreExchanges`), both checked and proved, and
IngestionQueue itself, which ChunkStore implements
(`ChunkStoreImplementsQueue`), so that every theorem about the queue holds of
it too.

OfficeProofs also shows that each of the six parts that MCOffice composes keeps to
its own specification there.

What is left, in this order: *PdfSplit* (the page partition against a reference
definition), *AuthSession*, *ConnectorDelivery*, the graph tables beside
ChunkStore; an abstract specification of the acquisition queue.

## 4. IngestionQueue

`IngestionQueue.tla` models the tables `document` (its status and parent) and
`ingestion_job`, any number of poller threads, and the requests that feed the
queue. One action is one database transaction, or one statement outside one.

| Code | Model |
|---|---|
| `document.status`, `parent_document_id` | `doc`, `parent`; ABSENT before the insert, REMOVED after a DELETE |
| `ingestion_job` rows | `jobs[j]` with document, step, status, attempt and `lock`, which abstracts `locked_until` to NULL, future or past |
| `poll_once`'s locals | `worker[w]`: idle, running, returned or raised, the job id, its copy of `attempt` |
| `_reclaim_stale_processing_jobs` and the claim, one transaction | `PollClaims`, `PollFindsNothing` |
| `STEP_HANDLERS[step]` | `HandlerReturns`, `HandlerRaises`, and `HandlerSplits` for a PDF that is too large |
| completion | `CompleteAndQueue`, `CompleteLast`, `CompleteSplitParent`; `CompletionRaises` when it rolls back |
| the `except` clause | `DeadLetter`, `Retry` |
| a process that dies | `Crash` |
| time passing `locked_until` | `LockExpires` |
| upload | `UploadInsert`, `UploadEnqueue`, `UploadCrash` (two statements) |
| re-upload, reprocess, batch reprocess | `ReadFor...`, then `CommitRestart` or `CommitReprocessSplit`, or `RequestAborts` |
| delete | `SoftDelete` |

Abstractions, each in the direction of more behaviours:

- The reaper takes all stale rows (the code: up to 100, skipping locked ones),
  and a poll claims any claimable row: `created_at` is the start of the
  inserting transaction, and SKIP LOCKED passes over the oldest row while
  another transaction holds it.
- Whether KG extraction is enabled is chosen anew at each completion.
- The statements of one transaction are one step. Row locks together with
  READ COMMITTED's re-evaluation make the claims and completions serializable;
  the exception is the test of SPLIT_COMPLETE, which reads a row it has not
  locked, and there two late threads could differ from the model.
- A worker locks the job, then the document; a restart locks the document, then
  its jobs. PostgreSQL aborts one of two transactions that deadlock:
  `CompletionRaises` and `RequestAborts` are that outcome.
- Parts are assumed to be below the split threshold. A part's row that was
  deleted keeps its document and step in the model, because the thread that runs
  its job has copies of both.
- Middle steps of the pipeline that differ only in their names are left out in
  the runs (`Steps`); the theorems of section 14 hold for every choice of them,
  all ten included.
- `NonRetryableJobError` cannot happen: every step that is queued has a handler.
- Stage 2 and the AWS import insert a document and a VALIDATE job together,
  which `UploadInsert` followed by `UploadEnqueue` covers.

| Run | Question | Result |
|---|---|---|
| `late` | Two threads whose locks may expire under them, reprocess and batch reprocess, two attempts: what may late writers do? | types hold; no document is stranded; dead-lettered jobs used all attempts; attempts stay below twice the limit; a pipeline forks only through a thread that lost its job or an upload overtaken by a batch reprocess |
| `split` | A PDF is split while it and its parts are re-uploaded, reprocessed and deleted under two threads | from the split to its completion, while nobody else works on the parent, no later step of it is queued, and the mark that stops it goes only by a soft delete or with the thread's job; a deleted document that no job, thread, request or half-done upload is about stays deleted and is left alone |
| `converges` | Fair threads, crashes, expiring locks | every uploaded document settles and its queue drains |
| `deleted` | refutes a statement of the repository, section 12 | |

The case in which locks outlive handlers is the run `orderly`, of the module
below, which holds the queue's steps. `converges` is of `MCConvergence.tla`, which
sets this queue beside Stage 1 of section 6: a behaviour is of one `half`, chosen at
the start, and only the threads and clocks of that half are fair.

## 5. ChunkStore

`ChunkStore.tla` EXTENDS IngestionQueue with the table `chunk`. A step of it is a
step of the queue, with what CHUNK, EMBED and a restart do to the rows, or a
statement of a handler that the queue does not see.

| Code | Model |
|---|---|
| `chunk` rows of a document | `chunks[d]`; the rows of one INSERT are one element, which names the run of CHUNK (job and attempt) and whether all of them are embedded |
| `chunk_document`'s DELETE and INSERT, one transaction | `ChunkDeletes` notes the committed rows, `ChunkInserts` replaces them: rows that another run commits in between stay |
| `embed_chunks` | `EmbedSelects` (what has a NULL embedding), `EmbedUpdates` |
| end of the handler | `HandlerDone`: CHUNK and EMBED return only after their last statement |
| `clearRetryDerivedState` in a restart | `ChunksCleared` |

| Run | Question | Result |
|---|---|---|
| `orderly` | Locks outlive handlers, a full pass of five steps (VALIDATE, SPLIT, CHUNK, EMBED, KG_EXTRACT) with failures, crashes and a restart of the FAILED document: do pipelines fork, do they skip a step, is anything served that is not embedded? | one live job per document; a FAILED document has none; a searchable document completed every step; its chunks are of one run and embedded |

With locks that expire under handlers the last property does not hold: a late
CHUNK followed by a crash leaves chunks without embeddings in a document that is
already SEARCHABLE. Retrieval then leaves them out (`embedding IS NOT NULL`), and
no text of the repository promises otherwise, so no run refutes it.

## 6. DistrictAcquisition and DistrictBatch

`DistrictAcquisition.tla` models Stage 1: `district_acquisition_queue` has one
row per case and source, acquisition threads claim rows, call the source with no
transaction open, and report what it answered. `rate_governor.py` pauses eCourts
by what is on record.

| Code | Model |
|---|---|
| `district_acquisition_queue` | `queue[<<case, source>>]`: status, attempt, `lock` as above, `wait` for `next_attempt_at` in the future |
| `district_case.text_status` | `text` |
| `district_text_artifact` | `artifact`: whose text, and whether `document_id` is set |
| `district_fetch_attempt` | `logged` (rows per case and source), `spent` (eCourts since midnight), `recent` (eCourts outcomes of the last hour) |
| `poll_once` | `PollAsks` (the governor's SELECTs), then `PollClaims` or `PollFindsNothing` with the answer it got |
| `_persist_result`, `_persist_exception` | `PersistResult`, `PersistException` |
| the trigger of migration 029 and the guarded UPDATE after it | `TextAfterTrigger`, `TextAfter` |
| `fetch-judgment` | `ClickReadsCase`, `ClickPlans`, `ClickTargets`, `ClickQueues` once per source, `ClickEnds` |
| `seed_from_existing_cases` | `SeedSelects`, `SeedCommits`, `SeedDies` |
| `process_stored_artifact` | `ProcessStored` |
| time | `LockExpires`, `BackoffEnds`, `AttemptLeavesHour`, `Midnight` |

The governor's counts are read by a statement before the claim, so the poll has
two steps. The reaper's UPDATE, which comes first in the code, takes effect with
the claim's commit. The claim may take any claimable row, as above. A poll that
dies before its claim has changed nothing, so only a thread that fetches
crashes. Sources other than hldc answer any outcome their client can return
(`Outcomes`; `Answers` restricts it in a run). `duplicate` and `ocr_failed` are
returned by no client.

`DistrictBatch.tla` models the batch jobs. `district-batch-routes.ts` inserts them,
and one batch thread of each worker process claims and runs them.

| Code | Model |
|---|---|
| `district_batch_job` | `batchJob[j]`: type, status, attempt, and as `result` the set of rows that the counts of the code's result count |
| the claim in `poll_batch_once`, `_finish`, an exception, a process that dies | `ClaimBatchJob`, `JobSucceeds`, `JobFails`, `PollerDies` |
| a batch thread's locals | `poller[w]`: the job, the ids selected (`todo`), the row it has locked, what the portal resolved, what it will count |
| seeding, one transaction | `SeedReads`, `SeedInserts` |
| discovery: look, portal, inserts | `DiscoverReads`, `Probe` per number, `DiscoverInserts` |
| Stage 2: read the ids, then one transaction each | `ProcessReads`, `LockStored`, `SkipStored`, `ProcessStoredArtifact`, `ProcessEnds` |
| the loader of published metadata, `fetch-judgment`, Stage 1 | `LoadCase`, `RequestFetch`, `StoreFetched` |

A case has at most one text here. A pending row never has a lock, because only the
claim sets one, so the claim's test of `locked_until` is left out; and nothing
resets a processing row, so the job of a thread that died stays processing for
ever. The inserts of discovery name one of two unique constraints in ON CONFLICT:
a number that the loader inserted meanwhile violates the other, undoes the whole
insert and fails the job.

The two modules write one queue, but each needs only a few steps of the other:
Stage 1 sees Stage 2 as `ProcessStored` and seeding as `SeedCommits`; batch jobs
see Stage 1 as `RequestFetch` and `StoreFetched`. `MCDistrict` therefore checks
them side by side: a behaviour is of one `half`, chosen at the start.

| Run | Question | Result |
|---|---|---|
| `acquisition_late` | Locks may expire, two sources, a forced request, seeding, Stage 2; and two batch jobs of any types that two threads run beside requests and the loader | types hold; `succeeded` and `text_ready` have an artifact behind them; a case with text stays text_ready or blocked; a row fails only with its attempts used; no two batch jobs count one row, a text becomes one document, no batch job runs twice |
| `acquisition_orderly` | Locks outlive fetches, two cases, a forced request, a daily limit of one, every answer, both stop rules | one thread per row; the limit is exceeded by at most one attempt less than there are threads |
| `converges` | Its other half (section 4): fair threads, crashes, expiring locks, a daily limit of one | every queued row ends |
| `acquisition_unlogged` | refutes a statement of the repository, section 12 | |

## 7. Ask and CaseScopes

`Ask.tla` models POST /query: `executeRetrievalPipeline` from the archived check
to the stored trace, beside the requests that patch, archive and delete
conversations, edit, delete, reprocess and batch reprocess documents, and the
worker that chunks them again. One action is one await with the code up to the
next; a request holds no transaction. `CaseScopes.tla` has the pure functions
at the end of `pipeline.ts` that tie a question to police cases and cut the
evidence down to them. It sorts by rank (`InOrder`) and selects (`Kept`,
`Filtered`) with definitions of its own that the provers can expand; `RanksSort` in
MCAsk has TLC compare them with the library's SetToSortSeq and SelectSeq.

| Code | Model |
|---|---|
| `conversation`, `message` | `conversation[c]`: state, archived, number of message rows, `message_count`, `pinned_filters` (the resolved case scope, and `own` for what the user set) |
| `citation`, `chunk`, `document` | `citation`, `chunk`, `document`; a chunk row is named by its document and generation, as reprocessing makes new ones |
| `answer_cache` | `cache`: the scope key, and for each mark [n] of the text the chunk it was written for |
| locals of the pipeline | `request[r]` |
| archived check, pinned filters, save and count the question | `CheckArchived`, `ReadPinned`, `SaveQuestion`, `CountQuestion`, `WritePinned` |
| case resolution, cache lookup | `FindScope`, `LookUp` (with `Renumbered`, which the hit path does to citations) |
| entity detection, retrieval, case filter, generation | `Detect`, `Retrieve`, `Screen`, `Generate` |
| save and count the answer, citations, cache, trace | `SaveAnswer`, `CountAnswer`, `SaveCitations`, `Store`, `PersistTrace` |
| an error between two awaits | `Throw` |
| other requests | `PatchConversation`, `DeleteConversation`, `PatchDocument`, `DeleteDocument`, `ReprocessDocument`, `BatchReprocess`, `InvalidateCache` |
| the worker | `MakeChunks`, which fails when a citation still refers to a chunk that it deletes; `WorkerFails` |

`ConversationContract.tla` is what those who read a conversation may rely on: a
request adds its question and then one answer, each once at most; one that
regenerates an answer adds no question; nothing is added to a conversation that
is gone, nor by a request that found it archived. Ask implements it: `Talks`
forgets the counter and the filters of a conversation, and `PhaseOf` maps the
eighteen steps of a request to six phases (asking or repeating, open, asked,
answered, closed) or to failed. A request to regenerate that names no conversation
makes one and asks nothing in it (`AskNew`; `rag-routes.ts:99-101` does not refuse
it): it begins where the question is already asked. Clarifications, answers from
the cache and the fixed texts are answers like any other there.

Abstractions: questions are similar enough for the cache; workspace, preset,
mode and access signature are the same in all of them; what retrieval ranks is
any choice of the searchable chunks, up to MaxChunks; what entity detection and
scope expansion find is any of `Detected`; the text of an answer is the chunks
its marks refer to. Years have one length, so that the specificity of a scope is
having one or not.

| Run | Question | Result |
|---|---|---|
| `answers` | Two requests in one conversation, about cases and as follow-ups, regenerated or from the cache, beside a change of the conversation or its documents | `message_count` misses only what is between its two statements; answers rest on evidence of the cases resolved; reprocessed documents have no citations; the user's filters change by PATCH or by a request that read older ones; and a conversation is a series of exchanges, as its contract says |
| `cached` | refutes a statement of the repository, section 12 | |

## 8. WorkflowEngine

`WorkflowContract.tla` is what the engine promises: an entity moves along one
transition of its definition at a time, from the state it is in, by an actor who
may take it, and the audit trail has the move in the same step.
`WorkflowEngine.tla` is `executeTransition` await by await, with the transaction
manager, the action on a task (`task-routes.ts`) and the SLA sweep
(`sla-scheduler.ts`) as its callers. `Contract == INSTANCE WorkflowContract WITH
where <- the committed states, history <- the committed audit trail` is the
refinement mapping.

| Code | Model |
|---|---|
| `loadEntityForUpdate`, checks and guards | `Load`, `LockTimeout`; guards are the actors that they admit |
| `updateEntityState` with version, side effects and tasks, audit | `Update`, `Work` (`CreatedTasks`, then `CompletedTasks`), `WriteAudit`, `Raise` |
| commit, post-commit hooks | `Commit`, `RunHooks` |
| a caller's transaction | `joined`, `CallerCommits`, `CallerRollsBack` |
| process death | `Dies` |
| `POST /tasks/:id/actions` | `ActOnTask` |
| the sweep | `ListOverdue`, `Escalate`, `EscalationReturns` |

The storage, task and audit adapters are not in the repository; the module's
comment says what is assumed of them (a row lock to the end of the transaction,
tasks named by state). `CarefulCallers` says that a caller with a transaction of
its own rolls back when a call reports failure: the engine swallows the error of
a joined call after its UPDATE (`engine.ts:301-343`), and a caller that commits
all the same leaves a move without an audit event. The properties hold, and are
proved, for careful callers; the repository has no caller with a transaction.

## 9. LlmProvider

`llm-provider.ts` keeps a cached configuration per use case, a default, and a
circuit breaker per host, all in the memory of the process. The deployment runs up
to ten (`scripts/setup-cloudrun.sh:151-152`), so all three are per instance here,
and any instance may get any call. `llm-config-routes.ts` changes the rows one
statement at a time and then clears the caches of the instance that handles the
request.

| Code | Model |
|---|---|
| `llm_provider_config`, `llm_system_prompt` | `provider`, `prompts` |
| `cachedConfig`, `useCaseCache` with their age, in one instance | `cachedConfig[i]`; `missed` (history) is the requests that have changed the table since the entry was read |
| `circuitState`, in one instance | `circuit[i]`: failures, whether it cools down, and (history) how many calls have failed with no success between them |
| `llmComplete` | `Complete`, `SelectConfig`, `KeepConfig`, `FetchEnds`; `ConfigExpires`, `CooldownEnds` |
| POST and PATCH of a provider | `ChangeProvider`, `UnsetDefault`, `WriteProvider`, `ProviderNotFound`, `InvalidateProviderCache` |
| a new prompt | `ChangePrompt`, `DeactivatePrompts`, `InsertPrompt` |
| an error between statements | `AdminFails` |

What CachedConfigIsCurrent can say is what a request achieves: after it, the instance
that handled it serves what the table names, and every entry that it has not reached
names a request to blame. On the other instances the old provider is served until
the entry expires (`CACHE_TTL_MS`, a minute; time is not measured here). An instance
that is started or replaced is one whose entries have expired. Rows changed with
SQL by hand are not in the model.

| Run | Question | Result |
|---|---|---|
| `breaker` | refutes a statement of the repository, section 12 | |

Two instances, a completion and two administrators at once are in the run `office`,
section 11. What it shows of the caches: an instance has cached only what the table
names, or what a request has changed and not cleared: on the other instance, before
it comes to clear, or through a SELECT that it overtook or that failed.

## 10. ConfigGovernance and Idempotency

`ConfigGovernance.tla`: `CreateVersion` and `InsertVersion` (the next number is
read first), `SubmitVersion`, `ApproveVersion`, `PublishVersion` with
`SupersedePublished` and `PublishApproved`, `RollBack` with `Republish`, and
`GovFails` between two statements. `peak` is history: the most requests ever
under way together, which bounds how many versions can be published at once.

`Idempotency.tla` follows the attempts of clients that carry one key:
`LookUpKey` (onRequest; a failed SELECT is as if there were no key), `Handle`,
`StoreAnswer` (onResponse, after the answer was sent, ON CONFLICT DO NOTHING),
`AnswerLost`, `KeyExpires`, `CleanUp`.

## 11. Uploads and Chat

`Uploads.tla` puts `handleUploadFiles` of `DocumentUpload.tsx` (runners, retries,
session refresh, the end of a batch) against the upload route, whose look for a
duplicate and INSERT are two statements. The list compares what is added with
nothing (`DocumentUpload.tsx:184-187, 352`, and a folder may hold anything), so
`contentOf` gives its entries contents that may be equal, and two runners of one
batch may send one content at once. `visit` counts visits of the page: a
batch goes on when its user leaves, and shares `_uploadInProgress` with the batch
of the next visit. A 401 that finds the flag cleared loads the application anew.
Of other users only the requests are modelled (`Elsewhere`).
Actions: `AddFile`, `RemoveFiles`, `StartUpload`, `LeavePage`; `TakeFile`,
`GiveUp` (timeout; the server goes on); `EndUpload`, `ClearList`;
`UploadElsewhere`; `ServerChecks`, `ServerStores`, `ServerRefuses` with `Answer`.

A document here is one that blocks a second upload: documents that are FAILED or
DELETED, which the look passes over or recovers, are in IngestionQueue. The dialog
that would force a duplicate is never opened (`setDuplicateFile` is only ever
called with null), so no request is forced.

`Chat.tla` is ChatPanel in QueryPage: one react-query mutation at a time is
attached to the panel, and the callbacks of a detached one run all the same, in
the closure of the last render that it was attached in. Actions: `HandleSend`,
`HandleRegenerate`, `Select`, `Refetch`, `ServerAnswers`, `Succeeds`, `Fails`.
Callbacks, render and effects are one step.

Sections 8 to 11 share the run `office` of `MCOffice.tla`, the union of six parts
that have no state in common: `active` is chosen at the start and never changes,
and the others stay in their first state.

| Part of `office` | What is checked |
|---|---|
| workflow | `MovesAreAudited` (the contract, as a refinement); hooks only for moves in the audit trail; a state that requires a task has one |
| llm | two defaults only from requests that overlapped, none only from a request that cleared it or stopped; what an instance has cached is what the table names, but for the exceptions of section 9; the newest prompt is active |
| config | no more versions published than requests overlapped, each approved by another than its author |
| key | work on record is not repeated, unless the look-up failed or the row had expired |
| uploads | a content is stored again only by requests that had looked before it was first stored, two of one entry only when the client had given up the earlier one; what leaves the list is stored; no redirect during an upload but for another visit's end |
| chat | the early answer belongs to the conversation shown; what is hidden is being replaced |

## 12. What the runs refute

Four runs check a statement of the repository that the code does not keep; TLC's
trace is the schedule. `PROJECT.json` quotes the lines.

| Run | The repository says | What happens |
|---|---|---|
| `deleted` | DELETED is terminal (`document-workflow.ts:26`) | soft delete leaves the jobs; the next claim or completion overwrites the status |
| `acquisition_unlogged` | every eCourts attempt is in `district_fetch_attempt` (`plan-district-judgment-fetch.md:116`) | a thread that dies while fetching, and the reaper after it, write none |
| `cached` | numbered references link to the passages that support the answer (`PROJECT_SUMMARY.md:65`) | the hit path numbers the citations anew (`pipeline.ts:483-495`), the text keeps its marks: [2] can point at what was [3] |
| `breaker` | an open circuit breaker indicates sustained failures and is seen when Ollama is down (`ollama-fallback.md:7, 233`) | each look at the circuit forgets the failures before it, since `openUntil` is 0 until it opens (`llm-provider.ts:477`): calls that fail one after the other never open it, only `CB_THRESHOLD` calls under way together do |

The models show more behaviours that a reader of the docs may not expect. They
have no run of their own.

Queue and documents:

- `attempt_count` can pass `max_attempts` (`Retry` by a thread that lost its
  job); `OvershootIsBounded` says how far. A job that batch reprocess cancelled
  while it ran returns to RETRYING the same way.
- A soft delete between `HandlerSplits` and the completion takes SPLIT_COMPLETE
  away, and the parent goes on beside its parts (`SplitParentStops` excepts it).
- A reprocess of the parent between the two deletes the parts and sets UPLOADED.
  The completion of the cancelled job tests the status now, not whether the
  splitter set the mark (`job_poller.py:199-204`), and queues NORMALIZE beside the
  new VALIDATE: one pipeline splits the document once more, while the other chunks
  it whole. `ForksOnlyFromLateWriters` names this fork, by a thread that no longer
  owns its job.
- Batch reprocess sets REPROCESSING, which retrieval does not return
  (`vector-search.ts:110`), while its comment (`ingestion-routes.ts:107`) says
  that the chunks stay queryable; and it leaves citations, so that the chunker's
  DELETE fails on their foreign key (`chunker.py:141`, `007_*.sql:73`) and the
  cited document ends FAILED.

District:

- The daily limit counts fetches that have ended: threads that ask together
  exceed it, by what `DailyOvershootBounded` says.
- The poll does not look at `text_status`, so eCourts is asked for a case whose
  text Indian Kanoon has just delivered.
- The artifact trigger makes a case text_ready in Stage 1, so that the statuses
  `ik_hit` and `ecourts_hit` that `acquisition_queue.py:63` describes are never
  reached.
- A discovery job loses everything it found when the loader has inserted one of
  its numbers meanwhile (`discovery.py:123`; `JobFails` after `Probe`), and a batch
  job whose worker died stays processing (`batch_worker.py:45`).

Questions:

- `invalidateCacheForDocument` compares a `document_id` that cached citations do
  not hold (`cache.ts:122-141`) and deletes nothing.
- The INSERT of a citation fails when the chunk was deleted meanwhile: the request
  answers 500 with its message saved.
- The automatic title overwrites one that the user has set during the question
  (`pipeline.ts:1502`), and the pipeline writes `pinned_filters` back whole.

Library code:

- A joined call that fails after its UPDATE reports an error and throws nothing
  (`engine.ts:301-343`); `onAfterTransition` fires for joined calls before the
  caller commits (277); a transition from a state to itself loses the task it
  has just created (186-226).
- A change of the provider reaches the instance that handles the request; the others
  serve the old one for up to a minute (`llm-provider.ts:631`). A failed SELECT caches
  the environment's provider; the prompt cache is never invalidated.
- Rollback may publish a version that never was, or none when versions were
  published out of order; publishing one version twice at once can leave none
  published and answer 200.
- The idempotency key is not scoped by route or user; the answer is stored after
  it was sent; an expired row keeps new answers from being stored until the
  hourly cleanup.

Web client:

- One batch stores a content twice when two of its entries hold it: both requests
  find nothing and both insert (`DocumentUpload.tsx:214-239`,
  `document-routes.ts:796-948`); `StoredTogether` says which requests can do so.
- A refreshed session uses up an attempt, although the comment says that it does
  not (`DocumentUpload.tsx:163`); a lost answer turns into a 409 that is shown as
  an error; files added during an upload vanish when the list is cleared.
- A callback of a question asked elsewhere ends the waiting state of the current
  one, and the answer to a question asked without a conversation pulls the user
  back to it (`ChatPanel.tsx:132`).

## 13. Bounds and fairness

Bounds are constants, marked BOUND where they limit behaviour rather than
configure the system. None of them limits the theorems of section 14.

- `JobIds` (3 to 9 rows): a completion that would queue a step without a free
  row is not taken. Three rows are enough for a step, its successor and the job
  of a request; `split` needs five for a parent, two parts and a restart;
  `orderly` has nine, the five steps and, after a restart, those up to EMBED again.
- `Workers` is 2: a late thread and the one that overtook it. `Requests`
  and `Clicks` are 1: each race in the hazards has one request in it, and a
  repeated restart needs a FAILED document, which a finished request does not
  bring about.
- `MaxAttempts` is 2: one failure that retries and one that does not; `split`
  has 1, because retries double its states and do not meet the split.
- `Artifacts` is 1 or 2: with none free a thread may still answer a miss or
  raise, so nothing blocks on it. `Clicks` are made once each.
- `Answers` restricts what sources return. `acquisition_late` keeps hit and
  miss: failures come from `PersistException`, and with no limits and no
  captchas the governor never pauses, which is why its VIEW may drop the
  counters. `acquisition_orderly` has every outcome.
- `acquisition_late`, batch half: two jobs, two threads and two case numbers. Lists
  overlap with two jobs and one row; with two, a job has a partial result and one
  row undoes the insert of the other.
- `answers`: two requests (r2 an ADMIN's, whose evidence
  `filterChunksByAccess` leaves alone) in one conversation, documents of one case beside a question
  that names another, `MaxChunks` 2, one new generation of chunks and one change
  by others: each race has one change in it. `cached` needs documents of two
  cases and no change.
- `office`: two of what races (calls, administrators' requests, batches,
  questions), one entity, two providers and conversations, two instances and one
  completion, three versions (a rollback needs one below), four attempts with one
  key (work, replay, expiry, repeat), `Threshold` 2, one answer from before. Uploads:
  two entries and two contents, `MaxConcurrent` 2 (the code has 4; two requests make
  a race), `MaxRetries` 1, one visit left (`MaxVisits`; a redirect adds one), one
  request of another user, three requests on the server at once (`MaxServed`). Its
  CONSTRAINT `FewUploads` keeps apart two questions whose product is too large: one
  batch of two entries, or batches of two visits with one entry in all.
- `breaker`: `Threshold` 2 instead of 5, one instance, two calls.
- Threads, requests, cases, artifact ids and row ids are interchangeable
  (SYMMETRY, safety only). Where there are too many row ids, they are numbers
  used in order (`RowsInOrder`).
- `LockOutlivesHandler` and `LockOutlivesFetch` say whether a run lets a lock
  expire under the thread that holds it. TRUE is the operator's expectation
  (30 minutes), FALSE is what the code permits. Properties that hold only with
  TRUE are in runs of their own.

Sizes: `late` 1.3 million distinct states, `orderly` 428 thousand, `split` 211
thousand, `converges` 656 thousand, `acquisition_late` 921 thousand, `answers` 798
thousand, `office` 2.0 million.

Fairness (`BothFairness` in MCConvergence): the pollers are `while True` loops that
catch every exception, so each
thread keeps taking steps (WF of its steps together, crashes excepted, since
nothing obliges a thread to crash); time passes (WF of `LockExpires`,
`BackoffEnds`, `AttemptLeavesHour`, `Midnight`); an upload goes on or dies.
Requests and seeding are not fair: nobody has to make them. Crashes need no
bound: each costs an attempt. The other modules state safety only: what their
requests start may stop at any statement, and nothing retries it.

Deadlock checking is off: with no work and no more requests the system rests.

## 14. Proofs

Theorems hold for every value of the constants that satisfies the module's
assumptions. The proof modules have one shape: the invariant, lemmas about the
operators that change one row, one lemma per action, and the theorems last.
Every invariant and every action property that a passing run checks is the
subject of a theorem, but for the two at the end of this section.

What is assumed, beside types and finiteness: `CarefulCallers` for WorkflowEngine
and the types of the composition; `Orderly` in OrderlyProofs and
`LockOutlivesFetch` for OneFetcherPerRow, which the `.cfg` of those runs set as
well; `ScopeAssumption` in Ask (the scopes that questions name and detection
finds are among `Scopes`, which is defined from the same constants).

**IngestionQueueProofs.** `IInv` is TypeOK with: a working thread holds the id of
an inserted row whose attempt is not behind the thread's copy
(`WorkersHoldRows`); rows in use name documents (`RowsNameDocuments`); the
request that deletes parts names one document (`SplitRequestsNameOne`); each row
is sound (`RowsAreSound`). Proved: `Invariant`, `TypeCorrect`,
`ProcessingLocked`, `DeadLetterExhausted`, and `NothingStranded`.
DeadLetterUsedAllAttempts is not inductive alone, since a thread gives up by its
own copy of the attempt: `WorkersHoldRows` relates the two. NoStrandedDocument
needs all of `IInv`: an action that ends a job must queue another or settle the
job's own document, and which document that is comes from the row.
`ProcessingLocked` states ProcessingIsLocked, which no run checks.

`OvershootInv` bounds what late threads do to a job (`OvershootLimited`, for
OvershootIsBounded). The potential is the set of attempt numbers below the limit
that threads still hold (`AttemptsHeld`), with one more if the row waits: only
these can put the row back. No two threads hold the same attempt of a job
(`AttemptsDiffer`), so the potential is below MaxAttempts when the attempt
reaches the limit, and each further claim takes one away.

`ForksNamed` is the action property ForksOnlyFromLateWriters. Its lemmas say which
live jobs of a document one step adds or removes (`LiveStep`), from two small
invariants: a job that was never inserted is not queued (`AbsentIsUnqueued`), and
a document has finitely many (`LiveIsFinite`).

`SplitStops` is the action property SplitParentStops, from `IInv` alone: nothing
queues a later step of the parent (`NothingLaterComesUp`), and the mark stays
(`MarkStays`). Its conditions are needed: that a parent with parts has no live job
of a later step is not inductive, for after a reprocess in that window a late
completion forks the pipeline (section 12), and the fork may meet new parts.
A run with few row ids does not reach that state, which is why the property is
stated of the window.

`DeletionLasts` is the action property QuietDeletionLasts, the part of "DELETED is
terminal" that the code keeps (section 12 has the part it does not). What may
bring a deleted document back is a job in the queue or in a thread's hands, a
request that has read the document, or an upload between its two statements; with
`IInv`, no step makes one of these for a deleted document that has none:
no poll takes or reclaims a job of it (`PollsPassQuiet`), nothing queues one
(`QuietUnqueued`), threads keep their jobs and jobs their documents
(`QuietUntouched`), and no request reads it (`QuietUnread`).

**OrderlyProofs.** `Orderly` is what an operator who keeps to the rules provides:
locks outlive handlers, restarts of FAILED documents only (no batch reprocess),
no PDF to split, one such request at a time. Under it `OInv`: a thread's row is
its own (`ThreadsOwn`); one live job per document; FAILED and new documents have
none (`QuietDocuments`, `UploadsWait`); a document that a request is about to
restart has none either (`RequestsRestart`); the job of a step stands behind completed jobs of all the
steps before it (`StepsInOrder`). Every action is one of five kinds of step
(`OrderlyStep`: it changes one row, one document, an upload, what a request has
read, or what a thread holds), and each kind keeps `OInv`. Proved for all ten
steps of the pipeline and any number of threads: `OnePipeline`,
`SearchableRan`.

`ChunkStoreImplementsQueue` (CsSpec => Spec) carries all of the above over to
ChunkStore. `CInv` adds: the chunks of a document are of one run of CHUNK; a
document that is served, or has a live KG_EXTRACT, has them embedded; a handler
knows the rows that it will write (`HandlerKnows`). Proved: `EmbeddedWhenServed`.

**DistrictProofs.** `IInv` is TypeOK, `FetchersHoldRows`, sound
rows, and `BudgetHolds`: the attempts on record together with the threads that
may still add one (`MaySpend`: fetching from eCourts, or told that they may)
stay within limit - 1 + threads. DailyOvershootBounded alone is not inductive,
because a report adds to the record at any time; counted with the threads that
may spend, a report moves one unit from one side to the other, and a thread
joins `MaySpend` only when the record is below the limit. Proved: `Invariant`,
`TypeCorrect`, `FailedExhausted`, `DailyOvershoot`.

`AcquiredInv` joins SuccessHasArtifact and ArtifactIsVisible, each of which needs
the other: a report reads the case's text status to decide what it becomes. It
adds that an artifact belongs to a case and that no report makes a case `dead`.
Proved: `SuccessBacked`, `ArtifactVisible`. `FetchersHoldLocks` (a thread that
fetches owns a locked row, alone) gives `OneFetcher` when fetches end in time.

`BatchInv`, for stage 2: a job is run by one thread and once (`OneRunOfEach`,
`BatchJobsFit`); the row that a thread has locked is its own and has no document
yet (`RowsLockedOnce`, `PollerFits`); a text becomes one document (`MadeOnce`);
jobs of one type take credit for different rows, and only for what was brought
about (`CreditsAreDue`). BatchResultsAddUp is its consequence (`BatchCredits`).
`DistrictTypeCorrect` is the type invariant of both stages together.

**WorkflowProofs.** Assuming `CarefulCallers`. `IInv` is the types, one
transaction that holds an entity's row (`OneHolder`), calls whose locals fit
their control point and whose loaded version is the committed one while they
hold the row, and entities whose version is the length of their audit trail.
Proved: `Refinement` (WfSpec => MovesAreAudited: initial states map to initial
states, a commit is a Move, every other step a stutter), `AnnouncedCommitted`,
`TasksInTaskStates`.

**ApiCoreProofs.** LlmProvider: `AInv`, requests fit their kind, overlapping is
symmetric and known to both, a default carries the requests that set it. Proved:
`DefaultsAccounted`, `NewestActive`. `CacheInv` says of what a completion has read,
and has not cached yet (`ReadIsAccountedFor`), the same as of what an instance has
cached (`CachedIsAccountedFor`): it is what the table names, or one of the requests
that have changed the table since is an excuse (`Excuses`). A request stops being one
when it clears the caches of its own instance, and then it clears this entry, or
marks this completion as late; the requests of other instances stay excuses. A
completion that has not read has missed nothing (`MissedNothing`). Proved, for any
number of instances: `CacheCorrect`.

ConfigGovernance: `GovInv`, published versions and the requests that are about
to publish one together never exceed `peak`. PublishedIsAccountedFor alone is
not inductive, since a request publishes after it has superseded, and others may
have published in between. Proved: `PublishedAccountedFor`.

Idempotency: `IdemInv`, the stored row is of an attempt that did the work, an
attempt whose insert is on record has left a row unless it expired, and what a
handler knew when it started is behind it. Proved: `IdemTypeCorrect`,
`RepeatsAccounted`.

**OfficeProofs.** Uploads: `UpInv`, a visit has one open batch at most (`ClientInv`); a
request that no client gave up belongs to an item that is being sent, and each
attempt has one request (`RequestInv`); a request that may still store a content
which is there had looked before it was first stored, and so had every one
that has stored it (`StoredInv`). StoredTogether alone is not
inductive: it says nothing of the requests that have looked and not stored
yet. Nothing is assumed of the contents. Proved: `StoredOnce`, `FlagCovers`,
`ClearedStored`.

Chat: `ChatInv`, the answer attached to the panel is of the conversation shown
(`AttachedBelongs`), an answer that a callback will show is already saved
(`AnswersAreSaved`), a new conversation has nothing fetched or hidden. Proved:
`EarlyAnswers`, `HiddenReplaced`.

The composition: `OfficeParts`, every behaviour of MCOffice is one of WfSpec,
LlmSpec, GovSpec, IdemSpec, UpSpec and ChatSpec, since a step of one part leaves
the others' variables alone; with it `OfficeTypeCorrect`.

**CaseScopesProofs.** What the pure functions return, for sequences of any length:
a filter returns elements of what it was given, each of which passes
(`KeptType`, `Filtered`), ranks are all taken once (`EveryRankIsTaken`), and the
resolution of a question has the declared shape (`ResolutionType`). The induction
that this takes is a least counterexample of a well-founded relation
(`LeastElement`, from WellFoundedInduction), because the induction theorems with
an operator parameter cannot be instantiated. `FilterSound`: whatever chunks and
scopes `filterChunksByCaseScopes` is given, it returns chunks without a case
reference and chunks of a requested scope only. `BalanceRepresents`: of every scope
that some chunk is matched with alone, `balanceChunksAcrossCaseScopes` keeps such
a chunk, because its quota is at least one and the first chunks of all scopes come
before what is left over; what it keeps is within `maxChunks`, or one chunk for
each scope. That a flattened sequence holds all of its parts and is as long as
they allow (`FlattenedHasAll`, `ShareFits`) is again by a least counterexample.

**AskProofs.** Four invariants.

- `AskInv`: message rows less `message_count` are the requests between the two
  statements or stopped there (CountTracksMessages); conversations never
  inserted are empty (`FreeIsUnused`); what is past the check of an archived
  conversation was under way when it was archived (`ArchivedAdmits`).
  `RequestMoves` sums up what a step of a request does to its conversation, so
  that the eighteen steps are looked at once. Proved: `CountTracks`,
  `OwnFiltersKept`, and `ArchivedDrains`, for ArchivedOnlyDrains, which no run checks:
  the contract below, which one checks, admits a request only while its
  conversation is not archived.
- `EvidenceInv`: citations refer to chunks that exist, and a document reset to
  UPLOADED has none. Proved: `UploadedUncited`.
- `TablesInv`: the types of the tables.
- `ScopeInv`: the scope of an answer. AnswersStayInScope speaks of answers alone;
  the invariant follows the scope from the question on. The scopes of the cache
  key are those of the resolution wherever the resolution can no longer change
  (`Keyed`), evidence is about them from the filter on (`ScopedRequest`, by
  `FilterSound`), so is every entry of the cache (`AnswersInv`), and nothing is
  answered as long as the scope may be revised. Proved: `ScopeInvariant`,
  `StaysInScope`, and with the other three `AskTypeCorrect`.

`ConversationsImplementContract` (Spec => ConversationsAreExchanges) needs of these
only the types of requests and conversations. A step of a request is one of a few
moves from one phase to the next (`StepFollows`, `PhasesOfSteps`), and what it does
to the rows of its conversation decides which step of the contract it is
(`ExchangeOfAMove`, `ExchangeOfAQuestion`); changes by others are the contract's
Archive and Delete, or stutter (`ExchangeOfAChange`).

TLC checked these invariants on the runs' instances before they were proved;
`ScopeInv` on that of `answers`.

Only model-checked: IngestionConverges and AcquisitionConverges, liveness under
fairness, which needs ENABLED and is beyond the prover.

## 15. What is not modelled

- Planned: see section 3. Authentication and connectors have no module.
- The text of handlers (normalizing, converting, redacting, translating,
  extraction): in the queue a handler returns or raises.
- Rows other than those named: graph tables and `extraction_result`,
  `district_case_source`, metrics tables.
- Ranking and SQL of retrieval, prompts, request formats of providers, streaming:
  any result is possible in Ask and LlmProvider.
- Access control: one access signature for all questions; the ACL filters are
  WHERE clauses without state of their own.
- Reports, dashboards, evidence packages, review queue and administration
  routes: queries and single statements on rows that nothing else writes.
- The web client but for uploads and chat, the shared form and UI components: how
  things look. These and the reports are most of the TypeScript that no
  definition is mapped to; the mapped definitions stand for about a tenth of
  the implementation's lines.
- Scrapers, captcha solvers and the filter that tells criminal cases: I/O on
  external portals and rules over their text, here an outcome.
- The arithmetic of page ranges in PDF splitting.
- Clocks: `locked_until`, `next_attempt_at` and expiries are past or future; how
  far does not matter to the properties.

## 16. Running

    tlc -config IngestionQueue_late.cfg MCIngestionQueue
    tlc -config ChunkStore_orderly.cfg MCChunkStore
    tlc -config Convergence.cfg MCConvergence
    tlc -config DistrictAcquisition_orderly.cfg MCDistrictAcquisition
    tlc -config MCDistrict_late.cfg MCDistrict
    tlc -config Ask_answers.cfg MCAsk
    tlc -config MCOffice_office.cfg MCOffice
    tlc -config LlmProvider_breaker.cfg LlmProvider       (finds a violation)
    tlapm IngestionQueueProofs.tla        (and each other *Proofs.tla)

The MC modules hold the symmetry sets, the subsets of steps, answers, questions
and fields, the VIEW and the CONSTRAINT that the `.cfg` files refer to. The longest
runs (`late`, `converges`, `office`) take two to four minutes, the others less, and
each proof module one to three. `PROJECT.json` names for every property of a
passing run a changed definition under which the run fails.
