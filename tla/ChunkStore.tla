----------------------------- MODULE ChunkStore -----------------------------
(***************************************************************************)
(* The chunks of documents, beside the queue: what the handlers of CHUNK   *)
(* (apps/worker/src/pipeline/chunker.py) and EMBED (embedder.py) do to the *)
(* table chunk while they run, and what the requests that restart a        *)
(* document delete.  Everything else is a step of IngestionQueue.          *)
(***************************************************************************)
EXTENDS IngestionQueue

ASSUME ChunkAssumption == "CHUNK" \in Steps

VARIABLES
  chunks,    \* the rows of chunk of each document; those of one INSERT are one element
  handler    \* the locals of chunk_document and embed_chunks

csVars == <<doc, parent, jobs, worker, request, upload, chunks, handler>>

-----------------------------------------------------------------------------
\* by names the run of CHUNK that inserted them; embedded: no row has a NULL embedding.
Chunk == [by : JobIds \X Nat, embedded : BOOLEAN]
ChunksBy(w) == [by |-> <<worker[w].job, worker[w].attempt>>, embedded |-> FALSE]

NotStarted == [pc |-> "start", seen |-> {}]
Handling == [pc : {"start", "replacing", "embedding", "written"}, seen : SUBSET (JobIds \X Nat)]
Runs(w, s, pc) == At(w, "running") /\ StepOf(w) = s /\ handler[w].pc = pc
HandlerGoes(w, pc, seen) == handler' = [handler EXCEPT ![w] = [pc |-> pc, seen |-> seen]]
HandlerEnds(w) == handler' = [handler EXCEPT ![w] = NotStarted]

\* The DELETE of CHUNK sees what is committed when it begins, the INSERT commits later.
ChunkDeletes(w) ==
  /\ Runs(w, "CHUNK", "start")
  /\ HandlerGoes(w, "replacing", {c.by : c \in chunks[DocOf(w)]})
  /\ UNCHANGED <<vars, chunks>>

\* Without the DELETE.
AppendedChunks(old, seen, new) == old \cup new
ReplacedChunks(old, seen, new) == {c \in old : c.by \notin seen} \cup new

\* A text may have no chunks at all.
ChunkInserts(w) ==
  /\ Runs(w, "CHUNK", "replacing") /\ doc[DocOf(w)] \notin Gone
  /\ \E new \in {{}, {ChunksBy(w)}} :
       chunks' = [chunks EXCEPT ![DocOf(w)] = ReplacedChunks(@, handler[w].seen, new)]
  /\ HandlerGoes(w, "written", {})
  /\ UNCHANGED vars

EmbedSelects(w) ==
  LET missing == {c \in chunks[DocOf(w)] : ~c.embedded}
  IN /\ Runs(w, "EMBED", "start")
     /\ HandlerGoes(w, "embedding", {c.by : c \in missing})
     /\ UNCHANGED <<vars, chunks>>

\* The UPDATE of the last batch, by chunk_id; one that died before leaves some NULL.
EmbedUpdates(w) ==
  /\ Runs(w, "EMBED", "embedding")
  /\ chunks' = [chunks EXCEPT ![DocOf(w)] =
       {IF c.by \in handler[w].seen THEN [c EXCEPT !.embedded = TRUE] ELSE c : c \in @}]
  /\ HandlerGoes(w, "written", {})
  /\ UNCHANGED vars

\* Swallows the timeout of the embeddings.
ReturnsAnyTime(w) == TRUE
HandlerDone(w) == StepOf(w) \in {"CHUNK", "EMBED"} => handler[w].pc = "written"

\* clearRetryDerivedState, which batch reprocess does not call; the chunks of a part go
\* with its row.
RestartClears(r) ==
  CASE request[r].op = "batch_reprocess" -> {}
    [] request[r].op = "reprocess_split" -> request[r].docs \cup Parts(request[r].docs)
    [] OTHER -> request[r].docs
ChunksCleared(D) == chunks' = [d \in Docs |-> IF d \in D THEN {} ELSE chunks[d]]

-----------------------------------------------------------------------------

CsInit ==
  /\ Init
  /\ chunks = [d \in Docs |-> {}]
  /\ handler = [w \in Workers |-> NotStarted]

CsWorkerStep(w) ==
  \/ ChunkDeletes(w) \/ ChunkInserts(w) \/ EmbedSelects(w) \/ EmbedUpdates(w)
  \/ HandlerReturns(w) /\ HandlerDone(w) /\ HandlerEnds(w) /\ UNCHANGED chunks
  \/ (HandlerRaises(w) \/ Crash(w)) /\ HandlerEnds(w) /\ UNCHANGED chunks
  \/ (Poll(w) \/ HandlerSplits(w) \/ Finish(w)) /\ UNCHANGED <<chunks, handler>>

CsRequestStep(r) ==
  \/ /\ \/ RequestAborts(r)
        \/ \E d \in Docs : ReadForUploadRetry(r, d) \/ ReadForReprocess(r, d)
        \/ \E D \in SUBSET Docs : ReadForBatch(r, D)
     /\ UNCHANGED <<chunks, handler>>
  \/ /\ CommitRestart(r) \/ CommitReprocessSplit(r)
     /\ ChunksCleared(RestartClears(r)) /\ UNCHANGED handler

CsNext ==
  \/ \E w \in Workers : CsWorkerStep(w)
  \/ \E r \in Requests : CsRequestStep(r)
  \/ /\ \/ \E j \in JobIds : LockExpires(j)
        \/ \E d \in Docs : Upload(d) \/ SoftDelete(d)
     /\ UNCHANGED <<chunks, handler>>

CsSpec == CsInit /\ [][CsNext]_csVars

-----------------------------------------------------------------------------
(* Properties.                                                             *)

\* Types of the variables that are new here.
CsTypeOK ==
  /\ chunks \in [Docs -> SUBSET Chunk]
  /\ handler \in [Workers -> Handling]

\* What retrieval returns of a document is the work of one run of CHUNK and embedded to
\* the last row, whatever died, was retried or restarted on the way.  Holds under the
\* conditions of AtMostOnePipeline.
RetrievedStatus == {"SEARCHABLE", "KG_EXTRACTING", "ACTIVE"}
SearchableIsEmbedded ==
  \A d \in Docs : doc[d] \in RetrievedStatus =>
    /\ \A b, c \in chunks[d] : b = c
    /\ \A c \in chunks[d] : c.embedded
=============================================================================
