-------------------------------- MODULE Ask --------------------------------
(***************************************************************************)
(* Asking a question: POST /query (apps/api/src/routes/rag-routes.ts) runs *)
(* executeRetrievalPipeline (apps/api/src/retrieval/pipeline.ts), a long   *)
(* handler that reads and writes a conversation, the answer cache          *)
(* (retrieval/cache.ts) and the chunks of documents, one statement at a    *)
(* time and outside any transaction.  Meanwhile conversations are patched  *)
(* and deleted, documents reprocessed, retried, edited and deleted.        *)
(*                                                                         *)
(* One action of a request is one await of the pipeline with the code up   *)
(* to the next one; consecutive searches are one.  All questions are       *)
(* similar enough for the cache (CACHE_SIMILARITY_THRESHOLD); workspace,   *)
(* preset, mode and access signature are the same in all of them.          *)
(***************************************************************************)
EXTENDS CaseScopes

CONSTANTS
  Requests,       \* BOUND: POST /query calls, each made at most once
  Admins,         \* the requests made by an ADMIN
  Conversations,  \* BOUND: conversation rows that may ever exist
  Documents,      \* the documents of the workspace
  Signals,        \* the case scopes that a document's chunks carry
  Questions,      \* BOUND: the questions that each request may ask
  Detected,       \* BOUND: what entity detection and expansion may find
  OwnFilters,     \* BOUND: what a user may pin with PATCH
  MaxChunks,      \* presetConfig.maxChunks
  MaxGeneration,  \* BOUND: how often the chunks of a document are made
  MaxChanges,     \* BOUND: requests other than questions
  NoConversation

ASSUME AskAssumption ==
  /\ IsFiniteSet(Requests) /\ Admins \subseteq Requests
  /\ NoConversation \notin Conversations /\ IsFiniteSet(Documents)
  /\ MaxChunks \in Nat \ {0} /\ MaxGeneration \in Nat /\ MaxChanges \in Nat

\* The case scopes that there are; questions and entity detection give sequences of them.
Scopes == UNION {Signals[d] : d \in Documents} \cup UNION {ToSet(found) : found \in Detected}
          \cup UNION {UNION {ToSet(q.named) : q \in Questions[r]} : r \in Requests}
ASSUME ScopeAssumption ==
  /\ Detected \subseteq Seq(Scopes)
  /\ \A r \in Requests : \A q \in Questions[r] : q.named \in Seq(Scopes)

VARIABLES
  conversation, \* the conversation rows, and their number of message rows
  citation,     \* citation rows, the message known by the request that it answers
  cache,        \* answer_cache
  document,     \* status and generation of the chunks of each document
  chunk,        \* chunk rows, named by document and generation
  request,      \* the locals of executeRetrievalPipeline
  stale,        \* is there a DELETE FROM answer_cache still to come?
  admitted,     \* history: the requests under way when a conversation was archived
  changes       \* how many other requests have been made

askVars == <<conversation, citation, cache, document, chunk, request, stale, admitted, changes>>

-----------------------------------------------------------------------------
Searchable == {"SEARCHABLE"}   \* with KG_EXTRACTING and ACTIVE
Waiting == {"UPLOADED", "REPROCESSING"}
Status == Searchable \cup Waiting \cup {"FAILED", "DELETED"}
Chunks == Documents \X (0 .. MaxGeneration)
DocumentOf(c) == c[1]

\* A row of a conversation: free is the state before the INSERT.
NoRow == [state |-> "free", archived |-> FALSE, rows |-> 0, count |-> 0, pinned |-> NotPinned]
EmptyPinned == [NotPinned EXCEPT !.set = TRUE]
Live(c) == c # NoConversation /\ conversation[c].state = "live"

\* What is sent back: fixed texts have no citations; meant says which chunk a
\* mark [n] in the text was written for, cites which one is sent with it.
NoAnswer == [kind |-> "none", meant |-> <<>>, cites |-> <<>>]
FixedText == [NoAnswer EXCEPT !.kind = "fixed"]
Mark(i, c) == [index |-> i, chunk |-> c]

Steps == {"archived", "pinned", "user", "countUser", "scope", "lookup", "detect", "retrieve",
          "screen", "generate", "reply", "count", "cite", "store", "trace"}
Ended == {"done", "failed", "uncounted"}   \* uncounted: failed between INSERT and UPDATE
NotAsked == [pc |-> "idle", conversation |-> NoConversation, question |-> "none",
             how |-> "plain", pinned |-> NotPinned, resolution |-> GlobalScope,
             key |-> CacheActiveFilters("none", <<>>), ranked |-> <<>>, hit |-> FALSE,
             answer |-> NoAnswer]

At(r, pc) == request[r].pc = pc
Goto(r, pc) == request' = [request EXCEPT ![r].pc = pc]
\* The locals are gone; only whose messages they were is remembered.
End(r, pc) == request' = [request EXCEPT ![r] =
                [NotAsked EXCEPT !.pc = pc, !.conversation = request[r].conversation]]
UnderWay(r, c) == request[r].pc \in Steps /\ request[r].conversation = c
ConversationOf(r) == request[r].conversation

-----------------------------------------------------------------------------
(* The beginning of a request.                                             *)

\* Without a conversation to ask in; there need not be an answer to regenerate.
AskNew(r, c, question, how) ==
  /\ At(r, "idle") /\ conversation[c].state = "free"
  /\ conversation' = [conversation EXCEPT ![c] = [@ EXCEPT !.state = "live", !.pinned = EmptyPinned]]
  /\ request' = [request EXCEPT ![r] =
       [NotAsked EXCEPT !.pc = IF how = "regenerate" THEN "scope" ELSE "user", !.conversation = c,
                        !.question = question, !.how = how]]
  /\ UNCHANGED <<citation, cache, document, chunk, stale, admitted, changes>>

AskIn(r, c, question, how) ==
  /\ At(r, "idle") /\ conversation[c].state # "free"
  /\ request' = [request EXCEPT ![r] = [NotAsked EXCEPT !.pc = "archived", !.conversation = c,
                                          !.question = question, !.how = how]]
  /\ UNCHANGED <<conversation, citation, cache, document, chunk, stale, admitted, changes>>

\* Answers in archived conversations too.
IgnoreArchived(r) ==
  /\ At(r, "archived") /\ Goto(r, "pinned")
  /\ UNCHANGED <<conversation, citation, cache, document, chunk, stale, admitted, changes>>
CheckArchived(r) ==
  /\ At(r, "archived")
  /\ IF Live(ConversationOf(r)) /\ conversation[ConversationOf(r)].archived
     THEN End(r, "done") ELSE Goto(r, "pinned")
  /\ UNCHANGED <<conversation, citation, cache, document, chunk, stale, admitted, changes>>

\* Saves the question again when an answer is regenerated.
ReadPinnedAndAsk(r) ==
  /\ At(r, "pinned") /\ Goto(r, "user")
  /\ UNCHANGED <<conversation, citation, cache, document, chunk, stale, admitted, changes>>
\* An error of this SELECT is swallowed.
ReadPinned(r) ==
  /\ At(r, "pinned")
  /\ \E seen \in {NotPinned} \cup
                 {conversation[c].pinned : c \in {d \in {ConversationOf(r)} : Live(d)}} :
       request' = [request EXCEPT ![r].pinned = seen,
                     ![r].pc = IF request[r].how = "regenerate" THEN "scope" ELSE "user"]
  /\ UNCHANGED <<conversation, citation, cache, document, chunk, stale, admitted, changes>>

\* INSERT INTO message, whose foreign key fails when the conversation is gone, and
\* the UPDATE of message_count, a statement of its own.
InsertMessage(r, then) ==
  IF Live(ConversationOf(r))
  THEN /\ conversation' = [conversation EXCEPT ![ConversationOf(r)].rows = @ + 1]
       /\ Goto(r, then)
  ELSE End(r, "failed") /\ UNCHANGED conversation
\* Counts question and answer together, each time.
CountBoth(r, then) ==
  /\ conversation' = IF Live(ConversationOf(r))
                     THEN [conversation EXCEPT ![ConversationOf(r)].count = @ + 2]
                     ELSE conversation
  /\ Goto(r, then)
CountMessage(r, then) ==
  /\ conversation' = IF Live(ConversationOf(r))
                     THEN [conversation EXCEPT ![ConversationOf(r)].count = @ + 1]
                     ELSE conversation
  /\ Goto(r, then)

SaveQuestion(r) ==
  /\ At(r, "user") /\ InsertMessage(r, "countUser")
  /\ UNCHANGED <<citation, cache, document, chunk, stale, admitted, changes>>
CountQuestion(r) ==
  /\ At(r, "countUser") /\ CountMessage(r, "scope")
  /\ UNCHANGED <<citation, cache, document, chunk, stale, admitted, changes>>

-----------------------------------------------------------------------------
(* The scope of the question, and the cache.                               *)

\* The new pinned filters replace the whole column, if there is a change.
WritePinned(r, pinned) ==
  conversation' = IF pinned # request[r].pinned /\ Live(ConversationOf(r))
                  THEN [conversation EXCEPT ![ConversationOf(r)].pinned = pinned]
                  ELSE conversation

FindScope(r) ==
  LET found == ResolveScopeResolution(request[r].question, request[r].question.named,
                                      request[r].pinned)
      pinned == NextPinned(request[r].pinned, found)
  IN /\ At(r, "scope")
     /\ IF found.clarify
        THEN /\ request' = [request EXCEPT ![r].pc = "reply", ![r].answer = FixedText,
                              ![r].resolution = found]
             /\ UNCHANGED conversation
        ELSE /\ request' = [request EXCEPT ![r].pc = "lookup", ![r].resolution = found,
                              ![r].pinned = pinned,
                              ![r].key = CacheActiveFilters(request[r].pinned.own, found.scopes)]
             /\ WritePinned(r, pinned)
     /\ UNCHANGED <<citation, cache, document, chunk, stale, admitted, changes>>

\* A hit is sent with its citations numbered from 1, in the order they were stored.
Renumbered(marks) == [i \in DOMAIN marks |-> Mark(i, marks[i].chunk)]

LookUp(r) ==
  /\ At(r, "lookup")
  /\ \/ Goto(r, "detect")   \* skip_cache, nothing similar, expired, or an error
     \/ /\ request[r].how # "regenerate"
        /\ \E entry \in cache :
             /\ entry.key = request[r].key
             /\ request' = [request EXCEPT ![r].pc = "reply", ![r].hit = TRUE,
                  ![r].answer = [kind |-> "answer", meant |-> entry.meant,
                                 cites |-> Renumbered(entry.meant)]]
  /\ UNCHANGED <<conversation, citation, cache, document, chunk, stale, admitted, changes>>

\* Leaves the key as it was before the entities were known.
FinalKeyOfLookup(r, found) == request[r].key
FinalKey(r, found) == CacheActiveFilters(request[r].pinned.own, found.scopes)

\* The scope after entity detection and query expansion.
ScopeFound(r, detected, expanded) ==
  LET question == request[r].question
      Resolve(found, scopes) ==
        IF found.scopes = <<>> /\ ~question.global /\ scopes # <<>>
        THEN ResolveScopeResolution(question, scopes, request[r].pinned) ELSE found
      first == Resolve(request[r].resolution, detected)
  IN IF first.scopes = <<>> THEN Resolve(first, expanded)
     ELSE [first EXCEPT !.scopes = CollectCaseScopes(@ \o detected \o expanded)]

\* The question, the pinned filters and the source of the scope are not read again.
Detect(r) ==
  /\ At(r, "detect")
  /\ \E detected, expanded \in Detected, analytics \in BOOLEAN :
       LET found == ScopeFound(r, detected, expanded)
           pinned == NextPinned(request[r].pinned, found)
       IN /\ WritePinned(r, pinned)
          /\ request' = [request EXCEPT ![r].question = "none", ![r].pinned = NotPinned,
               ![r].resolution = [found EXCEPT !.source = "none"],
               ![r].key = FinalKey(r, found),
               ![r].answer = IF analytics THEN FixedText ELSE NoAnswer,
               ![r].pc = IF analytics THEN "reply" ELSE "retrieve"]
  /\ UNCHANGED <<citation, cache, document, chunk, stale, admitted, changes>>

-----------------------------------------------------------------------------
(* Evidence and answer.                                                    *)

Evidence(c) == [id |-> c, document |-> DocumentOf(c), signals |-> Signals[DocumentOf(c)],
                matched |-> <<>>, score |-> 1]

\* Whatever the searches and the reranking come up with.
Retrieve(r) ==
  /\ At(r, "retrieve")
  /\ \E found \in SUBSET {c \in chunk : document[DocumentOf(c)].status \in Searchable} :
       request' = [request EXCEPT ![r].pc = "screen",
                     ![r].ranked = FirstOf(MapSeq(Evidence, SetToSeq(found)), MaxChunks)]
  /\ UNCHANGED <<conversation, citation, cache, document, chunk, stale, admitted, changes>>

\* filterChunksByAccess reads the chunks again, unless the user is an ADMIN; then the
\* filter and the balance.  Nobody lacks the clearance.
Screen(r) ==
  LET found == request[r].resolution
      allowed == IF r \in Admins THEN request[r].ranked
                 ELSE Filtered(request[r].ranked, LAMBDA e :
                        e.id \in chunk /\ document[e.document].status # "DELETED")
      inScope == IF found.scopes = <<>> THEN allowed
                 ELSE FilterChunksByCaseScopes(allowed, found.scopes)
      balanced == IF found.mode = "multi" /\ Len(found.scopes) > 1
                  THEN BalanceChunksAcrossCaseScopes(inScope, found.scopes, MaxChunks)
                  ELSE inScope
  IN /\ At(r, "screen")
     /\ request' = [request EXCEPT ![r].ranked = balanced,
                      ![r].answer = IF balanced = <<>> THEN FixedText ELSE NoAnswer,
                      ![r].pc = IF balanced = <<>> THEN "reply" ELSE "generate"]
     /\ UNCHANGED <<conversation, citation, cache, document, chunk, stale, admitted, changes>>

\* The model marks some of the chunks in some order; without an answer from it the
\* request gives the fallback text.
Generate(r) ==
  LET ranked == request[r].ranked
  IN /\ At(r, "generate")
     /\ \/ request' = [request EXCEPT ![r].pc = "reply", ![r].ranked = <<>>,
                                      ![r].answer = FixedText]
        \/ \E marked \in SUBSET DOMAIN ranked : \E order \in SetToSeqs(marked) :
             LET meant == [i \in DOMAIN order |-> Mark(order[i], ranked[order[i]].id)]
             IN request' = [request EXCEPT ![r].pc = "reply", ![r].ranked = <<>>,
                  ![r].answer = [kind |-> "answer", meant |-> meant, cites |-> meant]]
     /\ UNCHANGED <<conversation, citation, cache, document, chunk, stale, admitted, changes>>

SaveAnswer(r) ==
  /\ At(r, "reply") /\ InsertMessage(r, "count")
  /\ UNCHANGED <<citation, cache, document, chunk, stale, admitted, changes>>
CountAnswer(r) ==
  /\ At(r, "count")
  /\ CountMessage(r, IF request[r].answer.kind # "answer" \/ request[r].hit THEN "trace"
                     ELSE IF request[r].answer.cites = <<>> THEN "store" ELSE "cite")
  /\ UNCHANGED <<citation, cache, document, chunk, stale, admitted, changes>>

\* One INSERT; a cited chunk or the message may be gone by now.
SaveCitations(r) ==
  LET cited == {m.chunk : m \in ToSet(request[r].answer.cites)}
  IN /\ At(r, "cite")
     /\ IF Live(ConversationOf(r)) /\ cited \subseteq chunk
        THEN /\ citation' = citation \cup {[message |-> r, chunk |-> c] : c \in cited}
             /\ Goto(r, "store")
        ELSE End(r, "failed") /\ UNCHANGED citation
     /\ UNCHANGED <<conversation, cache, document, chunk, stale, admitted, changes>>

\* writeCache gives up without a word when there is no embedding or on an error.
Store(r) ==
  /\ At(r, "store") /\ Goto(r, "trace")
  /\ \/ cache' = cache \cup {[key |-> request[r].key, meant |-> request[r].answer.meant]}
     \/ UNCHANGED cache
  /\ UNCHANGED <<conversation, citation, document, chunk, stale, admitted, changes>>

\* retrieval_run refers to the conversation.  The title that follows changes nothing
\* that is modelled.
PersistTrace(r) ==
  /\ At(r, "trace") /\ End(r, IF Live(ConversationOf(r)) THEN "done" ELSE "failed")
  /\ UNCHANGED <<conversation, citation, cache, document, chunk, stale, admitted, changes>>

\* Any other query or call to the model may throw: the route answers 500.
Throw(r) ==
  /\ request[r].pc \in Steps
  /\ End(r, IF request[r].pc \in {"countUser", "count"} THEN "uncounted" ELSE "failed")
  /\ UNCHANGED <<conversation, citation, cache, document, chunk, stale, admitted, changes>>

Query(r) ==
  \/ CheckArchived(r) \/ ReadPinned(r) \/ SaveQuestion(r) \/ CountQuestion(r)
  \/ FindScope(r) \/ LookUp(r) \/ Detect(r) \/ Retrieve(r) \/ Screen(r) \/ Generate(r)
  \/ SaveAnswer(r) \/ CountAnswer(r) \/ SaveCitations(r) \/ Store(r) \/ PersistTrace(r)

-----------------------------------------------------------------------------
(* Everybody else.                                                         *)

Change == changes < MaxChanges /\ changes' = changes + 1

\* PATCH sets any of the fields it is given; pinned_filters is replaced as a whole.
PatchConversation(c) ==
  /\ Change /\ Live(c)
  /\ \E archived \in BOOLEAN :
     \E pinned \in {conversation[c].pinned} \cup {[EmptyPinned EXCEPT !.own = o] : o \in OwnFilters} :
       /\ conversation' = [conversation EXCEPT ![c].archived = archived, ![c].pinned = pinned]
       /\ admitted' = [admitted EXCEPT ![c] =
            IF archived = conversation[c].archived THEN @
            ELSE IF archived THEN {r \in Requests : UnderWay(r, c)} ELSE {}]
  /\ UNCHANGED <<citation, cache, document, chunk, request, stale>>

\* The messages and their citations go with the conversation.
DeleteConversation(c) ==
  /\ Change /\ Live(c)
  /\ conversation' = [conversation EXCEPT ![c] = [NoRow EXCEPT !.state = "deleted"]]
  /\ citation' = {x \in citation : ConversationOf(x.message) # c}
  /\ UNCHANGED <<cache, document, chunk, request, stale, admitted>>

\* invalidateCacheForDocument: the stored citations have the ids of chunks.
Mentions(entry, id) == \E m \in ToSet(entry.meant) : m.chunk = id
PatchDocument(d) ==
  /\ Change /\ document[d].status # "DELETED"
  /\ cache' = {entry \in cache : ~Mentions(entry, d)}
  /\ UNCHANGED <<conversation, citation, document, chunk, request, stale, admitted>>

DeleteDocument(d) ==
  /\ Change /\ document[d].status # "DELETED"
  /\ document' = [document EXCEPT ![d].status = "DELETED"]
  /\ UNCHANGED <<conversation, citation, cache, chunk, request, stale, admitted>>

\* Forgets the citations, and everything.
ClearChunksAlone(d) == chunk' = {c \in chunk : DocumentOf(c) # d} /\ UNCHANGED citation
ClearNothing(d) == UNCHANGED <<citation, chunk>>
\* Forgets the chunks and what cites them.
ClearRetryDerivedState(d) ==
  /\ citation' = {x \in citation : DocumentOf(x.chunk) # d}
  /\ chunk' = {c \in chunk : DocumentOf(c) # d}

\* The transactions of POST /reprocess and of an upload of the same file again; only
\* the second one, once committed, goes on to empty the cache.
ReprocessDocument(d) ==
  /\ Change /\ document[d].status = "FAILED"
  /\ document' = [document EXCEPT ![d].status = "UPLOADED"]
  /\ ClearRetryDerivedState(d)
  /\ stale' \in {stale, TRUE}
  /\ UNCHANGED <<conversation, cache, request, admitted>>

InvalidateCache ==
  /\ stale /\ stale' = FALSE /\ cache' = {}
  /\ UNCHANGED <<conversation, citation, document, chunk, request, admitted, changes>>

\* POST /ingestion/batch-reprocess keeps the chunks.
BatchReprocess(d) ==
  /\ Change /\ document[d].status # "DELETED"
  /\ document' = [document EXCEPT ![d].status = "REPROCESSING"]
  /\ UNCHANGED <<conversation, citation, cache, chunk, request, stale, admitted>>

\* chunk_document in the worker: one transaction, which a row of citation that refers
\* to a chunk makes fail.
MakeChunks(d) ==
  LET made == <<d, document[d].generation + 1>>
  IN /\ document[d].status \in Waiting /\ document[d].generation < MaxGeneration
     /\ \A x \in citation : DocumentOf(x.chunk) # d
     /\ chunk' = {c \in chunk : DocumentOf(c) # d} \cup {made}
     /\ document' = [document EXCEPT ![d] = [status |-> "SEARCHABLE", generation |-> made[2]]]
     /\ UNCHANGED <<conversation, citation, cache, request, stale, admitted, changes>>

\* A step of the worker fails for good, KG_EXTRACT even where the document is searchable.
WorkerFails(d) ==
  /\ document[d].status \in Waiting \cup Searchable
  /\ document' = [document EXCEPT ![d].status = "FAILED"]
  /\ UNCHANGED <<conversation, citation, cache, chunk, request, stale, admitted, changes>>

Init ==
  /\ \E old \in SUBSET Conversations :
       conversation = [c \in Conversations |->
         IF c \in old THEN [NoRow EXCEPT !.state = "live", !.pinned = EmptyPinned] ELSE NoRow]
  /\ citation = {} /\ cache = {}
  /\ document = [d \in Documents |-> [status |-> "SEARCHABLE", generation |-> 0]]
  /\ chunk = Documents \X {0}
  /\ request = [r \in Requests |-> NotAsked]
  /\ stale = FALSE
  /\ admitted = [c \in Conversations |-> {}]
  /\ changes = 0

Ask(r) ==
  \E c \in Conversations, question \in Questions[r], how \in {"plain", "regenerate"} :
    AskNew(r, c, question, how) \/ AskIn(r, c, question, how)

Next ==
  \/ \E r \in Requests : Ask(r) \/ Query(r) \/ Throw(r)
  \/ \E c \in Conversations : PatchConversation(c) \/ DeleteConversation(c)
  \/ \E d \in Documents :
       PatchDocument(d) \/ DeleteDocument(d) \/ ReprocessDocument(d) \/ BatchReprocess(d)
         \/ MakeChunks(d) \/ WorkerFails(d)
  \/ InvalidateCache

Spec == Init /\ [][Next]_askVars

-----------------------------------------------------------------------------
(* Properties.                                                             *)

Text == [kind : {"none", "fixed", "answer"}, meant : Seq([index : Nat, chunk : Chunks]),
         cites : Seq([index : Nat, chunk : Chunks])]

\* Types of the variables.
TypeOK ==
  /\ conversation \in [Conversations ->
       [state : {"free", "live", "deleted"}, archived : BOOLEAN, rows : Nat, count : Nat,
        pinned : [set : BOOLEAN, case : Scopes \cup {NoScope}, multi : Seq(Scopes),
                  mode : {"none", "single", "multi", "global"}, source : ScopeSources,
                  own : OwnFilters \cup {"none"}]]]
  /\ citation \subseteq [message : Requests, chunk : chunk]
  /\ \A entry \in cache : entry.meant \in Seq([index : Nat, chunk : Chunks])
  /\ document \in [Documents -> [status : Status, generation : 0 .. MaxGeneration]]
  /\ chunk \subseteq Chunks
  /\ \A r \in Requests : /\ request[r].pc \in Steps \cup Ended \cup {"idle"}
                         /\ request[r].conversation \in Conversations \cup {NoConversation}
                         /\ request[r].answer \in Text
  /\ stale \in BOOLEAN /\ admitted \in [Conversations -> SUBSET Requests]
  /\ changes \in 0 .. MaxChanges

\* message_count is the number of message rows, but for the requests whose UPDATE is still
\* to come or never came: no interleaving of requests loses a count or counts twice
\* (pipeline.ts inserts and counts in two statements).
CountTracksMessages ==
  \A c \in Conversations : Live(c) =>
    conversation[c].rows = conversation[c].count +
      Cardinality({r \in Requests : /\ request[r].conversation = c
                                    /\ request[r].pc \in {"countUser", "count", "uncounted"}})

\* Whatever the user gets, from the cache or not, rests on evidence of the cases that the
\* question was found to be about: the key under which an answer was stored has to be
\* the scope it was made for, although the lookup happens before the scope is final.
AnswersStayInScope ==
  \A r \in Requests :
    request[r].answer.kind = "answer" /\ request[r].resolution.scopes # <<>> =>
      \A m \in ToSet(request[r].answer.meant) :
        LET signals == Signals[DocumentOf(m.chunk)]
        IN signals = {} \/ \E s \in signals, t \in ToSet(request[r].resolution.scopes) :
                             CaseSignalMatchesScope(s, t)

\* While a document waits to be chunked after a reprocess no citation refers to its chunks,
\* so that the worker's DELETE cannot fail, and no request under way brings one back
\* (clearRetryDerivedState).
UploadedIsUncited ==
  \A d \in Documents : document[d].status = "UPLOADED" =>
    \A x \in citation : DocumentOf(x.chunk) # d

\* The filters that a user has pinned are changed by PATCH alone, or by a request which
\* had read them before they were changed: the pipeline writes the column back whole.
OwnFiltersAreTheUsers ==
  [][\A c \in Conversations :
       Live(c) /\ conversation[c].pinned.own # conversation'[c].pinned.own =>
         \/ conversation'[c].state = "deleted" \/ request' = request
         \/ \E r \in Requests : /\ request[r] # request'[r] /\ ConversationOf(r) = c
                                /\ request[r].pinned # conversation[c].pinned]_askVars

\* An archived conversation grows only by what was under way when it was archived.
ArchivedOnlyDrains ==
  [][\A c \in Conversations :
       conversation[c].archived /\ conversation'[c].rows > conversation[c].rows =>
         \E r \in admitted[c] : request[r] # request'[r]]_askVars

\* What ConversationContract is about: the rows of conversation, and how far a request is.
Talks == [c \in Conversations |->
  [state |-> conversation[c].state, archived |-> conversation[c].archived,
   rows |-> conversation[c].rows]]
AfterQuestion == {"countUser", "scope", "lookup", "detect", "retrieve", "screen", "generate", "reply"}
PhaseOf(q) ==
  CASE q.pc = "idle" -> "none"
    [] q.pc = "archived" -> IF q.how = "regenerate" THEN "repeating" ELSE "asking"
    [] q.pc = "pinned" -> IF q.how = "regenerate" THEN "asked" ELSE "open"
    [] q.pc = "user" -> "open"
    [] q.pc \in AfterQuestion -> "asked"
    [] q.pc \in {"count", "cite", "store", "trace"} -> "answered"
    [] q.pc = "done" -> "closed"
    [] OTHER -> "failed"
Exchanges == [r \in Requests |->
  [phase |-> PhaseOf(request[r]), talk |-> request[r].conversation]]
Conversational == INSTANCE ConversationContract WITH talk <- Talks, exchange <- Exchanges

\* The pipeline, its statements interleaved with those of other requests and with PATCH
\* and DELETE of the conversation, is a series of exchanges of ConversationContract: a
\* question and then one answer, no second question for an answer that is regenerated,
\* nothing in a conversation that is gone or was found archived (pipeline.ts:174-240).
ConversationsAreExchanges == Conversational!ContractSpec

\* PROJECT_SUMMARY.md:65 promises references that link back to the passages which support
\* the answer: the number [n] sent with an answer is that of the chunk which the text
\* marks [n].  Answers from the cache do not keep it.
MarksKeepTheirPassage ==
  \A r \in Requests :
    \A m \in ToSet(request[r].answer.meant), n \in ToSet(request[r].answer.cites) :
      m.index = n.index => m.chunk = n.chunk
=============================================================================
