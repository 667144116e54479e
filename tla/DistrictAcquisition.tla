------------------------ MODULE DistrictAcquisition ------------------------
(***************************************************************************)
(* Stage 1 of district-court acquisition: district_acquisition_queue holds *)
(* one row per case and source; the fetch-judgment request and the seeding *)
(* job fill it, acquisition threads (apps/worker/src/district/             *)
(* acquisition_worker.py) claim rows, call the source outside any          *)
(* transaction and store what they got.  rate_governor.py pauses eCourts.  *)
(* Stage 2 (processing.py) makes a document of a stored artifact.          *)
(*                                                                         *)
(* As in IngestionQueue, one action is one transaction or statement, and a *)
(* poll may claim any claimable row: SKIP LOCKED passes over the first of  *)
(* the order as long as another transaction has it locked.                 *)
(***************************************************************************)
EXTENDS Naturals, Sequences, FiniteSets

CONSTANTS
  Cases,        \* district_case rows, all of them criminal targets
  Sources,      \* sources that are enabled and eligible for these cases
  Answers,      \* BOUND: the outcomes that sources give in the instance
  Artifacts,    \* BOUND: district_text_artifact rows that may be inserted
  Workers,      \* acquisition threads, over all worker processes
  Clicks,       \* BOUND: fetch-judgment requests, each made at most once
  Forced,       \* the clicks that carry force: true
  MaxAttempts,  \* district_acquisition_queue.max_attempts
  DailyLimit,   \* ECOURTS_DAILY_FETCH_LIMIT, 0 for none
  LockOutlivesFetch, \* does every fetch finish before locked_until?
  NoCase, NoSource

AllSources == {"indian_kanoon", "ecourts", "hldc"}
AllOutcomes == {"hit", "miss", "rate_limited", "http_error", "blocked_by_policy",
                "captcha_required", "captcha_failed"}

ASSUME ConstantsAssumption ==
  /\ Sources \subseteq AllSources /\ NoSource \notin AllSources
  /\ Answers \subseteq AllOutcomes
  /\ NoCase \notin Cases
  /\ IsFiniteSet(Workers)
  /\ Forced \subseteq Clicks
  /\ MaxAttempts \in Nat \ {0} /\ DailyLimit \in Nat
  /\ LockOutlivesFetch \in BOOLEAN

VARIABLES
  text,      \* district_case.text_status
  queue,     \* the queue row of each case and source
  artifact,  \* the artifact rows: whose text, and is document_id set
  fetcher,   \* what each thread is doing: its poll_once locals
  click,     \* what each fetch-judgment request has read and has left to do
  logged,    \* district_fetch_attempt rows of each case and source
  spent,     \* of them, the eCourts ones since midnight
  recent,    \* and the outcomes of those of the last hour, oldest first
  selected   \* the cases that a seeding transaction has selected

acquisitionVars ==
  <<text, queue, artifact, fetcher, click, logged, spent, recent, selected>>

-----------------------------------------------------------------------------
FinalText == {"text_ready", "blocked", "dead"}
TextStatus == FinalText \cup {"metadata_only", "targeted", "ik_pending", "ik_hit",
                              "ik_miss", "ecourts_pending", "ecourts_hit"}
OpenStatus == {"pending", "processing", "rate_limited"}
QueueStatus == OpenStatus \cup {"absent", "succeeded", "miss", "failed", "blocked"}

\* lock abstracts locked_until; wait says that next_attempt_at is in the future.
Row == [status : QueueStatus, attempt : Nat,
        lock : {"none", "held", "expired"}, wait : BOOLEAN]
Artifact == [case : Cases \cup {NoCase}, source : AllSources \cup {NoSource},
             document : BOOLEAN]
\* paused says whether the governor paused eCourts when this poll asked it.
Fetcher == [pc : {"idle", "asked", "fetching"}, paused : BOOLEAN,
            case : Cases \cup {NoCase}, source : AllSources \cup {NoSource}, attempt : Nat]
Click == [pc : {"ready", "read", "target", "queue", "done"}, case : Cases \cup {NoCase},
          seen : TextStatus, sources : SUBSET AllSources]

Absent == [status |-> "absent", attempt |-> 0, lock |-> "none", wait |-> FALSE]
Pending == [Absent EXCEPT !.status = "pending"]
NoArtifact == [case |-> NoCase, source |-> NoSource, document |-> FALSE]
Idle == [pc |-> "idle", paused |-> FALSE,
         case |-> NoCase, source |-> NoSource, attempt |-> 0]
NotClicked == [pc |-> "ready", case |-> NoCase, seen |-> "metadata_only", sources |-> {}]

-----------------------------------------------------------------------------
(* What a source answers, and what the code makes of the answer.  hldc is  *)
(* never called: the row is blocked at once.                               *)

Outcomes(s) ==
  CASE s = "indian_kanoon" ->
         Answers \cap {"hit", "miss", "rate_limited", "http_error", "blocked_by_policy"}
    [] s = "ecourts" -> Answers
    [] s = "hldc" -> {"blocked_by_policy"}

\* Gives up one attempt early.
RetryOrFailEarly(attempt) == IF attempt + 1 >= MaxAttempts THEN "failed" ELSE "rate_limited"
RetryOrFail(attempt) == IF attempt >= MaxAttempts THEN "failed" ELSE "rate_limited"

\* Takes a miss for a success.
QueueStatusOfMissSucceeds(o, attempt) ==
  CASE o \in {"hit", "miss"} -> "succeeded"
    [] o \in {"captcha_required", "captcha_failed", "blocked_by_policy"} -> "blocked"
    [] OTHER -> RetryOrFail(attempt)
QueueStatusOf(o, attempt) ==
  CASE o = "hit" -> "succeeded"
    [] o = "miss" -> "miss"
    [] o \in {"captcha_required", "captcha_failed", "blocked_by_policy"} -> "blocked"
    [] OTHER -> RetryOrFail(attempt)

\* attempt_to_case_status; a set, empty where the case is left alone.
CaseStatusOf(s, o) ==
  CASE o = "hit" /\ s = "ecourts" -> {"ecourts_hit"}
    [] o = "hit" /\ s = "indian_kanoon" -> {"ik_hit"}
    [] o = "miss" -> IF s = "indian_kanoon" THEN {"ik_miss"} ELSE {"targeted"}
    [] o = "rate_limited" -> IF s = "ecourts" THEN {"ecourts_pending"} ELSE {"ik_pending"}
    [] o = "captcha_required" -> {"ecourts_pending"}
    [] o = "captcha_failed" \/ (o = "blocked_by_policy" /\ s = "ecourts") -> {"blocked"}
    [] OTHER -> {}

\* The trigger on district_text_artifact, then the guarded UPDATE.
TextAfterTrigger(t, o) ==
  IF o = "hit" /\ t \notin {"blocked", "dead"} THEN "text_ready" ELSE t
\* Without the guard of the UPDATE.
TextAfterUnguarded(t, s, o) ==
  IF CaseStatusOf(s, o) = {} THEN TextAfterTrigger(t, o)
  ELSE CHOOSE x \in CaseStatusOf(s, o) : TRUE
TextAfter(t, s, o) ==
  LET ready == TextAfterTrigger(t, o)
  IN IF ready \in FinalText \/ CaseStatusOf(s, o) = {} THEN ready
     ELSE CHOOSE x \in CaseStatusOf(s, o) : TRUE

-----------------------------------------------------------------------------
(* The rate governor, over the attempts on record.                         *)

CountRecent(S) == Cardinality({i \in DOMAIN recent : recent[i] \in S})

\* More than 20 % captcha failures or more than 10 % rate limits in the hour.
StopWindow ==
  \/ 5 * CountRecent({"captcha_failed"})
       > CountRecent({"captcha_required", "captcha_failed", "hit", "miss"})
  \/ 10 * CountRecent({"rate_limited"}) > Len(recent)

\* Checks the limit one fetch late.
LimitReachedLate == DailyLimit # 0 /\ spent > DailyLimit
LimitReached == DailyLimit # 0 /\ spent >= DailyLimit
Pauses == LimitReached \/ StopWindow

Log(c, s, o) ==
  /\ logged' = [logged EXCEPT ![<<c, s>>] = @ + 1]
  /\ spent' = IF s = "ecourts" THEN spent + 1 ELSE spent
  /\ recent' = IF s = "ecourts" THEN Append(recent, o) ELSE recent

\* Every fetch is stamped with now(): an attempt leaves the window an hour
\* later, the oldest first, and at midnight the day starts anew.
AttemptLeavesHour ==
  /\ recent # <<>>
  /\ recent' = Tail(recent)
  /\ UNCHANGED <<text, queue, artifact, fetcher, click, logged, spent, selected>>

Midnight ==
  /\ spent # 0
  /\ spent' = 0
  /\ UNCHANGED <<text, queue, artifact, fetcher, click, logged, recent, selected>>

-----------------------------------------------------------------------------
(* One poll: ask the governor, then reclaim and claim.  The reclaiming     *)
(* comes before in the transaction, but appears when it commits.           *)

Stale(row) == row.status = "processing" /\ row.lock = "expired"
ReapedRow(row) ==
  IF Stale(row)
  THEN [row EXCEPT !.status = RetryOrFail(row.attempt), !.lock = "none", !.wait = FALSE]
  ELSE row
Reaped == [k \in Cases \X Sources |-> ReapedRow(queue[k])]

\* Ignores locked_until of a row that is not being processed.
ReadyRowAnyLock(row) == row.status \in {"pending", "rate_limited"} /\ ~row.wait
ReadyRow(row) ==
  row.status \in {"pending", "rate_limited"} /\ ~row.wait /\ row.lock # "held"
Claimable(paused) ==
  {k \in Cases \X Sources : ReadyRow(Reaped[k]) /\ ~(paused /\ k[2] = "ecourts")}

\* Leaves locked_until as it was.
ClaimedRowNoLock(row) == [row EXCEPT !.status = "processing", !.attempt = @ + 1]
ClaimedRow(row) == [row EXCEPT !.status = "processing", !.attempt = @ + 1, !.lock = "held"]

\* paused_sources; the claim is a later statement.
PollAsks(w) ==
  /\ fetcher[w].pc = "idle"
  /\ fetcher' = [fetcher EXCEPT ![w] = [Idle EXCEPT !.pc = "asked", !.paused = Pauses]]
  /\ UNCHANGED <<text, queue, artifact, click, logged, spent, recent, selected>>

PollClaims(w, c, s) ==
  /\ fetcher[w].pc = "asked" /\ <<c, s>> \in Claimable(fetcher[w].paused)
  /\ queue' = [Reaped EXCEPT ![<<c, s>>] = ClaimedRow(@)]
  /\ fetcher' = [fetcher EXCEPT ![w] =
       [Idle EXCEPT !.pc = "fetching", !.case = c, !.source = s,
                    !.attempt = queue[<<c, s>>].attempt + 1]]
  /\ UNCHANGED <<text, artifact, click, logged, spent, recent, selected>>

PollFindsNothing(w) ==
  /\ fetcher[w].pc = "asked" /\ Claimable(fetcher[w].paused) = {}
  /\ queue' = Reaped
  /\ fetcher' = [fetcher EXCEPT ![w] = Idle]
  /\ UNCHANGED <<text, artifact, click, logged, spent, recent, selected>>

(* After the fetch.  Both transactions name the row by id only.            *)

\* The row after a fetch: the lock is gone, a retry waits for its backoff.
Reported(row, status) ==
  [row EXCEPT !.status = status, !.lock = "none", !.wait = (status = "rate_limited")]

Stores(c, s, o) ==
  IF o = "hit"
  THEN \E a \in {x \in Artifacts : artifact[x] = NoArtifact} :
         artifact' = [artifact EXCEPT ![a] = [NoArtifact EXCEPT !.case = c, !.source = s]]
  ELSE UNCHANGED artifact

PersistResult(w, o) ==
  LET c == fetcher[w].case
      s == fetcher[w].source
  IN /\ fetcher[w].pc = "fetching" /\ o \in Outcomes(s)
     /\ Log(c, s, o)
     /\ Stores(c, s, o)
     /\ queue' = [queue EXCEPT ![<<c, s>>] = Reported(@, QueueStatusOf(o, fetcher[w].attempt))]
     /\ text' = [text EXCEPT ![c] = TextAfter(@, s, o)]
     /\ fetcher' = [fetcher EXCEPT ![w] = Idle]
     /\ UNCHANGED <<click, selected>>

\* The fetch raised, or the transaction of PersistResult did and rolled back.
PersistException(w) ==
  LET c == fetcher[w].case
      s == fetcher[w].source
  IN /\ fetcher[w].pc = "fetching"
     /\ Log(c, s, "http_error")
     /\ queue' = [queue EXCEPT ![<<c, s>>] = Reported(@, RetryOrFail(fetcher[w].attempt))]
     /\ fetcher' = [fetcher EXCEPT ![w] = Idle]
     /\ UNCHANGED <<text, artifact, click, selected>>

\* The process dies, or even PersistException cannot reach the database.  (A
\* poll that dies before its claim leaves nothing behind.)
Crash(w) ==
  /\ fetcher[w].pc = "fetching"
  /\ fetcher' = [fetcher EXCEPT ![w] = Idle]
  /\ UNCHANGED <<text, queue, artifact, click, logged, spent, recent, selected>>

FetchersOf(c, s) == {w \in Workers : fetcher[w].case = c /\ fetcher[w].source = s}

LockExpires(c, s) ==
  /\ queue[<<c, s>>].lock = "held"
  /\ LockOutlivesFetch => FetchersOf(c, s) = {}
  /\ queue' = [queue EXCEPT ![<<c, s>>].lock = "expired"]
  /\ UNCHANGED <<text, artifact, fetcher, click, logged, spent, recent, selected>>

BackoffEnds(c, s) ==
  /\ queue[<<c, s>>].wait
  /\ queue' = [queue EXCEPT ![<<c, s>>].wait = FALSE]
  /\ UNCHANGED <<text, artifact, fetcher, click, logged, spent, recent, selected>>

-----------------------------------------------------------------------------
(* fetch-judgment: two rounds of reads, then one statement at a time.      *)

ClickReadsCase(r, c) ==
  /\ click[r].pc = "ready"
  /\ click' = [click EXCEPT ![r] = [@ EXCEPT !.pc = "read", !.case = c, !.seen = text[c]]]
  /\ UNCHANGED <<text, queue, artifact, fetcher, logged, spent, recent, selected>>

Available(c) == \E a \in Artifacts : artifact[a].case = c /\ artifact[a].document
Open(c) == \E s \in Sources : queue[<<c, s>>].status \in OpenStatus

\* planFetchSources has the status that was read before the queue was.
ClickPlans(r, S) ==
  /\ click[r].pc = "read"
  /\ r \notin Forced => ~Available(click[r].case) /\ ~Open(click[r].case)
  /\ click[r].seen \notin FinalText /\ S # {}
  /\ click' = [click EXCEPT ![r] = [@ EXCEPT !.pc = "target", !.sources = S]]
  /\ UNCHANGED <<text, queue, artifact, fetcher, logged, spent, recent, selected>>

\* Answers available, pending or no_eligible_sources, or dies on the way.
ClickEnds(r) ==
  /\ click[r].pc \notin {"ready", "done"}
  /\ click' = [click EXCEPT ![r].pc = "done"]
  /\ UNCHANGED <<text, queue, artifact, fetcher, logged, spent, recent, selected>>

ClickTargets(r) ==
  LET c == click[r].case
  IN /\ click[r].pc = "target"
     /\ text' = IF text[c] = "metadata_only" THEN [text EXCEPT ![c] = "targeted"] ELSE text
     /\ click' = [click EXCEPT ![r].pc = "queue"]
     /\ UNCHANGED <<queue, artifact, fetcher, logged, spent, recent, selected>>

\* Writes a status of the request's own.
RequeuedMisnamed(row, force) ==
  IF row = Absent THEN Pending ELSE [row EXCEPT !.status = "queued", !.wait = FALSE]
\* ON CONFLICT DO UPDATE: attempt_count and locked_until stay as they are.
Requeued(row, force) ==
  IF row = Absent THEN Pending
  ELSE IF force \/ row.status \in {"failed", "rate_limited"}
       THEN [row EXCEPT !.status = "pending", !.wait = FALSE]
       ELSE row

ClickQueues(r, s) ==
  LET c == click[r].case
      rest == click[r].sources \ {s}
  IN /\ click[r].pc = "queue" /\ s \in click[r].sources
     /\ queue' = [queue EXCEPT ![<<c, s>>] = Requeued(@, r \in Forced)]
     /\ click' = [click EXCEPT ![r].sources = rest,
                               ![r].pc = IF rest = {} THEN "done" ELSE "queue"]
     /\ UNCHANGED <<text, artifact, fetcher, logged, spent, recent, selected>>

(* seed_from_existing_cases, in one transaction: what it inserts appears   *)
(* when it commits, and rows inserted meanwhile stay as they are.          *)

SeedSelects(C) ==
  /\ selected = {} /\ C # {}
  /\ \A c \in C : text[c] \notin FinalText /\ \A s \in Sources : queue[<<c, s>>] = Absent
  /\ selected' = C
  /\ UNCHANGED <<text, queue, artifact, fetcher, click, logged, spent, recent>>

SeedCommits ==
  /\ selected # {}
  /\ queue' = [k \in Cases \X Sources |->
                IF k[1] \in selected /\ queue[k] = Absent THEN Pending ELSE queue[k]]
  /\ selected' = {}
  /\ UNCHANGED <<text, artifact, fetcher, click, logged, spent, recent>>

SeedDies ==
  /\ selected # {} /\ selected' = {}
  /\ UNCHANGED <<text, queue, artifact, fetcher, click, logged, spent, recent>>

(* Stage 2 for one artifact, whose row is locked for the transaction.      *)
ProcessStored(a) ==
  LET c == artifact[a].case
  IN /\ artifact[a] # NoArtifact /\ ~artifact[a].document
     /\ artifact' = [artifact EXCEPT ![a].document = TRUE]
     /\ text' = IF text[c] \in FinalText THEN text ELSE [text EXCEPT ![c] = "text_ready"]
     /\ UNCHANGED <<queue, fetcher, click, logged, spent, recent, selected>>

-----------------------------------------------------------------------------
Init ==
  /\ text \in [Cases -> {"metadata_only", "targeted"}]
  /\ queue = [k \in Cases \X Sources |-> Absent]
  /\ artifact = [a \in Artifacts |-> NoArtifact]
  /\ fetcher = [w \in Workers |-> Idle]
  /\ click = [r \in Clicks |-> NotClicked]
  /\ logged = [k \in Cases \X Sources |-> 0]
  /\ spent = 0
  /\ recent = <<>>
  /\ selected = {}

Poll(w) ==
  PollAsks(w) \/ PollFindsNothing(w) \/ \E c \in Cases, s \in Sources : PollClaims(w, c, s)
Persist(w) == PersistException(w) \/ \E o \in AllOutcomes : PersistResult(w, o)
ClickStep(r) ==
  \/ \E c \in Cases : ClickReadsCase(r, c)
  \/ \E S \in SUBSET Sources : ClickPlans(r, S)
  \/ ClickTargets(r) \/ ClickEnds(r)
  \/ \E s \in Sources : ClickQueues(r, s)

Next ==
  \/ \E w \in Workers : Poll(w) \/ Persist(w) \/ Crash(w)
  \/ \E c \in Cases, s \in Sources : LockExpires(c, s) \/ BackoffEnds(c, s)
  \/ \E r \in Clicks : ClickStep(r)
  \/ \E C \in SUBSET Cases : SeedSelects(C)
  \/ SeedCommits \/ SeedDies
  \/ \E a \in Artifacts : ProcessStored(a)
  \/ AttemptLeavesHour \/ Midnight

Spec == Init /\ [][Next]_acquisitionVars

-----------------------------------------------------------------------------
(* Type invariant.                                                         *)
TypeOK ==
  /\ text \in [Cases -> TextStatus]
  /\ queue \in [Cases \X Sources -> Row]
  /\ artifact \in [Artifacts -> Artifact]
  /\ fetcher \in [Workers -> Fetcher]
  /\ click \in [Clicks -> Click]
  /\ logged \in [Cases \X Sources -> Nat]
  /\ spent \in Nat /\ recent \in Seq(AllOutcomes)
  /\ selected \subseteq Cases

(* The daily cap is checked against the attempts on record, which a fetch  *)
(* joins only when it ends: the threads together exceed the cap by at most *)
(* one fetch each but one (rate_governor.decide_ecourts_pause, poll_once). *)
DailyOvershootBounded ==
  DailyLimit # 0 => spent <= DailyLimit + Cardinality(Workers) - 1

(* A row that says succeeded has an artifact of its case and source, and a *)
(* case that says text_ready has an artifact, whichever late or forced     *)
(* fetch wrote last (_persist_result, _queue_status, the trigger).         *)
SuccessHasArtifact ==
  /\ \A c \in Cases, s \in Sources : queue[<<c, s>>].status = "succeeded" =>
       \E a \in Artifacts : artifact[a].case = c /\ artifact[a].source = s
  /\ \A c \in Cases : text[c] = "text_ready" => \E a \in Artifacts : artifact[a].case = c

(* Text that was acquired is never hidden again by the report of another   *)
(* source, however late: a case with an artifact stays text_ready or       *)
(* blocked (the guard of the UPDATE in _persist_result).                   *)
ArtifactIsVisible ==
  \A a \in Artifacts : artifact[a] # NoArtifact =>
    text[artifact[a].case] \in {"text_ready", "blocked"}

(* A row fails only when its attempts are used up, also when the report    *)
(* comes from a fetch that was reclaimed (_queue_status, the reaper).      *)
FailedUsedAllAttempts ==
  \A c \in Cases, s \in Sources :
    queue[<<c, s>>].status = "failed" => queue[<<c, s>>].attempt >= MaxAttempts

(* While locks outlive fetches, no two threads fetch the same row, even    *)
(* when a forced request makes it pending under the fetch (the test of     *)
(* locked_until in poll_once).                                             *)
OneFetcherPerRow ==
  \A c \in Cases, s \in Sources : Cardinality(FetchersOf(c, s)) <= 1

(* Whatever the sources answer, threads die or the governor pauses, every  *)
(* row that was queued ends (reaper, backoff, governor window).            *)
AcquisitionConverges ==
  \A c \in Cases, s \in Sources :
    queue[<<c, s>>].status \in OpenStatus ~> queue[<<c, s>>].status \notin OpenStatus

(* docs/plan-district-judgment-fetch.md: every eCourts attempt is visible  *)
(* in district_fetch_attempt.  attempt_count counts the claims.            *)
EveryAttemptLogged ==
  \A c \in Cases, s \in Sources :
    s = "ecourts" => queue[<<c, s>>].attempt = logged[<<c, s>>] + Cardinality(FetchersOf(c, s))
=============================================================================
