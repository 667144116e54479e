---------------------------- MODULE Idempotency ----------------------------
(***************************************************************************)
(* The attempts of clients to get one request done, which all carry one    *)
(* idempotency key, and the row of idempotency_cache that holds its answer *)
(* (packages/api-core/src/middleware/idempotency.ts).                      *)
(***************************************************************************)
EXTENDS Naturals

CONSTANTS
  Attempts,   \* BOUND: attempts made
  NoAttempt

ASSUME IdemAssumption == NoAttempt \notin Attempts

VARIABLES
  keyRow,     \* the row of the key
  attempt     \* the locals of the hooks

idemVars == <<keyRow, attempt>>

-----------------------------------------------------------------------------
\* by is the attempt whose answer the row holds; fresh: expires_at is to come.
KeyRow == [by : Attempts \cup {NoAttempt}, fresh : BOOLEAN]
NoKeyRow == [by |-> NoAttempt, fresh |-> FALSE]

\* did, blind, onRecord and knew are history: the handler's work was done; the SELECT failed;
\* a row that can be replayed has stood since its INSERT; of whom that held at the SELECT.
Attempt == [pc : {"idle", "handle", "answered", "done"}, replays : Attempts \cup {NoAttempt},
            did : BOOLEAN, blind : BOOLEAN, onRecord : BOOLEAN, knew : SUBSET Attempts]
NotTried == [pc |-> "idle", replays |-> NoAttempt, did |-> FALSE, blind |-> FALSE,
             onRecord |-> FALSE, knew |-> {}]
AttemptAt(t, pc) == attempt[t].pc = pc
OnRecord == {t \in Attempts : attempt[t].onRecord}

\* onRequest: a SELECT that fails is as if there were no key.
LookUpKey(t) ==
  /\ AttemptAt(t, "idle")
  /\ \E blind \in BOOLEAN :
       attempt' = [attempt EXCEPT ![t] =
         IF keyRow.fresh /\ ~blind
         THEN [@ EXCEPT !.pc = "done", !.replays = keyRow.by]
         ELSE [@ EXCEPT !.pc = "handle", !.blind = blind, !.knew = OnRecord]]
  /\ UNCHANGED keyRow

\* The handler answers 2xx, or something else, which is not kept.
Handle(t) ==
  /\ AttemptAt(t, "handle")
  /\ \/ attempt' = [attempt EXCEPT ![t].pc = "answered", ![t].did = TRUE]
     \/ attempt' = [attempt EXCEPT ![t].pc = "done"]
  /\ UNCHANGED keyRow

\* onResponse, after the answer was sent: ON CONFLICT DO NOTHING, also when the row in the
\* way has expired.
StoreAnswer(t) ==
  /\ AttemptAt(t, "answered")
  /\ keyRow' = IF keyRow = NoKeyRow THEN [by |-> t, fresh |-> TRUE] ELSE keyRow
  /\ attempt' = [attempt EXCEPT ![t].pc = "done", ![t].onRecord = keyRow'.fresh]

\* The INSERT fails, or the process dies.
AnswerLost(t) ==
  /\ AttemptAt(t, "answered") /\ attempt' = [attempt EXCEPT ![t].pc = "done"]
  /\ UNCHANGED keyRow

\* ttlMs passes.
KeyExpires ==
  /\ keyRow.fresh /\ keyRow' = [keyRow EXCEPT !.fresh = FALSE]
  /\ attempt' = [t \in Attempts |-> [attempt[t] EXCEPT !.onRecord = FALSE]]

\* Without the WHERE.
DeletesAll == keyRow # NoKeyRow
DeletesExpired == keyRow # NoKeyRow /\ ~keyRow.fresh
CleanUp == DeletesExpired /\ keyRow' = NoKeyRow /\ UNCHANGED attempt

IdemInit == keyRow = NoKeyRow /\ attempt = [t \in Attempts |-> NotTried]

IdemNext ==
  \/ \E t \in Attempts : LookUpKey(t) \/ Handle(t) \/ StoreAnswer(t) \/ AnswerLost(t)
  \/ KeyExpires \/ CleanUp

IdemSpec == IdemInit /\ [][IdemNext]_idemVars

-----------------------------------------------------------------------------
(* Properties.                                                             *)

\* Types of the variables.
IdemTypeOK == keyRow \in KeyRow /\ attempt \in [Attempts -> Attempt]

\* Work that was done and put on record is not done again: an attempt repeats it only if it
\* looked before the other's INSERT, or could not look, or the row had expired - or one
\* that had was in the way of that INSERT (idempotency.ts:48-66, 77-82).  What is replayed
\* is the answer of an attempt that did the work.
RepeatsAreAccountedFor ==
  \A t \in Attempts :
    /\ attempt[t].did => attempt[t].blind \/ attempt[t].knew = {}
    /\ attempt[t].replays # NoAttempt => attempt[attempt[t].replays].did
=============================================================================
