------------------------------ MODULE Uploads ------------------------------
(***************************************************************************)
(* Uploading many files from the browser:                                  *)
(* apps/web/src/components/documents/DocumentUpload.tsx with apiUpload     *)
(* and the session flag of lib/api.ts, against the upload route            *)
(* (apps/api/src/routes/document-routes.ts), which looks for a duplicate   *)
(* and inserts the document in two statements.                             *)
(*                                                                         *)
(* A batch is one click on Upload.  It goes on when its user leaves the    *)
(* page, and the next visit starts from an empty list.  What is listed is  *)
(* compared with nothing, so entries may share names and contents.  A      *)
(* folder is uploaded in the same way, from a list of its own.  The        *)
(* session may be found expired by any request.  Other users upload what   *)
(* this one does; of them there are only the requests.                     *)
(***************************************************************************)
EXTENDS Naturals, FiniteSets

CONSTANTS
  Files,          \* BOUND: the entries that a list may have, File objects
  NameOf,         \* the name of each
  Contents,       \* BOUND: what they may hold
  Batches,        \* BOUND: clicks on Upload
  Elsewhere,      \* BOUND: requests of other users
  MaxRetries,     \* MAX_RETRIES
  MaxConcurrent,  \* MAX_CONCURRENT
  MaxServed,      \* BOUND: requests on the server when another one is sent
  MaxVisits       \* BOUND: how often the user leaves the page

ASSUME UploadAssumption ==
  /\ IsFiniteSet(Files) /\ DOMAIN NameOf = Files /\ Batches \cap Elsewhere = {}
  /\ MaxRetries \in Nat /\ MaxConcurrent \in Nat \ {0} /\ MaxServed \in Nat /\ MaxVisits \in Nat

VARIABLES
  contentOf,         \* what the entries hold; never changes
  listed,            \* the entries in the list
  batch,             \* the locals of handleUploadFiles, one item for each file
  visit,             \* which visit of the page this is
  uploadInProgress,  \* _uploadInProgress of lib/api.ts
  serverUpload,      \* the requests on the server
  elsewhere,         \* the requests that other users have sent
  stored,            \* the documents with each content, by the requests that inserted them
  rivals,            \* history: the requests that had looked when the first one was stored
  abandoned          \* history: requests that the client gave up while they were served

serverVars == <<elsewhere, stored, rivals, abandoned>>
upVars == <<contentOf, listed, batch, visit, uploadInProgress, serverUpload, serverVars>>

-----------------------------------------------------------------------------
NotInBatch == [pc |-> "none", attempt |-> 0]
NoBatch == [pc |-> "idle", visit |-> 0, item |-> [f \in Files |-> NotInBatch]]
Running(b) == batch[b].pc = "running"
ItemAt(b, f, pc) == Running(b) /\ batch[b].item[f].pc = pc
FilesOf(b) == {f \in Files : batch[b].item[f].pc # "none"}
FailedOf(b) == {f \in Files : batch[b].item[f].pc = "error"}
InFlight(b) == {f \in Files : batch[b].item[f].pc = "sending"}
AllSettled(b) == \A f \in Files : batch[b].item[f].pc \in {"none", "done", "error"}

ItemGoes(b, f, pc, attempt) ==
  batch' = [batch EXCEPT ![b].item[f] = [pc |-> pc, attempt |-> attempt]]
Arriving(b, f, attempt) ==
  [batch |-> b, file |-> f, attempt |-> attempt, pc |-> "arriving"]
Id(q) == [batch |-> q.batch, file |-> q.file, attempt |-> q.attempt]
ServerHasRoom == Cardinality(serverUpload) < MaxServed
Awaited(q) ==
  /\ q.batch \in Batches /\ ItemAt(q.batch, q.file, "sending")
  /\ batch[q.batch].item[q.file].attempt = q.attempt

\* The buttons of the list are hidden while isUploading.  Between the last file, with
\* which completed reaches total, and the end of the try no event is handled.
NeverUploading == FALSE
IsUploading == \E b \in Batches : batch[b].visit = visit /\ Running(b)

-----------------------------------------------------------------------------
(* The list.                                                               *)

\* An entry more, whatever those of the list hold; works during an upload too.
AddFile(f) ==
  /\ f \notin listed /\ listed' = listed \cup {f}
  /\ UNCHANGED <<batch, visit, uploadInProgress, serverUpload, serverVars>>

RemoveFiles ==
  /\ ~IsUploading /\ listed # {}
  /\ listed' \in {{}} \cup {listed \ {f} : f \in listed}
  /\ UNCHANGED <<batch, visit, uploadInProgress, serverUpload, serverVars>>

StartUpload(b) ==
  /\ batch[b].pc = "idle" /\ listed # {} /\ ~IsUploading
  /\ batch' = [batch EXCEPT ![b] =
       [pc |-> "running", visit |-> visit,
        item |-> [f \in Files |-> IF f \in listed THEN [NotInBatch EXCEPT !.pc = "pending"]
                                                  ELSE NotInBatch]]]
  /\ uploadInProgress' = TRUE
  /\ UNCHANGED <<listed, visit, serverUpload, serverVars>>

\* Another page of the application; what runs goes on without a list to clear.
LeavePage ==
  /\ visit < MaxVisits /\ visit' = visit + 1 /\ listed' = {}
  /\ UNCHANGED <<batch, uploadInProgress, serverUpload, serverVars>>

-----------------------------------------------------------------------------
(* uploadFileWithRetry.  The delay and the refresh of the session belong   *)
(* to the end of an attempt.                                               *)

\* One of the runners takes the next file.
TakeFile(b, f) ==
  /\ ItemAt(b, f, "pending") /\ Cardinality(InFlight(b)) < MaxConcurrent /\ ServerHasRoom
  /\ ItemGoes(b, f, "sending", 0)
  /\ serverUpload' = serverUpload \cup {Arriving(b, f, 0)}
  /\ UNCHANGED <<listed, visit, uploadInProgress, serverVars>>

\* The loop returns when its attempts are used up: no error.
ReturnsAfterLoop(attempt) == IF attempt = MaxRetries THEN "done" ELSE "sending"
\* continue goes on to the next attempt too, which may be past the last one, and so to
\* throw new Error("Upload failed after retries").
AfterRefresh(attempt) == IF attempt = MaxRetries THEN "error" ELSE "sending"

\* Where an error leads: "other" is any but these.
AfterError(error, attempt) ==
  CASE error = "expired" -> {"error", AfterRefresh(attempt)}
    [] error = "duplicate" \/ attempt = MaxRetries -> {"error"}
    [] OTHER -> {"sending"}

\* The attempt ends, and served is what is left on the server.
AttemptFails(b, f, error, served) ==
  LET attempt == batch[b].item[f].attempt
  IN \E pc \in AfterError(error, attempt) :
       IF pc = "sending"
       THEN /\ ItemGoes(b, f, pc, attempt + 1)
            /\ serverUpload' = served \cup {Arriving(b, f, attempt + 1)}
       ELSE ItemGoes(b, f, pc, attempt) /\ serverUpload' = served

\* A timeout while the request is served; the server goes on with it.
GiveUp(q) ==
  /\ Awaited(q) /\ ServerHasRoom /\ AttemptFails(q.batch, q.file, "other", serverUpload)
  /\ abandoned' = abandoned \cup {Id(q)}
  /\ UNCHANGED <<listed, visit, uploadInProgress, elsewhere, stored, rivals>>

\* A 401 that finds the flag cleared goes to the login page, and all is lost; the
\* application is loaded anew.
RedirectToLogin ==
  /\ uploadInProgress' = FALSE /\ listed' = {} /\ visit' = visit + 1
  /\ batch' = [c \in Batches |-> IF batch[c].pc \in {"running", "ending"}
                                 THEN [batch[c] EXCEPT !.pc = "lost"] ELSE batch[c]]

\* The answer to q, if someone still waits for it; "other" is any error, and what a
\* client knows of an answer that is lost.
Answer(q, reply) ==
  LET served == serverUpload \ {q}
  IN \/ ~Awaited(q) /\ serverUpload' = served /\ UNCHANGED <<batch, listed, visit, uploadInProgress>>
     \/ /\ Awaited(q) /\ reply = "stored" /\ serverUpload' = served
        /\ ItemGoes(q.batch, q.file, "done", q.attempt)
        /\ UNCHANGED <<listed, visit, uploadInProgress>>
     \/ /\ Awaited(q) /\ reply = "expired" /\ ~uploadInProgress
        /\ RedirectToLogin /\ serverUpload' = served
     \/ /\ Awaited(q) /\ reply # "stored" /\ (reply = "expired" => uploadInProgress)
        /\ AttemptFails(q.batch, q.file, reply, served)
        /\ UNCHANGED <<listed, visit, uploadInProgress>>

-----------------------------------------------------------------------------
(* The end of a batch.                                                     *)

\* finally: before the lists of the workspace are fetched again.
EndUpload(b) ==
  /\ Running(b) /\ AllSettled(b)
  /\ batch' = [batch EXCEPT ![b].pc = "ending"] /\ uploadInProgress' = FALSE
  /\ UNCHANGED <<listed, visit, serverUpload, serverVars>>

\* The list keeps what has the name of a file that failed.
ClearList(b) ==
  LET names == {NameOf[f] : f \in FailedOf(b)}
  IN /\ batch[b].pc = "ending" /\ batch' = [batch EXCEPT ![b].pc = "done"]
     /\ listed' = IF batch[b].visit = visit THEN {f \in listed : NameOf[f] \in names} ELSE listed
     /\ UNCHANGED <<visit, uploadInProgress, serverUpload, serverVars>>

-----------------------------------------------------------------------------
(* The upload route.                                                       *)

\* Another user's request, for a content that this one uploads too.
UploadElsewhere(e, f) ==
  /\ e \notin elsewhere /\ elsewhere' = elsewhere \cup {e} /\ ServerHasRoom
  /\ serverUpload' = serverUpload \cup {Arriving(e, f, 0)}
  /\ UNCHANGED <<batch, listed, visit, uploadInProgress, stored, rivals, abandoned>>

\* Uploads whatever is there.
AlwaysForced(q) == FALSE
IsDuplicate(q) == stored[contentOf[q.file]] # {}

ServerChecks(q) ==
  /\ q.pc = "arriving"
  /\ IF IsDuplicate(q) THEN \E reply \in {"duplicate", "other"} : Answer(q, reply)
     ELSE /\ serverUpload' = (serverUpload \ {q}) \cup {[q EXCEPT !.pc = "checked"]}
          /\ UNCHANGED <<batch, listed, visit, uploadInProgress>>
  /\ UNCHANGED serverVars

\* The requests that have found no document with this content.
LookedFor(content) == {q \in serverUpload : q.pc = "checked" /\ contentOf[q.file] = content}

\* The INSERT; what follows it may fail and answer an error.
ServerStores(q) ==
  LET content == contentOf[q.file]
  IN /\ q.pc = "checked" /\ stored' = [stored EXCEPT ![content] = @ \cup {Id(q)}]
     /\ rivals' = [rivals EXCEPT ![content] =
                     IF IsDuplicate(q) THEN @ ELSE {Id(r) : r \in LookedFor(content)}]
     /\ \E reply \in {"stored", "other"} : Answer(q, reply)
     /\ UNCHANGED <<elsewhere, abandoned>>

ServerRefuses(q) ==
  /\ q.pc = "arriving" /\ \E reply \in {"expired", "other"} : Answer(q, reply)
  /\ UNCHANGED serverVars

UpInit ==
  /\ contentOf \in [Files -> Contents]
  /\ listed = {} /\ batch = [b \in Batches |-> NoBatch] /\ visit = 0
  /\ uploadInProgress = FALSE /\ serverUpload = {} /\ elsewhere = {}
  /\ stored = [c \in Contents |-> {}] /\ rivals = [c \in Contents |-> {}] /\ abandoned = {}

UpStep ==
  \/ \E f \in Files : AddFile(f)
  \/ RemoveFiles \/ LeavePage
  \/ \E b \in Batches :
       \/ StartUpload(b) \/ EndUpload(b) \/ ClearList(b)
       \/ \E f \in Files : TakeFile(b, f)
  \/ \E q \in serverUpload :
       GiveUp(q) \/ ServerChecks(q) \/ ServerStores(q) \/ ServerRefuses(q)
  \/ \E e \in Elsewhere, f \in Files : UploadElsewhere(e, f)

UpNext == UpStep /\ UNCHANGED contentOf

UpSpec == UpInit /\ [][UpNext]_upVars

-----------------------------------------------------------------------------
(* Properties.                                                             *)

Ids == [batch : Batches \cup Elsewhere, file : Files, attempt : 0 .. MaxRetries]

\* Types of the variables.
UpTypeOK ==
  /\ contentOf \in [Files -> Contents]
  /\ listed \subseteq Files /\ visit \in Nat /\ uploadInProgress \in BOOLEAN
  /\ batch \in [Batches ->
       [pc : {"idle", "running", "ending", "done", "lost"}, visit : Nat,
        item : [Files -> [pc : {"none", "pending", "sending", "done", "error"},
                          attempt : 0 .. MaxRetries]]]]
  /\ serverUpload \subseteq [batch : Batches \cup Elsewhere, file : Files,
                             attempt : 0 .. MaxRetries, pc : {"arriving", "checked"}]
  /\ elsewhere \subseteq Elsewhere /\ abandoned \subseteq Ids
  /\ stored \in [Contents -> SUBSET Ids] /\ rivals \in [Contents -> SUBSET Ids]

\* A file that the end of its batch takes off the list is stored, whatever was retried,
\* refreshed or lost on the way, and whatever else was uploaded beside it
\* (DocumentUpload.tsx:246-252).
ClearedFilesAreStored ==
  [][\A b \in Batches : batch[b].pc = "ending" /\ batch'[b].pc = "done" =>
       \A f \in FilesOf(b) \cap (listed \ listed') : stored[contentOf[f]] # {}]_upVars

\* A content is stored again only by requests that had looked for it before it was first
\* stored, the look and the INSERT being two statements (document-routes.ts:796-948): two
\* runners' of one batch, of two visits or of two users.  And one entry of a batch is stored
\* twice only if the client had given up the earlier request, which a retry overtook.
StoredTogether ==
  \A c \in Contents :
    /\ stored[c] \subseteq rivals[c]
    /\ \A r, s \in stored[c] :
         r.batch = s.batch /\ r.file = s.file /\ r.attempt < s.attempt => r \in abandoned

\* While a batch has files to send a 401 does not redirect to the login page, unless the
\* batch of another visit has ended meanwhile: they share one flag (api.ts:9).
FlagCoversUploads ==
  \A b \in Batches : Running(b) /\ ~uploadInProgress =>
    \E c \in Batches : batch[c].visit # batch[b].visit /\ batch[c].pc \in {"ending", "done"}
=============================================================================
