----------------------------- MODULE OfficeProofs -----------------------------
(***************************************************************************)
(* Proofs about the web client: Uploads, for any number of entries,        *)
(* contents, batches, runners, retries, visits and requests of other       *)
(* users, and Chat, for any number of conversations, answers and calls.    *)
(* At the end, that each of the six parts of MCOffice behaves there as it  *)
(* does by itself.                                                         *)
(*                                                                         *)
(* The argument for uploads.  Once a content is stored no look for it      *)
(* finds nothing, so what is still to be stored is among the requests that *)
(* had looked when it was first stored.  An attempt of an entry follows    *)
(* the end of the one before, or its being given up; a request that ended  *)
(* by storing its content makes the look of the next one find it.          *)
(***************************************************************************)
EXTENDS MCOffice, WorkflowProofs, ApiCoreProofs

-----------------------------------------------------------------------------
(* The invariant of uploads.                                               *)

Item == [pc : {"none", "pending", "sending", "done", "error"}, attempt : 0 .. MaxRetries]
Batch == [pc : {"idle", "running", "ending", "done", "lost"}, visit : Nat, item : [Files -> Item]]
Request == [batch : Batches \cup Elsewhere, file : Files, attempt : 0 .. MaxRetries,
            pc : {"arriving", "checked"}]
Sent(item) == item.pc \in {"sending", "done", "error"}

\* Batches without items have not started, and batches that ended have no item under way.
BatchesAreOrdered ==
  \A b \in Batches :
    /\ batch[b].pc = "idle" => FilesOf(b) = {}
    /\ batch[b].pc \in {"ending", "done"} => AllSettled(b)

\* A visit has one running batch at most.
OneOpenBatch ==
  \A b, c \in Batches : Running(b) /\ Running(c) /\ batch[b].visit = batch[c].visit => b = c

\* What an item calls done has a document.
DoneIsStored ==
  \A b \in Batches : \A f \in Files :
    batch[b].item[f].pc = "done" => stored[contentOf[f]] # {}

\* Requests, here or gone after the INSERT, are of an attempt that the item has reached.
Known(i) ==
  IF i.batch \in Batches
  THEN /\ Sent(batch[i.batch].item[i.file])
       /\ i.attempt <= batch[i.batch].item[i.file].attempt
  ELSE i.attempt = 0
SentAreKnown ==
  /\ \A q \in serverUpload : Known(Id(q))
  /\ \A c \in Contents : \A r \in stored[c] : Known(r)

\* A request that is served although its item is past the attempt was given up, and an
\* attempt has one request.
EarlierIsAbandoned ==
  \A q \in serverUpload :
    q.batch \in Batches /\ q.attempt < batch[q.batch].item[q.file].attempt => Id(q) \in abandoned
OneRequestPerAttempt ==
  \A q, r \in serverUpload : q.batch \in Batches /\ Id(q) = Id(r) => q = r

\* A request that is about to store what is stored had looked before that, and an earlier
\* one of its entry that is stored was given up.
LookedAreRivals ==
  \A q \in serverUpload : q.pc = "checked" /\ stored[contentOf[q.file]] # {} =>
    Id(q) \in rivals[contentOf[q.file]]
LookedFollowAbandoned ==
  \A q \in serverUpload : q.pc = "checked" =>
    \A r \in stored[contentOf[q.file]] :
      r.batch = q.batch /\ r.file = q.file /\ r.attempt < q.attempt => r \in abandoned

ClientInv == BatchesAreOrdered /\ OneOpenBatch /\ DoneIsStored /\ FlagCoversUploads
RequestInv == SentAreKnown /\ EarlierIsAbandoned /\ OneRequestPerAttempt
StoredInv == LookedAreRivals /\ LookedFollowAbandoned /\ StoredTogether
UpInv == UpTypeOK /\ ClientInv /\ RequestInv /\ StoredInv

LEMMA UpTypes ==
  UpTypeOK <=>
    /\ contentOf \in [Files -> Contents]
    /\ listed \subseteq Files /\ visit \in Nat /\ uploadInProgress \in BOOLEAN
    /\ batch \in [Batches -> Batch] /\ serverUpload \subseteq Request
    /\ elsewhere \subseteq Elsewhere /\ abandoned \subseteq Ids
    /\ stored \in [Contents -> SUBSET Ids] /\ rivals \in [Contents -> SUBSET Ids]
BY DEF UpTypeOK, Batch, Item, Request

LEMMA RequestTyped ==
  ASSUME UpTypeOK, NEW q \in serverUpload
  PROVE  /\ q \in Request /\ Id(q) \in Ids /\ contentOf[q.file] \in Contents
         /\ q.file \in Files /\ q.attempt \in 0 .. MaxRetries /\ q.attempt \in Nat
         /\ Id(q).batch = q.batch /\ Id(q).file = q.file /\ Id(q).attempt = q.attempt
<1>1. q \in Request /\ contentOf \in [Files -> Contents] /\ MaxRetries \in Nat
  BY UpTypes, UploadAssumption
<1> QED
  BY <1>1 DEF Request, Id, Ids

-----------------------------------------------------------------------------
(* The documents.                                                          *)

\* Documents are only added, by requests that have found none.
StoresFor(q) ==
  /\ q.pc = "checked" /\ stored' = [stored EXCEPT ![contentOf[q.file]] = @ \cup {Id(q)}]
  /\ rivals' = [rivals EXCEPT ![contentOf[q.file]] =
                 IF IsDuplicate(q) THEN @ ELSE {Id(r) : r \in LookedFor(contentOf[q.file])}]
Stores == UNCHANGED <<stored, rivals>> \/ \E q \in serverUpload : StoresFor(q)

\* What the INSERT of q changes, content by content.
LEMMA StoresForIs ==
  ASSUME UpTypeOK, NEW q \in serverUpload, StoresFor(q), NEW c \in Contents
  PROVE  /\ c # contentOf[q.file] => stored'[c] = stored[c] /\ rivals'[c] = rivals[c]
         /\ c = contentOf[q.file] =>
              /\ stored'[c] = stored[c] \cup {Id(q)}
              /\ stored[c] # {} => rivals'[c] = rivals[c]
              /\ stored[c] = {} => rivals'[c] = {Id(r) : r \in LookedFor(c)}
<1>1. stored \in [Contents -> SUBSET Ids] /\ rivals \in [Contents -> SUBSET Ids]
      /\ contentOf[q.file] \in Contents
  BY UpTypes, RequestTyped
<1> QED
  BY <1>1 DEF StoresFor, IsDuplicate

LEMMA StoresTyped ==
  ASSUME UpTypeOK, Stores
  PROVE  /\ stored' \in [Contents -> SUBSET Ids] /\ rivals' \in [Contents -> SUBSET Ids]
         /\ \A c \in Contents : stored[c] \subseteq stored'[c]
<1>1. stored \in [Contents -> SUBSET Ids] /\ rivals \in [Contents -> SUBSET Ids]
  BY UpTypes
<1>2. ASSUME NEW q \in serverUpload, StoresFor(q)
      PROVE  /\ stored' \in [Contents -> SUBSET Ids] /\ rivals' \in [Contents -> SUBSET Ids]
             /\ \A c \in Contents : stored[c] \subseteq stored'[c]
  <2>1. \A r \in serverUpload : Id(r) \in Ids
    BY RequestTyped
  <2>2. {Id(r) : r \in LookedFor(contentOf[q.file])} \subseteq Ids
    BY <2>1 DEF LookedFor
  <2>3. stored' \in [Contents -> SUBSET Ids] /\ rivals' \in [Contents -> SUBSET Ids]
    BY <1>1, <1>2, <2>1, <2>2 DEF StoresFor
  <2> QED
    BY <1>2, <2>3, StoresForIs
<1> QED
  BY <1>1, <1>2 DEF Stores

\* A step of the requests and documents: those that go on, new ones that arrive, and one
\* perhaps whose look has found nothing.
ServerSteps ==
  /\ UNCHANGED contentOf /\ abandoned \subseteq abandoned' /\ Stores
  /\ \A r \in serverUpload' :
       \/ r \in serverUpload \/ r.pc = "arriving"
       \/ /\ UNCHANGED <<stored, rivals>> /\ r.file \in Files /\ stored[contentOf[r.file]] = {}

LEMMA StoredKeeps ==
  ASSUME UpInv, ServerSteps
  PROVE  StoredInv'
<1>1. /\ UpTypeOK /\ UNCHANGED contentOf /\ abandoned \subseteq abandoned'
      /\ \A q \in serverUpload : q \in Request /\ q.file \in Files /\ contentOf[q.file] \in Contents
  BY RequestTyped DEF UpInv, ServerSteps
<1>2. CASE UNCHANGED <<stored, rivals>>
  <2>1. LookedAreRivals' /\ LookedFollowAbandoned'
    BY <1>1, <1>2 DEF UpInv, StoredInv, ServerSteps, LookedAreRivals, LookedFollowAbandoned, Id
  <2>2. StoredTogether'
    BY <1>1, <1>2 DEF UpInv, StoredInv, StoredTogether
  <2> QED
    BY <2>1, <2>2 DEF StoredInv
<1>3. ASSUME NEW p \in serverUpload, StoresFor(p), stored' # stored \/ rivals' # rivals
      PROVE  StoredInv'
  <2> DEFINE content == contentOf[p.file]
  <2>1. /\ content \in Contents /\ p.pc = "checked" /\ Id(p) \in Ids
        /\ Id(p).batch = p.batch /\ Id(p).file = p.file /\ Id(p).attempt = p.attempt
        /\ p.attempt \in Nat
    BY <1>1, <1>3, RequestTyped DEF StoresFor
  <2>2. \A c \in Contents :
          /\ c # content => stored'[c] = stored[c] /\ rivals'[c] = rivals[c]
          /\ c = content =>
               /\ stored'[c] = stored[c] \cup {Id(p)}
               /\ stored[c] # {} => rivals'[c] = rivals[c]
               /\ stored[c] = {} => rivals'[c] = {Id(r) : r \in LookedFor(c)}
    BY <1>1, <1>3, StoresForIs
  <2>3. \A r \in serverUpload' : r.pc = "checked" => r \in serverUpload
    BY <1>3 DEF ServerSteps
  <2>4. p \in LookedFor(content)
    BY <2>1 DEF LookedFor
  <2> HIDE DEF content
  <2>5. \A q \in serverUpload : q.pc = "checked" /\ contentOf[q.file] = content =>
          Id(q) \in rivals'[content]
    BY <2>1, <2>2 DEF UpInv, StoredInv, LookedAreRivals, LookedFor
  <2>6. LookedAreRivals'
    <3> SUFFICES ASSUME NEW q \in serverUpload', q.pc = "checked", stored'[contentOf[q.file]] # {}
                 PROVE  Id(q) \in rivals'[contentOf[q.file]]
      BY <1>1 DEF LookedAreRivals, Id
    <3>1. q \in serverUpload /\ contentOf[q.file] \in Contents
      BY <1>1, <2>3
    <3> QED
      BY <2>2, <2>5, <3>1 DEF UpInv, StoredInv, LookedAreRivals
  <2>7. \* Another request of p's entry with a later attempt: p was given up.
        \A i \in Ids : Known(i) /\ i.batch = p.batch /\ i.file = p.file /\ p.attempt < i.attempt
                       => Id(p) \in abandoned
    <3> SUFFICES ASSUME NEW i \in Ids, Known(i), i.batch = p.batch, i.file = p.file,
                        p.attempt < i.attempt
                 PROVE  Id(p) \in abandoned
      OBVIOUS
    <3>1. i.attempt \in Nat /\ p.batch \in Batches
      BY <2>1, UploadAssumption DEF Ids, Known
    <3>2. batch[p.batch].item[p.file].attempt \in Nat
      BY <1>1, <3>1, UpTypes, UploadAssumption DEF Batch, Item
    <3>3. p.attempt < batch[p.batch].item[p.file].attempt
      BY <2>1, <3>1, <3>2 DEF Known
    <3> QED
      BY <3>1, <3>3 DEF UpInv, RequestInv, EarlierIsAbandoned
  <2>8. LookedFollowAbandoned'
    <3> SUFFICES ASSUME NEW q \in serverUpload', q.pc = "checked",
                        NEW r \in stored'[contentOf[q.file]], r.batch = q.batch,
                        r.file = q.file, r.attempt < q.attempt
                 PROVE  r \in abandoned'
      BY <1>1 DEF LookedFollowAbandoned
    <3>1. q \in serverUpload /\ contentOf[q.file] \in Contents
      BY <1>1, <2>3
    <3>2. CASE r \in stored[contentOf[q.file]]
      BY <1>1, <3>1, <3>2 DEF UpInv, StoredInv, LookedFollowAbandoned
    <3>3. CASE r = Id(p)
      <4>1. Known(Id(q)) /\ Id(q) \in Ids /\ Id(q).batch = q.batch /\ Id(q).file = q.file
            /\ Id(q).attempt = q.attempt
        BY <1>1, <3>1, RequestTyped DEF UpInv, RequestInv, SentAreKnown
      <4> QED
        BY <1>1, <2>1, <2>7, <3>3, <4>1
    <3> QED
      BY <2>2, <3>1, <3>2, <3>3
  <2>9. StoredTogether'
    <3> SUFFICES ASSUME NEW c \in Contents
                 PROVE  /\ stored'[c] \subseteq rivals'[c]
                        /\ \A r, s \in stored'[c] :
                             r.batch = s.batch /\ r.file = s.file /\ r.attempt < s.attempt =>
                               r \in abandoned'
      BY DEF StoredTogether
    <3>1. CASE c # content
      BY <1>1, <2>2, <3>1 DEF UpInv, StoredInv, StoredTogether
    <3>2. CASE c = content
      <4>1. stored'[c] \subseteq rivals'[c]
        <5>1. Id(p) \in rivals'[c]
          BY <2>1, <2>5, <3>2 DEF content
        <5> QED
          BY <2>1, <2>2, <3>2, <5>1 DEF UpInv, StoredInv, StoredTogether
      <4>2. ASSUME NEW r \in stored'[c], NEW s \in stored'[c], r.batch = s.batch,
                   r.file = s.file, r.attempt < s.attempt
            PROVE  r \in abandoned'
        <5>1. CASE r \in stored[c] /\ s \in stored[c]
          BY <1>1, <4>2, <5>1 DEF UpInv, StoredInv, StoredTogether
        <5>2. CASE r = Id(p) /\ s \in stored[c]
          <6>1. Known(s) /\ s \in Ids
            BY <1>1, <5>2, UpTypes DEF UpInv, RequestInv, SentAreKnown
          <6> QED
            BY <1>1, <2>1, <2>7, <4>2, <5>2, <6>1
        <5>3. CASE r \in stored[c] /\ s = Id(p)
          BY <1>1, <2>1, <3>2, <4>2, <5>3 DEF UpInv, StoredInv, LookedFollowAbandoned, content
        <5>4. CASE r = Id(p) /\ s = Id(p)
          BY <2>1, <4>2, <5>4
        <5> QED
          BY <2>2, <3>2, <5>1, <5>2, <5>3, <5>4
      <4> QED
        BY <4>1, <4>2
    <3> QED
      BY <3>1, <3>2
  <2> QED
    BY <2>6, <2>8, <2>9 DEF StoredInv
<1> QED
  BY <1>2, <1>3 DEF ServerSteps, Stores

-----------------------------------------------------------------------------
(* The requests.                                                           *)

\* Items that have sent something stay as they are.
ItemsStay ==
  \A b \in Batches : \A f \in Files :
    Sent(batch[b].item[f]) => batch'[b].item[f] = batch[b].item[f]

\* Nothing arrives, and what changes in a request is whether it has looked.
LEMMA RequestsStay ==
  ASSUME UpInv, ServerSteps, ItemsStay,
         \A r \in serverUpload' : \E q \in serverUpload :
           Id(r) = Id(q) /\ (r = q \/ q \notin serverUpload'),
         \A r, u \in serverUpload' : Id(r) = Id(u) /\ r.batch \in Batches => r = u
  PROVE  RequestInv'
<1>1. UpTypeOK /\ stored \in [Contents -> SUBSET Ids] /\ abandoned \subseteq abandoned'
  BY UpTypes DEF UpInv, ServerSteps
<1>2. ASSUME NEW i \in Ids, Known(i)
      PROVE  Known(i)' /\ (i.batch \in Batches =>
               batch'[i.batch].item[i.file] = batch[i.batch].item[i.file])
  <2>1. i.file \in Files
    BY DEF Ids
  <2> QED
    BY <1>2, <2>1 DEF Known, ItemsStay
<1>3. \A q \in serverUpload : Known(Id(q)) /\ Id(q) \in Ids
  BY <1>1, RequestTyped DEF UpInv, RequestInv, SentAreKnown
<1>4. ASSUME NEW c \in Contents, NEW r \in stored'[c]  PROVE Known(r) /\ r \in Ids
  <2>1. CASE r \in stored[c]
    BY <1>1, <2>1 DEF UpInv, RequestInv, SentAreKnown
  <2>2. ASSUME NEW q \in serverUpload, r = Id(q)  PROVE Known(r) /\ r \in Ids
    BY <1>3, <2>2
  <2>3. r \in stored[c] \/ \E q \in serverUpload : r = Id(q)
    BY <1>1, <1>4, StoresForIs DEF ServerSteps, Stores
  <2> QED
    BY <2>1, <2>2, <2>3
<1>5. SentAreKnown'
  <2>1. \A r \in serverUpload' : Known(Id(r))'
    <3>1. ASSUME NEW r \in serverUpload', NEW i, i = Id(r)  PROVE Known(i)'
      BY <1>2, <1>3, <3>1
    <3> QED
      BY <3>1 DEF Known, Id
  <2>2. \A c \in Contents : \A r \in stored'[c] : Known(r)'
    BY <1>2, <1>4
  <2> QED
    BY <2>1, <2>2 DEF SentAreKnown
<1>6. EarlierIsAbandoned'
  <2> SUFFICES ASSUME NEW r \in serverUpload', r.batch \in Batches,
                      r.attempt < batch'[r.batch].item[r.file].attempt
               PROVE  Id(r) \in abandoned'
    BY DEF EarlierIsAbandoned, Id
  <2>1. PICK q \in serverUpload : Id(r) = Id(q)
    OBVIOUS
  <2>2. r.batch = q.batch /\ r.file = q.file /\ r.attempt = q.attempt
    BY <2>1 DEF Id
  <2>3. batch'[q.batch].item[q.file] = batch[q.batch].item[q.file]
    BY <1>2, <1>3, <2>2, RequestTyped, <1>1
  <2> QED
    BY <1>1, <2>1, <2>2, <2>3 DEF UpInv, RequestInv, EarlierIsAbandoned
<1>7. OneRequestPerAttempt'
  BY DEF OneRequestPerAttempt, Id
<1> QED
  BY <1>5, <1>6, <1>7 DEF RequestInv

\* The requests stay, or some are answered.
LEMMA RequestsLeave ==
  ASSUME UpInv, ItemsStay, UNCHANGED <<contentOf, abandoned>>, Stores,
         serverUpload' \subseteq serverUpload
  PROVE  RequestInv' /\ StoredInv'
<1>1. ServerSteps
  BY DEF ServerSteps
<1>2. \A r, u \in serverUpload' : Id(r) = Id(u) /\ r.batch \in Batches => r = u
  BY DEF UpInv, RequestInv, OneRequestPerAttempt
<1> QED
  BY <1>1, <1>2, StoredKeeps, RequestsStay

-----------------------------------------------------------------------------
(* Steps that leave the requests and the documents alone.                  *)

\* The list does not matter.
LEMMA ListKeeps ==
  ASSUME UpInv, listed' \subseteq Files,
         UNCHANGED <<contentOf, batch, visit, uploadInProgress, serverUpload, serverVars>>
  PROVE  UpInv'
<1>1. UpTypeOK'
  BY DEF UpInv, UpTypeOK, serverVars
<1>2. ClientInv'
  BY DEF UpInv, ClientInv, BatchesAreOrdered, OneOpenBatch, DoneIsStored, FlagCoversUploads,
         Running, AllSettled, FilesOf, serverVars
<1>3. RequestInv' /\ StoredInv'
  <2>1. ItemsStay /\ Stores
    BY DEF ItemsStay, Stores, serverVars
  <2> QED
    BY <2>1, RequestsLeave DEF serverVars
<1> QED
  BY <1>1, <1>2, <1>3 DEF UpInv

LEMMA LeaveKeeps ==
  ASSUME UpInv, LeavePage, UNCHANGED contentOf
  PROVE  UpInv'
<1>1. visit \in Nat /\ visit' = visit + 1 /\ listed' = {}
      /\ UNCHANGED <<batch, uploadInProgress, serverUpload, serverVars>>
  BY UpTypes DEF UpInv, LeavePage
<1>2. UpTypeOK'
  BY <1>1 DEF UpInv, UpTypeOK, serverVars
<1>3. ClientInv'
  BY <1>1 DEF UpInv, ClientInv, BatchesAreOrdered, OneOpenBatch, DoneIsStored, FlagCoversUploads,
              Running, AllSettled, FilesOf, serverVars
<1>4. RequestInv' /\ StoredInv'
  <2>1. ItemsStay /\ Stores
    BY <1>1 DEF ItemsStay, Stores, serverVars
  <2> QED
    BY <1>1, <2>1, RequestsLeave DEF serverVars
<1> QED
  BY <1>2, <1>3, <1>4 DEF UpInv

LEMMA StartKeeps ==
  ASSUME UpInv, NEW b \in Batches, StartUpload(b), UNCHANGED contentOf
  PROVE  UpInv'
<1> DEFINE items == [f \in Files |-> IF f \in listed THEN [NotInBatch EXCEPT !.pc = "pending"]
                                     ELSE NotInBatch]
           new == [pc |-> "running", visit |-> visit, item |-> items]
<1>1. /\ batch[b].pc = "idle" /\ ~IsUploading /\ batch' = [batch EXCEPT ![b] = new]
      /\ uploadInProgress' = TRUE
      /\ UNCHANGED <<listed, visit, serverUpload, elsewhere, stored, rivals, abandoned>>
  BY DEF StartUpload, serverVars
<1>2. UpTypeOK /\ batch \in [Batches -> Batch] /\ visit \in Nat
  BY UpTypes DEF UpInv
<1>3. MaxRetries \in Nat /\ NotInBatch = [pc |-> "none", attempt |-> 0]
  BY UploadAssumption DEF NotInBatch
<1>4. items \in [Files -> Item] /\ \A f \in Files : items[f].pc \in {"none", "pending"}
  BY <1>3 DEF Item
<1>5. /\ new.pc = "running" /\ new.visit = visit /\ new.item = items /\ new \in Batch
  BY <1>2, <1>4 DEF Batch
<1>6. batch' \in [Batches -> Batch] /\ batch'[b] = new
      /\ \A c \in Batches : c # b => batch'[c] = batch[c]
  BY <1>1, <1>2, <1>5
<1> HIDE DEF items, new
<1>7. UpTypeOK'
  BY <1>1, <1>2, <1>6 DEF UpTypeOK, Batch, Item
<1>8. ClientInv'
  <2>1. BatchesAreOrdered'
    BY <1>1, <1>5, <1>6 DEF UpInv, ClientInv, BatchesAreOrdered, AllSettled, FilesOf
  <2>2. \A c \in Batches : c # b /\ Running(c) => batch[c].visit # visit
    BY <1>1 DEF IsUploading
  <2>3. OneOpenBatch'
    BY <1>5, <1>6, <2>2 DEF UpInv, ClientInv, OneOpenBatch, Running
  <2>4. DoneIsStored'
    BY <1>1, <1>4, <1>5, <1>6 DEF UpInv, ClientInv, DoneIsStored
  <2>5. FlagCoversUploads'
    BY <1>1 DEF FlagCoversUploads
  <2> QED
    BY <2>1, <2>3, <2>4, <2>5 DEF ClientInv
<1>9. RequestInv' /\ StoredInv'
  <2>1. \A f \in Files : ~Sent(batch[b].item[f])
    BY <1>1 DEF UpInv, ClientInv, BatchesAreOrdered, FilesOf, Sent
  <2>2. ItemsStay /\ Stores
    BY <1>1, <1>6, <2>1 DEF ItemsStay, Stores
  <2> QED
    BY <1>1, <2>2, RequestsLeave
<1> QED
  BY <1>7, <1>8, <1>9 DEF UpInv

\* A batch ends, its list is cleared: both only move its control point.
LEMMA EndsKeep ==
  ASSUME UpInv, NEW b \in Batches, EndUpload(b) \/ ClearList(b), UNCHANGED contentOf
  PROVE  UpInv'
<1>1. PICK pc \in {"ending", "done"} :
        /\ batch' = [batch EXCEPT ![b].pc = pc] /\ AllSettled(b)
        /\ (pc = "ending") = Running(b) /\ (pc = "done") = (batch[b].pc = "ending")
        /\ uploadInProgress' = IF pc = "ending" THEN FALSE ELSE uploadInProgress
        /\ listed' \subseteq Files
        /\ UNCHANGED <<visit, serverUpload, elsewhere, stored, rivals, abandoned>>
  <2>1. CASE EndUpload(b)
    BY <2>1, UpTypes DEF UpInv, EndUpload, Running, serverVars
  <2>2. CASE ClearList(b)
    <3>1. listed' \subseteq listed
      BY <2>2 DEF ClearList
    <3>2. listed \subseteq Files
      BY UpTypes DEF UpInv
    <3>3. AllSettled(b)
      BY <2>2 DEF UpInv, ClientInv, BatchesAreOrdered, ClearList
    <3> QED
      BY <2>2, <3>1, <3>2, <3>3 DEF ClearList, Running, serverVars
  <2> QED
    BY <2>1, <2>2
<1>2. UpTypeOK /\ batch \in [Batches -> Batch] /\ uploadInProgress \in BOOLEAN
  BY UpTypes DEF UpInv
<1>3. /\ batch' \in [Batches -> Batch] /\ batch'[b].pc = pc
      /\ batch'[b].visit = batch[b].visit /\ batch'[b].item = batch[b].item
      /\ \A c \in Batches : c # b => batch'[c] = batch[c]
  BY <1>1, <1>2 DEF Batch
<1>4. UpTypeOK'
  <2>1. uploadInProgress' \in BOOLEAN
    BY <1>1, <1>2
  <2> QED
    BY <1>1, <1>2, <1>3, <2>1 DEF UpTypeOK, Batch, Item
<1>5. \A c \in Batches : AllSettled(c)' = AllSettled(c) /\ FilesOf(c)' = FilesOf(c)
  BY <1>3 DEF AllSettled, FilesOf
<1>6. BatchesAreOrdered' /\ OneOpenBatch' /\ DoneIsStored'
  BY <1>1, <1>3, <1>5 DEF UpInv, ClientInv, BatchesAreOrdered, OneOpenBatch, DoneIsStored, Running
<1>7. FlagCoversUploads'
  <2> SUFFICES ASSUME NEW c \in Batches, Running(c)', ~uploadInProgress'
               PROVE  \E d \in Batches : /\ batch'[d].visit # batch'[c].visit
                                         /\ batch'[d].pc \in {"ending", "done"}
    BY DEF FlagCoversUploads
  <2>1. c # b /\ Running(c)
    BY <1>1, <1>3 DEF Running
  <2>2. CASE pc = "ending"
    <3>1. batch[b].visit # batch[c].visit
      BY <1>1, <2>1, <2>2 DEF UpInv, ClientInv, OneOpenBatch
    <3> QED
      BY <1>3, <2>1, <3>1
  <2>3. CASE pc = "done"
    <3>1. PICK d \in Batches : batch[d].visit # batch[c].visit /\ batch[d].pc \in {"ending", "done"}
      BY <1>1, <2>1, <2>3 DEF UpInv, ClientInv, FlagCoversUploads
    <3> QED
      BY <1>1, <1>3, <2>1, <2>3, <3>1
  <2> QED
    BY <2>2, <2>3
<1>8. RequestInv' /\ StoredInv'
  <2>1. ItemsStay /\ Stores
    BY <1>1, <1>3 DEF ItemsStay, Stores
  <2> QED
    BY <1>1, <2>1, RequestsLeave
<1> QED
  BY <1>4, <1>6, <1>7, <1>8 DEF UpInv, ClientInv

-----------------------------------------------------------------------------
(* Steps of the requests.                                                  *)

\* A step of one item: it goes to pc, and served are the requests that stay.
Passes(b, f, pc, tries, served) ==
  /\ ItemGoes(b, f, pc, tries)
  /\ serverUpload' = served \cup IF pc = "sending" THEN {Arriving(b, f, tries)} ELSE {}
  /\ UNCHANGED <<listed, visit, uploadInProgress>>

\* An item sends its first request, ends, or sends another one; of the attempt before, a
\* request that stays was given up.
Follows(b, f, pc, tries, served) ==
  LET item == batch[b].item[f]
  IN \/ item.pc = "pending" /\ pc = "sending"
     \/ item.pc = "sending" /\ pc # "sending" /\ tries = item.attempt
     \/ /\ item.pc = "sending" /\ pc = "sending" /\ tries = item.attempt + 1
        /\ \A r \in served : r.batch = b /\ r.file = f /\ r.attempt = item.attempt =>
             Id(r) \in abandoned'

LEMMA PassKeeps ==
  ASSUME UpInv, NEW b \in Batches, NEW f \in Files, NEW pc \in {"sending", "done", "error"},
         NEW tries \in 0 .. MaxRetries, NEW served \in SUBSET serverUpload,
         Running(b), Passes(b, f, pc, tries, served), Follows(b, f, pc, tries, served), Stores,
         UNCHANGED <<contentOf, elsewhere>>, abandoned \subseteq abandoned', abandoned' \subseteq Ids,
         pc = "done" => stored'[contentOf[f]] # {}
  PROVE  UpInv'
<1> DEFINE new == [pc |-> pc, attempt |-> tries]
           old == batch[b].item[f]
           asked == IF pc = "sending" THEN {Arriving(b, f, tries)} ELSE {}
<1>1. /\ UpTypeOK /\ batch \in [Batches -> Batch] /\ serverUpload \subseteq Request
      /\ MaxRetries \in Nat /\ contentOf[f] \in Contents
  BY UpTypes, UploadAssumption DEF UpInv
<1>2. /\ UNCHANGED <<listed, visit, uploadInProgress>> /\ serverUpload' = served \cup asked
      /\ batch' = [batch EXCEPT ![b].item[f] = new]
  BY DEF Passes, ItemGoes
<1>3. /\ new \in Item /\ new.pc = pc /\ new.attempt = tries /\ batch[b].item \in [Files -> Item]
      /\ batch[b] \in Batch /\ old.attempt \in Nat /\ tries \in Nat
  BY <1>1 DEF Item, Batch
<1>4. /\ batch' \in [Batches -> Batch]
      /\ batch'[b].pc = batch[b].pc /\ batch'[b].visit = batch[b].visit
      /\ batch'[b].item = [batch[b].item EXCEPT ![f] = new]
      /\ \A c \in Batches : c # b => batch'[c] = batch[c]
  BY <1>1, <1>2, <1>3 DEF Batch
<1>5. \A r \in asked : /\ r \in Request /\ r.batch = b /\ r.file = f /\ r.attempt = tries
                       /\ r.pc = "arriving" /\ pc = "sending" /\ r = Arriving(b, f, tries)
  BY DEF Arriving, Request
<1>6. \/ old.pc = "pending" /\ pc = "sending"
      \/ old.pc = "sending" /\ pc # "sending" /\ tries = old.attempt
      \/ /\ old.pc = "sending" /\ pc = "sending" /\ tries = old.attempt + 1
         /\ \A r \in served : r.batch = b /\ r.file = f /\ r.attempt = old.attempt =>
              Id(r) \in abandoned'
  BY DEF Follows
<1> HIDE DEF new, old, asked
<1>7. /\ batch'[b].item[f] = new
      /\ \A c \in Batches : \A g \in Files :
           c # b \/ g # f => batch'[c].item[g] = batch[c].item[g]
  BY <1>3, <1>4
<1>8. /\ \A c \in Batches : FilesOf(c)' = FilesOf(c) /\ Running(c)' = Running(c)
      /\ \A c \in Batches : batch'[c].visit = batch[c].visit /\ batch'[c].pc = batch[c].pc
  <2>1. \A c \in Batches : batch'[c].visit = batch[c].visit /\ batch'[c].pc = batch[c].pc
    BY <1>4
  <2>2. \A c \in Batches : Running(c)' = Running(c)
    BY <2>1 DEF Running
  <2>3. \A c \in Batches : \A g \in Files :
          batch'[c].item[g].pc # "none" <=> batch[c].item[g].pc # "none"
    BY <1>3, <1>6, <1>7 DEF old
  <2> QED
    BY <2>1, <2>2, <2>3 DEF FilesOf
<1>9. UpTypeOK'
  <2>1. serverUpload' \subseteq Request
    BY <1>1, <1>2, <1>5
  <2>2. stored' \in [Contents -> SUBSET Ids] /\ rivals' \in [Contents -> SUBSET Ids]
    BY <1>1, StoresTyped
  <2> QED
    BY <1>1, <1>2, <1>4, <2>1, <2>2 DEF UpTypeOK, Batch, Item, Request
<1>10. ClientInv'
  <2>1. BatchesAreOrdered'
    <3> SUFFICES ASSUME NEW c \in Batches
                 PROVE  /\ batch'[c].pc = "idle" => FilesOf(c)' = {}
                        /\ batch'[c].pc \in {"ending", "done"} => AllSettled(c)'
      BY DEF BatchesAreOrdered
    <3>1. AllSettled(c) /\ c # b => AllSettled(c)'
      BY <1>4 DEF AllSettled
    <3>2. batch'[b].pc = "running"
      BY <1>8 DEF Running
    <3> QED
      BY <1>8, <3>1, <3>2 DEF UpInv, ClientInv, BatchesAreOrdered
  <2>2. OneOpenBatch' /\ FlagCoversUploads'
    BY <1>2, <1>8 DEF UpInv, ClientInv, OneOpenBatch, FlagCoversUploads
  <2>3. ASSUME NEW c \in Batches, NEW g \in Files, batch'[c].item[g].pc = "done"
        PROVE  stored'[contentOf[g]] # {}
    <3>1. CASE c = b /\ g = f
      BY <1>3, <1>7, <2>3, <3>1
    <3>2. CASE ~(c = b /\ g = f)
      <4>1. batch[c].item[g].pc = "done"
        BY <1>7, <2>3, <3>2
      <4>2. contentOf[g] \in Contents /\ stored[contentOf[g]] # {}
        BY <1>1, <4>1, UpTypes DEF UpInv, ClientInv, DoneIsStored
      <4> QED
        BY <1>1, <4>2, StoresTyped
    <3> QED
      BY <3>1, <3>2
  <2>4. DoneIsStored'
    BY <2>3 DEF DoneIsStored
  <2> QED
    BY <2>1, <2>2, <2>4 DEF ClientInv
<1>11. ServerSteps
  BY <1>2, <1>5 DEF ServerSteps
<1>12. RequestInv'
  <2>1. ASSUME NEW i \in Ids, Known(i)
        PROVE  /\ Known(i)'
               /\ i.batch = b /\ i.file = f => i.attempt <= old.attempt /\ old.pc # "pending"
    <3>1. i.file \in Files /\ i.attempt \in Nat
      BY <1>1 DEF Ids
    <3>2. CASE i.batch = b /\ i.file = f
      <4>1. Sent(old) /\ i.attempt <= old.attempt
        BY <2>1, <3>2 DEF Known, old
      <4>2. old.pc # "pending"
        BY <4>1 DEF Sent
      <4>3. Sent(new) /\ i.attempt <= new.attempt
        BY <1>3, <1>6, <3>1, <4>1, <4>2 DEF Sent
      <4> QED
        BY <1>7, <3>2, <4>1, <4>2, <4>3 DEF Known
    <3>3. CASE ~(i.batch = b /\ i.file = f)
      BY <1>7, <2>1, <3>1, <3>3 DEF Known
    <3> QED
      BY <3>2, <3>3
  <2>2. \A q \in serverUpload :
          /\ Known(Id(q)) /\ Id(q) \in Ids /\ q.file \in Files /\ q.attempt \in Nat
          /\ Id(q).batch = q.batch /\ Id(q).file = q.file /\ Id(q).attempt = q.attempt
    BY <1>1, RequestTyped DEF UpInv, RequestInv, SentAreKnown
  <2>3. SentAreKnown'
    <3>1. ASSUME NEW r \in serverUpload', NEW i, i = Id(r)  PROVE Known(i)'
      <4>1. CASE r \in asked
        <5>1. i.batch = b /\ i.file = f /\ i.attempt = tries /\ pc = "sending"
          BY <1>5, <3>1, <4>1 DEF Id
        <5> QED
          BY <1>3, <1>7, <5>1 DEF Known, Sent
      <4>2. CASE r \in served
        BY <2>1, <2>2, <3>1, <4>2
      <4> QED
        BY <1>2, <4>1, <4>2
    <3>2. ASSUME NEW c \in Contents, NEW r \in stored'[c]  PROVE Known(r)'
      <4>1. r \in stored[c] \/ \E q \in serverUpload : r = Id(q)
        BY <1>1, <3>2, StoresForIs DEF Stores
      <4>2. r \in stored[c] => Known(r) /\ r \in Ids
        BY <1>1, UpTypes DEF UpInv, RequestInv, SentAreKnown
      <4> QED
        BY <2>1, <2>2, <4>1, <4>2
    <3> QED
      BY <3>1, <3>2 DEF SentAreKnown, Known, Id
  <2>4. EarlierIsAbandoned'
    <3> SUFFICES ASSUME NEW r \in serverUpload', r.batch \in Batches,
                        r.attempt < batch'[r.batch].item[r.file].attempt
                 PROVE  Id(r) \in abandoned'
      BY DEF EarlierIsAbandoned, Id
    <3>1. r \in served
      BY <1>2, <1>3, <1>5, <1>7
    <3>2. CASE r.batch = b /\ r.file = f
      <4>1. r.attempt \in Nat /\ r.attempt <= old.attempt /\ old.pc # "pending" /\ r.attempt < tries
        BY <1>3, <1>7, <2>1, <2>2, <3>1, <3>2
      <4>2. r.attempt < old.attempt => Id(r) \in abandoned
        BY <3>1, <3>2 DEF UpInv, RequestInv, EarlierIsAbandoned, old
      <4> QED
        BY <1>3, <1>6, <3>1, <3>2, <4>1, <4>2
    <3>3. CASE ~(r.batch = b /\ r.file = f)
      BY <1>7, <2>2, <3>1, <3>3 DEF UpInv, RequestInv, EarlierIsAbandoned
    <3> QED
      BY <3>2, <3>3
  <2>5. OneRequestPerAttempt'
    <3>1. ASSUME NEW q \in served, NEW r \in asked, Id(q) = Id(r)  PROVE FALSE
      <4>1. q.batch = b /\ q.file = f /\ q.attempt = tries /\ pc = "sending"
        BY <1>5, <3>1 DEF Id
      <4>2. tries <= old.attempt /\ old.pc # "pending"
        BY <2>1, <2>2, <4>1
      <4> QED
        BY <1>3, <1>6, <4>1, <4>2
    <3>2. \A q, r \in served : q.batch \in Batches /\ Id(q) = Id(r) => q = r
      BY DEF UpInv, RequestInv, OneRequestPerAttempt
    <3> QED
      BY <1>2, <1>5, <3>1, <3>2 DEF OneRequestPerAttempt, Id
  <2> QED
    BY <2>3, <2>4, <2>5 DEF RequestInv
<1> QED
  BY <1>9, <1>10, <1>11, <1>12, StoredKeeps DEF UpInv

\* A step of the server that no item notices.
Unnoticed == UNCHANGED <<contentOf, listed, batch, visit, uploadInProgress, abandoned>>

LEMMA UnnoticedKeeps ==
  ASSUME UpInv, Unnoticed, Stores, serverUpload' \subseteq Request, elsewhere' \subseteq Elsewhere
  PROVE  UpTypeOK' /\ ClientInv'
<1>1. /\ stored' \in [Contents -> SUBSET Ids] /\ rivals' \in [Contents -> SUBSET Ids]
      /\ \A c \in Contents : stored[c] \subseteq stored'[c]
  BY StoresTyped DEF UpInv
<1>2. UpTypeOK'
  BY <1>1 DEF UpInv, UpTypeOK, Request, Unnoticed
<1>3. BatchesAreOrdered' /\ OneOpenBatch' /\ FlagCoversUploads'
  BY DEF UpInv, ClientInv, BatchesAreOrdered, OneOpenBatch, FlagCoversUploads, Running,
         AllSettled, FilesOf, Unnoticed
<1>4. DoneIsStored'
  <2>1. \A f \in Files : contentOf[f] \in Contents
    BY UpTypes DEF UpInv
  <2> QED
    BY <1>1, <2>1 DEF UpInv, ClientInv, DoneIsStored, Unnoticed
<1> QED
  BY <1>2, <1>3, <1>4 DEF ClientInv

\* All that was under way is lost, with the page; the requests stay on the server.
LEMMA RedirectKeeps ==
  ASSUME UpInv, RedirectToLogin, serverUpload' \subseteq serverUpload,
         UNCHANGED <<contentOf, serverVars>>
  PROVE  UpInv'
<1>1. UpTypeOK /\ batch \in [Batches -> Batch] /\ visit \in Nat
  BY UpTypes DEF UpInv
<1>2. /\ visit' = visit + 1 /\ listed' = {} /\ uploadInProgress' = FALSE
      /\ batch' = [c \in Batches |-> IF batch[c].pc \in {"running", "ending"}
                                    THEN [batch[c] EXCEPT !.pc = "lost"] ELSE batch[c]]
      /\ UNCHANGED <<elsewhere, stored, rivals, abandoned>>
  BY DEF RedirectToLogin, serverVars
<1>3. /\ batch' \in [Batches -> Batch]
      /\ \A c \in Batches :
           /\ batch'[c].visit = batch[c].visit /\ batch'[c].item = batch[c].item
           /\ batch'[c].pc = IF batch[c].pc \in {"running", "ending"} THEN "lost"
                             ELSE batch[c].pc
  BY <1>1, <1>2 DEF Batch
<1>4. UpTypeOK'
  <2>1. visit' \in Nat
    BY <1>1, <1>2
  <2> QED
    BY <1>1, <1>2, <1>3, <2>1 DEF UpTypeOK, Batch, Item
<1>5. \A c \in Batches : FilesOf(c)' = FilesOf(c) /\ AllSettled(c)' = AllSettled(c) /\ ~Running(c)'
  BY <1>3 DEF FilesOf, AllSettled, Running
<1>6. BatchesAreOrdered' /\ OneOpenBatch' /\ DoneIsStored' /\ FlagCoversUploads'
  BY <1>2, <1>3, <1>5 DEF UpInv, ClientInv, BatchesAreOrdered, OneOpenBatch, DoneIsStored,
                         FlagCoversUploads
<1>7. ItemsStay /\ Stores
  BY <1>2, <1>3 DEF ItemsStay, Stores
<1>8. RequestInv' /\ StoredInv'
  BY <1>2, <1>7, RequestsLeave
<1> QED
  BY <1>4, <1>6, <1>8 DEF UpInv, ClientInv

-----------------------------------------------------------------------------
(* The actions.                                                            *)

\* An attempt that fails is the last, or another one follows.
LEMMA FailurePasses ==
  ASSUME UpInv, NEW b \in Batches, NEW f \in Files, NEW error, NEW served,
         ItemAt(b, f, "sending"), AttemptFails(b, f, error, served),
         UNCHANGED <<listed, visit, uploadInProgress>>
  PROVE  \E pc \in {"sending", "error"}, tries \in 0 .. MaxRetries :
           /\ Passes(b, f, pc, tries, served)
           /\ tries = IF pc = "sending" THEN batch[b].item[f].attempt + 1
                      ELSE batch[b].item[f].attempt
<1> DEFINE tries == batch[b].item[f].attempt
<1>1. tries \in 0 .. MaxRetries /\ MaxRetries \in Nat
  BY UpTypes, UploadAssumption DEF UpInv, Batch, Item
<1>2. PICK pc \in AfterError(error, tries) :
        IF pc = "sending"
        THEN /\ ItemGoes(b, f, pc, tries + 1)
             /\ serverUpload' = served \cup {Arriving(b, f, tries + 1)}
        ELSE ItemGoes(b, f, pc, tries) /\ serverUpload' = served
  BY DEF AttemptFails
<1>3. pc \in {"sending", "error"} /\ (pc = "sending" => tries # MaxRetries)
  BY DEF AfterError, AfterRefresh
<1> HIDE DEF tries
<1>4. CASE pc = "sending"
  <2>1. tries + 1 \in 0 .. MaxRetries
    BY <1>1, <1>3, <1>4
  <2>2. Passes(b, f, pc, tries + 1, served)
    BY <1>2, <1>4 DEF Passes
  <2> QED
    BY <1>3, <1>4, <2>1, <2>2 DEF tries
<1>5. CASE pc = "error"
  <2>1. Passes(b, f, pc, tries, served)
    BY <1>2, <1>5 DEF Passes
  <2> QED
    BY <1>1, <1>3, <1>5, <2>1 DEF tries
<1> QED
  BY <1>3, <1>4, <1>5

\* What an answer does, for any reply.
LEMMA AnswerIs ==
  ASSUME UpInv, NEW q \in serverUpload, NEW reply, Answer(q, reply)
  PROVE  \/ /\ serverUpload' = serverUpload \ {q}
            /\ UNCHANGED <<batch, listed, visit, uploadInProgress>>
         \/ /\ Awaited(q)
            /\ \E pc \in {"sending", "done", "error"}, tries \in 0 .. MaxRetries :
                 /\ Passes(q.batch, q.file, pc, tries, serverUpload \ {q})
                 /\ tries = IF pc = "sending" THEN q.attempt + 1 ELSE q.attempt
                 /\ pc = "done" => reply = "stored"
         \/ RedirectToLogin /\ serverUpload' = serverUpload \ {q} /\ reply = "expired"
<1> DEFINE served == serverUpload \ {q}
<1>1. q.file \in Files /\ q.attempt \in 0 .. MaxRetries
  BY RequestTyped DEF UpInv
<1>2. \/ serverUpload' = served /\ UNCHANGED <<batch, listed, visit, uploadInProgress>>
      \/ /\ Awaited(q) /\ reply = "stored" /\ serverUpload' = served
         /\ ItemGoes(q.batch, q.file, "done", q.attempt)
         /\ UNCHANGED <<listed, visit, uploadInProgress>>
      \/ RedirectToLogin /\ serverUpload' = served /\ reply = "expired"
      \/ /\ Awaited(q) /\ AttemptFails(q.batch, q.file, reply, served)
         /\ UNCHANGED <<listed, visit, uploadInProgress>>
  BY DEF Answer
<1> HIDE DEF served
<1>3. CASE /\ Awaited(q) /\ reply = "stored" /\ serverUpload' = served
           /\ ItemGoes(q.batch, q.file, "done", q.attempt)
           /\ UNCHANGED <<listed, visit, uploadInProgress>>
  <2>1. Passes(q.batch, q.file, "done", q.attempt, served)
    BY <1>3 DEF Passes
  <2> QED
    BY <1>1, <1>3, <2>1 DEF served
<1>4. CASE /\ Awaited(q) /\ AttemptFails(q.batch, q.file, reply, served)
           /\ UNCHANGED <<listed, visit, uploadInProgress>>
  <2>1. /\ q.batch \in Batches /\ ItemAt(q.batch, q.file, "sending")
        /\ batch[q.batch].item[q.file].attempt = q.attempt
    BY <1>4 DEF Awaited
  <2>2. \E pc \in {"sending", "error"}, tries \in 0 .. MaxRetries :
          /\ Passes(q.batch, q.file, pc, tries, served)
          /\ tries = IF pc = "sending" THEN q.attempt + 1 ELSE q.attempt
    BY <1>1, <1>4, <2>1, FailurePasses
  <2> QED
    BY <1>4, <2>2 DEF served
<1> QED
  BY <1>2, <1>3, <1>4 DEF served

\* A request is answered, perhaps after its INSERT.
LEMMA AnswerKeeps ==
  ASSUME UpInv, NEW q \in serverUpload, NEW reply \in {"stored", "duplicate", "expired", "other"},
         Answer(q, reply), UNCHANGED <<contentOf, elsewhere, abandoned>>,
         \/ UNCHANGED <<stored, rivals>> /\ reply # "stored"
         \/ StoresFor(q) /\ reply # "expired"
  PROVE  UpInv'
<1>1. /\ UpTypeOK /\ q.file \in Files /\ contentOf[q.file] \in Contents
      /\ serverUpload \subseteq Request /\ elsewhere \subseteq Elsewhere /\ abandoned \subseteq Ids
  BY UpTypes, RequestTyped DEF UpInv
<1>2. Stores
  BY DEF Stores
<1>3. CASE /\ serverUpload' = serverUpload \ {q}
           /\ UNCHANGED <<batch, listed, visit, uploadInProgress>>
  <2>1. UpTypeOK' /\ ClientInv'
    BY <1>1, <1>2, <1>3, UnnoticedKeeps DEF Unnoticed
  <2>2. ItemsStay
    BY <1>3 DEF ItemsStay
  <2>3. RequestInv' /\ StoredInv'
    BY <1>2, <1>3, <2>2, RequestsLeave
  <2> QED
    BY <2>1, <2>3 DEF UpInv
<1>4. ASSUME Awaited(q), NEW pc \in {"sending", "done", "error"}, NEW tries \in 0 .. MaxRetries,
             Passes(q.batch, q.file, pc, tries, serverUpload \ {q}),
             tries = IF pc = "sending" THEN q.attempt + 1 ELSE q.attempt,
             pc = "done" => reply = "stored"
      PROVE  UpInv'
  <2>1. /\ q.batch \in Batches /\ Running(q.batch) /\ batch[q.batch].item[q.file].pc = "sending"
        /\ batch[q.batch].item[q.file].attempt = q.attempt
    BY <1>4 DEF Awaited, ItemAt
  <2>2. \A r \in serverUpload \ {q} :
          ~(r.batch = q.batch /\ r.file = q.file /\ r.attempt = q.attempt)
    BY <2>1 DEF UpInv, RequestInv, OneRequestPerAttempt, Id
  <2>3. Follows(q.batch, q.file, pc, tries, serverUpload \ {q})
    BY <1>4, <2>1, <2>2 DEF Follows
  <2>4. ASSUME pc = "done"  PROVE stored'[contentOf[q.file]] # {}
    <3>1. StoresFor(q)
      BY <1>4, <2>4
    <3>2. Id(q) \in stored'[contentOf[q.file]]
      BY <1>1, <3>1, StoresForIs
    <3> QED
      BY <3>2
  <2> QED
    <3>1. pc = "done" => stored'[contentOf[q.file]] # {}
      BY <2>4
    <3>2. abandoned \subseteq abandoned' /\ abandoned' \subseteq Ids
      BY <1>1
    <3> QED
      BY <1>1, <1>2, <1>4, <2>1, <2>3, <3>1, <3>2, PassKeeps
<1>5. CASE RedirectToLogin /\ serverUpload' = serverUpload \ {q} /\ reply = "expired"
  <2>1. UNCHANGED <<contentOf, serverVars>> /\ serverUpload' \subseteq serverUpload
    BY <1>5 DEF serverVars
  <2> QED
    BY <1>5, <2>1, RedirectKeeps
<1> QED
  BY <1>3, <1>4, <1>5, AnswerIs

LEMMA TakeKeeps ==
  ASSUME UpInv, NEW b \in Batches, NEW f \in Files, TakeFile(b, f), UNCHANGED contentOf
  PROVE  UpInv'
<1>1. /\ Running(b) /\ Passes(b, f, "sending", 0, serverUpload)
      /\ Follows(b, f, "sending", 0, serverUpload) /\ UNCHANGED serverVars
  BY DEF TakeFile, ItemAt, Passes, Follows
<1>2. 0 \in 0 .. MaxRetries /\ Stores /\ abandoned \subseteq Ids
  BY <1>1, UploadAssumption, UpTypes DEF Stores, UpInv, serverVars
<1> QED
  BY <1>1, <1>2, PassKeeps DEF serverVars

LEMMA GiveUpKeeps ==
  ASSUME UpInv, NEW q \in serverUpload, GiveUp(q), UNCHANGED contentOf
  PROVE  UpInv'
<1>1. UpTypeOK /\ q.file \in Files /\ abandoned \subseteq Ids /\ Id(q) \in Ids
  BY UpTypes, RequestTyped DEF UpInv
<1>2. /\ q.batch \in Batches /\ ItemAt(q.batch, q.file, "sending")
      /\ batch[q.batch].item[q.file].attempt = q.attempt
      /\ UNCHANGED <<listed, visit, uploadInProgress>>
      /\ AttemptFails(q.batch, q.file, "other", serverUpload)
      /\ abandoned' = abandoned \cup {Id(q)} /\ UNCHANGED <<elsewhere, stored, rivals>>
  BY DEF GiveUp, Awaited
<1>3. PICK pc \in {"sending", "error"}, tries \in 0 .. MaxRetries :
        /\ Passes(q.batch, q.file, pc, tries, serverUpload)
        /\ tries = IF pc = "sending" THEN q.attempt + 1 ELSE q.attempt
  BY <1>1, <1>2, FailurePasses
<1>4. Stores /\ Running(q.batch) /\ batch[q.batch].item[q.file].pc = "sending"
  BY <1>2 DEF Stores, ItemAt
<1>5. Follows(q.batch, q.file, pc, tries, serverUpload)
  BY <1>2, <1>3, <1>4 DEF Follows, Id
<1> QED
  BY <1>1, <1>2, <1>3, <1>4, <1>5, PassKeeps

\* The look for a duplicate finds none.
LEMMA CheckKeeps ==
  ASSUME UpInv, NEW q \in serverUpload, q.pc = "arriving", ~IsDuplicate(q),
         serverUpload' = (serverUpload \ {q}) \cup {[q EXCEPT !.pc = "checked"]},
         UNCHANGED <<contentOf, batch, listed, visit, uploadInProgress, serverVars>>
  PROVE  UpInv'
<1> DEFINE checked == [q EXCEPT !.pc = "checked"]
<1>1. /\ UpTypeOK /\ serverUpload \subseteq Request /\ q \in Request /\ q.file \in Files
      /\ elsewhere \subseteq Elsewhere
  BY UpTypes, RequestTyped DEF UpInv
<1>2. /\ checked \in Request /\ checked.batch = q.batch /\ checked.file = q.file
      /\ checked.attempt = q.attempt /\ checked.pc = "checked"
  BY <1>1 DEF Request
<1>3. stored[contentOf[checked.file]] = {} /\ Id(checked) = Id(q) /\ checked # q
  BY <1>2 DEF IsDuplicate, Id
<1> HIDE DEF checked
<1>4. serverUpload' = (serverUpload \ {q}) \cup {checked}
  BY DEF checked
<1>5. Stores /\ Unnoticed /\ serverUpload' \subseteq Request /\ ItemsStay /\ UNCHANGED elsewhere
  BY <1>1, <1>2, <1>4 DEF Stores, Unnoticed, ItemsStay, serverVars
<1>6. UpTypeOK' /\ ClientInv'
  BY <1>1, <1>5, UnnoticedKeeps
<1>7. ServerSteps
  BY <1>1, <1>2, <1>3, <1>4, <1>5 DEF ServerSteps, serverVars
<1>8. \A r \in serverUpload' : \E u \in serverUpload :
        Id(r) = Id(u) /\ (r = u \/ u \notin serverUpload')
  BY <1>3, <1>4
<1>9. \A r, u \in serverUpload' : Id(r) = Id(u) /\ r.batch \in Batches => r = u
  <2>1. \A r, u \in serverUpload : Id(r) = Id(u) /\ r.batch \in Batches => r = u
    BY DEF UpInv, RequestInv, OneRequestPerAttempt
  <2> QED
    BY <1>2, <1>3, <1>4, <2>1 DEF Id
<1>10. RequestInv' /\ StoredInv'
  BY <1>5, <1>7, <1>8, <1>9, StoredKeeps, RequestsStay
<1> QED
  BY <1>6, <1>10 DEF UpInv

LEMMA ServerKeeps ==
  ASSUME UpInv, NEW q \in serverUpload, ServerChecks(q) \/ ServerStores(q) \/ ServerRefuses(q),
         UNCHANGED contentOf
  PROVE  UpInv'
<1>1. CASE ServerChecks(q) /\ ~IsDuplicate(q)
  BY <1>1, CheckKeeps DEF ServerChecks
<1>2. CASE ServerChecks(q) /\ IsDuplicate(q)
  <2>1. PICK reply \in {"duplicate", "other"} : Answer(q, reply)
    BY <1>2 DEF ServerChecks
  <2> QED
    BY <1>2, <2>1, AnswerKeeps DEF ServerChecks, serverVars
<1>3. CASE ServerStores(q)
  <2>1. PICK reply \in {"stored", "other"} : Answer(q, reply)
    BY <1>3 DEF ServerStores
  <2>2. StoresFor(q) /\ UNCHANGED <<elsewhere, abandoned>>
    BY <1>3 DEF ServerStores, StoresFor
  <2> QED
    BY <2>1, <2>2, AnswerKeeps
<1>4. CASE ServerRefuses(q)
  <2>1. PICK reply \in {"expired", "other"} : Answer(q, reply)
    BY <1>4 DEF ServerRefuses
  <2> QED
    BY <1>4, <2>1, AnswerKeeps DEF ServerRefuses, serverVars
<1> QED
  BY <1>1, <1>2, <1>3, <1>4

\* Another user's request arrives.
LEMMA ElsewhereKeeps ==
  ASSUME UpInv, NEW e \in Elsewhere, NEW f \in Files, UploadElsewhere(e, f), UNCHANGED contentOf
  PROVE  UpInv'
<1> DEFINE new == Arriving(e, f, 0)
<1>1. /\ serverUpload' = serverUpload \cup {new} /\ elsewhere' = elsewhere \cup {e}
      /\ UNCHANGED <<batch, listed, visit, uploadInProgress, stored, rivals, abandoned>>
  BY DEF UploadElsewhere
<1>2. /\ UpTypeOK /\ serverUpload \subseteq Request /\ elsewhere \subseteq Elsewhere
      /\ MaxRetries \in Nat /\ e \notin Batches
  BY UpTypes, UploadAssumption DEF UpInv
<1>3. /\ new \in Request /\ new.batch = e /\ new.pc = "arriving" /\ Id(new).batch = e
      /\ Id(new).attempt = 0
  BY <1>2 DEF Arriving, Request, Id
<1> HIDE DEF new
<1>4. UpTypeOK' /\ ClientInv'
  BY <1>1, <1>2, <1>3, UnnoticedKeeps DEF Unnoticed, Stores
<1>5. StoredInv'
  BY <1>1, <1>3, StoredKeeps DEF ServerSteps, Stores
<1>6. SentAreKnown'
  <2>1. \A i : Known(i)' = Known(i)
    BY <1>1 DEF Known
  <2>2. Known(Id(new))
    BY <1>2, <1>3 DEF Known
  <2>3. \A r \in serverUpload' : Known(Id(r))
    BY <1>1, <2>2 DEF UpInv, RequestInv, SentAreKnown
  <2>4. \A r \in serverUpload' : Known(Id(r))'
    BY <1>1, <2>3 DEF Known, Id
  <2>5. \A c \in Contents : \A r \in stored'[c] : Known(r)'
    BY <1>1, <2>1 DEF UpInv, RequestInv, SentAreKnown
  <2> QED
    BY <2>4, <2>5 DEF SentAreKnown
<1>7. EarlierIsAbandoned' /\ OneRequestPerAttempt'
  <2>1. \A q \in serverUpload' : q.batch \in Batches => q \in serverUpload
    BY <1>1, <1>2, <1>3
  <2>2. EarlierIsAbandoned'
    BY <1>1, <2>1 DEF UpInv, RequestInv, EarlierIsAbandoned, Id
  <2>3. ASSUME NEW q \in serverUpload', NEW r \in serverUpload', q.batch \in Batches, Id(q) = Id(r)
        PROVE  q = r
    <3>1. q.batch = r.batch
      BY <2>3 DEF Id
    <3> QED
      BY <2>1, <2>3, <3>1 DEF UpInv, RequestInv, OneRequestPerAttempt
  <2> QED
    BY <2>2, <2>3 DEF OneRequestPerAttempt, Id
<1> QED
  BY <1>4, <1>5, <1>6, <1>7 DEF UpInv, RequestInv

-----------------------------------------------------------------------------
(* The theorems.                                                           *)

LEMMA UpInitially ==
  ASSUME UpInit
  PROVE  UpInv
<1>1. /\ contentOf \in [Files -> Contents]
      /\ listed = {} /\ visit = 0 /\ uploadInProgress = FALSE /\ serverUpload = {}
      /\ elsewhere = {} /\ abandoned = {} /\ batch = [b \in Batches |-> NoBatch]
      /\ stored = [c \in Contents |-> {}] /\ rivals = [c \in Contents |-> {}]
      /\ MaxRetries \in Nat
  BY UploadAssumption DEF UpInit
<1>2. /\ NoBatch \in Batch /\ NoBatch.pc = "idle"
      /\ \A f \in Files : NoBatch.item[f].pc = "none"
  BY <1>1 DEF NoBatch, NotInBatch, Batch, Item
<1>3. batch \in [Batches -> Batch] /\ \A b \in Batches : batch[b] = NoBatch
  BY <1>1, <1>2
<1>4. UpTypeOK
  <2>1. stored \in [Contents -> SUBSET Ids] /\ rivals \in [Contents -> SUBSET Ids]
    BY <1>1
  <2> QED
    BY <1>1, <1>3, <2>1, UpTypes
<1>5. ClientInv
  BY <1>1, <1>2, <1>3 DEF ClientInv, BatchesAreOrdered, OneOpenBatch, DoneIsStored,
                         FlagCoversUploads, Running, FilesOf
<1>6. RequestInv /\ StoredInv
  BY <1>1 DEF RequestInv, SentAreKnown, EarlierIsAbandoned, OneRequestPerAttempt, StoredInv,
              LookedAreRivals, LookedFollowAbandoned, StoredTogether
<1> QED
  BY <1>4, <1>5, <1>6 DEF UpInv

LEMMA UpNextKeeps ==
  ASSUME UpInv, [UpNext]_upVars
  PROVE  UpInv'
<1>0. listed \subseteq Files /\ UNCHANGED contentOf
  BY UpTypes DEF UpInv, UpNext, upVars
<1>1. CASE \E f \in Files : AddFile(f)
  BY <1>0, <1>1, ListKeeps DEF AddFile
<1>2. CASE RemoveFiles
  <2>1. listed' \subseteq listed
    BY <1>2 DEF RemoveFiles
  <2> QED
    BY <1>0, <1>2, <2>1, ListKeeps DEF RemoveFiles
<1>3. CASE LeavePage
  BY <1>0, <1>3, LeaveKeeps
<1>4. CASE \E b \in Batches : StartUpload(b)
  BY <1>0, <1>4, StartKeeps
<1>5. CASE \E b \in Batches : EndUpload(b) \/ ClearList(b)
  BY <1>0, <1>5, EndsKeep
<1>6. CASE \E b \in Batches : \E f \in Files : TakeFile(b, f)
  BY <1>0, <1>6, TakeKeeps
<1>7. CASE \E q \in serverUpload : GiveUp(q)
  BY <1>0, <1>7, GiveUpKeeps
<1>8. CASE \E q \in serverUpload : ServerChecks(q) \/ ServerStores(q) \/ ServerRefuses(q)
  BY <1>0, <1>8, ServerKeeps
<1>9. CASE \E e \in Elsewhere, f \in Files : UploadElsewhere(e, f)
  BY <1>0, <1>9, ElsewhereKeeps
<1>10. CASE UNCHANGED upVars
  BY <1>0, <1>10, ListKeeps DEF upVars
<1> QED
  BY <1>1, <1>2, <1>3, <1>4, <1>5, <1>6, <1>7, <1>8, <1>9, <1>10 DEF UpNext, UpStep

\* The invariant of any number of uploads: one running batch in each visit, one request for
\* each attempt of an entry, and what stores a content again had looked for it before
\* (DocumentUpload.tsx:206-252, document-routes.ts:796-948).
THEOREM UpInvariant == UpSpec => []UpInv
<1>1. UpInit => UpInv
  BY UpInitially
<1>2. UpInv /\ [UpNext]_upVars => UpInv'
  BY UpNextKeeps
<1> QED
  BY <1>1, <1>2, PTL DEF UpSpec

\* A content is stored again only by requests, of any batch, entry or user, that had looked
\* before it was first stored, and by two of one entry only if the client had given up the
\* earlier one (document-routes.ts:796-948).
THEOREM StoredOnce == UpSpec => []StoredTogether
<1>1. UpInv => StoredTogether
  BY DEF UpInv, StoredInv
<1> QED
  BY <1>1, UpInvariant, PTL

\* A 401 redirects during an upload only after the batch of another visit has ended
\* (api.ts:9, 50-54).
THEOREM FlagCovers == UpSpec => []FlagCoversUploads
<1>1. UpInv => FlagCoversUploads
  BY DEF UpInv, ClientInv
<1> QED
  BY <1>1, UpInvariant, PTL

\* The end of a batch takes only files off the list whose content is stored
\* (DocumentUpload.tsx:246-252).
THEOREM ClearedStored == UpSpec => ClearedFilesAreStored
<1> DEFINE Cleared == \A b \in Batches : batch[b].pc = "ending" /\ batch'[b].pc = "done" =>
                        \A f \in FilesOf(b) \cap (listed \ listed') : stored[contentOf[f]] # {}
<1>1. UpInv /\ [UpNext]_upVars => [Cleared]_upVars
  <2> SUFFICES ASSUME UpInv, UpNext, NEW b \in Batches, batch[b].pc = "ending",
                      batch'[b].pc = "done", NEW f \in FilesOf(b) \cap (listed \ listed')
               PROVE  stored[contentOf[f]] # {}
    OBVIOUS
  <2>1. f \in Files /\ batch[b].item[f].pc \in {"done", "error"}
    BY DEF UpInv, ClientInv, BatchesAreOrdered, AllSettled, FilesOf
  <2>2. batch \in [Batches -> Batch] /\ f \in listed /\ f \notin listed'
    BY UpTypes DEF UpInv
  <2>3. ASSUME NEW q \in serverUpload, NEW reply, Answer(q, reply)  PROVE  FALSE
    <3>1. RedirectToLogin
      BY <2>2, <2>3, AnswerIs DEF Passes
    <3> QED
      BY <2>2, <3>1 DEF RedirectToLogin, Batch
  <2>4. ~UNCHANGED listed /\ ~UNCHANGED batch
    BY <2>2
  <2>5. ASSUME NEW q \in serverUpload, ServerChecks(q) \/ ServerStores(q) \/ ServerRefuses(q)
        PROVE  \E reply : Answer(q, reply)
    BY <2>4, <2>5 DEF ServerChecks, ServerStores, ServerRefuses
  <2>6. PICK c \in Batches : ClearList(c)
    BY <2>3, <2>4, <2>5 DEF UpNext, UpStep, RemoveFiles, LeavePage, AddFile, StartUpload,
                           EndUpload, TakeFile, GiveUp, UploadElsewhere
  <2>7. b = c
    BY <2>2, <2>6 DEF ClearList, Batch
  <2>8. batch[b].item[f].pc # "error"
    BY <2>1, <2>2, <2>6, <2>7 DEF ClearList, FailedOf
  <2> QED
    BY <2>1, <2>8 DEF UpInv, ClientInv, DoneIsStored
<1>2. UpSpec => [][Cleared]_upVars
  BY <1>1, UpInvariant, PTL DEF UpSpec
<1> QED
  BY <1>2 DEF ClearedFilesAreStored
-----------------------------------------------------------------------------
(* The chat.  The panel shows what its own mutation answers, because every *)
(* switch detaches it; an answer it hides is under way, or was replaced by *)
(* an answer that the server saved before the callback ran.                *)

Closures == [shown : Talks \cup {NewTalk}, regenerating : Messages \cup {NoMessage}]
Mutations == [pc : {"idle", "pending", "answered", "ok", "failed"}, talk : Talks \cup {NewTalk},
              regenerates : Messages \cup {NoMessage}, closure : Closures]
Panels == [pending : Sends \cup {NoSend}, regenerating : Messages \cup {NoMessage},
           hidden : SUBSET Messages]

\* The mutation that the panel is attached to belongs to the conversation shown; one that
\* began without a conversation may have been given one by the server.
AttachedBelongs ==
  current # NoSend =>
    /\ mutation[current].pc \in {"pending", "ok"} => mutation[current].talk = shown
    /\ mutation[current].pc = "answered" => mutation[current].talk = shown \/ shown = NewTalk

\* What was answered was saved first.
AnswersAreSaved ==
  \A s \in Sends :
    mutation[s].pc \in {"answered", "ok"} =>
      mutation[s].talk \in Talks /\ s \in talk[mutation[s].talk]

\* Without a conversation there is nothing to regenerate.
NewTalkIsEmpty == shown = NewTalk => fetched = {} /\ panel.hidden = {}

ChatInv ==
  /\ ChatTypeOK /\ AttachedBelongs /\ AnswersAreSaved /\ NewTalkIsEmpty /\ HiddenIsReplaced

LEMMA ChatTypes ==
  ChatTypeOK <=>
    /\ shown \in Talks \cup {NewTalk} /\ current \in Sends \cup {NoSend}
    /\ mutation \in [Sends -> Mutations] /\ panel \in Panels
    /\ talk \in [Talks -> SUBSET Messages] /\ fetched \subseteq Messages /\ overrun \in BOOLEAN
BY DEF ChatTypeOK, Mutations, Panels, Closures

LEMMA ChatTypesNext ==
  /\ shown' \in Talks \cup {NewTalk} /\ current' \in Sends \cup {NoSend}
  /\ mutation' \in [Sends -> Mutations] /\ panel' \in Panels
  /\ talk' \in [Talks -> SUBSET Messages] /\ fetched' \subseteq Messages /\ overrun' \in BOOLEAN
  => ChatTypeOK'
BY DEF ChatTypeOK, Mutations, Panels, Closures

LEMMA ChatConstantsTyped ==
  /\ NotSent \in Mutations /\ EmptyPanel \in Panels
  /\ NotSent.pc = "idle" /\ EmptyPanel.hidden = {}
  /\ NoMessage \notin Messages /\ Sends \subseteq Messages /\ NoSend \notin Sends
BY ChatAssumption DEF NotSent, Mutations, Closures, EmptyPanel, Panels, Messages

\* mutate: a mutation that was not used starts in the conversation shown.
LEMMA MutateIs ==
  ASSUME ChatInv, NEW s \in Sends, NEW m \in Messages \cup {NoMessage}, Mutate(s, m)
  PROVE  /\ mutation' \in [Sends -> Mutations] /\ current' = s
         /\ mutation'[s].pc = "pending" /\ mutation'[s].talk = shown
         /\ mutation'[s].regenerates = m
         /\ mutation[s].pc = "idle" /\ \A q \in Sends : q # s => mutation'[q] = mutation[q]
         /\ ~IsPending
<1>. DEFINE new == [NotSent EXCEPT !.pc = "pending", !.talk = shown, !.regenerates = m]
<1>1. shown \in Talks \cup {NewTalk} /\ mutation \in [Sends -> Mutations]
  BY ChatTypes DEF ChatInv
<1>2. new \in Mutations /\ new.pc = "pending" /\ new.talk = shown /\ new.regenerates = m
  BY <1>1 DEF NotSent, Mutations, Closures
<1>3. mutation' = [mutation EXCEPT ![s] = new]
  BY DEF Mutate
<1>. HIDE DEF new
<1>4. mutation'[s] = new /\ \A q \in Sends : q # s => mutation'[q] = mutation[q]
  BY <1>1, <1>3
<1>. QED  BY <1>1, <1>2, <1>3, <1>4 DEF Mutate

\* A question or a regeneration: what is hidden has been replaced before, or is the
\* answer that is being regenerated now.
LEMMA SendKeeps ==
  ASSUME ChatInv, NEW s \in Sends, HandleSend(s) \/ \E m \in Messages : HandleRegenerate(s, m)
  PROVE  ChatInv'
<1>1. PICK m \in Messages \cup {NoMessage} :
        /\ Mutate(s, m) /\ panel' \in Panels
        /\ \/ panel'.hidden = panel.hidden
           \/ /\ m \in fetched /\ panel'.hidden = panel.hidden \cup {m}
              /\ panel'.regenerating = m
  <2>0. panel \in Panels
    BY ChatTypes DEF ChatInv
  <2>1. CASE HandleSend(s)
    <3>1. /\ [panel EXCEPT !.pending = s] \in Panels
          /\ [panel EXCEPT !.pending = s].hidden = panel.hidden
      BY <2>0 DEF Panels
    <3>. QED  BY <2>1, <3>1 DEF HandleSend
  <2>2. ASSUME NEW m \in Messages, HandleRegenerate(s, m)
        PROVE  /\ Mutate(s, m) /\ panel' \in Panels /\ m \in fetched
               /\ panel'.hidden = panel.hidden \cup {m} /\ panel'.regenerating = m
    <3>. DEFINE new == [panel EXCEPT !.regenerating = m, !.hidden = @ \cup {m}]
    <3>1. new \in Panels /\ new.hidden = panel.hidden \cup {m} /\ new.regenerating = m
      BY <2>0, <2>2 DEF Panels
    <3>. QED  BY <2>2, <3>1 DEF HandleRegenerate
  <2>. QED  BY <2>1, <2>2
<1>2. /\ mutation' \in [Sends -> Mutations] /\ current' = s
      /\ mutation'[s].pc = "pending" /\ mutation'[s].talk = shown /\ mutation'[s].regenerates = m
      /\ mutation[s].pc = "idle" /\ \A q \in Sends : q # s => mutation'[q] = mutation[q]
      /\ ~IsPending /\ UNCHANGED <<shown, talk, fetched, overrun>>
  BY <1>1, MutateIs DEF Mutate
<1>3. ChatTypeOK'
  BY <1>1, <1>2, ChatTypes, ChatTypesNext DEF ChatInv
<1>4. AttachedBelongs' /\ AnswersAreSaved'
  BY <1>2 DEF ChatInv, AttachedBelongs, AnswersAreSaved
<1>5. NewTalkIsEmpty'
  BY <1>1, <1>2 DEF ChatInv, NewTalkIsEmpty
<1>6. HiddenIsReplaced'
  <2>. SUFFICES ASSUME ~overrun, NEW h \in panel'.hidden
                PROVE  \/ /\ IsPending' /\ mutation'[current'].regenerates = h
                          /\ panel'.regenerating = h
                       \/ \E q \in Sends : /\ mutation'[q].pc = "ok"
                                           /\ mutation'[q].regenerates = h /\ q \in talk'[shown']
    BY <1>2 DEF HiddenIsReplaced
  <2>1. CASE h \in panel.hidden
    <3>1. PICK q \in Sends : /\ mutation[q].pc = "ok" /\ mutation[q].regenerates = h
                             /\ q \in talk[shown]
      BY <1>2, <2>1 DEF ChatInv, HiddenIsReplaced
    <3>2. mutation'[q] = mutation[q]
      BY <1>2, <3>1
    <3>. QED  BY <1>2, <3>1, <3>2
  <2>2. CASE h \notin panel.hidden
    <3>1. h = m /\ panel'.regenerating = m
      BY <1>1, <2>2
    <3>2. IsPending'
      BY <1>2, ChatConstantsTyped DEF IsPending, Pending
    <3>. QED  BY <1>2, <3>1, <3>2
  <2>. QED  BY <2>1, <2>2
<1>. QED  BY <1>3, <1>4, <1>5, <1>6 DEF ChatInv

\* A switch, by the user or by the answer to a first question, detaches the panel and
\* empties it; of the mutations only closures change.
LEMMA ShowKeeps ==
  ASSUME ChatInv, NEW to \in Talks \cup {NewTalk}, ShowTalk(to), current' = NoSend,
         mutation' \in [Sends -> Mutations], AnswersAreSaved', UNCHANGED talk
  PROVE  ChatInv'
<1>1. EmptyPanel \in Panels /\ EmptyPanel.hidden = {}
  BY ChatConstantsTyped
<1>2. ChatTypeOK'
  BY <1>1, ChatTypes, ChatTypesNext DEF ChatInv, ShowTalk
<1>3. AttachedBelongs' /\ NewTalkIsEmpty' /\ HiddenIsReplaced'
  BY <1>1 DEF AttachedBelongs, NewTalkIsEmpty, HiddenIsReplaced, ShowTalk
<1>. QED  BY <1>2, <1>3 DEF ChatInv

LEMMA SelectKeeps ==
  ASSUME ChatInv, NEW to \in Talks \cup {NewTalk}, Select(to)
  PROVE  ChatInv'
<1>1. mutation \in [Sends -> Mutations] /\ panel \in Panels /\ current \in Sends \cup {NoSend}
  BY ChatTypes DEF ChatInv
<1>2. CASE mutation' = mutation
  <2>1. AnswersAreSaved'
    BY <1>2 DEF ChatInv, AnswersAreSaved, Select
  <2>. QED  BY <1>1, <1>2, <2>1, ShowKeeps DEF Select, SwitchDetaches
<1>3. CASE IsPending
  <2>. DEFINE closure == [shown |-> to, regenerating |-> panel.regenerating]
              new == [mutation[current] EXCEPT !.closure = closure]
  <2>1. current \in Sends
    BY <1>1, <1>3 DEF IsPending, Pending
  <2>2. closure \in Closures
    BY <1>1 DEF Closures, Panels
  <2>. HIDE DEF closure
  <2>3. new \in Mutations /\ new.pc = mutation[current].pc /\ new.talk = mutation[current].talk
    BY <1>1, <2>1, <2>2 DEF Mutations
  <2>4. mutation' = [mutation EXCEPT ![current] = new]
    BY <1>3 DEF Select, SwitchDetaches, closure
  <2>. HIDE DEF new
  <2>5. /\ mutation' \in [Sends -> Mutations]
        /\ \A q \in Sends : mutation'[q].pc = mutation[q].pc /\ mutation'[q].talk = mutation[q].talk
    BY <1>1, <2>1, <2>3, <2>4
  <2>6. AnswersAreSaved'
    BY <2>5 DEF ChatInv, AnswersAreSaved, Select
  <2>. QED  BY <2>5, <2>6, ShowKeeps DEF Select, SwitchDetaches
<1>. QED  BY <1>2, <1>3 DEF Select, SwitchDetaches

LEMMA RefetchKeeps ==
  ASSUME ChatInv, Refetch
  PROVE  ChatInv'
<1>1. ChatTypeOK'
  <2>1. shown \in Talks
    BY ChatTypes, ChatTypesNext DEF ChatInv, Refetch
  <2>. QED  BY <2>1, ChatTypes, ChatTypesNext DEF ChatInv, Refetch
<1>2. AttachedBelongs' /\ AnswersAreSaved' /\ NewTalkIsEmpty'
  BY DEF ChatInv, AttachedBelongs, AnswersAreSaved, NewTalkIsEmpty, Refetch
<1>3. HiddenIsReplaced'
  BY DEF ChatInv, HiddenIsReplaced, IsPending, Pending, Refetch
<1>. QED  BY <1>1, <1>2, <1>3 DEF ChatInv

LEMMA ServerAnswersKeeps ==
  ASSUME ChatInv, NEW s \in Sends, ServerAnswers(s)
  PROVE  ChatInv'
<1>0. /\ mutation \in [Sends -> Mutations] /\ talk \in [Talks -> SUBSET Messages]
      /\ current \in Sends \cup {NoSend} /\ s \in Messages /\ NoSend \notin Sends
  BY ChatTypes, ChatConstantsTyped DEF ChatInv
<1>1. PICK t \in Talks :
        /\ mutation[s].talk # NewTalk => t = mutation[s].talk
        /\ talk' = [talk EXCEPT ![t] = @ \cup {s}]
        /\ mutation' = [mutation EXCEPT ![s] = [mutation[s] EXCEPT !.pc = "answered", !.talk = t]]
  <2>1. PICK t \in Talks :
          /\ mutation[s].talk # NewTalk => t = mutation[s].talk
          /\ talk' = [talk EXCEPT ![t] = @ \cup {s}]
          /\ mutation' = [mutation EXCEPT ![s].pc = "answered", ![s].talk = t]
    BY DEF ServerAnswers
  <2>2. mutation' = [mutation EXCEPT ![s] = [mutation[s] EXCEPT !.pc = "answered", !.talk = t]]
    BY <1>0, <2>1
  <2>. QED  BY <2>1, <2>2
<1>. DEFINE new == [mutation[s] EXCEPT !.pc = "answered", !.talk = t]
<1>2. /\ new \in Mutations /\ new.pc = "answered" /\ new.talk = t
      /\ new.regenerates = mutation[s].regenerates
  BY <1>0 DEF Mutations
<1>3. mutation' = [mutation EXCEPT ![s] = new]
  BY <1>1
<1>. HIDE DEF new
<1>4. /\ mutation' \in [Sends -> Mutations] /\ mutation'[s] = new
      /\ \A q \in Sends : q # s => mutation'[q] = mutation[q]
  BY <1>0, <1>2, <1>3
<1>5. /\ talk' \in [Talks -> SUBSET Messages] /\ s \in talk'[t]
      /\ \A u \in Talks : talk[u] \subseteq talk'[u]
  BY <1>0, <1>1
<1>6. mutation[s].pc = "pending" /\ UNCHANGED <<shown, current, panel, fetched, overrun>>
  BY DEF ServerAnswers
<1>7. ChatTypeOK'
  BY <1>4, <1>5, <1>6, ChatTypes, ChatTypesNext DEF ChatInv
<1>8. AttachedBelongs'
  BY <1>1, <1>2, <1>4, <1>6, <1>0 DEF ChatInv, AttachedBelongs
<1>9. AnswersAreSaved'
  BY <1>2, <1>4, <1>5 DEF ChatInv, AnswersAreSaved
<1>10. NewTalkIsEmpty'
  BY <1>6 DEF ChatInv, NewTalkIsEmpty
<1>11. HiddenIsReplaced'
  <2>. SUFFICES ASSUME ~overrun, NEW h \in panel.hidden
                PROVE  \/ /\ IsPending' /\ mutation'[current].regenerates = h
                          /\ panel.regenerating = h
                       \/ \E q \in Sends : /\ mutation'[q].pc = "ok"
                                           /\ mutation'[q].regenerates = h /\ q \in talk'[shown]
    BY <1>6 DEF HiddenIsReplaced
  <2>1. CASE IsPending /\ mutation[current].regenerates = h /\ panel.regenerating = h
    <3>1. current \in Sends
      BY <1>0, <2>1 DEF IsPending, Pending
    <3>2. IsPending' /\ mutation'[current].regenerates = h
      BY <1>2, <1>4, <1>6, <2>1, <3>1 DEF IsPending, Pending
    <3>. QED  BY <2>1, <3>2
  <2>2. ASSUME NEW q \in Sends, mutation[q].pc = "ok", mutation[q].regenerates = h, q \in talk[shown]
        PROVE  mutation'[q].pc = "ok" /\ mutation'[q].regenerates = h /\ q \in talk'[shown]
    <3>1. shown \in Talks
      BY ChatTypes DEF ChatInv, NewTalkIsEmpty
    <3>. QED  BY <1>4, <1>5, <1>6, <2>2, <3>1
  <2>. QED  BY <2>1, <2>2 DEF ChatInv, HiddenIsReplaced
<1>. QED  BY <1>7, <1>8, <1>9, <1>10, <1>11 DEF ChatInv

LEMMA SucceedsKeeps ==
  ASSUME ChatInv, NEW s \in Sends, Succeeds(s)
  PROVE  ChatInv'
<1>0. /\ mutation \in [Sends -> Mutations] /\ panel \in Panels /\ current \in Sends \cup {NoSend}
      /\ mutation[s].pc = "answered" /\ mutation[s].talk \in Talks /\ UNCHANGED talk
      /\ s \in talk[mutation[s].talk] /\ NoSend \notin Sends /\ NewTalk \notin Talks
  BY ChatTypes, ChatConstantsTyped, ChatAssumption DEF ChatInv, AnswersAreSaved, Succeeds
<1>a. ASSUME NEW q \in Sends
      PROVE  /\ [mutation[q] EXCEPT !.pc = "ok"] \in Mutations
             /\ [mutation[q] EXCEPT !.pc = "ok"].pc = "ok"
             /\ [mutation[q] EXCEPT !.pc = "ok"].talk = mutation[q].talk
             /\ [mutation[q] EXCEPT !.pc = "ok"].regenerates = mutation[q].regenerates
  BY <1>0 DEF Mutations
<1>1. CASE Closure(s).shown = NewTalk /\ mutation[s].talk # shown
  <2>. DEFINE closure == [shown |-> mutation[s].talk, regenerating |-> NoMessage]
  <2>1. /\ ShowTalk(mutation[s].talk) /\ current' = NoSend
        /\ mutation' = [q \in Sends |->
             IF q = s THEN [mutation[s] EXCEPT !.pc = "ok"]
             ELSE IF q = current /\ Pending(q) THEN [mutation[q] EXCEPT !.closure = closure]
             ELSE mutation[q]]
    BY <1>1 DEF Succeeds
  <2>2. closure \in Closures
    BY <1>0 DEF Closures
  <2>. HIDE DEF closure
  <2>3. \A q \in Sends : /\ [mutation[q] EXCEPT !.closure = closure] \in Mutations
                         /\ [mutation[q] EXCEPT !.closure = closure].pc = mutation[q].pc
                         /\ [mutation[q] EXCEPT !.closure = closure].talk = mutation[q].talk
    BY <1>0, <2>2 DEF Mutations
  <2>4. /\ mutation' \in [Sends -> Mutations]
        /\ \A q \in Sends : /\ mutation'[q].talk = mutation[q].talk
                            /\ mutation'[q].pc = mutation[q].pc \/ q = s
    BY <1>0, <1>a, <2>1, <2>3
  <2>5. AnswersAreSaved'
    BY <1>0, <2>4 DEF ChatInv, AnswersAreSaved
  <2>. QED  BY <1>0, <2>1, <2>4, <2>5, ShowKeeps
<1>2. CASE ~(Closure(s).shown = NewTalk /\ mutation[s].talk # shown)
  <2>1. /\ panel' = [panel EXCEPT !.pending = NoSend, !.regenerating = NoMessage]
        /\ mutation' = [mutation EXCEPT ![s] = [mutation[s] EXCEPT !.pc = "ok"]]
        /\ Overruns(s) /\ UNCHANGED <<shown, current, fetched>>
    BY <1>2 DEF Succeeds
  <2>2. panel' \in Panels /\ panel'.hidden = panel.hidden
    BY <1>0, <2>1 DEF Panels
  <2>3. /\ mutation' \in [Sends -> Mutations] /\ mutation'[s].pc = "ok"
        /\ \A q \in Sends : /\ mutation'[q].talk = mutation[q].talk
                            /\ mutation'[q].regenerates = mutation[q].regenerates
                            /\ q # s => mutation'[q] = mutation[q]
    BY <1>0, <1>a, <2>1
  <2>4. ChatTypeOK'
    BY <1>0, <2>1, <2>2, <2>3, ChatTypes, ChatTypesNext DEF ChatInv, Overruns
  <2>5. AttachedBelongs'
    <3>1. s = current => mutation[s].talk = shown
      BY <1>0, <1>2 DEF ChatInv, AttachedBelongs, Closure, Attached
    <3>. QED  BY <1>0, <2>1, <2>3, <3>1 DEF ChatInv, AttachedBelongs
  <2>6. AnswersAreSaved' /\ NewTalkIsEmpty'
    BY <1>0, <2>1, <2>2, <2>3 DEF ChatInv, AnswersAreSaved, NewTalkIsEmpty
  <2>7. HiddenIsReplaced'
    <3>. SUFFICES ASSUME ~overrun', NEW h \in panel.hidden
                  PROVE  \E q \in Sends : /\ mutation'[q].pc = "ok"
                                          /\ mutation'[q].regenerates = h /\ q \in talk[shown]
      BY <1>0, <2>1, <2>2 DEF HiddenIsReplaced
    <3>1. ~overrun /\ (s = current \/ ~IsPending)
      BY <2>1 DEF Overruns, Attached
    <3>2. CASE IsPending /\ mutation[current].regenerates = h
      <4>1. s = current /\ shown # NewTalk
        BY <3>1, <3>2 DEF ChatInv, NewTalkIsEmpty
      <4>2. mutation[s].talk = shown
        BY <1>0, <4>1 DEF ChatInv, AttachedBelongs
      <4>. QED  BY <1>0, <2>3, <3>2, <4>1, <4>2
    <3>3. ASSUME NEW q \in Sends, mutation[q].pc = "ok", mutation[q].regenerates = h, q \in talk[shown]
          PROVE  mutation'[q].pc = "ok" /\ mutation'[q].regenerates = h
      BY <1>0, <2>3, <3>3
    <3>. QED  BY <3>1, <3>2, <3>3 DEF ChatInv, HiddenIsReplaced
  <2>. QED  BY <2>4, <2>5, <2>6, <2>7 DEF ChatInv
<1>. QED  BY <1>1, <1>2

LEMMA FailsKeeps ==
  ASSUME ChatInv, NEW s \in Sends, Fails(s)
  PROVE  ChatInv'
<1>0. /\ mutation \in [Sends -> Mutations] /\ panel \in Panels /\ current \in Sends \cup {NoSend}
      /\ mutation[s].pc \in {"pending", "answered"} /\ NoSend \notin Sends
  BY ChatTypes, ChatConstantsTyped DEF ChatInv, Fails, Pending
<1>1. /\ mutation' = [mutation EXCEPT ![s] = [mutation[s] EXCEPT !.pc = "failed"]]
      /\ Overruns(s) /\ UNCHANGED <<shown, current, talk, fetched>>
  BY DEF Fails
<1>2. [mutation[s] EXCEPT !.pc = "failed"] \in Mutations
      /\ [mutation[s] EXCEPT !.pc = "failed"].pc = "failed"
  BY <1>0 DEF Mutations
<1>3. /\ mutation' \in [Sends -> Mutations] /\ mutation'[s].pc = "failed"
      /\ \A q \in Sends : q # s => mutation'[q] = mutation[q]
  BY <1>0, <1>1, <1>2
<1>4. panel' \in Panels /\ panel'.hidden = panel.hidden \ {Closure(s).regenerating}
  <2>1. panel' = [pending |-> NoSend, hidden |-> Unhidden(s),
                  regenerating |-> IF Closure(s).regenerating = NoMessage THEN panel.regenerating
                                   ELSE NoMessage]
    BY DEF Fails
  <2>2. Unhidden(s) \in SUBSET Messages /\ panel.regenerating \in Messages \cup {NoMessage}
    BY <1>0 DEF Unhidden, Panels
  <2>. QED  BY <2>1, <2>2 DEF Panels, Unhidden
<1>5. ChatTypeOK'
  BY <1>1, <1>3, <1>4, ChatTypes, ChatTypesNext DEF ChatInv, Overruns
<1>6. AttachedBelongs' /\ AnswersAreSaved' /\ NewTalkIsEmpty'
  BY <1>0, <1>1, <1>3, <1>4 DEF ChatInv, AttachedBelongs, AnswersAreSaved, NewTalkIsEmpty
<1>7. HiddenIsReplaced'
  <2>. SUFFICES ASSUME ~overrun', NEW h \in panel'.hidden
                PROVE  \E q \in Sends : /\ mutation'[q].pc = "ok"
                                        /\ mutation'[q].regenerates = h /\ q \in talk[shown]
    BY <1>1 DEF HiddenIsReplaced
  <2>1. ~overrun /\ (s = current \/ ~IsPending) /\ h \in panel.hidden
    BY <1>1, <1>4 DEF Overruns, Attached
  <2>2. ~(IsPending /\ panel.regenerating = h)
    BY <1>4, <2>1 DEF Closure, Attached
  <2>3. PICK q \in Sends : mutation[q].pc = "ok" /\ mutation[q].regenerates = h /\ q \in talk[shown]
    BY <2>1, <2>2 DEF ChatInv, HiddenIsReplaced
  <2>. QED  BY <1>0, <1>3, <2>3
<1>. QED  BY <1>5, <1>6, <1>7 DEF ChatInv

LEMMA ChatInvariant == ChatSpec => []ChatInv
<1>1. ChatInit => ChatInv
  <2>. SUFFICES ASSUME ChatInit PROVE ChatInv
    OBVIOUS
  <2>1. talk \in [Talks -> SUBSET Messages]
    BY DEF ChatInit, Messages
  <2>2. ChatTypeOK
    BY <2>1, ChatTypes, ChatConstantsTyped DEF ChatInit
  <2>3. AttachedBelongs /\ AnswersAreSaved /\ NewTalkIsEmpty /\ HiddenIsReplaced
    BY ChatConstantsTyped DEF ChatInit, AttachedBelongs, AnswersAreSaved, NewTalkIsEmpty,
                              HiddenIsReplaced
  <2>. QED  BY <2>2, <2>3 DEF ChatInv
<1>2. ChatInv /\ [ChatNext]_chatVars => ChatInv'
  <2>. SUFFICES ASSUME ChatInv, [ChatNext]_chatVars PROVE ChatInv'
    OBVIOUS
  <2>1. CASE UNCHANGED chatVars
    <3>1. ChatTypeOK' /\ AttachedBelongs' /\ AnswersAreSaved' /\ NewTalkIsEmpty'
      BY <2>1 DEF chatVars, ChatInv, ChatTypeOK, AttachedBelongs, AnswersAreSaved, NewTalkIsEmpty
    <3>2. HiddenIsReplaced'
      BY <2>1 DEF chatVars, ChatInv, HiddenIsReplaced, IsPending, Pending
    <3>. QED  BY <3>1, <3>2 DEF ChatInv
  <2>. QED  BY <2>1, SendKeeps, SelectKeeps, RefetchKeeps, ServerAnswersKeeps, SucceedsKeeps, FailsKeeps
              DEF ChatNext
<1>. QED  BY <1>1, <1>2, PTL DEF ChatSpec

\* The answer shown before the server's list has it is one of the conversation shown,
\* for any number of conversations, answers and calls (ChatPanel.tsx:149-155).
THEOREM EarlyAnswers == ChatSpec => []EarlyAnswerBelongs
<1>1. ChatInv => EarlyAnswerBelongs
  BY DEF ChatInv, AttachedBelongs, EarlyAnswerBelongs
<1>. QED  BY <1>1, ChatInvariant, PTL

\* No answer stays hidden that has no new version and none under way, unless the callback
\* of a question asked elsewhere has come in between (ChatPanel.tsx:139-145).
THEOREM HiddenReplaced == ChatSpec => []HiddenIsReplaced
<1>1. ChatInv => HiddenIsReplaced
  BY DEF ChatInv
<1>. QED  BY <1>1, ChatInvariant, PTL

-----------------------------------------------------------------------------
(* The six parts together.                                                 *)

\* No part disturbs another: whatever is shown of a part by itself, here or in the modules
\* of the other parts, holds of the six of them as they are composed for TLC.
THEOREM OfficeParts ==
  OfficeSpec => WfSpec /\ LlmSpec /\ GovSpec /\ IdemSpec /\ UpSpec /\ ChatSpec
<1>1. OfficeInit => WfInit /\ LlmInit /\ GovInit /\ IdemInit /\ UpInit /\ ChatInit
  BY DEF OfficeInit
<1>2. [OfficeNext]_<<active, wfVars, llmVars, govVars, idemVars, upVars, chatVars>> =>
        /\ [WfNext]_wfVars /\ [LlmNext]_llmVars /\ [GovNext]_govVars
        /\ [IdemNext]_idemVars /\ [UpNext]_upVars /\ [ChatNext]_chatVars
  BY DEF OfficeNext
<1>. QED  BY <1>1, <1>2, PTL DEF OfficeSpec, WfSpec, LlmSpec, GovSpec, IdemSpec, UpSpec, ChatSpec

\* The types of the variables of all six parts.
THEOREM OfficeTypeCorrect ==
  ASSUME CarefulCallers PROVE OfficeSpec => []OfficeTypeOK
<1>1. OfficeSpec => [](active \in Parts)
  <2>1. OfficeInit => active \in Parts
    BY DEF OfficeInit
  <2>2. active \in Parts
          /\ [OfficeNext]_<<active, wfVars, llmVars, govVars, idemVars, upVars, chatVars>>
        => (active \in Parts)'
    BY DEF OfficeNext
  <2>. QED  BY <2>1, <2>2, PTL DEF OfficeSpec
<1>2. WfSpec => []WfTypeOK
  BY WfTypeCorrect
<1>3. GovSpec => []GovTypeOK
  <2>1. GovInv => GovTypeOK
    BY DEF GovInv
  <2>. QED  BY <2>1, GovInvariant, PTL
<1>4. UpSpec => []UpTypeOK
  <2>1. UpInv => UpTypeOK
    BY DEF UpInv
  <2>. QED  BY <2>1, UpInvariant, PTL
<1>5. ChatSpec => []ChatTypeOK
  <2>1. ChatInv => ChatTypeOK
    BY DEF ChatInv
  <2>. QED  BY <2>1, ChatInvariant, PTL
<1>6. /\ active \in Parts /\ WfTypeOK /\ LlmTypeOK /\ GovTypeOK /\ IdemTypeOK /\ UpTypeOK
      /\ ChatTypeOK
      => OfficeTypeOK
  BY DEF Parts, OfficeTypeOK
<1>. QED
  BY <1>1, <1>2, <1>3, <1>4, <1>5, <1>6, OfficeParts, LlmTypeCorrect, IdemTypeCorrect, PTL
=============================================================================
