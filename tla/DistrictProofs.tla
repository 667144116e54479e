--------------------------- MODULE DistrictProofs ---------------------------
(***************************************************************************)
(* What holds of the two halves of district acquisition, the queue         *)
(* (DistrictAcquisition) and the batch jobs (DistrictBatch), for every     *)
(* number of cases, threads, requests, artifacts and jobs, and for every   *)
(* daily limit.                                                            *)
(***************************************************************************)
EXTENDS MCDistrict, FiniteSetTheorems, SequenceTheorems, TLAPS

-----------------------------------------------------------------------------
(* The queue: the invariant.                                               *)

Keys == Cases \X Sources

\* The threads that may still add an eCourts attempt to those on record: they
\* fetch from it, or were told that they may.
MaySpend ==
  {w \in Workers : \/ fetcher[w].pc = "fetching" /\ fetcher[w].source = "ecourts"
                   \/ fetcher[w].pc = "asked" /\ ~fetcher[w].paused}

\* What is on record and what may still come stay within the bound.  This is
\* what DailyOvershootBounded needs to be inductive.
BudgetHolds ==
  DailyLimit # 0 => spent + Cardinality(MaySpend) <= DailyLimit - 1 + Cardinality(Workers)

\* A thread that fetches holds a row, whose attempt is not behind its own copy.
FetchersHoldRows ==
  \A w \in Workers :
    fetcher[w].pc = "fetching" =>
      /\ <<fetcher[w].case, fetcher[w].source>> \in Keys
      /\ fetcher[w].attempt <= queue[<<fetcher[w].case, fetcher[w].source>>].attempt

\* What FailedUsedAllAttempts says of one row.
SoundRow(row) == row.status = "failed" => row.attempt >= MaxAttempts

IInv ==
  /\ TypeOK
  /\ FetchersHoldRows
  /\ \A k \in Keys : SoundRow(queue[k])
  /\ BudgetHolds

-----------------------------------------------------------------------------
(* Lemmas about the operators.                                             *)

\* Every status that a report gives to a row is one of the table's.
LEMMA StatusTable ==
  ASSUME NEW o \in AllOutcomes, NEW a \in Nat
  PROVE  /\ QueueStatusOf(o, a) \in QueueStatus
         /\ RetryOrFail(a) \in {"failed", "rate_limited"}
         /\ QueueStatusOf(o, a) = "failed" => a >= MaxAttempts
         /\ RetryOrFail(a) = "failed" => a >= MaxAttempts
BY DEF QueueStatusOf, RetryOrFail, AllOutcomes, QueueStatus, OpenStatus

\* A report leaves a case with a status of the table.
LEMMA TextTable ==
  ASSUME NEW t \in TextStatus, NEW s, NEW o
  PROVE  TextAfter(t, s, o) \in TextStatus
<1>1. TextAfterTrigger(t, o) \in TextStatus
  BY DEF TextAfterTrigger, TextStatus, FinalText
<1>2. CaseStatusOf(s, o) \subseteq TextStatus
  BY DEF CaseStatusOf, TextStatus, FinalText
<1>3. CaseStatusOf(s, o) # {} => (CHOOSE x \in CaseStatusOf(s, o) : TRUE) \in CaseStatusOf(s, o)
  OBVIOUS
<1>. QED  BY <1>1, <1>2, <1>3 DEF TextAfter

\* What the statements do to a row leaves it a sound row with no smaller an
\* attempt.
Follows(new, old) ==
  /\ new \in Row
  /\ SoundRow(new)
  /\ new.attempt >= old.attempt

LEMMA RowUpdates ==
  ASSUME NEW row \in Row, SoundRow(row)
  PROVE  /\ Follows(row, row)
         /\ Follows(ReapedRow(row), row)
         /\ Follows(ClaimedRow(row), row)
         /\ ClaimedRow(row).attempt = row.attempt + 1
         /\ ReapedRow(row).attempt = row.attempt
         /\ \A f \in BOOLEAN : Follows(Requeued(row, f), row)
         /\ \A t \in QueueStatus :
              (t = "failed" => row.attempt >= MaxAttempts) => Follows(Reported(row, t), row)
         /\ Follows([row EXCEPT !.lock = "expired"], row)
         /\ Follows([row EXCEPT !.wait = FALSE], row)
         /\ row = Absent => Follows(Pending, row)
<1>0. row.attempt \in Nat /\ row.status \in QueueStatus
  BY DEF Row
<1>a. {"pending", "processing", "rate_limited", "absent", "failed"} \subseteq QueueStatus
  BY DEF QueueStatus, OpenStatus
<1>1. ASSUME NEW t \in QueueStatus, NEW l \in {"none", "held", "expired"}, NEW b \in BOOLEAN,
             NEW new, new = [row EXCEPT !.status = t, !.lock = l, !.wait = b],
             t = "failed" => row.attempt >= MaxAttempts
      PROVE  Follows(new, row) /\ new.attempt = row.attempt
  <2>1. new \in Row /\ new.attempt = row.attempt /\ new.status = t
    BY <1>1 DEF Row
  <2>. QED  BY <1>0, <1>1, <2>1 DEF Follows, SoundRow
<1>2. row.lock \in {"none", "held", "expired"} /\ row.wait \in BOOLEAN
  BY DEF Row
<1>3. Follows(row, row)
  BY <1>0 DEF Follows
<1>4. Follows(ReapedRow(row), row) /\ ReapedRow(row).attempt = row.attempt
  <2>1. CASE Stale(row)
    <3>1. RetryOrFail(row.attempt) \in QueueStatus
      BY <1>0, StatusTable DEF QueueStatus, OpenStatus, RetryOrFail
    <3>2. RetryOrFail(row.attempt) = "failed" => row.attempt >= MaxAttempts
      BY DEF RetryOrFail
    <3>. QED  BY <1>1, <2>1, <3>1, <3>2 DEF ReapedRow
  <2>2. CASE ~Stale(row)
    BY <1>3, <2>2 DEF ReapedRow
  <2>. QED  BY <2>1, <2>2
<1>5. Follows(ClaimedRow(row), row) /\ ClaimedRow(row).attempt = row.attempt + 1
  <2>1. row.attempt + 1 \in Nat /\ "processing" \in QueueStatus
    BY <1>0, <1>a
  <2>3. ClaimedRow(row) \in Row
    BY <2>1 DEF ClaimedRow, Row
  <2>2. ClaimedRow(row).attempt = row.attempt + 1 /\ ClaimedRow(row).status = "processing"
    BY DEF ClaimedRow, Row
  <2>. QED  BY <1>0, <2>2, <2>3 DEF Follows, SoundRow
<1>6. Follows(Pending, Absent)
  <2>1. Absent \in Row /\ "pending" \in QueueStatus
    BY <1>a DEF Absent, Row
  <2>2. Pending \in Row /\ Pending.attempt = Absent.attempt /\ Pending.status = "pending"
    BY <2>1 DEF Pending, Row
  <2>3. Absent.attempt \in Nat
    BY <2>1 DEF Row
  <2>. QED  BY <2>2, <2>3 DEF Follows, SoundRow
<1>7. ASSUME NEW f \in BOOLEAN PROVE Follows(Requeued(row, f), row)
  <2>1. CASE row = Absent
    BY <1>6, <2>1 DEF Requeued
  <2>2. CASE row # Absent /\ (f \/ row.status \in {"failed", "rate_limited"})
    <3>1. Requeued(row, f) = [row EXCEPT !.status = "pending", !.lock = row.lock, !.wait = FALSE]
      BY <2>2 DEF Requeued, Row
    <3>2. "pending" \in QueueStatus
      BY DEF QueueStatus, OpenStatus
    <3>. DEFINE new == [row EXCEPT !.status = "pending", !.lock = row.lock, !.wait = FALSE]
    <3>3. Requeued(row, f) = new /\ new = [row EXCEPT !.status = "pending", !.lock = row.lock, !.wait = FALSE]
      BY <3>1
    <3>4. row.lock \in {"none", "held", "expired"} /\ FALSE \in BOOLEAN
      BY <1>2
    <3>. HIDE DEF new
    <3>5. Follows(new, row)
      BY <1>1, <3>2, <3>3, <3>4
    <3>. QED  BY <3>3, <3>5
  <2>3. CASE row # Absent /\ ~(f \/ row.status \in {"failed", "rate_limited"})
    BY <1>3, <2>3 DEF Requeued
  <2>. QED  BY <2>1, <2>2, <2>3
<1>8. ASSUME NEW t \in QueueStatus, t = "failed" => row.attempt >= MaxAttempts
      PROVE  Follows(Reported(row, t), row)
  <2>1. (t = "rate_limited") \in BOOLEAN
    OBVIOUS
  <2>. QED  BY <1>1, <1>8, <2>1 DEF Reported
<1>9. Follows([row EXCEPT !.lock = "expired"], row)
  <2>1. [row EXCEPT !.lock = "expired"]
          = [row EXCEPT !.status = row.status, !.lock = "expired", !.wait = row.wait]
    BY DEF Row
  <2>. QED  BY <1>0, <1>1, <1>2, <2>1 DEF SoundRow
<1>10. Follows([row EXCEPT !.wait = FALSE], row)
  <2>1. [row EXCEPT !.wait = FALSE]
          = [row EXCEPT !.status = row.status, !.lock = row.lock, !.wait = FALSE]
    BY DEF Row
  <2>. QED  BY <1>0, <1>1, <1>2, <2>1 DEF SoundRow
<1>. QED  BY <1>3, <1>4, <1>5, <1>6, <1>7, <1>8, <1>9, <1>10

\* The threads that may spend are finitely many, no more than there are threads.
LEMMA MaySpendBounded ==
  /\ Cardinality(Workers) \in Nat
  /\ \A S \in SUBSET Workers :
       IsFiniteSet(S) /\ Cardinality(S) \in Nat /\ Cardinality(S) <= Cardinality(Workers)
BY ConstantsAssumption, FS_CardinalityType, FS_Subset

-----------------------------------------------------------------------------
(* What the actions have in common.                                        *)

\* A step changes rows only by the statements of RowUpdates.
RowsFollow == queue' \in [Keys -> Row] /\ \A k \in Keys : Follows(queue'[k], queue[k])

LEMMA RowsUnchanged ==
  ASSUME IInv, UNCHANGED queue
  PROVE  RowsFollow
BY RowUpdates DEF IInv, TypeOK, RowsFollow, Keys

LEMMA OneRowFollows ==
  ASSUME IInv, NEW k \in Keys, NEW row, Follows(row, queue[k]), queue' = [queue EXCEPT ![k] = row]
  PROVE  RowsFollow
<1>1. queue \in [Keys -> Row] /\ row \in Row
  BY DEF IInv, TypeOK, Keys, Follows
<1>2. \A l \in Keys : Follows(queue[l], queue[l])
  BY <1>1, RowUpdates DEF IInv
<1>. QED  BY <1>1, <1>2 DEF RowsFollow

\* What the threads hold stays good while the rows follow and no thread starts
\* a fetch.
LEMMA HoldsKept ==
  ASSUME IInv, RowsFollow, TypeOK',
         \A w \in Workers : fetcher'[w] = fetcher[w] \/ fetcher'[w].pc # "fetching"
  PROVE  FetchersHoldRows'
<1>. SUFFICES ASSUME NEW w \in Workers, fetcher'[w].pc = "fetching"
              PROVE  /\ <<fetcher'[w].case, fetcher'[w].source>> \in Keys
                     /\ fetcher'[w].attempt
                          <= queue'[<<fetcher'[w].case, fetcher'[w].source>>].attempt
  BY DEF FetchersHoldRows, Keys
<1>. DEFINE k == <<fetcher[w].case, fetcher[w].source>>
<1>1. fetcher'[w] = fetcher[w] /\ fetcher[w].pc = "fetching"
  OBVIOUS
<1>2. k \in Keys /\ fetcher[w].attempt <= queue[k].attempt
  BY <1>1 DEF IInv, FetchersHoldRows
<1>3. queue'[k].attempt >= queue[k].attempt
  BY <1>2 DEF RowsFollow, Follows
<1>4. fetcher[w].attempt \in Nat /\ queue[k].attempt \in Nat /\ queue'[k].attempt \in Nat
  BY <1>2 DEF IInv, TypeOK, RowsFollow, Keys, Fetcher, Row
<1>. QED  BY <1>1, <1>2, <1>3, <1>4

\* The four ways in which a step can keep the budget.
LEMMA BudgetKept ==
  ASSUME IInv, spent' \in Nat,
         \/ MaySpend' \subseteq MaySpend /\ spent' = spent
         \/ DailyLimit # 0 => spent' < DailyLimit
         \/ \E w \in MaySpend : MaySpend' \subseteq MaySpend \ {w} /\ spent' = spent + 1
  PROVE  BudgetHolds'
<1>. SUFFICES ASSUME DailyLimit # 0
              PROVE  spent' + Cardinality(MaySpend') <= DailyLimit - 1 + Cardinality(Workers)
  BY DEF BudgetHolds
<1>1. spent \in Nat /\ DailyLimit \in Nat
  BY ConstantsAssumption DEF IInv, TypeOK
<1>2. MaySpend \subseteq Workers /\ MaySpend' \subseteq Workers
  BY DEF MaySpend
<1>3. /\ IsFiniteSet(MaySpend) /\ Cardinality(MaySpend) \in Nat
      /\ Cardinality(MaySpend') \in Nat /\ Cardinality(MaySpend') <= Cardinality(Workers)
      /\ Cardinality(Workers) \in Nat
  BY <1>2, MaySpendBounded
<1>4. spent + Cardinality(MaySpend) <= DailyLimit - 1 + Cardinality(Workers)
  BY DEF IInv, BudgetHolds
<1>5. CASE MaySpend' \subseteq MaySpend /\ spent' = spent
  <2>1. Cardinality(MaySpend') <= Cardinality(MaySpend)
    BY <1>3, <1>5, FS_Subset
  <2>. QED  BY <1>1, <1>3, <1>4, <1>5, <2>1
<1>6. CASE spent' < DailyLimit
  BY <1>1, <1>3, <1>6
<1>7. ASSUME NEW w \in MaySpend, MaySpend' \subseteq MaySpend \ {w}, spent' = spent + 1
      PROVE  spent' + Cardinality(MaySpend') <= DailyLimit - 1 + Cardinality(Workers)
  <2>1. IsFiniteSet(MaySpend \ {w}) /\ Cardinality(MaySpend \ {w}) = Cardinality(MaySpend) - 1
    BY <1>3, FS_RemoveElement
  <2>2. Cardinality(MaySpend') <= Cardinality(MaySpend \ {w})
    BY <1>7, <2>1, FS_Subset
  <2>. QED  BY <1>1, <1>3, <1>4, <1>7, <2>1, <2>2
<1>. QED  BY <1>5, <1>6, <1>7

LEMMA Assembled ==
  ASSUME IInv, TypeOK', RowsFollow, FetchersHoldRows', BudgetHolds'
  PROVE  IInv'
BY DEF IInv, RowsFollow, Follows, Keys, SoundRow

\* A step that leaves the threads and the attempts alone.
LEMMA ElsewhereStep ==
  ASSUME IInv, TypeOK', RowsFollow, UNCHANGED <<fetcher, spent>>
  PROVE  IInv'
<1>1. MaySpend' = MaySpend
  BY DEF MaySpend
<1>2. FetchersHoldRows'
  BY HoldsKept
<1>3. BudgetHolds'
  BY <1>1, BudgetKept DEF TypeOK
<1>. QED  BY <1>2, <1>3, Assembled

-----------------------------------------------------------------------------
(* The actions, one by one.                                                *)

LEMMA InitHolds == Init => IInv
<1>. SUFFICES ASSUME Init PROVE IInv
  OBVIOUS
<1>1. TypeOK
  <2>1. Absent \in Row
    BY DEF Absent, Row, QueueStatus
  <2>2. NoArtifact \in Artifact /\ Idle \in Fetcher /\ NotClicked \in Click
    BY DEF NoArtifact, Artifact, Idle, Fetcher, NotClicked, Click, TextStatus
  <2>3. <<>> \in Seq(AllOutcomes)
    BY EmptySeq
  <2>. QED  BY <2>1, <2>2, <2>3 DEF Init, TypeOK, TextStatus, FinalText
<1>2. FetchersHoldRows /\ \A k \in Keys : SoundRow(queue[k])
  BY DEF Init, FetchersHoldRows, Idle, Keys, SoundRow, Absent
<1>3. BudgetHolds
  <2>1. MaySpend = {}
    BY DEF Init, MaySpend, Idle
  <2>. QED  BY <2>1, FS_EmptySet, MaySpendBounded, ConstantsAssumption DEF Init, BudgetHolds
<1>. QED  BY <1>1, <1>2, <1>3 DEF IInv

LEMMA StepPollAsks ==
  ASSUME IInv, NEW w \in Workers, PollAsks(w)
  PROVE  IInv'
<1>1. [Idle EXCEPT !.pc = "asked", !.paused = Pauses] \in Fetcher
  BY DEF Idle, Fetcher, Pauses, LimitReached, StopWindow
<1>2. TypeOK'
  BY <1>1 DEF IInv, TypeOK, PollAsks
<1>3. RowsFollow
  BY RowsUnchanged DEF PollAsks
<1>4. fetcher'[w].pc = "asked" /\ fetcher'[w].paused = Pauses
  BY DEF IInv, TypeOK, PollAsks, Idle
<1>5. \A v \in Workers \ {w} : fetcher'[v] = fetcher[v]
  BY DEF IInv, TypeOK, PollAsks
<1>6. FetchersHoldRows'
  BY <1>2, <1>3, <1>4, <1>5, HoldsKept
<1>7. BudgetHolds'
  <2>1. CASE LimitReached
    <3>1. MaySpend' \subseteq MaySpend
      BY <1>4, <1>5, <2>1 DEF MaySpend, Pauses
    <3>. QED  BY <1>2, <3>1, BudgetKept DEF PollAsks, TypeOK
  <2>2. CASE ~LimitReached
    <3>1. DailyLimit # 0 => spent' < DailyLimit
      BY <2>2, ConstantsAssumption DEF LimitReached, PollAsks, IInv, TypeOK
    <3>. QED  BY <1>2, <3>1, BudgetKept DEF TypeOK
  <2>. QED  BY <2>1, <2>2
<1>. QED  BY <1>2, <1>3, <1>6, <1>7, Assembled

\* The reclaimed rows follow.
LEMMA ReapedFollows ==
  ASSUME IInv
  PROVE  /\ Reaped \in [Keys -> Row]
         /\ \A k \in Keys : Follows(Reaped[k], queue[k]) /\ Reaped[k].attempt = queue[k].attempt
BY RowUpdates DEF IInv, TypeOK, Reaped, Keys, Follows

LEMMA StepPollClaims ==
  ASSUME IInv, NEW w \in Workers, NEW c \in Cases, NEW s \in Sources, PollClaims(w, c, s)
  PROVE  IInv'
<1>. DEFINE k == <<c, s>>
            row == ClaimedRow(Reaped[k])
            new == [Idle EXCEPT !.pc = "fetching", !.case = c, !.source = s,
                                !.attempt = queue[k].attempt + 1]
<1>1. k \in Keys /\ queue[k] \in Row /\ Reaped[k] \in Row /\ SoundRow(Reaped[k])
      /\ Reaped[k].attempt = queue[k].attempt /\ queue[k].attempt \in Nat
  BY ReapedFollows DEF Keys, IInv, TypeOK, Follows, Row
<1>2. row \in Row /\ SoundRow(row) /\ row.attempt = queue[k].attempt + 1
  BY <1>1, RowUpdates DEF Follows
<1>3. new \in Fetcher /\ new.pc = "fetching" /\ new.case = c /\ new.source = s
      /\ new.attempt = queue[k].attempt + 1
  <2>1. queue[k].attempt + 1 \in Nat /\ s \in AllSources
    BY <1>1, ConstantsAssumption
  <2>2. Idle \in Fetcher
    BY DEF Idle, Fetcher
  <2>3. new \in Fetcher
    BY <2>1, <2>2 DEF Fetcher
  <2>. QED  BY <2>2, <2>3 DEF Fetcher
<1>. HIDE DEF row, new
<1>4. queue' = [Reaped EXCEPT ![k] = row] /\ fetcher' = [fetcher EXCEPT ![w] = new]
  BY DEF PollClaims, row, new
<1>5. RowsFollow
  BY <1>1, <1>2, <1>4, ReapedFollows DEF RowsFollow, Follows
<1>6. TypeOK'
  BY <1>3, <1>4, <1>5 DEF IInv, TypeOK, PollClaims, RowsFollow, Keys
<1>7. fetcher'[w] = new /\ queue'[k] = row /\ \A v \in Workers \ {w} : fetcher'[v] = fetcher[v]
  BY <1>1, <1>4, ReapedFollows DEF IInv, TypeOK
<1>8. FetchersHoldRows'
  <2>1. ASSUME NEW v \in Workers, fetcher'[v].pc = "fetching"
        PROVE  /\ <<fetcher'[v].case, fetcher'[v].source>> \in Keys
               /\ fetcher'[v].attempt
                    <= queue'[<<fetcher'[v].case, fetcher'[v].source>>].attempt
    <3>1. CASE v = w
      BY <1>1, <1>2, <1>3, <1>7, <3>1
    <3>2. CASE v # w
      <4>. DEFINE l == <<fetcher[v].case, fetcher[v].source>>
      <4>1. fetcher'[v] = fetcher[v]
        BY <1>7, <3>2
      <4>2. l \in Keys /\ fetcher[v].attempt <= queue[l].attempt
        BY <2>1, <4>1 DEF IInv, FetchersHoldRows
      <4>3. queue'[l].attempt >= queue[l].attempt
        BY <1>5, <4>2 DEF RowsFollow, Follows
      <4>4. fetcher[v].attempt \in Nat /\ queue[l].attempt \in Nat /\ queue'[l].attempt \in Nat
        BY <1>5, <4>2 DEF IInv, TypeOK, RowsFollow, Keys, Fetcher, Row
      <4>. QED  BY <4>1, <4>2, <4>3, <4>4
    <3>. QED  BY <3>1, <3>2
  <2>. QED  BY <2>1 DEF FetchersHoldRows, Keys
<1>9. MaySpend' \subseteq MaySpend
  <2>1. fetcher[w].pc = "asked" /\ ~(fetcher[w].paused /\ s = "ecourts")
    BY DEF PollClaims, Claimable
  <2>. QED  BY <1>3, <1>7, <2>1 DEF MaySpend
<1>10. BudgetHolds'
  BY <1>6, <1>9, BudgetKept DEF PollClaims, TypeOK
<1>. QED  BY <1>5, <1>6, <1>8, <1>10, Assembled

\* A step that ends the work of one thread, without an attempt of eCourts.
LEMMA IdleStep ==
  ASSUME IInv, TypeOK', RowsFollow, NEW w \in Workers, fetcher' = [fetcher EXCEPT ![w] = Idle],
         \/ spent' = spent
         \/ spent' = spent + 1 /\ fetcher[w].pc = "fetching" /\ fetcher[w].source = "ecourts"
  PROVE  IInv'
<1>1. fetcher'[w].pc = "idle" /\ \A v \in Workers \ {w} : fetcher'[v] = fetcher[v]
  BY DEF IInv, TypeOK, Idle
<1>2. FetchersHoldRows'
  BY <1>1, HoldsKept
<1>3. MaySpend' \subseteq MaySpend \ {w}
  BY <1>1 DEF MaySpend
<1>4. BudgetHolds'
  <2>1. spent' \in Nat
    BY DEF TypeOK
  <2>2. CASE spent' = spent
    BY <1>3, <2>1, <2>2, BudgetKept
  <2>3. CASE spent' = spent + 1 /\ fetcher[w].pc = "fetching" /\ fetcher[w].source = "ecourts"
    <3>1. w \in MaySpend
      BY <2>3 DEF MaySpend
    <3>. QED  BY <1>3, <2>1, <2>3, <3>1, BudgetKept
  <2>. QED  BY <2>2, <2>3
<1>. QED  BY <1>2, <1>4, Assembled

LEMMA StepPollFindsNothing ==
  ASSUME IInv, NEW w \in Workers, PollFindsNothing(w)
  PROVE  IInv'
<1>1. RowsFollow
  BY ReapedFollows DEF PollFindsNothing, RowsFollow
<1>2. Idle \in Fetcher
  BY DEF Idle, Fetcher
<1>3. TypeOK'
  BY <1>1, <1>2 DEF IInv, TypeOK, PollFindsNothing, RowsFollow, Keys
<1>. QED  BY <1>1, <1>3, IdleStep DEF PollFindsNothing

\* What is recorded of an attempt is well typed, and counts if it is eCourts's.
LEMMA LogTyped ==
  ASSUME IInv, NEW k \in Keys, NEW s, NEW o \in AllOutcomes,
         logged' = [logged EXCEPT ![k] = @ + 1],
         spent' = IF s = "ecourts" THEN spent + 1 ELSE spent,
         recent' = IF s = "ecourts" THEN Append(recent, o) ELSE recent
  PROVE  /\ logged' \in [Cases \X Sources -> Nat]
         /\ spent' \in Nat /\ recent' \in Seq(AllOutcomes)
         /\ spent' = spent \/ (spent' = spent + 1 /\ s = "ecourts")
<1>1. recent \in Seq(AllOutcomes) /\ Append(recent, o) \in Seq(AllOutcomes)
  BY AppendProperties DEF IInv, TypeOK
<1>2. spent \in Nat /\ logged \in [Cases \X Sources -> Nat]
  BY DEF IInv, TypeOK
<1>. QED  BY <1>1, <1>2 DEF Keys

\* The row that a thread reports on, with the status that it reports.
LEMMA ReportFollows ==
  ASSUME IInv, NEW w \in Workers, fetcher[w].pc = "fetching", NEW k, NEW t \in QueueStatus,
         k = <<fetcher[w].case, fetcher[w].source>>,
         t = "failed" => fetcher[w].attempt >= MaxAttempts,
         queue' = [queue EXCEPT ![k] = Reported(@, t)]
  PROVE  k \in Keys /\ RowsFollow
<1>1. k \in Keys /\ fetcher[w].attempt <= queue[k].attempt
  BY DEF IInv, FetchersHoldRows
<1>2. queue[k] \in Row /\ SoundRow(queue[k])
  BY <1>1 DEF IInv, TypeOK, Keys
<1>3. queue[k].attempt \in Nat /\ fetcher[w].attempt \in Nat /\ MaxAttempts \in Nat
  BY <1>2, ConstantsAssumption DEF IInv, TypeOK, Fetcher, Row
<1>4. t = "failed" => queue[k].attempt >= MaxAttempts
  BY <1>1, <1>3
<1>5. Follows(Reported(queue[k], t), queue[k])
  BY <1>2, <1>4, RowUpdates
<1>. QED  BY <1>1, <1>5, OneRowFollows

LEMMA StepPersistResult ==
  ASSUME IInv, NEW w \in Workers, NEW o \in AllOutcomes, PersistResult(w, o)
  PROVE  IInv'
<1>. DEFINE c == fetcher[w].case
            s == fetcher[w].source
            k == <<c, s>>
            t == QueueStatusOf(o, fetcher[w].attempt)
<1>1. fetcher[w].pc = "fetching" /\ fetcher[w].attempt \in Nat
  BY DEF PersistResult, IInv, TypeOK, Fetcher
<1>2. t \in QueueStatus /\ (t = "failed" => fetcher[w].attempt >= MaxAttempts)
  BY <1>1, StatusTable
<1>3. queue' = [queue EXCEPT ![k] = Reported(@, t)]
  BY DEF PersistResult
<1>. HIDE DEF t
<1>4. k \in Keys /\ RowsFollow
  BY <1>1, <1>2, <1>3, ReportFollows
<1>5. c \in Cases /\ s \in AllSources
  BY <1>4, ConstantsAssumption DEF Keys
<1>6. Log(c, s, o)
  BY DEF PersistResult
<1>7. artifact' \in [Artifacts -> Artifact]
  <2>1. [NoArtifact EXCEPT !.case = c, !.source = s] \in Artifact
    BY <1>5 DEF NoArtifact, Artifact
  <2>2. Stores(c, s, o)
    BY DEF PersistResult
  <2>. QED  BY <2>1, <2>2 DEF Stores, IInv, TypeOK
<1>8. text' \in [Cases -> TextStatus]
  <2>1. TextAfter(text[c], s, o) \in TextStatus
    BY <1>5, TextTable DEF IInv, TypeOK
  <2>. QED  BY <1>5, <2>1 DEF PersistResult, IInv, TypeOK
<1>9. Idle \in Fetcher
  BY DEF Idle, Fetcher
<1>10. fetcher' = [fetcher EXCEPT ![w] = Idle] /\ UNCHANGED <<click, selected>>
  BY DEF PersistResult
<1>11. /\ logged' \in [Cases \X Sources -> Nat]
       /\ spent' \in Nat /\ recent' \in Seq(AllOutcomes)
       /\ spent' = spent \/ (spent' = spent + 1 /\ s = "ecourts")
  <2>1. /\ logged' = [logged EXCEPT ![k] = @ + 1]
        /\ spent' = IF s = "ecourts" THEN spent + 1 ELSE spent
        /\ recent' = IF s = "ecourts" THEN Append(recent, o) ELSE recent
    BY <1>6 DEF Log
  <2>. HIDE DEF k, s
  <2>. QED  BY <1>4, <1>6, <2>1, LogTyped
<1>12. TypeOK'
  BY <1>4, <1>7, <1>8, <1>9, <1>10, <1>11 DEF IInv, TypeOK, RowsFollow, Keys
<1>. QED  BY <1>1, <1>4, <1>10, <1>11, <1>12, IdleStep

LEMMA StepPersistException ==
  ASSUME IInv, NEW w \in Workers, PersistException(w)
  PROVE  IInv'
<1>. DEFINE c == fetcher[w].case
            s == fetcher[w].source
            k == <<c, s>>
            t == RetryOrFail(fetcher[w].attempt)
<1>1. fetcher[w].pc = "fetching" /\ fetcher[w].attempt \in Nat
  BY DEF PersistException, IInv, TypeOK, Fetcher
<1>2. t \in QueueStatus /\ (t = "failed" => fetcher[w].attempt >= MaxAttempts)
  BY DEF RetryOrFail, QueueStatus, OpenStatus
<1>3. queue' = [queue EXCEPT ![k] = Reported(@, t)]
  BY DEF PersistException
<1>. HIDE DEF t
<1>4. k \in Keys /\ RowsFollow
  BY <1>1, <1>2, <1>3, ReportFollows
<1>5. Log(c, s, "http_error") /\ "http_error" \in AllOutcomes
  BY DEF PersistException, AllOutcomes
<1>6. Idle \in Fetcher
  BY DEF Idle, Fetcher
<1>7. fetcher' = [fetcher EXCEPT ![w] = Idle] /\ UNCHANGED <<text, artifact, click, selected>>
  BY DEF PersistException
<1>8. /\ logged' \in [Cases \X Sources -> Nat]
      /\ spent' \in Nat /\ recent' \in Seq(AllOutcomes)
      /\ spent' = spent \/ (spent' = spent + 1 /\ s = "ecourts")
  <2>1. /\ logged' = [logged EXCEPT ![k] = @ + 1]
        /\ spent' = IF s = "ecourts" THEN spent + 1 ELSE spent
        /\ recent' = IF s = "ecourts" THEN Append(recent, "http_error") ELSE recent
    BY <1>5 DEF Log
  <2>. HIDE DEF k, s
  <2>. QED  BY <1>4, <1>5, <2>1, LogTyped
<1>9. TypeOK'
  BY <1>4, <1>6, <1>7, <1>8 DEF IInv, TypeOK, RowsFollow, Keys
<1>. QED  BY <1>1, <1>4, <1>7, <1>8, <1>9, IdleStep

LEMMA StepCrash ==
  ASSUME IInv, NEW w \in Workers, Crash(w)
  PROVE  IInv'
<1>1. RowsFollow
  BY RowsUnchanged DEF Crash
<1>2. Idle \in Fetcher
  BY DEF Idle, Fetcher
<1>3. TypeOK'
  BY <1>2 DEF IInv, TypeOK, Crash
<1>. QED  BY <1>1, <1>3, IdleStep DEF Crash

LEMMA StepTime ==
  ASSUME IInv,
         \/ \E c \in Cases, s \in Sources : LockExpires(c, s) \/ BackoffEnds(c, s)
         \/ AttemptLeavesHour \/ Midnight
  PROVE  IInv'
<1>1. ASSUME NEW c \in Cases, NEW s \in Sources, LockExpires(c, s) \/ BackoffEnds(c, s)
      PROVE  IInv'
  <2>. DEFINE k == <<c, s>>
  <2>1. k \in Keys /\ queue[k] \in Row /\ SoundRow(queue[k])
    BY DEF Keys, IInv, TypeOK
  <2>2. CASE LockExpires(c, s)
    <3>1. queue' = [queue EXCEPT ![k] = [queue[k] EXCEPT !.lock = "expired"]]
      BY <2>2 DEF LockExpires
    <3>2. RowsFollow
      BY <2>1, <3>1, RowUpdates, OneRowFollows
    <3>3. TypeOK'
      BY <2>2, <3>2 DEF LockExpires, IInv, TypeOK, RowsFollow, Keys
    <3>. QED  BY <2>2, <3>2, <3>3, ElsewhereStep DEF LockExpires
  <2>3. CASE BackoffEnds(c, s)
    <3>1. queue' = [queue EXCEPT ![k] = [queue[k] EXCEPT !.wait = FALSE]]
      BY <2>3 DEF BackoffEnds
    <3>2. RowsFollow
      BY <2>1, <3>1, RowUpdates, OneRowFollows
    <3>3. TypeOK'
      BY <2>3, <3>2 DEF BackoffEnds, IInv, TypeOK, RowsFollow, Keys
    <3>. QED  BY <2>3, <3>2, <3>3, ElsewhereStep DEF BackoffEnds
  <2>. QED  BY <1>1, <2>2, <2>3
<1>2. CASE AttemptLeavesHour
  <2>1. RowsFollow
    BY <1>2, RowsUnchanged DEF AttemptLeavesHour
  <2>2. Tail(recent) \in Seq(AllOutcomes)
    BY <1>2, HeadTailProperties DEF AttemptLeavesHour, IInv, TypeOK
  <2>3. TypeOK'
    BY <1>2, <2>2 DEF AttemptLeavesHour, IInv, TypeOK
  <2>. QED  BY <1>2, <2>1, <2>3, ElsewhereStep DEF AttemptLeavesHour
<1>3. CASE Midnight
  <2>1. RowsFollow
    BY <1>3, RowsUnchanged DEF Midnight
  <2>2. TypeOK'
    BY <1>3 DEF Midnight, IInv, TypeOK
  <2>3. FetchersHoldRows'
    BY <1>3, <2>1, <2>2, HoldsKept DEF Midnight
  <2>4. DailyLimit # 0 => spent' < DailyLimit
    BY <1>3, ConstantsAssumption DEF Midnight
  <2>5. BudgetHolds'
    BY <2>2, <2>4, BudgetKept DEF TypeOK
  <2>. QED  BY <2>1, <2>2, <2>3, <2>5, Assembled
<1>. QED  BY <1>1, <1>2, <1>3

LEMMA StepClick ==
  ASSUME IInv, NEW r \in Clicks, ClickStep(r)
  PROVE  IInv'
<1>0. click[r] \in Click /\ text \in [Cases -> TextStatus] /\ Sources \subseteq AllSources
  BY ConstantsAssumption DEF IInv, TypeOK
<1>1. ASSUME NEW c \in Cases, ClickReadsCase(r, c)
      PROVE  IInv'
  <2>1. [click[r] EXCEPT !.pc = "read", !.case = c, !.seen = text[c]] \in Click
    BY <1>0 DEF Click
  <2>2. TypeOK'
    BY <1>1, <2>1 DEF ClickReadsCase, IInv, TypeOK
  <2>. QED  BY <1>1, <2>2, RowsUnchanged, ElsewhereStep DEF ClickReadsCase
<1>2. ASSUME NEW S \in SUBSET Sources, ClickPlans(r, S)
      PROVE  IInv'
  <2>1. [click[r] EXCEPT !.pc = "target", !.sources = S] \in Click
    BY <1>0 DEF Click
  <2>2. TypeOK'
    BY <1>2, <2>1 DEF ClickPlans, IInv, TypeOK
  <2>. QED  BY <1>2, <2>2, RowsUnchanged, ElsewhereStep DEF ClickPlans
<1>3. CASE ClickTargets(r)
  <2>1. [click[r] EXCEPT !.pc = "queue"] \in Click
    BY <1>0 DEF Click
  <2>2. text' \in [Cases -> TextStatus]
    BY <1>0, <1>3 DEF ClickTargets, TextStatus
  <2>3. TypeOK'
    BY <1>3, <2>1, <2>2 DEF ClickTargets, IInv, TypeOK
  <2>. QED  BY <1>3, <2>3, RowsUnchanged, ElsewhereStep DEF ClickTargets
<1>4. CASE ClickEnds(r)
  <2>1. [click[r] EXCEPT !.pc = "done"] \in Click
    BY <1>0 DEF Click
  <2>2. TypeOK'
    BY <1>4, <2>1 DEF ClickEnds, IInv, TypeOK
  <2>. QED  BY <1>4, <2>2, RowsUnchanged, ElsewhereStep DEF ClickEnds
<1>5. ASSUME NEW s \in Sources, ClickQueues(r, s)
      PROVE  IInv'
  <2>. DEFINE c == click[r].case
              k == <<c, s>>
              f == r \in Forced
  <2>1. click' \in [Clicks -> Click]
    BY <1>0, <1>5 DEF ClickQueues, IInv, TypeOK, Click
  <2>2. f \in BOOLEAN /\ queue' = [queue EXCEPT ![k] = Requeued(queue[k], f)]
    BY <1>5 DEF ClickQueues
  <2>3. RowsFollow
    <3>1. CASE k \in Keys
      <4>1. queue[k] \in Row /\ SoundRow(queue[k])
        BY <3>1 DEF Keys, IInv, TypeOK
      <4>. HIDE DEF k, f
      <4>2. Follows(Requeued(queue[k], f), queue[k])
        BY <2>2, <4>1, RowUpdates
      <4>. QED  BY <2>2, <3>1, <4>2, OneRowFollows
    <3>2. CASE k \notin Keys
      <4>1. queue' = queue
        BY <2>2, <3>2 DEF Keys, IInv, TypeOK
      <4>. QED  BY <4>1, RowsUnchanged
    <3>. QED  BY <3>1, <3>2
  <2>4. TypeOK'
    BY <1>5, <2>1, <2>3 DEF ClickQueues, IInv, TypeOK, RowsFollow, Keys
  <2>. QED  BY <1>5, <2>3, <2>4, ElsewhereStep DEF ClickQueues
<1>. QED  BY <1>1, <1>2, <1>3, <1>4, <1>5 DEF ClickStep

LEMMA StepSeedAndStage2 ==
  ASSUME IInv,
         \/ \E C \in SUBSET Cases : SeedSelects(C)
         \/ SeedCommits \/ SeedDies
         \/ \E a \in Artifacts : ProcessStored(a)
  PROVE  IInv'
<1>1. ASSUME NEW C \in SUBSET Cases, SeedSelects(C)
      PROVE  IInv'
  <2>1. TypeOK'
    BY <1>1 DEF SeedSelects, IInv, TypeOK
  <2>. QED  BY <1>1, <2>1, RowsUnchanged, ElsewhereStep DEF SeedSelects
<1>2. CASE SeedCommits
  <2>1. \A k \in Keys : queue[k] \in Row /\ SoundRow(queue[k])
    BY DEF Keys, IInv, TypeOK
  <2>2. \A k \in Keys : Follows(queue[k], queue[k])
                        /\ (queue[k] = Absent => Follows(Pending, queue[k]))
    BY <2>1, RowUpdates
  <2>3. RowsFollow
    BY <1>2, <2>2 DEF SeedCommits, RowsFollow, Keys, Follows
  <2>4. TypeOK'
    BY <1>2, <2>3 DEF SeedCommits, IInv, TypeOK, RowsFollow, Keys
  <2>. QED  BY <1>2, <2>3, <2>4, ElsewhereStep DEF SeedCommits
<1>3. CASE SeedDies
  <2>1. TypeOK'
    BY <1>3 DEF SeedDies, IInv, TypeOK
  <2>. QED  BY <1>3, <2>1, RowsUnchanged, ElsewhereStep DEF SeedDies
<1>4. ASSUME NEW a \in Artifacts, ProcessStored(a)
      PROVE  IInv'
  <2>1. [artifact[a] EXCEPT !.document = TRUE] \in Artifact
    BY DEF IInv, TypeOK, Artifact
  <2>2. text' \in [Cases -> TextStatus]
    BY <1>4 DEF ProcessStored, IInv, TypeOK, TextStatus, FinalText
  <2>3. TypeOK'
    BY <1>4, <2>1, <2>2 DEF ProcessStored, IInv, TypeOK
  <2>. QED  BY <1>4, <2>3, RowsUnchanged, ElsewhereStep DEF ProcessStored
<1>. QED  BY <1>1, <1>2, <1>3, <1>4

LEMMA NextHolds == IInv /\ [Next]_acquisitionVars => IInv'
<1>. SUFFICES ASSUME IInv, [Next]_acquisitionVars PROVE IInv'
  OBVIOUS
<1>1. ASSUME NEW w \in Workers, Poll(w) \/ Persist(w) \/ Crash(w)
      PROVE  IInv'
  BY <1>1, StepPollAsks, StepPollClaims, StepPollFindsNothing, StepPersistResult,
     StepPersistException, StepCrash DEF Poll, Persist
<1>2. CASE UNCHANGED acquisitionVars
  <2>1. TypeOK'
    BY <1>2 DEF acquisitionVars, IInv, TypeOK
  <2>. QED  BY <1>2, <2>1, RowsUnchanged, ElsewhereStep DEF acquisitionVars
<1>. QED  BY <1>1, <1>2, StepTime, StepClick, StepSeedAndStage2 DEF Next

-----------------------------------------------------------------------------
\* The inductive invariant: types, threads hold rows, rows are sound, and the
\* attempts on record with those that may still come stay within the bound.
THEOREM Invariant == Spec => []IInv
BY InitHolds, NextHolds, PTL DEF Spec

\* Every row, thread and request keeps its declared shape (all statements that
\* write them).
THEOREM TypeCorrect == Spec => []TypeOK
<1>1. IInv => TypeOK
  BY DEF IInv
<1>. QED  BY <1>1, Invariant, PTL

\* Whoever reports, and however late, a row fails only with all its attempts
\* used (_queue_status, _persist_exception, the reaper).
THEOREM FailedExhausted == Spec => []FailedUsedAllAttempts
<1>1. IInv => FailedUsedAllAttempts
  BY DEF IInv, FailedUsedAllAttempts, SoundRow, Keys
<1>. QED  BY <1>1, Invariant, PTL

\* With any number of threads, the daily limit is exceeded by fewer attempts
\* than there are threads (decide_ecourts_pause, poll_once).
THEOREM DailyOvershoot == Spec => []DailyOvershootBounded
<1>1. IInv => DailyOvershootBounded
  <2>. SUFFICES ASSUME IInv, DailyLimit # 0
                PROVE  spent <= DailyLimit + Cardinality(Workers) - 1
    BY DEF DailyOvershootBounded
  <2>1. MaySpend \subseteq Workers
    BY DEF MaySpend
  <2>2. Cardinality(MaySpend) \in Nat /\ Cardinality(Workers) \in Nat
    BY <2>1, MaySpendBounded
  <2>3. spent + Cardinality(MaySpend) <= DailyLimit - 1 + Cardinality(Workers)
    BY DEF IInv, BudgetHolds
  <2>. QED  BY <2>2, <2>3, ConstantsAssumption DEF IInv, TypeOK
<1>. QED  BY <1>1, Invariant, PTL

-----------------------------------------------------------------------------
(* Text that was acquired.                                                 *)

\* Artifacts belong to cases, and no report declares a case dead; with this the
\* two properties are inductive together.
ArtifactsOfCases == \A a \in Artifacts : artifact[a] # NoArtifact => artifact[a].case \in Cases
NoneDead == \A c \in Cases : text[c] # "dead"

AcquiredInv == SuccessHasArtifact /\ ArtifactIsVisible /\ ArtifactsOfCases /\ NoneDead

\* What a report makes of a case: final stays final, a hit is ready unless the
\* case is blocked, and nothing else makes it ready.
LEMMA TextAfterReport ==
  ASSUME NEW t \in TextStatus, NEW s, NEW o, t # "dead"
  PROVE  /\ TextAfter(t, s, o) # "dead"
         /\ t \in {"text_ready", "blocked"} => TextAfter(t, s, o) \in {"text_ready", "blocked"}
         /\ o = "hit" => TextAfter(t, s, o) \in {"text_ready", "blocked"}
         /\ TextAfter(t, s, o) = "text_ready" => t = "text_ready" \/ o = "hit"
<1>1. CaseStatusOf(s, o) # {} => (CHOOSE x \in CaseStatusOf(s, o) : TRUE) \in CaseStatusOf(s, o)
  OBVIOUS
<1>2. \A x \in CaseStatusOf(s, o) : x # "dead" /\ x # "text_ready"
  BY DEF CaseStatusOf
<1>3. TextAfterTrigger(t, o) = IF o = "hit" /\ t # "blocked" THEN "text_ready" ELSE t
  BY DEF TextAfterTrigger
<1>. QED  BY <1>1, <1>2, <1>3 DEF TextAfter, FinalText

\* A step that stores nothing, lets no row succeed and changes no final text.
LEMMA NothingAcquired ==
  ASSUME IInv, AcquiredInv, UNCHANGED artifact,
         \A k \in Keys : queue'[k].status = "succeeded" => queue[k].status = "succeeded",
         \A c \in Cases : \/ text'[c] = text[c]
                          \/ text[c] \notin {"text_ready", "blocked"} /\ text'[c] \notin {"text_ready", "dead"}
  PROVE  AcquiredInv'
<1>1. ArtifactsOfCases' /\ NoneDead'
  BY DEF AcquiredInv, ArtifactsOfCases, NoneDead
<1>2. ArtifactIsVisible'
  BY DEF AcquiredInv, ArtifactsOfCases, ArtifactIsVisible
<1>3. SuccessHasArtifact'
  BY DEF AcquiredInv, SuccessHasArtifact, Keys
<1>. QED  BY <1>1, <1>2, <1>3 DEF AcquiredInv

LEMMA AcquiredPersistResult ==
  ASSUME IInv, AcquiredInv, NEW w \in Workers, NEW o \in AllOutcomes, PersistResult(w, o)
  PROVE  AcquiredInv'
<1>. DEFINE c == fetcher[w].case
            s == fetcher[w].source
            k == <<c, s>>
            t == QueueStatusOf(o, fetcher[w].attempt)
<1>1. k \in Keys /\ c \in Cases /\ text[c] \in TextStatus /\ text[c] # "dead"
  BY DEF PersistResult, IInv, FetchersHoldRows, TypeOK, Keys, AcquiredInv, NoneDead
<1>2. /\ queue' = [queue EXCEPT ![k] = Reported(@, t)]
      /\ text' = [text EXCEPT ![c] = TextAfter(@, s, o)] /\ Stores(c, s, o)
  BY DEF PersistResult
<1>3. t = "succeeded" => o = "hit"
  BY DEF QueueStatusOf, RetryOrFail
<1>. HIDE DEF t
<1>4. text'[c] = TextAfter(text[c], s, o) /\ \A d \in Cases \ {c} : text'[d] = text[d]
  BY <1>1, <1>2 DEF IInv, TypeOK
<1>5. /\ queue'[k].status = t
      /\ \A l \in Keys \ {k} : queue'[l] = queue[l]
  BY <1>1, <1>2 DEF IInv, TypeOK, Keys, Row, Reported
<1>6. CASE o # "hit"
  <2>1. UNCHANGED artifact
    BY <1>2, <1>6 DEF Stores
  <2>2. \A l \in Keys : queue'[l].status = "succeeded" => queue[l].status = "succeeded"
    BY <1>3, <1>5, <1>6
  <2>3. ASSUME text[c] \in {"text_ready", "blocked"} PROVE text'[c] = text[c]
    <3>1. TextAfterTrigger(text[c], o) = text[c]
      BY <1>6 DEF TextAfterTrigger
    <3>. QED  BY <1>4, <2>3, <3>1 DEF TextAfter, FinalText
  <2>4. text[c] \notin {"text_ready", "blocked"} => text'[c] \notin {"text_ready", "dead"}
    BY <1>1, <1>4, <1>6, TextAfterReport
  <2>. QED  BY <1>4, <2>1, <2>2, <2>3, <2>4, NothingAcquired
<1>7. CASE o = "hit"
  <2>. DEFINE new == [NoArtifact EXCEPT !.case = c, !.source = s]
  <2>1. PICK a \in Artifacts : artifact[a] = NoArtifact /\ artifact' = [artifact EXCEPT ![a] = new]
    BY <1>2, <1>7 DEF Stores
  <2>2. new.case = c /\ new.source = s
    BY DEF NoArtifact
  <2>. HIDE DEF new
  <2>3. /\ artifact'[a] = new
        /\ \A b \in Artifacts \ {a} : artifact'[b] = artifact[b]
    BY <2>1 DEF IInv, TypeOK
  <2>4. text'[c] \in {"text_ready", "blocked"}
    BY <1>1, <1>4, <1>7, TextAfterReport
  <2>5. ArtifactsOfCases' /\ NoneDead'
    BY <1>1, <1>4, <2>2, <2>3, <2>4 DEF AcquiredInv, ArtifactsOfCases, NoneDead
  <2>6. ArtifactIsVisible'
    BY <1>1, <1>4, <2>2, <2>3, <2>4 DEF AcquiredInv, ArtifactIsVisible, ArtifactsOfCases
  <2>7. ASSUME NEW d, NEW z, \E b \in Artifacts : artifact[b].case = d /\ artifact[b].source = z,
               d \in Cases
        PROVE  \E b \in Artifacts : artifact'[b].case = d /\ artifact'[b].source = z
    <3>1. NoArtifact.case \notin Cases
      BY ConstantsAssumption DEF NoArtifact
    <3>. QED  BY <2>1, <2>3, <2>7, <3>1
  <2>8. ASSUME NEW d \in Cases, NEW z \in Sources, queue'[<<d, z>>].status = "succeeded"
        PROVE  \E b \in Artifacts : artifact'[b].case = d /\ artifact'[b].source = z
    <3>1. CASE <<d, z>> = k
      BY <2>2, <2>3, <3>1
    <3>2. CASE <<d, z>> # k
      <4>1. queue[<<d, z>>].status = "succeeded"
        BY <1>5, <2>8, <3>2 DEF Keys
      <4>. QED  BY <2>7, <4>1 DEF AcquiredInv, SuccessHasArtifact
    <3>. QED  BY <3>1, <3>2
  <2>9. ASSUME NEW d \in Cases, text'[d] = "text_ready"
        PROVE  \E b \in Artifacts : artifact'[b].case = d
    <3>1. CASE d = c
      BY <2>2, <2>3, <3>1
    <3>2. CASE d # c
      <4>1. \E b \in Artifacts : artifact[b].case = d
        BY <1>4, <2>9, <3>2 DEF AcquiredInv, SuccessHasArtifact
      <4>2. NoArtifact.case \notin Cases
        BY ConstantsAssumption DEF NoArtifact
      <4>. QED  BY <2>1, <2>3, <4>1, <4>2
    <3>. QED  BY <3>1, <3>2
  <2>. QED  BY <2>5, <2>6, <2>8, <2>9 DEF AcquiredInv, SuccessHasArtifact
<1>. QED  BY <1>6, <1>7

LEMMA AcquiredProcessStored ==
  ASSUME IInv, AcquiredInv, NEW a \in Artifacts, ProcessStored(a)
  PROVE  AcquiredInv'
<1>. DEFINE c == artifact[a].case
<1>1. c \in Cases /\ text[c] \in {"text_ready", "blocked"}
  BY DEF ProcessStored, AcquiredInv, ArtifactsOfCases, ArtifactIsVisible
<1>2. text' = text /\ queue' = queue
  BY <1>1 DEF ProcessStored, FinalText
<1>3. /\ artifact[a] # NoArtifact
      /\ artifact'[a].case = c /\ artifact'[a].source = artifact[a].source
      /\ \A b \in Artifacts \ {a} : artifact'[b] = artifact[b]
  BY DEF ProcessStored, IInv, TypeOK, Artifact
<1>4. ArtifactsOfCases' /\ NoneDead' /\ ArtifactIsVisible'
  BY <1>1, <1>2, <1>3 DEF AcquiredInv, ArtifactsOfCases, NoneDead, ArtifactIsVisible
<1>5. SuccessHasArtifact'
  BY <1>2, <1>3 DEF AcquiredInv, SuccessHasArtifact
<1>. QED  BY <1>4, <1>5 DEF AcquiredInv

\* The statements on a row that are not the report of a hit.
LEMMA NoneSucceeds ==
  ASSUME NEW row \in Row
  PROVE  /\ ReapedRow(row).status = "succeeded" => row.status = "succeeded"
         /\ ClaimedRow(row).status # "succeeded"
         /\ \A a \in Nat : Reported(row, RetryOrFail(a)).status # "succeeded"
         /\ \A f \in BOOLEAN : Requeued(row, f).status = "succeeded" => row.status = "succeeded"
         /\ [row EXCEPT !.lock = "expired"].status = row.status
         /\ [row EXCEPT !.wait = FALSE].status = row.status
         /\ Pending.status # "succeeded"
BY DEF Row, ReapedRow, ClaimedRow, Reported, Requeued, RetryOrFail, Pending, Absent

LEMMA AcquiredNext == IInv /\ AcquiredInv /\ [Next]_acquisitionVars => AcquiredInv'
<1>. SUFFICES ASSUME IInv, AcquiredInv, [Next]_acquisitionVars PROVE AcquiredInv'
  OBVIOUS
<1>0. queue \in [Keys -> Row] /\ \A k \in Keys : queue[k] \in Row
  BY DEF IInv, TypeOK, Keys
<1>. DEFINE Quiet == \A k \in Keys : queue'[k].status = "succeeded" => queue[k].status = "succeeded"
<1>1. ASSUME NEW w \in Workers, Poll(w) \/ PersistException(w) \/ Crash(w)
      PROVE  AcquiredInv'
  <2>1. UNCHANGED <<text, artifact>>
    BY <1>1 DEF Poll, PollAsks, PollFindsNothing, PollClaims, PersistException, Crash
  <2>2. CASE PollAsks(w) \/ Crash(w)
    BY <2>1, <2>2, NothingAcquired DEF PollAsks, Crash
  <2>3. CASE PollFindsNothing(w)
    <3>1. Quiet
      BY <1>0, <2>3, NoneSucceeds DEF PollFindsNothing, Reaped, Keys
    <3>. QED  BY <2>1, <3>1, NothingAcquired
  <2>4. ASSUME NEW c \in Cases, NEW s \in Sources, PollClaims(w, c, s)
        PROVE  AcquiredInv'
    <3>1. <<c, s>> \in Keys /\ Reaped \in [Keys -> Row]
      BY ReapedFollows DEF Keys
    <3>2. \A k \in Keys : queue'[k] = IF k = <<c, s>> THEN ClaimedRow(Reaped[k]) ELSE Reaped[k]
      BY <2>4, <3>1 DEF PollClaims
    <3>3. \A k \in Keys : Reaped[k].status = "succeeded" => queue[k].status = "succeeded"
      BY <1>0, NoneSucceeds DEF Reaped, Keys
    <3>4. Quiet
      BY <3>1, <3>2, <3>3, NoneSucceeds
    <3>. QED  BY <2>1, <3>4, NothingAcquired
  <2>5. CASE PersistException(w)
    <3>. DEFINE k == <<fetcher[w].case, fetcher[w].source>>
    <3>1. k \in Keys /\ fetcher[w].attempt \in Nat
      BY <2>5 DEF PersistException, IInv, FetchersHoldRows, TypeOK, Fetcher
    <3>2. queue' = [queue EXCEPT ![k] = Reported(@, RetryOrFail(fetcher[w].attempt))]
      BY <2>5 DEF PersistException
    <3>. HIDE DEF k
    <3>3. Quiet
      BY <1>0, <3>1, <3>2, NoneSucceeds
    <3>. QED  BY <2>1, <3>3, NothingAcquired
  <2>. QED  BY <1>1, <2>2, <2>3, <2>4, <2>5 DEF Poll
<1>2. ASSUME NEW c \in Cases, NEW s \in Sources, LockExpires(c, s) \/ BackoffEnds(c, s)
      PROVE  AcquiredInv'
  <2>1. UNCHANGED <<text, artifact>>
    BY <1>2 DEF LockExpires, BackoffEnds
  <2>2. <<c, s>> \in Keys
    BY DEF Keys
  <2>3. Quiet
    <3>1. CASE LockExpires(c, s)
      <4>1. queue' = [queue EXCEPT ![<<c, s>>] = [queue[<<c, s>>] EXCEPT !.lock = "expired"]]
        BY <3>1 DEF LockExpires
      <4>. QED  BY <1>0, <2>2, <4>1, NoneSucceeds
    <3>2. CASE BackoffEnds(c, s)
      <4>1. queue' = [queue EXCEPT ![<<c, s>>] = [queue[<<c, s>>] EXCEPT !.wait = FALSE]]
        BY <3>2 DEF BackoffEnds
      <4>. QED  BY <1>0, <2>2, <4>1, NoneSucceeds
    <3>. QED  BY <1>2, <3>1, <3>2
  <2>. QED  BY <2>1, <2>3, NothingAcquired
<1>3. ASSUME NEW r \in Clicks, ClickStep(r)
      PROVE  AcquiredInv'
  <2>1. CASE ClickTargets(r)
    <3>1. UNCHANGED <<queue, artifact>>
      BY <2>1 DEF ClickTargets
    <3>2. \A c \in Cases : text'[c] = text[c] \/ (text[c] = "metadata_only" /\ text'[c] = "targeted")
      BY <2>1 DEF ClickTargets, IInv, TypeOK
    <3>. QED  BY <3>1, <3>2, NothingAcquired
  <2>2. ASSUME NEW s \in Sources, ClickQueues(r, s)
        PROVE  AcquiredInv'
    <3>. DEFINE k == <<click[r].case, s>>
                f == r \in Forced
    <3>1. UNCHANGED <<text, artifact>> /\ queue' = [queue EXCEPT ![k] = Requeued(queue[k], f)]
      BY <2>2 DEF ClickQueues
    <3>2. f \in BOOLEAN
      OBVIOUS
    <3>. HIDE DEF k, f
    <3>3. Quiet
      BY <1>0, <3>1, <3>2, NoneSucceeds
    <3>. QED  BY <3>1, <3>3, NothingAcquired
  <2>3. CASE \/ \E c \in Cases : ClickReadsCase(r, c)
             \/ \E S \in SUBSET Sources : ClickPlans(r, S)
             \/ ClickEnds(r)
    BY <2>3, NothingAcquired DEF ClickReadsCase, ClickPlans, ClickEnds
  <2>. QED  BY <1>3, <2>1, <2>2, <2>3 DEF ClickStep
<1>4. CASE SeedCommits
  <2>1. UNCHANGED <<text, artifact>>
    BY <1>4 DEF SeedCommits
  <2>2. Quiet
    BY <1>4, NoneSucceeds DEF SeedCommits, Keys, Pending, Absent
  <2>. QED  BY <2>1, <2>2, NothingAcquired
<1>5. CASE \/ \E C \in SUBSET Cases : SeedSelects(C)
           \/ SeedDies \/ AttemptLeavesHour \/ Midnight \/ UNCHANGED acquisitionVars
  BY <1>5, NothingAcquired
  DEF SeedSelects, SeedDies, AttemptLeavesHour, Midnight, acquisitionVars
<1>. QED
  BY <1>1, <1>2, <1>3, <1>4, <1>5, AcquiredPersistResult, AcquiredProcessStored DEF Next, Persist

LEMMA AcquiredInit == Init => AcquiredInv
<1>. SUFFICES ASSUME Init PROVE AcquiredInv
  OBVIOUS
<1>1. \A c \in Cases : text[c] \in {"metadata_only", "targeted"}
  BY DEF Init
<1>2. \A c \in Cases, s \in Sources : queue[<<c, s>>].status = "absent"
  BY DEF Init, Absent
<1>3. \A a \in Artifacts : artifact[a] = NoArtifact
  BY DEF Init
<1>. QED
  BY <1>1, <1>2, <1>3
  DEF AcquiredInv, SuccessHasArtifact, ArtifactIsVisible, ArtifactsOfCases, NoneDead

\* Whichever fetch reports last, and however often requests force another one, a
\* succeeded row and a text_ready case have the text they promise (_persist_result).
THEOREM SuccessBacked == Spec => []SuccessHasArtifact
<1>1. AcquiredInv => SuccessHasArtifact
  BY DEF AcquiredInv
<1>. QED  BY <1>1, AcquiredInit, AcquiredNext, Invariant, PTL DEF Spec

\* No later report hides an acquired text (the guard of the UPDATE in _persist_result).
THEOREM ArtifactVisible == Spec => []ArtifactIsVisible
<1>1. AcquiredInv => ArtifactIsVisible
  BY DEF AcquiredInv
<1>. QED  BY <1>1, AcquiredInit, AcquiredNext, Invariant, PTL DEF Spec

-----------------------------------------------------------------------------
(* One thread per row, where locks outlive fetches.                        *)

\* Who fetches holds the lock of the row, and nobody else fetches the same; a
\* thread that does not fetch names no row.
FetchersHoldLocks ==
  \A w \in Workers :
    IF fetcher[w].pc = "fetching"
    THEN /\ queue[<<fetcher[w].case, fetcher[w].source>>].lock = "held"
         /\ \A v \in Workers :
              /\ fetcher[v].pc = "fetching"
              /\ fetcher[v].case = fetcher[w].case /\ fetcher[v].source = fetcher[w].source
              => v = w
    ELSE fetcher[w].case = NoCase

\* A step that starts no fetch and takes no lock from under a thread that goes on.
LEMMA LocksKept ==
  ASSUME IInv, FetchersHoldLocks,
         \A w \in Workers : \/ fetcher'[w] = fetcher[w]
                            \/ fetcher'[w].pc # "fetching" /\ fetcher'[w].case = NoCase,
         \A w \in Workers : fetcher'[w].pc = "fetching" =>
           \A k \in Keys : k = <<fetcher[w].case, fetcher[w].source>> /\ queue[k].lock = "held"
                             => queue'[k].lock = "held"
  PROVE  FetchersHoldLocks'
<1>. SUFFICES ASSUME NEW w \in Workers
              PROVE  IF fetcher'[w].pc = "fetching"
                     THEN /\ queue'[<<fetcher'[w].case, fetcher'[w].source>>].lock = "held"
                          /\ \A v \in Workers :
                               /\ fetcher'[v].pc = "fetching"
                               /\ fetcher'[v].case = fetcher'[w].case
                               /\ fetcher'[v].source = fetcher'[w].source
                               => v = w
                     ELSE fetcher'[w].case = NoCase
  BY DEF FetchersHoldLocks
<1>1. CASE fetcher'[w].pc = "fetching"
  <2>1. fetcher'[w] = fetcher[w]
    BY <1>1
  <2>2. /\ <<fetcher[w].case, fetcher[w].source>> \in Keys
        /\ queue[<<fetcher[w].case, fetcher[w].source>>].lock = "held"
    BY <1>1, <2>1 DEF IInv, FetchersHoldRows, FetchersHoldLocks
  <2>3. \A v \in Workers : fetcher'[v].pc = "fetching" => fetcher'[v] = fetcher[v]
    OBVIOUS
  <2>. QED  BY <1>1, <2>1, <2>2, <2>3 DEF FetchersHoldLocks
<1>2. CASE fetcher'[w].pc # "fetching"
  BY <1>2 DEF FetchersHoldLocks
<1>. QED  BY <1>1, <1>2

\* The reaper touches no row that is held, and a held row is not ready.
LEMMA HeldRows ==
  ASSUME NEW row \in Row, row.lock = "held"
  PROVE  /\ ReapedRow(row) = row
         /\ ~ReadyRow(row)
         /\ row # Absent
         /\ \A f \in BOOLEAN : Requeued(row, f).lock = "held"
         /\ [row EXCEPT !.wait = FALSE].lock = "held"
BY DEF Row, ReapedRow, Stale, ReadyRow, Requeued, Absent

LEMMA LocksPollClaims ==
  ASSUME IInv, FetchersHoldLocks, NEW w \in Workers, NEW c \in Cases, NEW s \in Sources,
         PollClaims(w, c, s)
  PROVE  FetchersHoldLocks'
<1>. DEFINE k == <<c, s>>
<1>1. k \in Keys /\ queue \in [Keys -> Row] /\ Reaped \in [Keys -> Row]
  BY ReapedFollows DEF Keys, IInv, TypeOK
<1>2. queue[k].lock # "held"
  <2>1. ReadyRow(ReapedRow(queue[k]))
    BY DEF PollClaims, Claimable, Reaped, Keys
  <2>. QED  BY <1>1, <2>1, HeldRows
<1>3. /\ fetcher'[w].pc = "fetching" /\ fetcher'[w].case = c /\ fetcher'[w].source = s
      /\ \A v \in Workers \ {w} : fetcher'[v] = fetcher[v]
  BY DEF PollClaims, IInv, TypeOK, Idle
<1>4. queue'[k].lock = "held" /\ \A l \in Keys \ {k} : queue'[l] = ReapedRow(queue[l])
  <2>1. queue' = [Reaped EXCEPT ![k] = ClaimedRow(Reaped[k])]
    BY DEF PollClaims
  <2>2. \A l \in Keys : Reaped[l] = ReapedRow(queue[l])
    BY DEF Reaped, Keys
  <2>3. Reaped[k] \in Row
    BY <1>1
  <2>4. ClaimedRow(Reaped[k]).lock = "held"
    BY <2>3 DEF ClaimedRow, Row
  <2>. HIDE DEF k
  <2>5. queue'[k] = ClaimedRow(Reaped[k]) /\ \A l \in Keys \ {k} : queue'[l] = Reaped[l]
    BY <1>1, <2>1
  <2>. QED  BY <2>2, <2>4, <2>5
<1>5. \A v \in Workers : fetcher[v].pc = "fetching" =>
        /\ <<fetcher[v].case, fetcher[v].source>> \in Keys \ {k}
        /\ queue[<<fetcher[v].case, fetcher[v].source>>].lock = "held"
  BY <1>2 DEF IInv, FetchersHoldRows, FetchersHoldLocks
<1>6. \A v \in Workers : fetcher[v].pc = "fetching" =>
        queue'[<<fetcher[v].case, fetcher[v].source>>].lock = "held"
  BY <1>1, <1>4, <1>5, HeldRows
<1>7. ASSUME NEW v \in Workers, fetcher'[v].pc = "fetching"
      PROVE  /\ queue'[<<fetcher'[v].case, fetcher'[v].source>>].lock = "held"
             /\ \A u \in Workers :
                  /\ fetcher'[u].pc = "fetching"
                  /\ fetcher'[u].case = fetcher'[v].case /\ fetcher'[u].source = fetcher'[v].source
                  => u = v
  <2>1. CASE v = w
    BY <1>3, <1>4, <1>5, <2>1
  <2>2. CASE v # w
    <3>1. fetcher'[v] = fetcher[v] /\ fetcher[v].pc = "fetching"
      BY <1>3, <1>7, <2>2
    <3>2. ASSUME NEW u \in Workers, fetcher'[u].pc = "fetching",
                 fetcher'[u].case = fetcher'[v].case, fetcher'[u].source = fetcher'[v].source
          PROVE  u = v
      <4>1. u # w
        BY <1>3, <1>5, <3>1, <3>2
      <4>. QED  BY <1>3, <3>1, <3>2, <4>1 DEF FetchersHoldLocks
    <3>. QED  BY <1>6, <3>1, <3>2
  <2>. QED  BY <2>1, <2>2
<1>8. \A v \in Workers : fetcher'[v].pc # "fetching" => fetcher'[v].case = NoCase
  BY <1>3 DEF FetchersHoldLocks
<1>. QED  BY <1>7, <1>8 DEF FetchersHoldLocks

LEMMA LocksReport ==
  ASSUME IInv, FetchersHoldLocks, NEW w \in Workers, NEW row, fetcher[w].pc = "fetching",
         queue' = [queue EXCEPT ![<<fetcher[w].case, fetcher[w].source>>] = row],
         fetcher' = [fetcher EXCEPT ![w] = Idle]
  PROVE  FetchersHoldLocks'
<1>. DEFINE k == <<fetcher[w].case, fetcher[w].source>>
<1>1. fetcher'[w] = Idle /\ \A v \in Workers \ {w} : fetcher'[v] = fetcher[v]
  BY DEF IInv, TypeOK
<1>2. \A v \in Workers \ {w} : fetcher[v].pc = "fetching" =>
        <<fetcher[v].case, fetcher[v].source>> # k
  BY DEF FetchersHoldLocks
<1>3. \A l \in Keys \ {k} : queue'[l] = queue[l]
  BY DEF IInv, TypeOK, Keys
<1>. QED  BY <1>1, <1>2, <1>3, LocksKept DEF Idle

LEMMA LocksNext ==
  ASSUME IInv, FetchersHoldLocks, LockOutlivesFetch, [Next]_acquisitionVars
  PROVE  FetchersHoldLocks'
<1>0. queue \in [Keys -> Row] /\ fetcher \in [Workers -> Fetcher]
  BY DEF IInv, TypeOK, Keys
<1>a. Idle.pc # "fetching" /\ Idle.case = NoCase
  BY DEF Idle
<1>1. ASSUME NEW w \in Workers, Poll(w) \/ Persist(w) \/ Crash(w)
      PROVE  FetchersHoldLocks'
  <2>1. CASE PollAsks(w)
    <3>1. /\ fetcher'[w].pc # "fetching" /\ fetcher'[w].case = NoCase
          /\ \A v \in Workers \ {w} : fetcher'[v] = fetcher[v]
      BY <1>0, <2>1 DEF PollAsks, Idle
    <3>. QED  BY <2>1, <3>1, LocksKept DEF PollAsks
  <2>2. CASE PollFindsNothing(w)
    <3>1. fetcher'[w] = Idle /\ \A v \in Workers \ {w} : fetcher'[v] = fetcher[v]
      BY <1>0, <2>2 DEF PollFindsNothing
    <3>2. \A k \in Keys : queue[k].lock = "held" => queue'[k].lock = "held"
      BY <1>0, <2>2, HeldRows DEF PollFindsNothing, Reaped, Keys
    <3>. QED  BY <1>a, <3>1, <3>2, LocksKept
  <2>3. CASE Persist(w)
    BY <2>3, LocksReport DEF Persist, PersistResult, PersistException
  <2>4. CASE Crash(w)
    <3>1. fetcher'[w] = Idle /\ \A v \in Workers \ {w} : fetcher'[v] = fetcher[v]
      BY <1>0, <2>4 DEF Crash
    <3>. QED  BY <1>a, <2>4, <3>1, LocksKept DEF Crash
  <2>. QED  BY <1>1, <2>1, <2>2, <2>3, <2>4, LocksPollClaims DEF Poll
<1>2. ASSUME NEW c \in Cases, NEW s \in Sources, LockExpires(c, s)
      PROVE  FetchersHoldLocks'
  <2>1. UNCHANGED fetcher /\ \A k \in Keys \ {<<c, s>>} : queue'[k] = queue[k]
    BY <1>0, <1>2 DEF LockExpires
  <2>2. \A w \in Workers : <<fetcher[w].case, fetcher[w].source>> # <<c, s>>
    BY <1>2 DEF LockExpires, FetchersOf
  <2>. QED  BY <2>1, <2>2, LocksKept
<1>3. ASSUME NEW c \in Cases, NEW s \in Sources, BackoffEnds(c, s)
      PROVE  FetchersHoldLocks'
  <2>1. <<c, s>> \in Keys /\ queue' = [queue EXCEPT ![<<c, s>>] = [queue[<<c, s>>] EXCEPT !.wait = FALSE]]
    BY <1>3 DEF BackoffEnds, Keys
  <2>2. \A k \in Keys : queue[k].lock = "held" => queue'[k].lock = "held"
    BY <1>0, <2>1, HeldRows
  <2>. QED  BY <1>3, <2>2, LocksKept DEF BackoffEnds
<1>4. ASSUME NEW r \in Clicks, ClickStep(r)
      PROVE  FetchersHoldLocks'
  <2>1. ASSUME NEW s \in Sources, ClickQueues(r, s)
        PROVE  FetchersHoldLocks'
    <3>. DEFINE k == <<click[r].case, s>>
                f == r \in Forced
    <3>1. UNCHANGED fetcher /\ queue' = [queue EXCEPT ![k] = Requeued(queue[k], f)]
      BY <2>1 DEF ClickQueues
    <3>2. f \in BOOLEAN
      OBVIOUS
    <3>. HIDE DEF k, f
    <3>3. \A l \in Keys : queue[l].lock = "held" => queue'[l].lock = "held"
      BY <1>0, <3>1, <3>2, HeldRows
    <3>. QED  BY <3>1, <3>3, LocksKept
  <2>2. CASE \/ \E c \in Cases : ClickReadsCase(r, c)
             \/ \E S \in SUBSET Sources : ClickPlans(r, S)
             \/ ClickTargets(r) \/ ClickEnds(r)
    BY <2>2, LocksKept DEF ClickReadsCase, ClickPlans, ClickTargets, ClickEnds
  <2>. QED  BY <1>4, <2>1, <2>2 DEF ClickStep
<1>5. CASE SeedCommits
  <2>1. \A k \in Keys : queue[k].lock = "held" => queue'[k].lock = "held"
    BY <1>0, <1>5, HeldRows DEF SeedCommits, Keys
  <2>. QED  BY <1>5, <2>1, LocksKept DEF SeedCommits
<1>6. CASE \/ \E C \in SUBSET Cases : SeedSelects(C)
           \/ \E a \in Artifacts : ProcessStored(a)
           \/ SeedDies \/ AttemptLeavesHour \/ Midnight \/ UNCHANGED acquisitionVars
  BY <1>6, LocksKept
  DEF SeedSelects, SeedDies, ProcessStored, AttemptLeavesHour, Midnight, acquisitionVars
<1>. QED  BY <1>1, <1>2, <1>3, <1>4, <1>5, <1>6 DEF Next

\* While locks outlive fetches no two threads work on the same row, whatever
\* requests force and however many threads poll (the test of locked_until).
THEOREM OneFetcher == LockOutlivesFetch => (Spec => []OneFetcherPerRow)
<1>. SUFFICES ASSUME LockOutlivesFetch PROVE Spec => []OneFetcherPerRow
  OBVIOUS
<1>1. Init => FetchersHoldLocks
  BY DEF Init, FetchersHoldLocks, Idle
<1>2. IInv /\ FetchersHoldLocks /\ [Next]_acquisitionVars => FetchersHoldLocks'
  BY LocksNext
<1>3. FetchersHoldLocks => OneFetcherPerRow
  <2>. SUFFICES ASSUME FetchersHoldLocks, NEW c \in Cases, NEW s \in Sources
                PROVE  Cardinality(FetchersOf(c, s)) <= 1
    BY DEF OneFetcherPerRow
  <2>1. \A w \in FetchersOf(c, s) : fetcher[w].pc = "fetching"
    BY ConstantsAssumption DEF FetchersHoldLocks, FetchersOf
  <2>2. \A v, w \in FetchersOf(c, s) : v = w
    <3>. SUFFICES ASSUME NEW v \in FetchersOf(c, s), NEW w \in FetchersOf(c, s), v # w
                  PROVE  FALSE
      OBVIOUS
    <3>1. v \in Workers /\ w \in Workers /\ fetcher[v].case = fetcher[w].case
          /\ fetcher[v].source = fetcher[w].source
      BY DEF FetchersOf
    <3>2. fetcher[v].pc = "fetching" /\ fetcher[w].pc = "fetching"
      BY <2>1
    <3>. QED  BY <3>1, <3>2 DEF FetchersHoldLocks
  <2>3. FetchersOf(c, s) = {} \/ \E w : FetchersOf(c, s) = {w}
    BY <2>2
  <2>4. Cardinality(FetchersOf(c, s)) \in {0, 1}
    BY <2>3, FS_EmptySet, FS_Singleton
  <2>. QED  BY <2>4
<1>. QED  BY <1>1, <1>2, <1>3, Invariant, PTL DEF Spec

-----------------------------------------------------------------------------
(* Batch jobs: the invariant.                                              *)

\* A job is attempted once and has a result when it has ended.
BatchJobsFit ==
  \A j \in BatchJobs :
    /\ batchJob[j].status \in {"absent", "pending"} => batchJob[j].attempt = 0
    /\ batchJob[j].status \notin {"absent", "pending"} => batchJob[j].attempt = 1
    /\ batchJob[j].status \notin {"succeeded", "failed"} => batchJob[j].result = {}

\* A thread runs a job that says so, and locks one row whose text has no document yet.
PollerFits(w) ==
  /\ PollerAt(w, "idle") => poller[w] = IdleBatch
  /\ ~PollerAt(w, "idle") =>
       poller[w].job \in BatchJobs /\ batchJob[poller[w].job].status = "processing"
  /\ poller[w].pc \in JobTypes => TypeOf(w) = poller[w].pc
  /\ poller[w].counted # {} => poller[w].pc \in {"process", "done"}
  /\ poller[w].holding # {} =>
       PollerAt(w, "process") /\ \E c \in Cnrs : poller[w].holding = {c} /\ madeOf[c] = 0

OneRunOfEach ==
  \A v, w \in Pollers : poller[v].job = poller[w].job /\ ~PollerAt(w, "idle") => v = w
RowsLockedOnce ==
  \A v, w \in Pollers : v # w => poller[v].holding \cap poller[w].holding = {}
MadeOnce == \A c \in Cnrs : madeOf[c] <= 1

CreditsAreDue ==
  \A j \in Enqueued :
    /\ CreditOf(j) \subseteq BroughtAbout(batchJob[j].type)
    /\ \A k \in Enqueued \ {j} :
         batchJob[k].type = batchJob[j].type => CreditOf(j) \cap CreditOf(k) = {}

BatchInv ==
  /\ BatchTypeOK /\ BatchJobsFit /\ (\A w \in Pollers : PollerFits(w))
  /\ OneRunOfEach /\ RowsLockedOnce /\ MadeOnce /\ CreditsAreDue

-----------------------------------------------------------------------------
(* What the invariant says of jobs, threads and credits.                   *)

LEMMA BatchTypes ==
  BatchInv =>
    /\ batchJob \in [BatchJobs -> BatchJob] /\ poller \in [Pollers -> Poller]
    /\ \A j \in BatchJobs : batchJob[j] \in BatchJob
    /\ \A w \in Pollers : poller[w] \in Poller
    /\ madeOf \in [Cnrs -> Nat] /\ caseRow \in [Cnrs -> CaseState]
    /\ enumerated \subseteq Cnrs /\ toFetch \subseteq Cnrs /\ stored \subseteq Cnrs
BY DEF BatchInv, BatchTypeOK

LEMMA BroughtAboutIs ==
  /\ BroughtAbout("seed") = toFetch /\ BroughtAbout("discover") = enumerated
  /\ BroughtAbout("process") = {c \in Cnrs : madeOf[c] = 1}
BY DEF BroughtAbout

LEMMA CreditIs ==
  ASSUME NEW j, NEW c
  PROVE  c \in CreditOf(j) <=>
           \/ c \in batchJob[j].result
           \/ \E w \in Pollers : poller[w].job = j /\ c \in poller[w].counted
BY DEF CreditOf

\* A thread without a job has no credit, and jobs without a thread have their result only.
LEMMA IdleIsNobody ==
  ASSUME BatchInv, NEW w \in Pollers, NEW j \in BatchJobs, PollerAt(w, "idle")
  PROVE  poller[w].job # j /\ poller[w].counted = {} /\ poller[w].holding = {}
BY BatchAssumption DEF BatchInv, PollerFits, IdleBatch

LEMMA NoThreadNoCredit ==
  ASSUME BatchInv, NEW j \in BatchJobs, batchJob[j].status \in {"absent", "pending"}
  PROVE  CreditOf(j) = {} /\ \A w \in Pollers : poller[w].job # j
<1>1. \A w \in Pollers : poller[w].job # j
  BY IdleIsNobody DEF BatchInv, PollerFits
<1>2. batchJob[j].result = {}
  BY DEF BatchInv, BatchJobsFit
<1>. QED  BY <1>1, <1>2, CreditIs

\* Credits stay due when what is brought about grows, and a job gets credit only for what
\* was not there before.
LEMMA CreditsStayDue ==
  ASSUME BatchInv, NEW i \in BatchJobs, \A j \in Enqueued' : j \in BatchJobs,
         \A j \in Enqueued' : \A c \in CreditOf(j)' :
           /\ j \in Enqueued /\ batchJob'[j].type = batchJob[j].type
           /\ \/ c \in CreditOf(j)
              \/ j = i /\ c \in BroughtAbout(batchJob[j].type)' \ BroughtAbout(batchJob[j].type),
         \A type \in JobTypes : BroughtAbout(type) \subseteq BroughtAbout(type)'
  PROVE  CreditsAreDue'
<1>1. \A j \in Enqueued : j \in BatchJobs /\ batchJob[j].type \in JobTypes
  BY BatchTypes DEF Enqueued, BatchJob
<1>2. \A j \in Enqueued : CreditOf(j) \subseteq BroughtAbout(batchJob[j].type)
  BY DEF BatchInv, CreditsAreDue
<1>3. ASSUME NEW j \in Enqueued', NEW c \in CreditOf(j)'
      PROVE  c \in BroughtAbout(batchJob[j].type)'
  <2>1. c \in BroughtAbout(batchJob[j].type) => c \in BroughtAbout(batchJob[j].type)'
    <3>1. batchJob[j].type \in JobTypes /\ batchJob'[j].type = batchJob[j].type
      BY <1>1, <1>3
    <3>. QED  BY <3>1 DEF BroughtAbout, JobTypes
  <2>. QED  BY <1>2, <1>3, <2>1
<1>4. ASSUME NEW j \in Enqueued', NEW k \in Enqueued', j # k, batchJob'[k].type = batchJob'[j].type,
             NEW c \in CreditOf(j)', c \in CreditOf(k)'
      PROVE  FALSE
  <2>1. /\ j \in Enqueued /\ k \in Enqueued /\ batchJob[k].type = batchJob[j].type
        /\ c \in CreditOf(j) \/ (j = i /\ c \notin BroughtAbout(batchJob[j].type))
        /\ c \in CreditOf(k) \/ (k = i /\ c \notin BroughtAbout(batchJob[k].type))
    BY <1>4
  <2>2. CreditOf(j) \cap CreditOf(k) = {}
    BY <1>4, <2>1 DEF BatchInv, CreditsAreDue
  <2>. QED  BY <1>2, <1>4, <2>1, <2>2
<1>5. \A j \in Enqueued', k \in Enqueued' :
        j # k /\ batchJob'[k].type = batchJob'[j].type => CreditOf(j)' \cap CreditOf(k)' = {}
  BY <1>4
<1>. QED  BY <1>3, <1>5 DEF CreditsAreDue

-----------------------------------------------------------------------------
(* Steps.                                                                  *)

\* A thread goes on with its job.
LEMMA ThreadGoesOn ==
  ASSUME BatchInv, BatchTypeOK', NEW w \in Pollers, ~PollerAt(w, "idle"), UNCHANGED batchJob,
         \A v \in Pollers : v # w => poller'[v] = poller[v],
         poller'[w].job = poller[w].job, poller'[w].pc # "idle",
         poller'[w].pc \in JobTypes => TypeOf(w) = poller'[w].pc,
         poller'[w].counted # {} => poller'[w].pc \in {"process", "done"},
         poller'[w].holding # {} =>
           /\ poller'[w].pc = "process"
           /\ \E c \in Cnrs : /\ poller'[w].holding = {c} /\ madeOf'[c] = 0
                              /\ \A v \in Pollers \ {w} : c \notin poller[v].holding,
         \A v \in Pollers \ {w} : \A c \in poller[v].holding : madeOf'[c] = madeOf[c],
         MadeOnce', \A type \in JobTypes : BroughtAbout(type) \subseteq BroughtAbout(type)',
         poller'[w].counted \ poller[w].counted \subseteq BroughtAbout(TypeOf(w))',
         (poller'[w].counted \ poller[w].counted) \cap BroughtAbout(TypeOf(w)) = {}
  PROVE  BatchInv'
<1>1. poller[w].job \in BatchJobs /\ batchJob[poller[w].job].status = "processing"
  BY DEF BatchInv, PollerFits
<1>2. \A v \in Pollers : v # w => PollerFits(v)'
  <2>. SUFFICES ASSUME NEW v \in Pollers, v # w PROVE PollerFits(v)'
    OBVIOUS
  <2>1. PollerFits(v) /\ poller'[v] = poller[v]
    BY DEF BatchInv
  <2>2. poller[v].holding # {} => \E c \in Cnrs : poller[v].holding = {c} /\ madeOf'[c] = 0
    BY <2>1 DEF PollerFits
  <2>. QED  BY <2>1, <2>2 DEF PollerFits, PollerAt, TypeOf
<1>3. PollerFits(w)'
  BY <1>1 DEF PollerFits, PollerAt, TypeOf
<1>4. OneRunOfEach'
  <2>1. \A v \in Pollers : /\ poller'[v].job = poller[v].job
                           /\ (poller'[v].pc = "idle") <=> (poller[v].pc = "idle")
    BY DEF PollerAt
  <2>. QED  BY <2>1 DEF BatchInv, OneRunOfEach, PollerAt
<1>5. RowsLockedOnce'
  <2>1. \A v \in Pollers \ {w} : poller'[w].holding \cap poller[v].holding = {}
    OBVIOUS
  <2>. QED  BY <2>1 DEF BatchInv, RowsLockedOnce
<1>6. BatchJobsFit'
  BY DEF BatchInv, BatchJobsFit
<1>7. CreditsAreDue'
  <2>1. Enqueued' = Enqueued /\ \A j \in Enqueued : j \in BatchJobs
    BY DEF Enqueued
  <2>2. ASSUME NEW j \in Enqueued', NEW c \in CreditOf(j)', c \notin CreditOf(j)
        PROVE  /\ j = poller[w].job
               /\ c \in BroughtAbout(batchJob[j].type)' \ BroughtAbout(batchJob[j].type)
    <3>1. \/ c \in batchJob'[j].result
          \/ \E v \in Pollers : poller'[v].job = j /\ c \in poller'[v].counted
      BY DEF CreditOf
    <3>2. /\ c \notin batchJob[j].result
          /\ \A v \in Pollers : poller[v].job = j => c \notin poller[v].counted
      BY <2>2, CreditIs
    <3>3. j = poller[w].job /\ c \in poller'[w].counted \ poller[w].counted
      BY <3>1, <3>2
    <3>. QED  BY <3>3 DEF TypeOf
  <2>. QED  BY <1>1, <2>1, <2>2, CreditsStayDue
<1>. QED  BY <1>2, <1>3, <1>4, <1>5, <1>6, <1>7 DEF BatchInv

\* Others change rows of cases, which takes no credit.
LEMMA OthersGoOn ==
  ASSUME BatchInv, BatchTypeOK', UNCHANGED <<batchJob, poller, enumerated, madeOf>>,
         toFetch \subseteq toFetch'
  PROVE  BatchInv'
<1>1. BatchJobsFit' /\ OneRunOfEach' /\ RowsLockedOnce' /\ MadeOnce'
  BY DEF BatchInv, BatchJobsFit, OneRunOfEach, RowsLockedOnce, MadeOnce, PollerAt
<1>2. \A w \in Pollers : PollerFits(w)'
  BY DEF BatchInv, PollerFits, PollerAt, TypeOf
<1>3. Enqueued' = Enqueued /\ \A j : CreditOf(j)' = CreditOf(j)
  BY DEF Enqueued, CreditOf
<1>4. \A type \in JobTypes : BroughtAbout(type) \subseteq BroughtAbout(type)'
  BY DEF JobTypes, BroughtAbout
<1>5. \A j \in Enqueued : j \in BatchJobs /\ batchJob[j].type \in JobTypes
  BY BatchTypes DEF Enqueued, BatchJob
<1>6. CreditsAreDue'
  BY <1>3, <1>4, <1>5 DEF BatchInv, CreditsAreDue
<1>. QED  BY <1>1, <1>2, <1>6 DEF BatchInv

\* A thread ends its job, or dies.
LEMMA ThreadEnds ==
  ASSUME BatchInv, BatchTypeOK', NEW w \in Pollers, ~PollerAt(w, "idle"),
         poller' = [poller EXCEPT ![w] = IdleBatch],
         UNCHANGED <<caseRow, enumerated, toFetch, stored, madeOf>>,
         \A j \in BatchJobs : j # poller[w].job => batchJob'[j] = batchJob[j],
         \/ batchJob'[poller[w].job] = batchJob[poller[w].job]
         \/ /\ batchJob'[poller[w].job].status \in {"succeeded", "failed"}
            /\ batchJob'[poller[w].job].type = batchJob[poller[w].job].type
            /\ batchJob'[poller[w].job].attempt = batchJob[poller[w].job].attempt
            /\ batchJob'[poller[w].job].result \subseteq poller[w].counted
  PROVE  BatchInv'
<1>0. poller \in [Pollers -> Poller] /\ batchJob \in [BatchJobs -> BatchJob]
  BY BatchTypes
<1>1. /\ poller[w].job \in BatchJobs /\ batchJob[poller[w].job].status = "processing"
      /\ batchJob[poller[w].job].attempt = 1
  BY DEF BatchInv, PollerFits, BatchJobsFit
<1>2. poller'[w] = IdleBatch /\ \A v \in Pollers : v # w => poller'[v] = poller[v]
  BY <1>0
<1>3. BatchJobsFit'
  BY <1>1 DEF BatchInv, BatchJobsFit
<1>4. \A v \in Pollers : PollerFits(v)'
  <2>1. PollerFits(w)'
    BY <1>2 DEF PollerFits, PollerAt, IdleBatch, JobTypes
  <2>2. ASSUME NEW v \in Pollers, v # w PROVE PollerFits(v)'
    <3>1. PollerFits(v) /\ poller'[v] = poller[v]
      BY <1>2, <2>2 DEF BatchInv
    <3>2. poller[v].job # poller[w].job
      BY <2>2 DEF BatchInv, OneRunOfEach
    <3>3. poller[v].job \in BatchJobs => batchJob'[poller[v].job] = batchJob[poller[v].job]
      BY <3>2
    <3>4. PollerAt(v, "idle") => poller[v].pc \notin JobTypes
      BY DEF PollerAt, JobTypes
    <3>. QED  BY <3>1, <3>3, <3>4 DEF PollerFits, PollerAt, TypeOf
  <2>. QED  BY <2>1, <2>2
<1>5. OneRunOfEach'
  BY <1>2, BatchAssumption DEF BatchInv, OneRunOfEach, PollerAt, IdleBatch, PollerFits
<1>6. RowsLockedOnce' /\ MadeOnce'
  BY <1>2 DEF BatchInv, RowsLockedOnce, MadeOnce, IdleBatch
<1>7. CreditsAreDue'
  <2>1. /\ \A j \in BatchJobs : /\ batchJob'[j].type = batchJob[j].type
                                /\ (batchJob'[j].status = "absent") <=> (batchJob[j].status = "absent")
        /\ Enqueued' = Enqueued
    BY <1>1 DEF Enqueued
  <2>2. \A j \in Enqueued' : \A c \in CreditOf(j)' : c \in CreditOf(j)
    <3>. SUFFICES ASSUME NEW j \in Enqueued', NEW c \in CreditOf(j)' PROVE c \in CreditOf(j)
      OBVIOUS
    <3>1. \/ c \in batchJob'[j].result
          \/ \E v \in Pollers : poller'[v].job = j /\ c \in poller'[v].counted
      BY DEF CreditOf
    <3>2. \/ c \in batchJob[j].result
          \/ \E v \in Pollers : poller[v].job = j /\ c \in poller[v].counted
      BY <1>2, <2>1, <3>1 DEF Enqueued, IdleBatch
    <3>. QED  BY <3>2, CreditIs
  <2>3. \A type \in JobTypes : BroughtAbout(type) \subseteq BroughtAbout(type)'
    BY DEF BroughtAbout
  <2>4. \A j \in Enqueued' : j \in BatchJobs
    BY DEF Enqueued
  <2>. QED  BY <1>1, <2>1, <2>2, <2>3, <2>4, CreditsStayDue DEF Enqueued
<1>. QED  BY <1>3, <1>4, <1>5, <1>6, <1>7 DEF BatchInv

LEMMA StepEnqueueBatch ==
  ASSUME BatchInv, NEW j \in BatchJobs, NEW type \in JobTypes, EnqueueBatchJob(j, type)
  PROVE  BatchInv'
<1>0. poller \in [Pollers -> Poller] /\ batchJob \in [BatchJobs -> BatchJob]
  BY BatchTypes
<1>1. /\ batchJob[j].status = "absent" /\ batchJob[j].attempt = 0 /\ batchJob[j].result = {}
      /\ batchJob' = [batchJob EXCEPT ![j].status = "pending", ![j].type = type]
      /\ UNCHANGED <<poller, caseRow, enumerated, toFetch, stored, madeOf>>
  BY DEF EnqueueBatchJob, NotEnqueued
<1>2. /\ batchJob' \in [BatchJobs -> BatchJob] /\ batchJob'[j].status = "pending"
      /\ batchJob'[j].attempt = 0 /\ batchJob'[j].result = {}
      /\ \A k \in BatchJobs : k # j => batchJob'[k] = batchJob[k]
  BY <1>0, <1>1 DEF BatchJob
<1>3. BatchTypeOK'
  BY <1>1, <1>2 DEF BatchInv, BatchTypeOK
<1>4. CreditOf(j) = {} /\ \A w \in Pollers : poller[w].job # j
  BY <1>1, NoThreadNoCredit
<1>5. BatchJobsFit' /\ OneRunOfEach' /\ RowsLockedOnce' /\ MadeOnce'
  BY <1>1, <1>2 DEF BatchInv, BatchJobsFit, OneRunOfEach, RowsLockedOnce, MadeOnce, PollerAt
<1>6. \A w \in Pollers : PollerFits(w)'
  BY <1>1, <1>2, <1>4 DEF BatchInv, PollerFits, PollerAt, TypeOf, JobTypes
<1>7. CreditsAreDue'
  <2>1. \A k \in Enqueued' : \A c \in CreditOf(k)' : k # j /\ c \in CreditOf(k)
    <3>. SUFFICES ASSUME NEW k \in Enqueued', NEW c \in CreditOf(k)' PROVE k # j /\ c \in CreditOf(k)
      OBVIOUS
    <3>1. \/ c \in batchJob'[k].result
          \/ \E v \in Pollers : poller[v].job = k /\ c \in poller[v].counted
      BY <1>1 DEF CreditOf
    <3>2. k # j /\ k \in BatchJobs
      BY <1>2, <1>4, <3>1 DEF Enqueued
    <3>. QED  BY <1>2, <3>1, <3>2, CreditIs
  <2>2. \A k \in Enqueued' : k \in BatchJobs /\ (k # j => k \in Enqueued /\ batchJob'[k].type = batchJob[k].type)
    BY <1>2 DEF Enqueued
  <2>3. \A t \in JobTypes : BroughtAbout(t) \subseteq BroughtAbout(t)'
    BY <1>1 DEF BroughtAbout
  <2>. QED  BY <2>1, <2>2, <2>3, CreditsStayDue
<1>. QED  BY <1>3, <1>5, <1>6, <1>7 DEF BatchInv

LEMMA StepClaimBatch ==
  ASSUME BatchInv, NEW w \in Pollers, NEW j \in BatchJobs, ClaimBatchJob(w, j)
  PROVE  BatchInv'
<1>0. poller \in [Pollers -> Poller] /\ batchJob \in [BatchJobs -> BatchJob]
  BY BatchTypes
<1>1. /\ batchJob[j].status = "pending" /\ batchJob[j].attempt = 0 /\ batchJob[j].result = {}
      /\ PollerAt(w, "idle")
      /\ batchJob' = [batchJob EXCEPT ![j].status = "processing", ![j].attempt = batchJob[j].attempt + 1]
      /\ UNCHANGED <<caseRow, enumerated, toFetch, stored, madeOf>>
  BY DEF ClaimBatchJob, ClaimableBatch, BatchInv, BatchJobsFit
<1>2. /\ batchJob' \in [BatchJobs -> BatchJob] /\ batchJob'[j].status = "processing"
      /\ batchJob'[j].attempt = 1 /\ batchJob'[j].result = {} /\ batchJob'[j].type = batchJob[j].type
      /\ \A k \in BatchJobs : k # j => batchJob'[k] = batchJob[k]
  BY <1>0, <1>1 DEF BatchJob
<1>3. /\ poller' = [poller EXCEPT ![w] = [IdleBatch EXCEPT !.pc = "dispatch", !.job = j]]
      /\ [IdleBatch EXCEPT !.pc = "dispatch", !.job = j] \in Poller
  BY DEF ClaimBatchJob, IdleBatch, Poller
<1>4. /\ poller' \in [Pollers -> Poller] /\ poller'[w].pc = "dispatch" /\ poller'[w].job = j
      /\ poller'[w].counted = {} /\ poller'[w].holding = {}
      /\ \A v \in Pollers : v # w => poller'[v] = poller[v]
  BY <1>0, <1>3 DEF IdleBatch
<1>5. BatchTypeOK'
  BY <1>1, <1>2, <1>4 DEF BatchInv, BatchTypeOK
<1>6. CreditOf(j) = {} /\ \A v \in Pollers : poller[v].job # j
  BY <1>1, NoThreadNoCredit
<1>7. BatchJobsFit'
  BY <1>2 DEF BatchInv, BatchJobsFit
<1>8. OneRunOfEach' /\ RowsLockedOnce' /\ MadeOnce'
  BY <1>1, <1>4, <1>6 DEF BatchInv, OneRunOfEach, RowsLockedOnce, MadeOnce, PollerAt
<1>9. \A v \in Pollers : PollerFits(v)'
  <2>1. PollerFits(w)'
    BY <1>2, <1>4 DEF PollerFits, PollerAt, JobTypes
  <2>2. ASSUME NEW v \in Pollers, v # w PROVE PollerFits(v)'
    <3>1. PollerFits(v) /\ poller'[v] = poller[v] /\ poller[v].job # j
      BY <1>4, <1>6, <2>2 DEF BatchInv
    <3>2. PollerAt(v, "idle") => poller[v].pc \notin JobTypes
      BY DEF PollerAt, JobTypes
    <3>. QED  BY <1>1, <1>2, <3>1, <3>2 DEF PollerFits, PollerAt, TypeOf
  <2>. QED  BY <2>1, <2>2
<1>10. CreditsAreDue'
  <2>1. \A k \in Enqueued' : \A c \in CreditOf(k)' : c \in CreditOf(k)
    <3>. SUFFICES ASSUME NEW k \in Enqueued', NEW c \in CreditOf(k)' PROVE c \in CreditOf(k)
      OBVIOUS
    <3>1. \/ c \in batchJob'[k].result
          \/ \E v \in Pollers : poller'[v].job = k /\ c \in poller'[v].counted
      BY DEF CreditOf
    <3>2. k \in BatchJobs
      BY DEF Enqueued
    <3>. QED  BY <1>2, <1>4, <3>1, <3>2, CreditIs
  <2>2. \A k \in Enqueued' : k \in BatchJobs /\ k \in Enqueued /\ batchJob'[k].type = batchJob[k].type
    BY <1>1, <1>2 DEF Enqueued
  <2>3. \A t \in JobTypes : BroughtAbout(t) \subseteq BroughtAbout(t)'
    BY <1>1 DEF BroughtAbout
  <2>. QED  BY <2>1, <2>2, <2>3, CreditsStayDue
<1>. QED  BY <1>5, <1>7, <1>8, <1>9, <1>10 DEF BatchInv

LEMMA StepFinishBatch ==
  ASSUME BatchInv, NEW w \in Pollers, JobSucceeds(w) \/ JobFails(w) \/ PollerDies(w)
  PROVE  BatchInv'
<1>0. poller \in [Pollers -> Poller] /\ batchJob \in [BatchJobs -> BatchJob] /\ IdleBatch \in Poller
  BY BatchTypes DEF IdleBatch, Poller
<1>1. ~PollerAt(w, "idle") /\ poller' = [poller EXCEPT ![w] = IdleBatch]
        /\ UNCHANGED <<caseRow, enumerated, toFetch, stored, madeOf>>
  BY DEF JobSucceeds, JobFails, PollerDies, Finish, PollerAt
<1>2. poller[w].job \in BatchJobs /\ poller[w].counted \subseteq Cnrs
  BY <1>0, <1>1 DEF BatchInv, PollerFits, Poller
<1>3. \/ batchJob' = batchJob
      \/ \E status \in {"succeeded", "failed"}, rows \in SUBSET poller[w].counted :
           batchJob' = [batchJob EXCEPT ![poller[w].job].status = status,
                                        ![poller[w].job].result = rows]
  BY DEF JobSucceeds, JobFails, PollerDies, Finish
<1>4. /\ batchJob' \in [BatchJobs -> BatchJob]
      /\ \A j \in BatchJobs : j # poller[w].job => batchJob'[j] = batchJob[j]
      /\ \/ batchJob'[poller[w].job] = batchJob[poller[w].job]
         \/ /\ batchJob'[poller[w].job].status \in {"succeeded", "failed"}
            /\ batchJob'[poller[w].job].type = batchJob[poller[w].job].type
            /\ batchJob'[poller[w].job].attempt = batchJob[poller[w].job].attempt
            /\ batchJob'[poller[w].job].result \subseteq poller[w].counted
  <2>1. CASE batchJob' = batchJob
    BY <1>0, <2>1
  <2>2. ASSUME NEW status \in {"succeeded", "failed"}, NEW rows \in SUBSET poller[w].counted,
               batchJob' = [batchJob EXCEPT ![poller[w].job].status = status,
                                            ![poller[w].job].result = rows]
        PROVE  /\ batchJob' \in [BatchJobs -> BatchJob]
               /\ \A j \in BatchJobs : j # poller[w].job => batchJob'[j] = batchJob[j]
               /\ batchJob'[poller[w].job].status \in {"succeeded", "failed"}
               /\ batchJob'[poller[w].job].type = batchJob[poller[w].job].type
               /\ batchJob'[poller[w].job].attempt = batchJob[poller[w].job].attempt
               /\ batchJob'[poller[w].job].result \subseteq poller[w].counted
    <3>. DEFINE j == poller[w].job
    <3>1. /\ batchJob[j] \in BatchJob /\ j \in BatchJobs /\ rows \in SUBSET Cnrs
          /\ batchJob'[j] = [batchJob[j] EXCEPT !.status = status, !.result = rows]
          /\ \A k \in BatchJobs : k # j => batchJob'[k] = batchJob[k]
          /\ DOMAIN batchJob' = BatchJobs /\ batchJob' = [k \in BatchJobs |-> batchJob'[k]]
      BY <1>0, <1>2, <2>2
    <3>2. /\ batchJob'[j] \in BatchJob /\ batchJob'[j].status = status
          /\ batchJob'[j].type = batchJob[j].type /\ batchJob'[j].attempt = batchJob[j].attempt
          /\ batchJob'[j].result = rows
      BY <3>1 DEF BatchJob
    <3>3. batchJob' \in [BatchJobs -> BatchJob]
      BY <1>0, <3>1, <3>2
    <3>. QED  BY <3>1, <3>2, <3>3
  <2>. QED  BY <1>3, <2>1, <2>2
<1>5. BatchTypeOK'
  BY <1>0, <1>1, <1>4 DEF BatchInv, BatchTypeOK
<1>. QED  BY <1>1, <1>4, <1>5, ThreadEnds

\* The job of a thread at work is of the type that its place says.
LEMMA AtWork ==
  ASSUME BatchInv, NEW w \in Pollers
  PROVE  /\ poller[w] \in Poller /\ poller \in [Pollers -> Poller]
         /\ ~PollerAt(w, "idle") => TypeOf(w) \in JobTypes
         /\ \A type \in JobTypes : PollerAt(w, type) => TypeOf(w) = type
         /\ ~PollerAt(w, "process") => poller[w].holding = {}
         /\ PollerAt(w, "dispatch") \/ PollerAt(w, "seed") \/ PollerAt(w, "discover") =>
              poller[w].counted = {}
BY BatchTypes DEF BatchInv, PollerFits, PollerAt, TypeOf, BatchJob

\* A thread selects, probes or finds something, and nobody else can tell.
LEMMA ThreadReads ==
  ASSUME BatchInv, NEW w \in Pollers, ~PollerAt(w, "idle"),
         UNCHANGED <<batchJob, caseRow, enumerated, toFetch, stored, madeOf>>,
         poller' \in [Pollers -> Poller], \A v \in Pollers : v # w => poller'[v] = poller[v],
         poller'[w].job = poller[w].job, poller'[w].counted = poller[w].counted,
         poller'[w].pc # "idle", poller'[w].pc \in JobTypes => TypeOf(w) = poller'[w].pc,
         poller'[w].counted # {} => poller'[w].pc \in {"process", "done"},
         poller'[w].holding # {} =>
           /\ poller'[w].pc = "process"
           /\ \E c \in Cnrs : /\ poller'[w].holding = {c} /\ madeOf'[c] = 0
                              /\ \A v \in Pollers \ {w} : c \notin poller[v].holding
  PROVE  BatchInv'
<1>1. BatchTypeOK' /\ MadeOnce'
  BY DEF BatchInv, BatchTypeOK, MadeOnce
<1>2. \A type \in JobTypes : BroughtAbout(type) \subseteq BroughtAbout(type)'
  BY DEF BroughtAbout
<1>3. poller'[w].counted \ poller[w].counted = {}
  OBVIOUS
<1>. QED  BY <1>1, <1>2, <1>3, ThreadGoesOn

LEMMA StepReads ==
  ASSUME BatchInv, NEW w \in Pollers, SeedReads(w) \/ DiscoverReads(w) \/ ProcessReads(w)
  PROVE  BatchInv'
<1>1. PICK pc \in JobTypes, S \in SUBSET Cnrs :
        /\ poller' = [poller EXCEPT ![w].pc = pc, ![w].todo = S] /\ TypeOf(w) = pc
  <2>1. CASE SeedReads(w)
    BY <2>1 DEF SeedReads, CasesThat, JobTypes
  <2>2. CASE DiscoverReads(w)
    BY <2>2 DEF DiscoverReads, CasesThat, JobTypes
  <2>3. CASE ProcessReads(w)
    <3>1. stored \subseteq Cnrs
      BY BatchTypes
    <3>. QED  BY <2>3, <3>1 DEF ProcessReads, JobTypes
  <2>. QED  BY <2>1, <2>2, <2>3
<1>2. /\ PollerAt(w, "dispatch")
      /\ UNCHANGED <<batchJob, caseRow, enumerated, toFetch, stored, madeOf>>
  BY DEF SeedReads, DiscoverReads, ProcessReads
<1>3. /\ poller[w] \in Poller /\ poller \in [Pollers -> Poller]
      /\ poller[w].holding = {} /\ poller[w].counted = {}
  BY <1>2, AtWork DEF PollerAt
<1>4. /\ poller' \in [Pollers -> Poller] /\ \A v \in Pollers : v # w => poller'[v] = poller[v]
      /\ poller'[w].job = poller[w].job /\ poller'[w].counted = {} /\ poller'[w].holding = {}
      /\ poller'[w].pc = pc
  BY <1>1, <1>3 DEF Poller, JobTypes
<1>. QED  BY <1>1, <1>2, <1>3, <1>4, ThreadReads DEF PollerAt, JobTypes

LEMMA StepProbe ==
  ASSUME BatchInv, NEW w \in Pollers, NEW c \in Cnrs, Probe(w, c) PROVE BatchInv'
<1>1. /\ PollerAt(w, "discover")
      /\ UNCHANGED <<batchJob, caseRow, enumerated, toFetch, stored, madeOf>>
  BY DEF Probe
<1>2. /\ poller[w] \in Poller /\ poller \in [Pollers -> Poller] /\ TypeOf(w) = "discover"
      /\ poller[w].holding = {} /\ poller[w].counted = {}
  BY <1>1, AtWork DEF PollerAt, JobTypes
<1>3. PICK todo \in SUBSET Cnrs, found \in SUBSET (Cnrs \X {"other", "target"}) :
        poller'[w] = [poller[w] EXCEPT !.todo = todo, !.found = found]
  <2>1. poller[w].todo \in SUBSET Cnrs /\ poller[w].found \in SUBSET (Cnrs \X {"other", "target"})
    BY <1>2 DEF Poller
  <2>2. poller[w] = [poller[w] EXCEPT !.found = poller[w].found]
    BY <1>2 DEF Poller
  <2>3. CASE \E kind \in {"other", "target"} :
               poller' = [poller EXCEPT ![w].todo = @ \ {c}, ![w].found = @ \cup {<<c, kind>>}]
    <3>1. PICK kind \in {"other", "target"} :
            poller' = [poller EXCEPT ![w].todo = @ \ {c}, ![w].found = @ \cup {<<c, kind>>}]
      BY <2>3
    <3>2. poller'[w] = [poller[w] EXCEPT !.todo = poller[w].todo \ {c},
                                         !.found = poller[w].found \cup {<<c, kind>>}]
      BY <1>2, <3>1 DEF Poller
    <3>3. /\ poller[w].todo \ {c} \in SUBSET Cnrs
          /\ poller[w].found \cup {<<c, kind>>} \in SUBSET (Cnrs \X {"other", "target"})
      BY <2>1
    <3>. QED  BY <3>2, <3>3
  <2>4. ASSUME NEW S \in SUBSET Cnrs, poller' = [poller EXCEPT ![w].todo = S]
        PROVE  poller'[w] = [poller[w] EXCEPT !.todo = S, !.found = poller[w].found]
    BY <1>2, <2>1, <2>4 DEF Poller
  <2>5. CASE poller' = [poller EXCEPT ![w].todo = @ \ {c}]
    <3>1. poller' = [poller EXCEPT ![w].todo = poller[w].todo \ {c}]
            /\ poller[w].todo \ {c} \in SUBSET Cnrs
      BY <1>2, <2>1, <2>5
    <3>. QED  BY <2>1, <2>4, <3>1
  <2>6. CASE poller' = [poller EXCEPT ![w].todo = {}]
    <3>1. {} \in SUBSET Cnrs
      OBVIOUS
    <3>. QED  BY <2>1, <2>4, <2>6, <3>1
  <2>. QED  BY <2>3, <2>5, <2>6 DEF Probe
<1>4. /\ poller' \in [Pollers -> Poller] /\ \A v \in Pollers : v # w => poller'[v] = poller[v]
      /\ poller'[w].job = poller[w].job /\ poller'[w].counted = {} /\ poller'[w].holding = {}
      /\ poller'[w].pc = "discover"
  <2>1. /\ poller'[w] \in Poller
        /\ poller'[w].job = poller[w].job /\ poller'[w].counted = {} /\ poller'[w].holding = {}
        /\ poller'[w].pc = "discover"
    BY <1>1, <1>2, <1>3 DEF Poller, PollerAt
  <2>2. /\ \A v \in Pollers : v # w => poller'[v] = poller[v]
        /\ DOMAIN poller' = Pollers /\ poller' = [v \in Pollers |-> poller'[v]]
    BY <1>2 DEF Probe
  <2>. QED  BY <1>2, <2>1, <2>2
<1>. QED  BY <1>1, <1>2, <1>4, ThreadReads DEF PollerAt

\* A thread that makes documents locks a row or leaves it.
LEMMA StepLocks ==
  ASSUME BatchInv, NEW w \in Pollers, NEW c \in Cnrs,
         LockStored(w, c) \/ SkipStored(w, c)
  PROVE  BatchInv'
<1>1. /\ PollerAt(w, "process")
      /\ UNCHANGED <<batchJob, caseRow, enumerated, toFetch, stored, madeOf>>
  BY DEF LockStored, SkipStored
<1>2. poller[w] \in Poller /\ poller \in [Pollers -> Poller] /\ TypeOf(w) = "process"
  BY <1>1, AtWork DEF PollerAt, JobTypes
<1>3. CASE LockStored(w, c)
  <2>1. poller' = [poller EXCEPT ![w].todo = @ \ {c}, ![w].holding = {c}]
    BY <1>3 DEF LockStored
  <2>2. madeOf[c] = 0 /\ \A v \in Pollers : c \notin poller[v].holding
    BY <1>3 DEF LockStored, StillUnprocessed, LockedRows
  <2>3. /\ poller' \in [Pollers -> Poller] /\ \A v \in Pollers : v # w => poller'[v] = poller[v]
        /\ poller'[w].job = poller[w].job /\ poller'[w].counted = poller[w].counted
        /\ poller'[w].holding = {c} /\ poller'[w].pc = "process"
    <3>1. [poller[w] EXCEPT !.todo = @ \ {c}, !.holding = {c}] \in Poller
      BY <1>2 DEF Poller
    <3>2. poller' = [poller EXCEPT ![w] = [poller[w] EXCEPT !.todo = @ \ {c}, !.holding = {c}]]
      BY <1>2, <2>1
    <3>. QED  BY <1>1, <1>2, <3>1, <3>2 DEF Poller, PollerAt
  <2>. QED  BY <1>1, <1>2, <2>2, <2>3, ThreadReads DEF PollerAt
<1>4. CASE SkipStored(w, c)
  <2>1. poller' = [poller EXCEPT ![w].todo = @ \ {c}, ![w].holding = {}]
    BY <1>4 DEF SkipStored
  <2>2. /\ poller' \in [Pollers -> Poller] /\ \A v \in Pollers : v # w => poller'[v] = poller[v]
        /\ poller'[w].job = poller[w].job /\ poller'[w].counted = poller[w].counted
        /\ poller'[w].holding = {} /\ poller'[w].pc = "process"
    BY <1>1, <1>2, <2>1 DEF Poller, PollerAt
  <2>. QED  BY <1>1, <1>2, <2>2, ThreadReads DEF PollerAt
<1>. QED  BY <1>3, <1>4

LEMMA StepProcessEnds == ASSUME BatchInv, NEW w \in Pollers, ProcessEnds(w) PROVE BatchInv'
<1>1. /\ PollerAt(w, "process")
      /\ UNCHANGED <<batchJob, caseRow, enumerated, toFetch, stored, madeOf>>
      /\ poller' = [poller EXCEPT ![w].pc = "done"] /\ poller[w].holding = {}
  BY DEF ProcessEnds
<1>2. poller[w] \in Poller /\ poller \in [Pollers -> Poller]
  BY AtWork
<1>3. /\ poller' \in [Pollers -> Poller] /\ \A v \in Pollers : v # w => poller'[v] = poller[v]
      /\ poller'[w].job = poller[w].job /\ poller'[w].counted = poller[w].counted
      /\ poller'[w].holding = {} /\ poller'[w].pc = "done"
  BY <1>1, <1>2 DEF Poller
<1>. QED  BY <1>1, <1>2, <1>3, ThreadReads DEF PollerAt, JobTypes

LEMMA StepSeedInserts == ASSUME BatchInv, NEW w \in Pollers, SeedInserts(w) PROVE BatchInv'
<1>1. /\ PollerAt(w, "seed") /\ toFetch' = toFetch \cup poller[w].todo
      /\ UNCHANGED <<batchJob, caseRow, enumerated, stored, madeOf>>
      /\ poller' = [poller EXCEPT ![w].pc = "done", ![w].todo = {},
                                  ![w].counted = poller[w].todo \ toFetch]
  BY DEF SeedInserts
<1>2. /\ poller[w] \in Poller /\ poller \in [Pollers -> Poller] /\ TypeOf(w) = "seed"
      /\ poller[w].holding = {} /\ poller[w].counted = {} /\ poller[w].todo \subseteq Cnrs
  BY <1>1, AtWork DEF PollerAt, JobTypes, Poller
<1>3. /\ poller' \in [Pollers -> Poller] /\ \A v \in Pollers : v # w => poller'[v] = poller[v]
      /\ poller'[w].job = poller[w].job /\ poller'[w].counted = poller[w].todo \ toFetch
      /\ poller'[w].holding = {} /\ poller'[w].pc = "done"
  BY <1>1, <1>2 DEF Poller
<1>4. BatchTypeOK' /\ MadeOnce'
  BY <1>1, <1>2, <1>3 DEF BatchInv, BatchTypeOK, MadeOnce
<1>5. \A type \in JobTypes : BroughtAbout(type) \subseteq BroughtAbout(type)'
  BY <1>1 DEF BroughtAbout, JobTypes
<1>6. poller'[w].counted \ poller[w].counted \subseteq BroughtAbout(TypeOf(w))'
  <2>1. TypeOf(w)' = "seed"
    BY <1>1, <1>2, <1>3 DEF TypeOf
  <2>. QED  BY <1>1, <1>3, <2>1 DEF BroughtAbout
<1>7. (poller'[w].counted \ poller[w].counted) \cap BroughtAbout(TypeOf(w)) = {}
  BY <1>2, <1>3, BroughtAboutIs
<1>. QED  BY <1>1, <1>2, <1>3, <1>4, <1>5, <1>6, <1>7, ThreadGoesOn DEF PollerAt, JobTypes

LEMMA StepDiscoverInserts == ASSUME BatchInv, NEW w \in Pollers, DiscoverInserts(w) PROVE BatchInv'
<1>. DEFINE new == {f \in poller[w].found : f[1] \notin enumerated}
            C == {f[1] : f \in new}
<1>1. /\ PollerAt(w, "discover") /\ enumerated' = enumerated \cup C
      /\ UNCHANGED <<batchJob, toFetch, stored, madeOf>>
      /\ poller' = [poller EXCEPT ![w].pc = "done", ![w].found = {}, ![w].counted = C]
      /\ caseRow' = [c \in Cnrs |-> IF <<c, "target">> \in new THEN "target"
                                    ELSE IF <<c, "other">> \in new THEN "other" ELSE caseRow[c]]
  BY DEF DiscoverInserts
<1>2. /\ poller[w] \in Poller /\ poller \in [Pollers -> Poller] /\ TypeOf(w) = "discover"
      /\ poller[w].holding = {} /\ poller[w].counted = {}
      /\ poller[w].found \subseteq Cnrs \X {"other", "target"}
  BY <1>1, AtWork DEF PollerAt, JobTypes, Poller
<1>3. C \subseteq Cnrs /\ C \cap enumerated = {}
  BY <1>2
<1>4. caseRow' \in [Cnrs -> CaseState]
  BY <1>1, BatchTypes DEF CaseState
<1>. HIDE DEF new, C
<1>5. /\ poller' \in [Pollers -> Poller] /\ \A v \in Pollers : v # w => poller'[v] = poller[v]
      /\ poller'[w].job = poller[w].job /\ poller'[w].counted = C
      /\ poller'[w].holding = {} /\ poller'[w].pc = "done"
  BY <1>1, <1>2, <1>3 DEF Poller
<1>6. BatchTypeOK' /\ MadeOnce'
  BY <1>1, <1>3, <1>4, <1>5 DEF BatchInv, BatchTypeOK, MadeOnce
<1>7. \A type \in JobTypes : BroughtAbout(type) \subseteq BroughtAbout(type)'
  BY <1>1 DEF BroughtAbout, JobTypes
<1>8. poller'[w].counted \ poller[w].counted \subseteq BroughtAbout(TypeOf(w))'
  <2>1. TypeOf(w)' = "discover"
    BY <1>1, <1>2, <1>5 DEF TypeOf
  <2>. QED  BY <1>1, <1>5, <2>1 DEF BroughtAbout
<1>9. (poller'[w].counted \ poller[w].counted) \cap BroughtAbout(TypeOf(w)) = {}
  BY <1>2, <1>3, <1>5, BroughtAboutIs
<1>. QED  BY <1>1, <1>2, <1>5, <1>6, <1>7, <1>8, <1>9, ThreadGoesOn DEF PollerAt, JobTypes

\* The row was locked, so that nobody else has made a document of it, or can.
LEMMA StepProcess ==
  ASSUME BatchInv, NEW w \in Pollers, NEW c \in Cnrs, ProcessStoredArtifact(w, c) PROVE BatchInv'
<1>1. /\ PollerAt(w, "process") /\ poller[w].holding = {c}
      /\ UNCHANGED <<batchJob, toFetch, stored, enumerated>>
      /\ madeOf' = [madeOf EXCEPT ![c] = madeOf[c] + 1]
      /\ caseRow' = [caseRow EXCEPT ![c] = "ready"]
      /\ poller' = [poller EXCEPT ![w].holding = {}, ![w].counted = @ \cup {c}]
  BY DEF ProcessStoredArtifact
<1>2. /\ poller[w] \in Poller /\ poller \in [Pollers -> Poller] /\ TypeOf(w) = "process"
      /\ madeOf \in [Cnrs -> Nat] /\ caseRow \in [Cnrs -> CaseState]
  BY <1>1, AtWork, BatchTypes DEF PollerAt, JobTypes
<1>3. madeOf[c] = 0 /\ \A v \in Pollers : v # w => c \notin poller[v].holding
  BY <1>1 DEF BatchInv, PollerFits, RowsLockedOnce
<1>4. /\ madeOf' \in [Cnrs -> Nat] /\ madeOf'[c] = 1
      /\ \A d \in Cnrs : d # c => madeOf'[d] = madeOf[d]
  BY <1>1, <1>2, <1>3
<1>5. /\ poller' \in [Pollers -> Poller] /\ \A v \in Pollers : v # w => poller'[v] = poller[v]
      /\ poller'[w].job = poller[w].job /\ poller'[w].counted = poller[w].counted \cup {c}
      /\ poller'[w].holding = {} /\ poller'[w].pc = "process"
  BY <1>1, <1>2 DEF Poller, PollerAt
<1>6. caseRow' \in [Cnrs -> CaseState]
  BY <1>1, <1>2 DEF CaseState
<1>7. BatchTypeOK' /\ MadeOnce'
  BY <1>1, <1>4, <1>5, <1>6 DEF BatchInv, BatchTypeOK, MadeOnce
<1>8. \A type \in JobTypes : BroughtAbout(type) \subseteq BroughtAbout(type)'
  BY <1>1, <1>3, <1>4 DEF BroughtAbout, JobTypes
<1>9. poller'[w].counted \ poller[w].counted \subseteq BroughtAbout(TypeOf(w))'
  <2>1. TypeOf(w)' = "process"
    BY <1>1, <1>2, <1>5 DEF TypeOf
  <2>. QED  BY <1>4, <1>5, <2>1 DEF BroughtAbout
<1>10. (poller'[w].counted \ poller[w].counted) \cap BroughtAbout(TypeOf(w)) = {}
  BY <1>2, <1>3, <1>5, BroughtAboutIs
<1>11. \A v \in Pollers \ {w} : \A d \in poller[v].holding : madeOf'[d] = madeOf[d]
  <2>1. \A v \in Pollers : poller[v].holding \subseteq Cnrs
    BY BatchTypes DEF Poller
  <2>. QED  BY <1>3, <1>4, <2>1
<1>. QED  BY <1>1, <1>2, <1>5, <1>7, <1>8, <1>9, <1>10, <1>11, ThreadGoesOn DEF PollerAt, JobTypes

LEMMA StepOthers ==
  ASSUME BatchInv, NEW c \in Cnrs,
         (\E kind \in {"other", "target"} : LoadCase(c, kind)) \/ RequestFetch(c) \/ StoreFetched(c)
  PROVE  BatchInv'
<1>1. /\ UNCHANGED <<batchJob, poller, enumerated, madeOf>> /\ toFetch \subseteq toFetch'
      /\ toFetch' \subseteq Cnrs /\ stored' \subseteq Cnrs
  BY BatchTypes DEF LoadCase, RequestFetch, StoreFetched
<1>2. caseRow' \in [Cnrs -> CaseState]
  BY BatchTypes DEF LoadCase, RequestFetch, StoreFetched, CaseState
<1>3. BatchTypeOK'
  BY <1>1, <1>2 DEF BatchInv, BatchTypeOK
<1>. QED  BY <1>1, <1>3, OthersGoOn

LEMMA BatchInvInit == BatchInit => BatchInv
<1>. SUFFICES ASSUME BatchInit PROVE BatchInv
  OBVIOUS
<1>1. /\ \A j \in BatchJobs : batchJob[j] = NotEnqueued
      /\ \A w \in Pollers : poller[w] = IdleBatch
      /\ NotEnqueued \in BatchJob /\ IdleBatch \in Poller
  BY DEF BatchInit, NotEnqueued, IdleBatch, BatchJob, Poller, JobTypes
<1>2. BatchTypeOK
  BY <1>1 DEF BatchInit, BatchTypeOK, CaseState
<1>3. BatchJobsFit /\ CreditsAreDue
  BY <1>1 DEF BatchJobsFit, CreditsAreDue, Enqueued, NotEnqueued
<1>4. /\ IdleBatch.pc = "idle" /\ IdleBatch.counted = {} /\ IdleBatch.holding = {}
  BY DEF IdleBatch
<1>5. OneRunOfEach /\ RowsLockedOnce /\ \A w \in Pollers : PollerFits(w)
  BY <1>1, <1>4 DEF OneRunOfEach, RowsLockedOnce, PollerFits, PollerAt, JobTypes
<1>6. MadeOnce
  BY DEF MadeOnce, BatchInit
<1>. QED  BY <1>2, <1>3, <1>5, <1>6 DEF BatchInv

LEMMA BatchInvNext == ASSUME BatchInv, [BatchNext]_batchVars PROVE BatchInv'
<1>1. ASSUME NEW w \in Pollers, RunBatchJob(w) PROVE BatchInv'
  BY <1>1, StepReads, StepSeedInserts, StepDiscoverInserts, StepProbe, StepLocks, StepProcess,
     StepProcessEnds DEF RunBatchJob
<1>2. CASE UNCHANGED batchVars
  <2>1. BatchTypeOK'
    BY <1>2 DEF batchVars, BatchInv, BatchTypeOK
  <2>. QED  BY <1>2, <2>1, OthersGoOn DEF batchVars
<1>. QED  BY <1>1, <1>2, StepEnqueueBatch, StepClaimBatch, StepFinishBatch, StepOthers DEF BatchNext

-----------------------------------------------------------------------------
(* What the batch jobs promise, and the types of both halves.              *)

\* The threads that run a job are one at most.
LEMMA RunsAreAttempts ==
  ASSUME BatchInv, NEW j \in Enqueued
  PROVE  RunsOf(j) <= batchJob[j].attempt /\ batchJob[j].attempt <= 1
<1>. DEFINE T == {w \in Pollers : poller[w].job = j}
            ended == batchJob[j].status \in {"succeeded", "failed"}
<1>1. j \in BatchJobs /\ batchJob[j].status \in {"pending", "processing", "succeeded", "failed"}
  BY BatchTypes DEF Enqueued, BatchJob
<1>2. \A w \in T : ~PollerAt(w, "idle") /\ batchJob[j].status = "processing"
  BY <1>1, IdleIsNobody DEF BatchInv, PollerFits
<1>3. \A v, w \in T : v = w
  BY <1>2 DEF BatchInv, OneRunOfEach
<1>4. T = {} \/ \E w : T = {w}
  BY <1>3
<1>5. Cardinality(T) \in {0, 1} /\ (T = {} => Cardinality(T) = 0)
  BY <1>4, FS_EmptySet, FS_Singleton
<1>6. RunsOf(j) = Cardinality(T) + (IF ended THEN 1 ELSE 0)
  BY DEF RunsOf
<1>7. batchJob[j].attempt = IF batchJob[j].status = "pending" THEN 0 ELSE 1
  BY <1>1 DEF BatchInv, BatchJobsFit
<1>8. CASE batchJob[j].status = "processing"
  BY <1>5, <1>6, <1>7, <1>8
<1>9. CASE batchJob[j].status # "processing"
  <2>1. Cardinality(T) = 0
    BY <1>2, <1>5, <1>9
  <2>. QED  BY <1>1, <1>6, <1>7, <1>9, <2>1
<1>. QED  BY <1>8, <1>9

LEMMA BatchAddsUp == BatchInv => BatchResultsAddUp
BY RunsAreAttempts DEF BatchInv, MadeOnce, CreditsAreDue, BatchResultsAddUp

\* No two batch jobs take credit for one row, no text becomes two documents and no job is
\* run twice, for any number of jobs, threads and cases (the claim, _LOCK_ROW and the
\* rowcounts of the INSERTs), whatever dies or fails on the way.
THEOREM BatchCredits == BatchSpec => []BatchResultsAddUp
BY BatchInvInit, BatchInvNext, BatchAddsUp, PTL DEF BatchSpec

\* The variables of both halves keep their types.
THEOREM DistrictTypeCorrect == DistrictSpec => []DistrictTypeOK
<1>1. DistrictInit => IInv /\ BatchInv
  BY InitHolds, BatchInvInit DEF DistrictInit
<1>2. IInv /\ BatchInv /\ [DistrictNext]_<<half, acquisitionVars, batchVars>> => IInv' /\ BatchInv'
  BY NextHolds, BatchInvNext DEF DistrictNext
<1>3. IInv /\ BatchInv => DistrictTypeOK
  BY DEF IInv, BatchInv, DistrictTypeOK
<1>. QED  BY <1>1, <1>2, <1>3, PTL DEF DistrictSpec
=============================================================================
