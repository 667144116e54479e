--------------------------- MODULE WorkflowProofs ---------------------------
(***************************************************************************)
(* What holds of WorkflowEngine for every workflow, every number of        *)
(* entities and every number of calls, provided that callers who bring a   *)
(* transaction of their own roll it back when the engine reports failure.  *)
(***************************************************************************)
EXTENDS WorkflowEngine, SequenceTheorems, TLAPS

\* A call whose transaction still stands and has not given up.
Working(c) ==
  \/ c.pc \in InTransaction
  \/ c.joined /\ (c.pc = "hooks" \/ (c.pc = "caller" /\ c.ok))

\* The task of the target is among those that the transaction leaves open.
LeavesTask(c) ==
  c.transition.from # c.transition.to /\ c.transition.to \in TaskStates
    => c.transition.to \in c.tasks

\* What a call knows is what is committed, as it has held the row since it looked.
Current(c) ==
  /\ c.transition \in Transitions
  /\ c.transition.from = entity[c.entity].state /\ Permits(c.transition, c.actor)
  /\ c.version = entity[c.entity].version

SoundCall(c) ==
  /\ c.pc # "idle" => c.entity \in Entities
  /\ c.pc = "commit" => ~c.joined
  /\ c.pc = "caller" => c.joined
  /\ c.pc \in {"commit", "hooks"} => c.ok
  /\ c.pc \in {"idle", "load", "update", "work", "audit"} => ~c.ok
  /\ c.pc \in {"work", "audit"} \/ c.ok => c.moved
  /\ c.ok => c.audited
  /\ c.pc = "audit" \/ c.ok => LeavesTask(c)
  /\ Working(c) => Current(c)
  /\ c.pc = "hooks" /\ ~c.joined => c.version < Len(audit[c.entity])

OneHolder ==
  \A r, q \in Calls : HoldsRow(r) /\ HoldsRow(q) /\ call[r].entity = call[q].entity => r = q

\* Every move is one audit event.
VersionIsLength == \A e \in Entities : entity[e].version = Len(audit[e])

RowsSound == VersionIsLength /\ TaskStateHasTask /\ AnnouncedIsCommitted

IInv ==
  /\ WfTypeOK
  /\ OneHolder
  /\ \A r \in Calls : SoundCall(call[r])
  /\ RowsSound

-----------------------------------------------------------------------------
(* Steps of a call that commits nothing.                                   *)

LEMMA InitHolds == WfInit => IInv
<1>. SUFFICES ASSUME WfInit PROVE IInv
  OBVIOUS
<1>1. WfTypeOK
  BY DEF WfInit, WfTypeOK, NotCalled, CallRecord, Contract!Actors, Contract!SystemActor
<1>2. \A r \in Calls : ~HoldsRow(r) /\ SoundCall(call[r])
  BY DEF WfInit, NotCalled, HoldsRow, InTransaction, SoundCall, Working
<1>3. RowsSound
  BY DEF WfInit, RowsSound, VersionIsLength, TaskStateHasTask, AnnouncedIsCommitted
<1>. QED  BY <1>1, <1>2, <1>3 DEF IInv, OneHolder

\* The rows are as they were, and one call has come to hold a free row at most.
LEMMA OneCallMoves ==
  ASSUME IInv, WfTypeOK', NEW r \in Calls,
         UNCHANGED <<entity, audit, openTask>>,
         announced' = announced \/ AnnouncedIsCommitted',
         \A q \in Calls : q # r => call'[q] = call[q],
         HoldsRow(r)' => call'[r].entity = call[r].entity /\ (HoldsRow(r) \/ RowIsFree(r)),
         SoundCall(call[r])'
  PROVE  IInv'
<1>1. \A q \in Calls : SoundCall(call[q])'
  <2>. SUFFICES ASSUME NEW q \in Calls, q # r PROVE SoundCall(call[q])'
    OBVIOUS
  <2>1. SoundCall(call[q]) /\ call'[q] = call[q]
    BY DEF IInv
  <2>. QED  BY <2>1 DEF SoundCall, Working, Current, LeavesTask
<1>2. OneHolder'
  <2>. SUFFICES ASSUME NEW p \in Calls, NEW q \in Calls, HoldsRow(p)', HoldsRow(q)',
                       call'[p].entity = call'[q].entity
                PROVE  p = q
    BY DEF OneHolder
  <2>1. \A x \in Calls : x # r /\ HoldsRow(x)' => HoldsRow(x) /\ call'[x].entity = call[x].entity
    BY DEF HoldsRow
  <2>2. CASE p # r /\ q # r
    BY <2>1, <2>2 DEF IInv, OneHolder
  <2>3. ASSUME NEW x \in Calls, x # r, HoldsRow(x)', HoldsRow(r)',
               call'[x].entity = call'[r].entity
        PROVE  FALSE
    BY <2>1, <2>3 DEF IInv, OneHolder, RowIsFree
  <2>. QED  BY <2>2, <2>3
<1>3. RowsSound'
  BY DEF IInv, RowsSound, VersionIsLength, TaskStateHasTask, AnnouncedIsCommitted
<1>. QED  BY <1>1, <1>2, <1>3 DEF IInv

LEMMA RowsTyped ==
  IInv => /\ \A r \in Calls : call[r] \in CallRecord
          /\ \A e \in Entities : entity[e].state \in WfStates /\ entity[e].version \in Nat
                                /\ openTask[e] \subseteq WfStates
BY DEF IInv, WfTypeOK

LEMMA StepCalled ==
  ASSUME IInv, NEW r \in Calls, NEW e \in Entities, NEW t \in Transitions \cup {NoTransition},
         NEW actor \in Contract!Actors, NEW joined \in BOOLEAN,
         Called(r, e, t, actor, joined),
         UNCHANGED <<entity, audit, openTask, announced>>,
         sweep' \in [listed : SUBSET Entities, current : Calls \cup {NoCall}]
  PROVE  IInv'
<1>1. call' \in [Calls -> CallRecord]
  BY DEF Called, NotCalled, CallRecord, IInv, WfTypeOK
<1>2. WfTypeOK'
  BY <1>1 DEF IInv, WfTypeOK
<1>3. call'[r].pc = "load" /\ call'[r].ok = FALSE /\ call'[r].entity = e
  BY DEF Called, NotCalled, IInv, WfTypeOK
<1>4. ~HoldsRow(r)' /\ SoundCall(call[r])'
  BY <1>3 DEF HoldsRow, SoundCall, Working, InTransaction
<1>5. \A q \in Calls : q # r => call'[q] = call[q]
  BY DEF Called, IInv, WfTypeOK
<1>. QED  BY <1>2, <1>4, <1>5, OneCallMoves

LEMMA StepLoad == ASSUME IInv, NEW r \in Calls, Load(r) PROVE IInv'
<1>. DEFINE c == call[r]
<1>1. c \in CallRecord /\ c.pc = "load" /\ SoundCall(c)
  BY RowsTyped DEF Load, CallAt, IInv
<1>2. \A q \in Calls : q # r => call'[q] = call[q]
  BY DEF Load, CallGoes, IInv, WfTypeOK
<1>3. CASE Refuses(c.entity, c.transition, c.actor)
  <2>1. call'[r] = [c EXCEPT !.pc = IF c.joined THEN "caller" ELSE "failed"]
    BY <1>3 DEF Load, CallGoes, IInv, WfTypeOK
  <2>a. call'[r] \in CallRecord
    BY <1>1, <2>1 DEF CallRecord
  <2>2. WfTypeOK'
    BY <1>3, <2>a DEF Load, CallGoes, IInv, WfTypeOK
  <2>3. /\ call'[r].entity = c.entity /\ call'[r].joined = c.joined /\ call'[r].ok = c.ok
        /\ call'[r].pc = IF c.joined THEN "caller" ELSE "failed"
    BY <1>1, <2>1 DEF CallRecord
  <2>4. SoundCall(call[r])'
    BY <1>1, <2>3 DEF SoundCall, Working, InTransaction
  <2>5. UNCHANGED <<entity, audit, openTask, announced>> /\ RowIsFree(r)
    BY DEF Load
  <2>. QED  BY <1>2, <2>2, <2>3, <2>4, <2>5, OneCallMoves
<1>4. CASE ~Refuses(c.entity, c.transition, c.actor)
  <2>1. call'[r] = [c EXCEPT !.pc = "update", !.version = entity[c.entity].version,
                             !.tasks = openTask[c.entity]]
    BY <1>4 DEF Load, IInv, WfTypeOK
  <2>2. /\ c.transition \in Transitions /\ c.transition.from = entity[c.entity].state
        /\ Permits(c.transition, c.actor)
    BY <1>1, <1>4 DEF Refuses, CallRecord
  <2>3. c.entity \in Entities
    BY <1>1 DEF SoundCall
  <2>4. call'[r] \in CallRecord
    BY <1>1, <2>1, <2>3, RowsTyped DEF CallRecord, InTransaction
  <2>5. WfTypeOK'
    BY <1>4, <2>4 DEF Load, IInv, WfTypeOK
  <2>6. /\ call'[r].entity = c.entity /\ call'[r].transition = c.transition
        /\ call'[r].actor = c.actor /\ call'[r].joined = c.joined /\ call'[r].ok = c.ok
        /\ call'[r].pc = "update" /\ call'[r].version = entity[c.entity].version
    BY <1>1, <2>1 DEF CallRecord
  <2>7. UNCHANGED <<entity, audit, openTask, announced>> /\ RowIsFree(r)
    BY DEF Load
  <2>8. SoundCall(call[r])'
    BY <1>1, <2>2, <2>3, <2>6, <2>7 DEF SoundCall, Current, Permits, Contract!Permits, LeavesTask
  <2>. QED  BY <1>2, <2>5, <2>6, <2>7, <2>8, OneCallMoves
<1>. QED  BY <1>3, <1>4

\* Giving up, before or after the row was locked.
LEMMA StepGivesUp ==
  ASSUME IInv, NEW r \in Calls, LockTimeout(r) \/ Raise(r) \/ CallerRollsBack(r) \/ Dies(r)
  PROVE  IInv'
<1>. DEFINE c == call[r]
<1>1. c \in CallRecord /\ SoundCall(c) /\ c.pc # "idle"
  BY RowsTyped DEF LockTimeout, Raise, CallerRollsBack, Dies, CallAt, IInv, InTransaction
<1>2. UNCHANGED <<entity, audit, openTask, sweep, announced>>
  BY DEF LockTimeout, Raise, CallerRollsBack, Dies, RolledBack
<1>3. PICK pc \in {"caller", "failed"} : call' = [call EXCEPT ![r].pc = pc]
  BY DEF LockTimeout, Raise, CallerRollsBack, Dies, CallGoes
<1>4. pc = "caller" => c.joined /\ c.pc \in {"update", "work", "audit"}
  <2>1. call'[r].pc = pc
    BY <1>1, <1>3 DEF IInv, WfTypeOK, CallRecord
  <2>2. LockTimeout(r) \/ CallerRollsBack(r) \/ Dies(r) => call'[r].pc = "failed"
    BY <1>1 DEF LockTimeout, CallerRollsBack, Dies, CallGoes, IInv, WfTypeOK, CallRecord
  <2>3. Raise(r) /\ ~c.joined => call'[r].pc = "failed"
    BY <1>1 DEF Raise, CallGoes, IInv, WfTypeOK, CallRecord
  <2>. QED  BY <2>1, <2>2, <2>3 DEF Raise
<1>5. /\ call'[r] = [c EXCEPT !.pc = pc]
      /\ \A q \in Calls : q # r => call'[q] = call[q]
  BY <1>3 DEF IInv, WfTypeOK
<1>6. /\ call'[r] \in CallRecord /\ call'[r].pc = pc /\ call'[r].ok = c.ok
      /\ call'[r].joined = c.joined /\ call'[r].entity = c.entity /\ call'[r].moved = c.moved
      /\ call'[r].audited = c.audited /\ call'[r].transition = c.transition
      /\ call'[r].tasks = c.tasks
  BY <1>1, <1>5 DEF CallRecord
<1>7. WfTypeOK'
  BY <1>2, <1>3, <1>6 DEF IInv, WfTypeOK
<1>8. SoundCall(call[r])'
  BY <1>1, <1>4, <1>6 DEF SoundCall, Working, InTransaction, LeavesTask
<1>9. HoldsRow(r)' => HoldsRow(r)
  BY <1>4, <1>6 DEF HoldsRow, InTransaction
<1>. QED  BY <1>2, <1>5, <1>6, <1>7, <1>8, <1>9, OneCallMoves

LEMMA StepUpdate == ASSUME IInv, NEW r \in Calls, Update(r) PROVE IInv'
<1>. DEFINE c == call[r]
<1>1. c \in CallRecord /\ SoundCall(c) /\ c.pc = "update"
  BY RowsTyped DEF Update, CallAt, IInv
<1>2. /\ call'[r] = [c EXCEPT !.pc = "work", !.moved = TRUE]
      /\ \A q \in Calls : q # r => call'[q] = call[q]
      /\ UNCHANGED <<entity, audit, openTask, sweep, announced>>
  BY DEF Update, IInv, WfTypeOK
<1>3. /\ call'[r] \in CallRecord /\ call'[r].pc = "work" /\ call'[r].moved
      /\ call'[r].ok = c.ok /\ call'[r].joined = c.joined /\ call'[r].entity = c.entity
      /\ call'[r].transition = c.transition /\ call'[r].actor = c.actor
      /\ call'[r].version = c.version
  BY <1>1, <1>2 DEF CallRecord, InTransaction
<1>4. WfTypeOK'
  BY <1>2, <1>3 DEF Update, IInv, WfTypeOK
<1>5. SoundCall(call[r])'
  BY <1>1, <1>2, <1>3 DEF SoundCall, Working, InTransaction, Current, Permits, Contract!Permits
<1>6. HoldsRow(r)
  BY <1>1 DEF HoldsRow, InTransaction
<1>. QED  BY <1>2, <1>3, <1>4, <1>5, <1>6, OneCallMoves

\* The task that the transaction creates is not the one it completes, unless the
\* transition leads back to where it started.
LEMMA StepWork == ASSUME IInv, NEW r \in Calls, Work(r) PROVE IInv'
<1>. DEFINE c == call[r]
            t == c.transition
            left == (c.tasks \cup CreatedTasks(t)) \ CompletedTasks(t, c.actor)
<1>1. c \in CallRecord /\ SoundCall(c) /\ c.pc = "work"
  BY RowsTyped DEF Work, CallAt, IInv
<1>2. /\ call'[r] = [c EXCEPT !.pc = "audit", !.tasks = left]
      /\ \A q \in Calls : q # r => call'[q] = call[q]
      /\ UNCHANGED <<entity, audit, openTask, sweep, announced>>
  BY DEF Work, IInv, WfTypeOK
<1>3. t \in Transitions
  BY <1>1 DEF SoundCall, Working, InTransaction, Current
<1>4. left \subseteq WfStates
  BY <1>1, <1>3, WorkflowAssumption DEF CreatedTasks, CallRecord
<1>5. /\ call'[r] \in CallRecord /\ call'[r].pc = "audit" /\ call'[r].moved = c.moved
      /\ call'[r].ok = c.ok /\ call'[r].joined = c.joined /\ call'[r].entity = c.entity
      /\ call'[r].transition = t /\ call'[r].actor = c.actor /\ call'[r].version = c.version
      /\ call'[r].tasks = left
  BY <1>1, <1>2, <1>4 DEF CallRecord, InTransaction
<1>6. WfTypeOK'
  BY <1>2, <1>5 DEF Work, IInv, WfTypeOK
<1>7. t.from # t.to /\ t.to \in TaskStates => t.to \in left
  BY DEF CreatedTasks, CompletedTasks
<1>8. SoundCall(call[r])'
  BY <1>1, <1>2, <1>5, <1>7
  DEF SoundCall, Working, InTransaction, Current, Permits, Contract!Permits, LeavesTask
<1>9. HoldsRow(r)
  BY <1>1 DEF HoldsRow, InTransaction
<1>. QED  BY <1>2, <1>5, <1>6, <1>8, <1>9, OneCallMoves

LEMMA StepWriteAudit == ASSUME IInv, NEW r \in Calls, WriteAudit(r) PROVE IInv'
<1>. DEFINE c == call[r]
            pc == IF c.joined THEN "hooks" ELSE "commit"
<1>1. c \in CallRecord /\ SoundCall(c) /\ c.pc = "audit"
  BY RowsTyped DEF WriteAudit, CallAt, IInv
<1>2. /\ call'[r] = [c EXCEPT !.pc = pc, !.audited = TRUE, !.ok = TRUE]
      /\ \A q \in Calls : q # r => call'[q] = call[q]
      /\ UNCHANGED <<entity, audit, openTask, sweep, announced>>
  BY DEF WriteAudit, IInv, WfTypeOK
<1>3. /\ call'[r] \in CallRecord /\ call'[r].pc = pc /\ call'[r].moved = c.moved
      /\ call'[r].ok /\ call'[r].audited /\ call'[r].joined = c.joined
      /\ call'[r].entity = c.entity /\ call'[r].transition = c.transition
      /\ call'[r].actor = c.actor /\ call'[r].version = c.version /\ call'[r].tasks = c.tasks
  BY <1>1, <1>2 DEF CallRecord, InTransaction
<1>4. WfTypeOK'
  BY <1>2, <1>3 DEF WriteAudit, IInv, WfTypeOK
<1>5. SoundCall(call[r])'
  BY <1>1, <1>2, <1>3
  DEF SoundCall, Working, InTransaction, Current, Permits, Contract!Permits, LeavesTask
<1>6. HoldsRow(r)
  BY <1>1 DEF HoldsRow, InTransaction
<1>. QED  BY <1>2, <1>3, <1>4, <1>5, <1>6, OneCallMoves

LEMMA StepRunHooks == ASSUME IInv, NEW r \in Calls, RunHooks(r) PROVE IInv'
<1>. DEFINE c == call[r]
            pc == IF c.joined THEN "caller" ELSE "done"
<1>1. c \in CallRecord /\ SoundCall(c) /\ c.pc = "hooks"
  BY RowsTyped DEF RunHooks, CallAt, IInv
<1>2. /\ call'[r] = [c EXCEPT !.pc = pc]
      /\ \A q \in Calls : q # r => call'[q] = call[q]
      /\ UNCHANGED <<entity, audit, openTask, sweep>>
  BY DEF RunHooks, CallGoes, IInv, WfTypeOK
<1>3. /\ call'[r] \in CallRecord /\ call'[r].pc = pc /\ call'[r].moved = c.moved
      /\ call'[r].ok = c.ok /\ call'[r].audited = c.audited /\ call'[r].joined = c.joined
      /\ call'[r].entity = c.entity /\ call'[r].transition = c.transition
      /\ call'[r].actor = c.actor /\ call'[r].version = c.version /\ call'[r].tasks = c.tasks
  BY <1>1, <1>2 DEF CallRecord, InTransaction
<1>4. c.entity \in Entities /\ c.version + 1 \in Nat
  BY <1>1 DEF SoundCall, CallRecord
<1>5. announced' \subseteq [entity : Entities, version : Nat] /\ AnnouncedIsCommitted'
  <2>1. CASE c.joined
    BY <1>2, <2>1 DEF RunHooks, OwnsTransaction, IInv, WfTypeOK, RowsSound, AnnouncedIsCommitted
  <2>2. CASE ~c.joined
    <3>1. announced' = announced \cup {[entity |-> c.entity, version |-> c.version + 1]}
      BY <2>2 DEF RunHooks, OwnsTransaction
    <3>2. c.version < Len(audit[c.entity])
      BY <1>1, <2>2 DEF SoundCall
    <3>3. c.version + 1 <= Len(audit[c.entity])
      <4>1. Len(audit[c.entity]) \in Nat /\ c.version \in Nat
        BY <1>1, <1>4 DEF IInv, WfTypeOK, CallRecord
      <4>. QED  BY <3>2, <4>1
    <3>. QED  BY <1>2, <1>4, <3>1, <3>3 DEF IInv, WfTypeOK, RowsSound, AnnouncedIsCommitted
  <2>. QED  BY <1>1, <2>1, <2>2 DEF CallRecord
<1>6. WfTypeOK'
  BY <1>2, <1>3, <1>5 DEF RunHooks, CallGoes, IInv, WfTypeOK
<1>7. SoundCall(call[r])'
  BY <1>1, <1>2, <1>3
  DEF SoundCall, Working, InTransaction, Current, Permits, Contract!Permits, LeavesTask
<1>8. HoldsRow(r)' => HoldsRow(r)
  BY <1>1, <1>3 DEF HoldsRow, InTransaction
<1>. QED  BY <1>2, <1>3, <1>5, <1>6, <1>7, <1>8, OneCallMoves

-----------------------------------------------------------------------------
(* A transaction commits.                                                  *)

\* What a commit writes: the contract's move of the entity, and its tasks.
LEMMA CommitMoves ==
  ASSUME IInv, NEW r \in Calls, HoldsRow(r), call[r].ok, Working(call[r]), Committed(r)
  PROVE  LET c == call[r]
         IN /\ c.entity \in Entities /\ c.transition \in Transitions
            /\ c.transition.from = entity[c.entity].state /\ Permits(c.transition, c.actor)
            /\ entity' = [entity EXCEPT ![c.entity] =
                            [state |-> c.transition.to, version |-> c.version + 1]]
            /\ audit' = [audit EXCEPT ![c.entity] = Append(@, AuditEvent(r))]
            /\ openTask' = [openTask EXCEPT ![c.entity] = c.tasks]
            /\ c.version = Len(audit[c.entity])
            /\ LeavesTask(c) /\ c.actor \in Contract!Actors /\ c.tasks \subseteq WfStates
<1>1. call[r] \in CallRecord /\ SoundCall(call[r])
  BY RowsTyped DEF IInv
<1>2. Current(call[r]) /\ LeavesTask(call[r]) /\ call[r].moved /\ call[r].audited
      /\ call[r].entity \in Entities
  BY <1>1 DEF SoundCall, Working, InTransaction
<1>. QED  BY <1>1, <1>2 DEF Committed, Current, CallRecord, IInv, RowsSound, VersionIsLength

\* It leaves the rows sound, and the other calls as sound as they were: none of them
\* holds the same row.
LEMMA CommitHolds ==
  ASSUME IInv, NEW r \in Calls, NEW pc \in {"hooks", "done"},
         HoldsRow(r), call[r].ok, Working(call[r]), Committed(r),
         call' = [call EXCEPT ![r].pc = pc],
         pc = "hooks" => ~call[r].joined,
         UNCHANGED <<sweep, announced>>
  PROVE  IInv'
<1>. DEFINE c == call[r]
            e == c.entity
<1>1. c \in CallRecord /\ SoundCall(c)
  BY RowsTyped DEF IInv
<1>2. /\ e \in Entities /\ c.transition \in Transitions /\ c.transition.to \in WfStates
      /\ entity' = [entity EXCEPT ![e] = [state |-> c.transition.to, version |-> c.version + 1]]
      /\ audit' = [audit EXCEPT ![e] = Append(@, AuditEvent(r))]
      /\ openTask' = [openTask EXCEPT ![e] = c.tasks]
      /\ c.version = Len(audit[e]) /\ LeavesTask(c)
      /\ c.actor \in Contract!Actors /\ c.tasks \subseteq WfStates
  BY CommitMoves, WorkflowAssumption
<1>3. /\ call'[r] = [c EXCEPT !.pc = pc]
      /\ \A q \in Calls : q # r => call'[q] = call[q]
  BY DEF IInv, WfTypeOK
<1>4. /\ call'[r] \in CallRecord /\ call'[r].pc = pc /\ call'[r].moved = c.moved
      /\ call'[r].ok = c.ok /\ call'[r].audited = c.audited /\ call'[r].joined = c.joined
      /\ call'[r].entity = e /\ call'[r].transition = c.transition
      /\ call'[r].version = c.version /\ call'[r].tasks = c.tasks
  <2>1. pc \in InTransaction \cup {"idle", "load", "hooks", "caller", "done", "failed"}
    OBVIOUS
  <2>2. call'[r] \in CallRecord
    BY <1>1, <1>3, <2>1 DEF CallRecord
  <2>3. ASSUME NEW d, d \in CallRecord, d = [c EXCEPT !.pc = pc]
        PROVE  /\ d.pc = pc /\ d.moved = c.moved
               /\ d.ok = c.ok /\ d.audited = c.audited /\ d.joined = c.joined
               /\ d.entity = e /\ d.transition = c.transition
               /\ d.version = c.version /\ d.tasks = c.tasks
    BY <1>1, <2>3 DEF CallRecord
  <2>. QED  BY <1>3, <2>2, <2>3
<1>5. AuditEvent(r) \in [transition : Transitions, actor : Contract!Actors]
      /\ AuditEvent(r).transition = c.transition
  BY <1>2 DEF AuditEvent, Contract!AuditEvent
<1>6. audit[e] \in Seq([transition : Transitions, actor : Contract!Actors])
  BY <1>2 DEF IInv, WfTypeOK
<1>7. /\ audit'[e] = Append(audit[e], AuditEvent(r))
      /\ audit'[e] \in Seq([transition : Transitions, actor : Contract!Actors])
      /\ Len(audit'[e]) = Len(audit[e]) + 1
      /\ audit'[e][Len(audit'[e])] = AuditEvent(r)
  <2>1. audit'[e] = Append(audit[e], AuditEvent(r))
    BY <1>2 DEF IInv, WfTypeOK
  <2>. QED  BY <1>5, <1>6, <2>1, AppendProperties
<1>8. WfTypeOK'
  <2>1. entity' \in [Entities -> [state : WfStates, version : Nat]]
    BY <1>1, <1>2 DEF IInv, WfTypeOK, CallRecord
  <2>2. openTask' \in [Entities -> SUBSET WfStates]
    BY <1>2 DEF IInv, WfTypeOK
  <2>3. audit' \in [Entities -> Seq([transition : Transitions, actor : Contract!Actors])]
    BY <1>2, <1>7 DEF IInv, WfTypeOK
  <2>4. call' \in [Calls -> CallRecord]
    BY <1>3, <1>4 DEF IInv, WfTypeOK
  <2>. QED  BY <2>1, <2>2, <2>3, <2>4 DEF IInv, WfTypeOK
<1>9. \A x \in Entities : x # e => /\ entity'[x] = entity[x] /\ audit'[x] = audit[x]
                                  /\ openTask'[x] = openTask[x]
  BY <1>2 DEF IInv, WfTypeOK
<1>10. entity'[e] = [state |-> c.transition.to, version |-> c.version + 1]
       /\ openTask'[e] = c.tasks
  BY <1>2 DEF IInv, WfTypeOK
<1>11. RowsSound'
  <2>1. VersionIsLength'
    BY <1>2, <1>7, <1>9, <1>10 DEF IInv, RowsSound, VersionIsLength
  <2>2. TaskStateHasTask'
    <3>1. ASSUME NEW x \in Entities, audit'[x] # <<>>, entity'[x].state \in TaskStates,
                 audit'[x][Len(audit'[x])].transition.from # audit'[x][Len(audit'[x])].transition.to
          PROVE  entity'[x].state \in openTask'[x]
      <4>1. CASE x = e
        <5>1. entity'[e].state = c.transition.to
          BY <1>10
        <5>2. audit'[e][Len(audit'[e])].transition = c.transition
          BY <1>5, <1>7
        <5>3. c.transition.to \in TaskStates /\ c.transition.from # c.transition.to
          BY <3>1, <4>1, <5>1, <5>2
        <5>4. c.transition.to \in c.tasks
          BY <1>2, <5>3 DEF LeavesTask
        <5>. QED  BY <1>10, <4>1, <5>1, <5>4
      <4>2. CASE x # e
        BY <1>9, <3>1, <4>2 DEF IInv, RowsSound, TaskStateHasTask
      <4>. QED  BY <4>1, <4>2
    <3>. QED  BY <3>1 DEF TaskStateHasTask
  <2>3. AnnouncedIsCommitted'
    <3>. SUFFICES ASSUME NEW a \in announced PROVE a.version <= Len(audit'[a.entity])
      BY DEF AnnouncedIsCommitted
    <3>1. a.version <= Len(audit[a.entity]) /\ a.entity \in Entities /\ a.version \in Nat
      BY DEF IInv, WfTypeOK, RowsSound, AnnouncedIsCommitted
    <3>2. Len(audit[e]) \in Nat
      BY <1>6
    <3>. QED  BY <1>7, <1>9, <3>1, <3>2
  <2>. QED  BY <2>1, <2>2, <2>3 DEF RowsSound
<1>12. \A q \in Calls : SoundCall(call[q])'
  <2>1. SoundCall(call[r])'
    <3>1. Len(audit[e]) \in Nat /\ c.version < Len(audit'[e])
      BY <1>2, <1>6, <1>7
    <3>2. ~Working(call[r])'
      BY <1>4 DEF Working, InTransaction
    <3>. QED  BY <1>1, <1>2, <1>4, <3>1, <3>2 DEF SoundCall, LeavesTask
  <2>2. ASSUME NEW q \in Calls, q # r PROVE SoundCall(call[q])'
    <3>1. SoundCall(call[q]) /\ call'[q] = call[q] /\ call[q] \in CallRecord
      BY <1>3, <2>2, RowsTyped DEF IInv
    <3>2. Working(call[q]) => call[q].entity \in Entities \ {e}
      BY <2>2, <3>1 DEF Working, HoldsRow, IInv, OneHolder, SoundCall, InTransaction
    <3>3. Working(call[q]) => Current(call[q])'
      BY <1>9, <3>1, <3>2 DEF SoundCall, Current, Permits, Contract!Permits
    <3>4. call[q].pc = "hooks" /\ ~call[q].joined => call[q].version < Len(audit'[call[q].entity])
      BY <1>2, <1>6, <1>7, <1>9, <3>1 DEF SoundCall, CallRecord
    <3>. QED  BY <3>1, <3>3, <3>4 DEF SoundCall, Working, LeavesTask
  <2>. QED  BY <2>1, <2>2
<1>13. OneHolder'
  BY <1>3, <1>4 DEF HoldsRow, IInv, OneHolder
<1>. QED  BY <1>8, <1>11, <1>12, <1>13 DEF IInv

\* Where a call commits, it holds the row and has succeeded.
Commits(r) == Commit(r) \/ CallerCommits(r)

LEMMA CommitsWhileWorking ==
  ASSUME CarefulCallers, IInv, NEW r \in Calls, Commits(r)
  PROVE  HoldsRow(r) /\ call[r].ok /\ Working(call[r]) /\ Committed(r)
<1>1. SoundCall(call[r])
  BY DEF IInv
<1>. QED  BY <1>1 DEF Commits, Commit, CallerCommits, CallAt, SoundCall, HoldsRow, Working, InTransaction

LEMMA StepCommits == ASSUME CarefulCallers, IInv, NEW r \in Calls, Commits(r) PROVE IInv'
<1>1. PICK pc \in {"hooks", "done"} :
        call' = [call EXCEPT ![r].pc = pc] /\ (pc = "hooks" => ~call[r].joined)
  <2>1. CASE Commit(r)
    <3>1. ~call[r].joined
      BY <2>1 DEF Commit, CallAt, IInv, SoundCall
    <3>. QED  BY <2>1, <3>1 DEF Commit, CallGoes
  <2>2. CASE CallerCommits(r)
    BY <2>2 DEF CallerCommits, CallGoes
  <2>. QED  BY <2>1, <2>2 DEF Commits
<1>2. UNCHANGED <<sweep, announced>>
  BY DEF Commits, Commit, CallerCommits
<1>. QED  BY <1>1, <1>2, CommitsWhileWorking, CommitHolds

-----------------------------------------------------------------------------
(* The scheduler, and the next-state relation.                             *)

LEMMA StepSweep ==
  ASSUME IInv, ListOverdue \/ EscalationReturns
  PROVE  IInv'
<1>1. UNCHANGED <<entity, audit, openTask, call, announced>>
  BY DEF ListOverdue, EscalationReturns
<1>2. WfTypeOK'
  BY <1>1 DEF ListOverdue, EscalationReturns, IInv, WfTypeOK
<1>. QED
  BY <1>1, <1>2 DEF IInv, OneHolder, HoldsRow, SoundCall, Working, Current, LeavesTask, RowsSound,
     VersionIsLength, TaskStateHasTask, AnnouncedIsCommitted

\* What a call does that commits nothing.
LEMMA StepQuiet ==
  ASSUME IInv, NEW r \in Calls, NEW e \in Entities, NEW t \in Transitions \cup {NoTransition},
         NEW actor \in {"CITIZEN", "SYSTEM"}, NEW joined \in BOOLEAN,
         \/ ActOnTask(r, e, t) \/ Execute(r, e, t, actor, joined) \/ Escalate(r, e)
  PROVE  IInv'
<1>1. {"CITIZEN", "OFFICER", "SYSTEM"} \subseteq Contract!Actors
  BY DEF Contract!Actors, Contract!SystemActor
<1>2. sweep \in [listed : SUBSET Entities, current : Calls \cup {NoCall}]
  BY DEF IInv, WfTypeOK
<1>3. CASE ActOnTask(r, e, t)
  BY <1>1, <1>2, <1>3, StepCalled DEF ActOnTask
<1>4. CASE Execute(r, e, t, actor, joined)
  BY <1>1, <1>2, <1>4, StepCalled DEF Execute
<1>5. CASE Escalate(r, e)
  BY <1>1, <1>2, <1>5, StepCalled, WorkflowAssumption DEF Escalate
<1>. QED  BY <1>3, <1>4, <1>5

\* Every step but a commit leaves the rows and the audit trail alone.
LEMMA NextCases ==
  ASSUME IInv, [WfNext]_wfVars
  PROVE  \/ \E r \in Calls : Commits(r)
         \/ UNCHANGED <<entity, audit>> /\ IInv'
<1>1. CASE UNCHANGED wfVars
  <2>1. WfTypeOK'
    BY <1>1 DEF wfVars, IInv, WfTypeOK
  <2>2. OneHolder'
    BY <1>1 DEF wfVars, IInv, OneHolder, HoldsRow
  <2>3. (\A r \in Calls : SoundCall(call[r]))'
    BY <1>1 DEF wfVars, IInv, SoundCall, Working, Current, LeavesTask
  <2>4. RowsSound'
    BY <1>1 DEF wfVars, IInv, RowsSound, VersionIsLength, TaskStateHasTask, AnnouncedIsCommitted
  <2>. QED  BY <1>1, <2>1, <2>2, <2>3, <2>4 DEF wfVars, IInv
<1>2. CASE ListOverdue \/ EscalationReturns
  BY <1>2, StepSweep DEF ListOverdue, EscalationReturns
<1>3. ASSUME NEW r \in Calls, CallStep(r)
      PROVE  Commits(r) \/ (UNCHANGED <<entity, audit>> /\ IInv')
  <2>1. CASE Load(r)
    BY <2>1, StepLoad DEF Load
  <2>2. CASE LockTimeout(r) \/ Raise(r) \/ CallerRollsBack(r) \/ Dies(r)
    BY <2>2, StepGivesUp DEF LockTimeout, Raise, CallerRollsBack, Dies, RolledBack
  <2>3. CASE Update(r)
    BY <2>3, StepUpdate DEF Update
  <2>4. CASE Work(r)
    BY <2>4, StepWork DEF Work
  <2>5. CASE WriteAudit(r)
    BY <2>5, StepWriteAudit DEF WriteAudit
  <2>6. CASE RunHooks(r)
    BY <2>6, StepRunHooks DEF RunHooks
  <2>. QED  BY <1>3, <2>1, <2>2, <2>3, <2>4, <2>5, <2>6 DEF CallStep, Commits
<1>4. ASSUME NEW r \in Calls, NEW e \in Entities, NEW t \in Transitions \cup {NoTransition},
             NEW actor \in {"CITIZEN", "SYSTEM"}, NEW joined \in BOOLEAN,
             \/ ActOnTask(r, e, t) \/ Execute(r, e, t, actor, joined) \/ Escalate(r, e)
      PROVE  UNCHANGED <<entity, audit>> /\ IInv'
  BY <1>4, StepQuiet DEF ActOnTask, Execute, Escalate
<1>5. ASSUME NEW r \in Calls, NEW e \in Entities, Escalate(r, e)
      PROVE  UNCHANGED <<entity, audit>> /\ IInv'
  <2>1. "SYSTEM" \in {"CITIZEN", "SYSTEM"} /\ NoTransition \in Transitions \cup {NoTransition}
    OBVIOUS
  <2>. QED  BY <1>4, <1>5, <2>1
<1>. QED
  <2>1. ASSUME NEW r \in Calls, NEW e \in Entities, NEW t \in Transitions \cup {NoTransition},
               ActOnTask(r, e, t)
        PROVE  UNCHANGED <<entity, audit>> /\ IInv'
    <3>1. "SYSTEM" \in {"CITIZEN", "SYSTEM"} /\ TRUE \in BOOLEAN
      OBVIOUS
    <3>. QED  BY <1>4, <2>1, <3>1
  <2>. QED  BY <1>1, <1>2, <1>3, <1>4, <1>5, <2>1 DEF WfNext

LEMMA NextHolds == CarefulCallers /\ IInv /\ [WfNext]_wfVars => IInv'
BY NextCases, StepCommits

-----------------------------------------------------------------------------
\* The inductive invariant: a call that has not given up holds its row alone and
\* knows what is committed, and the rows are sound.
THEOREM WfInvariant ==
  ASSUME CarefulCallers PROVE WfSpec => []IInv
BY InitHolds, NextHolds, PTL DEF WfSpec

\* Every row, task and call keeps its declared shape (all steps of executeTransition).
THEOREM WfTypeCorrect ==
  ASSUME CarefulCallers PROVE WfSpec => []WfTypeOK
<1>1. IInv => WfTypeOK
  BY DEF IInv
<1>. QED  BY <1>1, WfInvariant, PTL

\* The hooks that run after a commit speak of moves in the audit trail only (engine.ts:267).
THEOREM AnnouncedCommitted ==
  ASSUME CarefulCallers PROVE WfSpec => []AnnouncedIsCommitted
<1>1. IInv => AnnouncedIsCommitted
  BY DEF IInv, RowsSound
<1>. QED  BY <1>1, WfInvariant, PTL

\* An entity in a state that requires a task has one, unless it went from the state to
\* itself (ASSIGN_NEXT_TASK, the safety net and completeCurrentTask).
THEOREM TasksInTaskStates ==
  ASSUME CarefulCallers PROVE WfSpec => []TaskStateHasTask
<1>1. IInv => TaskStateHasTask
  BY DEF IInv, RowsSound
<1>. QED  BY <1>1, WfInvariant, PTL

\* The engine implements its contract: seen from the database, an entity moves along one
\* permitted transition at a time and the audit trail with it (row lock, one transaction).
THEOREM Refinement ==
  ASSUME CarefulCallers PROVE WfSpec => MovesAreAudited
<1>1. WfInit => Contract!ContractInit
  BY DEF WfInit, Contract!ContractInit
<1>2. IInv /\ [WfNext]_wfVars => [Contract!ContractNext]_<<[e \in Entities |-> entity[e].state], audit>>
  <2>. SUFFICES ASSUME IInv, [WfNext]_wfVars, ~UNCHANGED <<entity, audit>>
                PROVE  Contract!ContractNext
    OBVIOUS
  <2>1. PICK r \in Calls : Commits(r)
    BY NextCases
  <2>. DEFINE c == call[r]
              where == [e \in Entities |-> entity[e].state]
  <2>2. /\ c.entity \in Entities /\ c.transition \in Transitions
        /\ c.transition.from = entity[c.entity].state /\ Permits(c.transition, c.actor)
        /\ entity' = [entity EXCEPT ![c.entity] =
                        [state |-> c.transition.to, version |-> c.version + 1]]
        /\ audit' = [audit EXCEPT ![c.entity] = Append(@, AuditEvent(r))]
        /\ c.actor \in Contract!Actors
    BY <2>1, CommitsWhileWorking, CommitMoves
  <2>3. where' = [where EXCEPT ![c.entity] = c.transition.to]
    BY <2>2 DEF IInv, WfTypeOK
  <2>4. where[c.entity] = c.transition.from
    BY <2>2
  <2>. QED
    BY <2>2, <2>3, <2>4 DEF Contract!ContractNext, Contract!Move, Permits, AuditEvent
<1>. QED  BY <1>1, <1>2, WfInvariant, PTL DEF WfSpec, MovesAreAudited, Contract!ContractSpec
=============================================================================
