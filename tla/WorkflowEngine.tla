--------------------------- MODULE WorkflowEngine ---------------------------
(***************************************************************************)
(* executeTransition of packages/workflow-engine/src/core/engine.ts, the   *)
(* transaction manager under it, and the two that call it in               *)
(* packages/api-core: the action on a task (routes/task-routes.ts) and the *)
(* escalation of overdue tasks (scheduler/sla-scheduler.ts).               *)
(*                                                                         *)
(* An action is what the engine does between two awaits that other calls   *)
(* can get in between of.  The storage, task and audit adapters are not in *)
(* the repository: loadEntityForUpdate locks the row to the end of the     *)
(* transaction, completeCurrentTask completes the task of the state that   *)
(* the entity was loaded in, an ASSIGN_NEXT_TASK handler is registered and *)
(* creates the task of the target.  What a transaction writes is its own   *)
(* until it commits.                                                       *)
(***************************************************************************)
EXTENDS Naturals, Sequences, FiniteSets

CONSTANTS
  Entities, WfStates, Transitions,
  TaskStates,      \* the states with taskRequired and a roleId
  Escalation,      \* the transition called AUTO_ESCALATE
  NoTransition,    \* a transition (or an entity) that does not exist
  Calls,           \* BOUND: calls of executeTransition, each made at most once
  NoCall, NoEntity,
  CarefulCallers   \* do callers with a transaction of their own roll back on failure?

ASSUME WorkflowAssumption ==
  /\ TaskStates \subseteq WfStates
  /\ \A t \in Transitions : t.from \in WfStates /\ t.to \in WfStates
  /\ Escalation \in Transitions \cup {NoTransition} /\ NoTransition \notin Transitions
  /\ NoCall \notin Calls /\ NoEntity \notin Entities /\ CarefulCallers \in BOOLEAN

VARIABLES
  entity,     \* the rows: state and version
  audit,      \* the audit events of each entity
  openTask,   \* the states for which an entity has an open task
  call,       \* the locals of executeTransition and the writes of its transaction
  sweep,      \* the overdue entities still to be escalated, and the escalation under way
  announced   \* the events that the post-commit hooks were run for

wfVars == <<entity, audit, openTask, call, sweep, announced>>

Contract == INSTANCE WorkflowContract
              WITH where <- [e \in Entities |-> entity[e].state], history <- audit
Permits(t, actor) == Contract!Permits(t, actor)
AuditEvent(r) == Contract!AuditEvent(call[r].transition, call[r].actor)

-----------------------------------------------------------------------------
(* Calls and their transactions.                                           *)

InTransaction == {"update", "work", "audit", "commit"}
NotCalled == [pc |-> "idle", entity |-> NoEntity, transition |-> NoTransition, actor |-> "CITIZEN",
              joined |-> FALSE, ok |-> FALSE, version |-> 0, tasks |-> {}, moved |-> FALSE,
              audited |-> FALSE]

CallRecord ==
  [pc : InTransaction \cup {"idle", "load", "hooks", "caller", "done", "failed"},
   entity : Entities \cup {NoEntity}, transition : Transitions \cup {NoTransition},
   actor : Contract!Actors, joined : BOOLEAN, ok : BOOLEAN, version : Nat,
   tasks : SUBSET WfStates, moved : BOOLEAN, audited : BOOLEAN]

CallAt(r, pc) == call[r].pc = pc
CallGoes(r, pc) == call' = [call EXCEPT ![r].pc = pc]

\* The row of its entity is locked by a transaction that is open.
HoldsRow(r) == \/ call[r].pc \in InTransaction
               \/ call[r].joined /\ call[r].pc \in {"hooks", "caller"}
\* Takes no lock.
RowIsAlwaysFree(r) == TRUE
RowIsFree(r) == \A q \in Calls : HoldsRow(q) => q = r \/ call[q].entity # call[r].entity

\* Runs the hooks of every call.
OwnsEveryTransaction(r) == TRUE
OwnsTransaction(r) == ~call[r].joined

\* COMMIT of the transaction that the call ran in.
Committed(r) ==
  LET c == call[r]
      e == c.entity
  IN IF c.moved
     THEN /\ entity' = [entity EXCEPT ![e] = [state |-> c.transition.to, version |-> c.version + 1]]
          /\ openTask' = [openTask EXCEPT ![e] = c.tasks]
          /\ audit' = IF c.audited THEN [audit EXCEPT ![e] = Append(@, AuditEvent(r))] ELSE audit
     ELSE UNCHANGED <<entity, openTask, audit>>
RolledBack == UNCHANGED <<entity, openTask, audit>>

-----------------------------------------------------------------------------
(* executeTransition.                                                      *)

Called(r, e, t, actor, joined) ==
  /\ CallAt(r, "idle")
  /\ call' = [call EXCEPT ![r] = [NotCalled EXCEPT !.pc = "load", !.entity = e, !.transition = t,
                                                  !.actor = actor, !.joined = joined]]

\* An officer acts on a task that was open when the route looked, with any action.
ActOnTask(r, e, t) ==
  /\ openTask[e] # {} /\ Called(r, e, t, "OFFICER", FALSE)
  /\ UNCHANGED <<entity, audit, openTask, sweep, announced>>

\* Anyone else, perhaps inside a transaction of their own.
Execute(r, e, t, actor, joined) ==
  /\ actor # "OFFICER" /\ Called(r, e, t, actor, joined)
  /\ UNCHANGED <<entity, audit, openTask, sweep, announced>>

Refuses(e, t, actor) ==
  \/ t = NoTransition
  \/ t # NoTransition /\ (t.from # entity[e].state \/ ~Permits(t, actor))

\* Steps 1 to 6: the refused call commits nothing, or leaves it to its caller.
Load(r) ==
  LET c == call[r]
  IN /\ CallAt(r, "load") /\ RowIsFree(r)
     /\ IF Refuses(c.entity, c.transition, c.actor)
        THEN CallGoes(r, IF c.joined THEN "caller" ELSE "failed")
        ELSE call' = [call EXCEPT ![r].pc = "update",
                        ![r].version = entity[c.entity].version,
                        ![r].tasks = openTask[c.entity]]
     /\ UNCHANGED <<entity, audit, openTask, sweep, announced>>

\* SET LOCAL lock_timeout, which a caller's transaction lacks.
LockTimeout(r) ==
  /\ CallAt(r, "load") /\ ~RowIsFree(r) /\ OwnsTransaction(r)
  /\ CallGoes(r, "failed")
  /\ UNCHANGED <<entity, audit, openTask, sweep, announced>>

\* Steps 7 and 8: onBeforeTransition and updateEntityState.
Update(r) ==
  /\ CallAt(r, "update")
  /\ call' = [call EXCEPT ![r].pc = "work", ![r].moved = TRUE]
  /\ UNCHANGED <<entity, audit, openTask, sweep, announced>>

\* Files the task under the role instead of the state.
CreatesTaskOfRole(t) == IF t.assigns \/ t.to \in TaskStates THEN {"REVIEWER"} ELSE {}
\* The task of the target is created by ASSIGN_NEXT_TASK, or else by the safety net.
CreatedTasks(t) == IF t.assigns \/ t.to \in TaskStates THEN {t.to} ELSE {}
\* Completes the task it has just created.
CompletesNextTask(t, actor) == IF actor = "SYSTEM" THEN {} ELSE {t.to}
CompletedTasks(t, actor) == IF actor = "SYSTEM" THEN {} ELSE {t.from}

\* The actions, the safety net and then completeCurrentTask.
Work(r) ==
  LET c == call[r]
      t == c.transition
  IN /\ CallAt(r, "work")
     /\ call' = [call EXCEPT ![r].pc = "audit",
                   ![r].tasks = (c.tasks \cup CreatedTasks(t)) \ CompletedTasks(t, c.actor)]
     /\ UNCHANGED <<entity, audit, openTask, sweep, announced>>

\* Step 11; in a transaction of the caller's there is nothing to commit yet.
WriteAudit(r) ==
  /\ CallAt(r, "audit")
  /\ call' = [call EXCEPT ![r].pc = IF call[r].joined THEN "hooks" ELSE "commit",
                          ![r].audited = TRUE, ![r].ok = TRUE]
  /\ UNCHANGED <<entity, audit, openTask, sweep, announced>>

\* A hook, an action or a query throws.  The engine rolls back what it owns and tells a
\* caller of the failure without throwing: what was written so far stays in the
\* caller's transaction.
Raise(r) ==
  /\ call[r].pc \in {"update", "work", "audit"}
  /\ CallGoes(r, IF call[r].joined THEN "caller" ELSE "failed")
  /\ UNCHANGED <<entity, audit, openTask, sweep, announced>>

Commit(r) ==
  /\ CallAt(r, "commit") /\ Committed(r) /\ CallGoes(r, "hooks")
  /\ UNCHANGED <<sweep, announced>>

\* Step 12.
RunHooks(r) ==
  /\ CallAt(r, "hooks")
  /\ announced' = IF OwnsTransaction(r)
                  THEN announced \cup {[entity |-> call[r].entity, version |-> call[r].version + 1]}
                  ELSE announced
  /\ CallGoes(r, IF call[r].joined THEN "caller" ELSE "done")
  /\ UNCHANGED <<entity, audit, openTask, sweep>>

\* The caller ends its transaction.
CallerCommits(r) ==
  /\ CallAt(r, "caller") /\ (CarefulCallers => call[r].ok)
  /\ Committed(r) /\ CallGoes(r, "done")
  /\ UNCHANGED <<sweep, announced>>
CallerRollsBack(r) ==
  /\ CallAt(r, "caller") /\ RolledBack /\ CallGoes(r, "failed")
  /\ UNCHANGED <<sweep, announced>>

\* The process or its connection is lost, before the hooks of a committed call too.
Dies(r) ==
  /\ call[r].pc \in InTransaction \cup {"load", "hooks", "caller"}
  /\ RolledBack /\ CallGoes(r, "failed")
  /\ UNCHANGED <<sweep, announced>>

-----------------------------------------------------------------------------
(* The SLA scheduler: one instance at a time holds the advisory lock.      *)

CallEnded(r) == call[r].pc \in {"done", "failed"}

ListOverdue ==
  /\ sweep.listed = {} /\ sweep.current = NoCall
  /\ \E late \in SUBSET {e \in Entities : openTask[e] # {}} \ {{}} :
       sweep' = [sweep EXCEPT !.listed = late]
  /\ UNCHANGED <<entity, audit, openTask, call, announced>>

Escalate(r, e) ==
  /\ e \in sweep.listed /\ sweep.current = NoCall
  /\ Called(r, e, Escalation, "SYSTEM", FALSE)
  /\ sweep' = [listed |-> sweep.listed \ {e}, current |-> r]
  /\ UNCHANGED <<entity, audit, openTask, announced>>

EscalationReturns ==
  /\ sweep.current # NoCall /\ CallEnded(sweep.current)
  /\ sweep' = [sweep EXCEPT !.current = NoCall]
  /\ UNCHANGED <<entity, audit, openTask, call, announced>>

WfInit ==
  /\ entity \in [Entities -> [state : WfStates, version : {0}]]
  /\ audit = [e \in Entities |-> <<>>]
  /\ openTask = [e \in Entities |-> {}]
  /\ call = [r \in Calls |-> NotCalled]
  /\ sweep = [listed |-> {}, current |-> NoCall]
  /\ announced = {}

CallStep(r) ==
  \/ Load(r) \/ LockTimeout(r) \/ Update(r) \/ Work(r) \/ WriteAudit(r) \/ Raise(r)
  \/ Commit(r) \/ RunHooks(r) \/ CallerCommits(r) \/ CallerRollsBack(r) \/ Dies(r)

WfNext ==
  \/ \E r \in Calls :
       \/ CallStep(r)
       \/ \E e \in Entities, t \in Transitions \cup {NoTransition} :
            \/ ActOnTask(r, e, t)
            \/ \E actor \in {"CITIZEN", "SYSTEM"}, joined \in BOOLEAN :
                 Execute(r, e, t, actor, joined)
       \/ \E e \in Entities : Escalate(r, e)
  \/ ListOverdue \/ EscalationReturns

WfSpec == WfInit /\ [][WfNext]_wfVars

-----------------------------------------------------------------------------
(* Properties.                                                             *)

\* Types of the variables.
WfTypeOK ==
  /\ entity \in [Entities -> [state : WfStates, version : Nat]]
  /\ audit \in [Entities -> Seq([transition : Transitions, actor : Contract!Actors])]
  /\ openTask \in [Entities -> SUBSET WfStates]
  /\ call \in [Calls -> CallRecord]
  /\ sweep \in [listed : SUBSET Entities, current : Calls \cup {NoCall}]
  /\ announced \subseteq [entity : Entities, version : Nat]

\* What is committed moves as the contract says: no two calls move an entity from the same
\* state, and state and audit trail change together, whoever fails or dies (engine.ts holds
\* the row lock from the check of the state to the commit).
MovesAreAudited == Contract!ContractSpec

\* Post-commit hooks are only run for moves that the audit trail has: never for a
\* transaction that its caller may still roll back (engine.ts:267).
AnnouncedIsCommitted ==
  \A a \in announced : a.version <= Len(audit[a.entity])

\* An entity that has come into a state which requires a task has an open one, but for a
\* transition from the state to itself, whose task completeCurrentTask completes
\* (engine.ts:178-233).
TaskStateHasTask ==
  \A e \in Entities :
    audit[e] # <<>> /\ entity[e].state \in TaskStates =>
      LET last == audit[e][Len(audit[e])].transition
      IN last.from # last.to => entity[e].state \in openTask[e]
=============================================================================
