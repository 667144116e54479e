-------------------------- MODULE WorkflowContract --------------------------
(***************************************************************************)
(* What the workflow engine (packages/workflow-engine) promises to those   *)
(* who look at the database: an entity moves along one transition of its   *)
(* definition at a time, from the state it is in, by an actor who may take *)
(* that transition, and the audit trail records the move in the same step. *)
(***************************************************************************)
EXTENDS Sequences

CONSTANTS
  Entities,     \* the entities that have a workflow
  WfStates,     \* the states of the definition
  Transitions   \* its transitions: from, to, trigger, allowed and assigns

VARIABLES where, history

SystemActor == "SYSTEM"
Actors == {"CITIZEN", "OFFICER", SystemActor}

\* validateTrigger and the guards: allowed stands for what ACTOR_TYPE and ACTOR_ROLE admit.
Permits(t, actor) ==
  /\ ~(t.trigger = "manual" /\ actor = SystemActor)
  /\ actor \in t.allowed

AuditEvent(t, actor) == [transition |-> t, actor |-> actor]

ContractInit ==
  /\ where \in [Entities -> WfStates]
  /\ history = [e \in Entities |-> <<>>]

Move(e, t, actor) ==
  /\ where[e] = t.from /\ Permits(t, actor)
  /\ where' = [where EXCEPT ![e] = t.to]
  /\ history' = [history EXCEPT ![e] = Append(@, AuditEvent(t, actor))]

ContractNext == \E e \in Entities, t \in Transitions, actor \in Actors : Move(e, t, actor)

ContractSpec == ContractInit /\ [][ContractNext]_<<where, history>>
=============================================================================
