----------------------------- MODULE MCOffice -----------------------------
(***************************************************************************)
(* Instances for TLC of six parts of the system that share no state: the   *)
(* workflow engine, the access to language models, the configuration and   *)
(* idempotency of packages/api-core, uploads and the chat.  A behaviour is *)
(* one of active, which never changes; the others stay in their first      *)
(* state.                                                                  *)
(***************************************************************************)
EXTENDS WorkflowEngine, LlmProvider, ConfigGovernance, Idempotency, Uploads, Chat, TLC

CONSTANTS a1, a2, i1, i2, x1, x2, p1

VARIABLE active

Parts == {"workflow", "llm", "config", "key", "uploads", "chat"}

\* Where a part is not the active one its first states are one.
OfficeInit ==
  /\ active \in Parts
  /\ WfInit /\ LlmInit /\ GovInit /\ IdemInit /\ UpInit /\ ChatInit
  /\ active # "workflow" => \A e \in Entities : entity[e].state = "draft"
  /\ \A p \in Providers : ~provider[p].assigned /\ (active # "llm" => provider[p].here = (p = p1))
  /\ active # "chat" => \A t \in Talks : talk[t] = {}

OfficeNext ==
  /\ active' = active
  /\ \/ active = "workflow" /\ WfNext /\ UNCHANGED <<llmVars, govVars, idemVars, upVars, chatVars>>
     \/ active = "llm" /\ LlmNext /\ UNCHANGED <<wfVars, govVars, idemVars, upVars, chatVars>>
     \/ active = "config" /\ GovNext /\ UNCHANGED <<wfVars, llmVars, idemVars, upVars, chatVars>>
     \/ active = "key" /\ IdemNext /\ UNCHANGED <<wfVars, llmVars, govVars, upVars, chatVars>>
     \/ active = "uploads" /\ UpNext /\ UNCHANGED <<wfVars, llmVars, govVars, idemVars, chatVars>>
     \/ active = "chat" /\ ChatNext /\ UNCHANGED <<wfVars, llmVars, govVars, idemVars, upVars>>

OfficeSpec ==
  OfficeInit /\ [][OfficeNext]_<<active, wfVars, llmVars, govVars, idemVars, upVars, chatVars>>

\* Types of the variables of the part that moves.
OfficeTypeOK ==
  \/ active = "workflow" /\ WfTypeOK
  \/ active = "llm" /\ LlmTypeOK
  \/ active = "config" /\ GovTypeOK
  \/ active = "key" /\ IdemTypeOK
  \/ active = "uploads" /\ UpTypeOK
  \/ active = "chat" /\ ChatTypeOK

-----------------------------------------------------------------------------
(* The instances.                                                          *)

Transition(from, to, trigger, allowed) ==
  [from |-> from, to |-> to, trigger |-> trigger, allowed |-> allowed, assigns |-> FALSE]
Escalated == Transition("review", "review", "system", {"SYSTEM"})
FewTransitions == {Transition("draft", "review", "manual", {"CITIZEN", "OFFICER"}),
                   Transition("review", "draft", "manual", {"CITIZEN", "OFFICER"}), Escalated}

Asked(default, assigned) == [default |-> default, active |-> TRUE, assigned |-> assigned]
FewFields == {Asked("set", FALSE), Asked("keep", TRUE)}

OwnNames == [f \in Files |-> f]

\* Of uploads, one batch of several entries, or batches and visits with one entry.
FewUploads ==
  \/ visit = 0 /\ Cardinality({b \in Batches : batch[b].pc # "idle"}) <= 1
  \/ Cardinality(listed \cup UNION {FilesOf(b) : b \in Batches} \cup {q.file : q \in serverUpload}) <= 1

Alike == {p @@ q @@ r : p \in Permutations({a1, a2}), q \in Permutations({i1, i2}),
                        r \in Permutations({x1, x2})}
=============================================================================
