-------------------------- MODULE ConfigGovernance --------------------------
(***************************************************************************)
(* The life of the versions of one type of configuration                   *)
(* (packages/api-core/src/routes/config-governance-routes.ts).  Every      *)
(* statement is a transaction of its own; a request that takes several is  *)
(* one of GovCalls while it is under way.  created_by never changes, so    *)
(* approve's SELECT and its UPDATE are one step.                           *)
(***************************************************************************)
EXTENDS Naturals, Sequences, FiniteSets

CONSTANTS
  GovCalls,      \* requests that may be under way at once
  Admins,        \* users, all of them administrators
  NoAdmin,
  MaxVersions    \* BOUND: versions created

ASSUME GovAssumption == NoAdmin \notin Admins /\ IsFiniteSet(GovCalls) /\ MaxVersions \in Nat

VARIABLES
  versions,      \* the rows of config_governance, by version_number
  govCall,       \* the locals of the requests
  peak           \* history: the most requests that were under way together

govVars == <<versions, govCall, peak>>

-----------------------------------------------------------------------------
VersionStatus == {"DRAFT", "PENDING_REVIEW", "APPROVED", "PUBLISHED", "SUPERSEDED", "ROLLED_BACK"}
Version == [status : VersionStatus, createdBy : Admins, approvedBy : Admins \cup {NoAdmin}]

Having(S) == {v \in DOMAIN versions : versions[v].status \in S}
Published == Having({"PUBLISHED"})
Sets(v, s) == versions' = [versions EXCEPT ![v].status = s]

NotGoverning == [pc |-> "idle", version |-> 0]
GovSteps == {"insert", "supersede", "publish", "republish"}
GovAt(c, pc) == govCall[c].pc = pc
GovGoes(c, pc) == govCall' = [govCall EXCEPT ![c].pc = pc] /\ UNCHANGED peak
GovUnderWay == {c \in GovCalls : ~GovAt(c, "idle")}

GovBegins(c, pc, v) ==
  /\ GovAt(c, "idle")
  /\ govCall' = [govCall EXCEPT ![c] = [pc |-> pc, version |-> v]]
  /\ LET n == Cardinality(GovUnderWay) + 1
     IN peak' = IF n > peak THEN n ELSE peak
GovEnds(c) == govCall' = [govCall EXCEPT ![c] = NotGoverning] /\ UNCHANGED peak

\* SELECT MAX(version_number) + 1.
CreateVersion(c) ==
  /\ Len(versions) < MaxVersions
  /\ GovBegins(c, "insert", Len(versions) + 1) /\ UNCHANGED versions

\* UNIQUE (config_type, version_number) refuses a number that is taken.
InsertVersion(c) ==
  /\ GovAt(c, "insert") /\ GovEnds(c)
  /\ IF govCall[c].version \in DOMAIN versions THEN UNCHANGED versions
     ELSE \E u \in Admins : versions' = Append(versions,
            [status |-> "DRAFT", createdBy |-> u, approvedBy |-> NoAdmin])

SubmitVersion(v) ==
  v \in Having({"DRAFT"}) /\ Sets(v, "PENDING_REVIEW") /\ UNCHANGED <<govCall, peak>>

\* Lets the author approve.
ApproveAny(v, u) ==
  /\ v \in Having({"PENDING_REVIEW"})
  /\ versions' = [versions EXCEPT ![v].status = "APPROVED", ![v].approvedBy = u]
  /\ UNCHANGED <<govCall, peak>>
ApproveVersion(v, u) ==
  /\ v \in Having({"PENDING_REVIEW"}) /\ versions[v].createdBy # u
  /\ versions' = [versions EXCEPT ![v].status = "APPROVED", ![v].approvedBy = u]
  /\ UNCHANGED <<govCall, peak>>

PublishVersion(c, v) ==
  v \in Having({"APPROVED"}) /\ GovBegins(c, "supersede", v) /\ UNCHANGED versions

\* Supersedes after the UPDATE that publishes: nothing, when its turn comes.
SupersedeNone(c) == GovAt(c, "supersede") /\ GovGoes(c, "publish") /\ UNCHANGED versions
SupersedePublished(c) ==
  /\ GovAt(c, "supersede") /\ GovGoes(c, "publish")
  /\ versions' = [v \in DOMAIN versions |->
       IF v \in Published THEN [versions[v] EXCEPT !.status = "SUPERSEDED"] ELSE versions[v]]

\* One that is no longer APPROVED stays as it is, and the answer is 200.
PublishApproved(c) ==
  LET v == govCall[c].version
  IN /\ GovAt(c, "publish") /\ GovEnds(c)
     /\ IF v \in Having({"APPROVED"}) THEN Sets(v, "PUBLISHED") ELSE UNCHANGED versions

RollBack(c, v) ==
  /\ v \in Published /\ Sets(v, "ROLLED_BACK")
  /\ IF v > 1 THEN GovBegins(c, "republish", v)
     ELSE GovAt(c, "idle") /\ UNCHANGED <<govCall, peak>>

\* The greatest lower version, which may never have been published.
Republish(c) ==
  LET lower == {v \in Having({"SUPERSEDED", "APPROVED"}) : v < govCall[c].version}
  IN /\ GovAt(c, "republish") /\ GovEnds(c)
     /\ \/ lower = {} /\ UNCHANGED versions
        \/ \E v \in lower : (\A u \in lower : u <= v) /\ Sets(v, "PUBLISHED")

GovFails(c) == ~GovAt(c, "idle") /\ GovEnds(c) /\ UNCHANGED versions

GovInit ==
  /\ versions = <<>>
  /\ govCall = [c \in GovCalls |-> NotGoverning]
  /\ peak = 1

GovNext ==
  \/ \E c \in GovCalls :
       \/ CreateVersion(c) \/ InsertVersion(c) \/ SupersedePublished(c) \/ PublishApproved(c)
       \/ Republish(c) \/ GovFails(c)
       \/ \E v \in DOMAIN versions : PublishVersion(c, v) \/ RollBack(c, v)
  \/ \E v \in DOMAIN versions :
       SubmitVersion(v) \/ \E u \in Admins : ApproveVersion(v, u)

GovSpec == GovInit /\ [][GovNext]_govVars

-----------------------------------------------------------------------------
(* Properties.                                                             *)

\* Types of the variables.
GovTypeOK ==
  /\ versions \in Seq(Version)
  /\ govCall \in [GovCalls -> [pc : GovSteps \cup {"idle"}, version : Nat]]
  /\ peak \in Nat

\* No more versions are published than requests were ever under way together, whatever
\* was published, rolled back or left half done (two statements each,
\* config-governance-routes.ts:202-213, 238-260), and each has been approved by somebody
\* else than its author, also one that a rollback brings back.
PublishedIsAccountedFor ==
  /\ Cardinality(Published) <= peak
  /\ \A v \in Published :
       versions[v].approvedBy # NoAdmin /\ versions[v].approvedBy # versions[v].createdBy
=============================================================================
