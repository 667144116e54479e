--------------------------- MODULE ApiCoreProofs ---------------------------
(***************************************************************************)
(* What holds of the three modules of packages/api-core, for any number of *)
(* requests, users, versions, providers, completions and attempts:         *)
(* ConfigGovernance, LlmProvider and Idempotency, which share nothing.     *)
(***************************************************************************)
EXTENDS ConfigGovernance, LlmProvider, Idempotency, FiniteSetTheorems, SequenceTheorems, TLAPS

-----------------------------------------------------------------------------
(* Configuration governance: the invariant.                                *)

ReviewedStatus == VersionStatus \ {"DRAFT", "PENDING_REVIEW"}
Reviewed(v) == versions[v].approvedBy # NoAdmin /\ versions[v].approvedBy # versions[v].createdBy

\* The requests that may still publish a version: those that have superseded the
\* others, and the rollbacks that have taken theirs back.
Publishing == {c \in GovCalls : govCall[c].pc \in {"publish", "republish"}}

GovInv ==
  /\ GovTypeOK
  /\ \A v \in DOMAIN versions : versions[v].status \in ReviewedStatus => Reviewed(v)
  /\ Cardinality(GovUnderWay) <= peak
  /\ Cardinality(Published) + Cardinality(Publishing) <= peak

-----------------------------------------------------------------------------
Counted ==
  /\ DOMAIN versions = 1..Len(versions) /\ Len(versions) \in Nat
  /\ IsFiniteSet(Published) /\ Cardinality(Published) \in Nat
  /\ IsFiniteSet(Publishing) /\ Cardinality(Publishing) \in Nat
  /\ IsFiniteSet(GovUnderWay) /\ Cardinality(GovUnderWay) \in Nat
  /\ Cardinality(Publishing) <= Cardinality(GovUnderWay)

LEMMA SetsFinite == GovTypeOK => Counted
<1>. SUFFICES ASSUME GovTypeOK PROVE Counted
  OBVIOUS
<1>1. DOMAIN versions = 1..Len(versions) /\ Len(versions) \in Nat
  BY DEF GovTypeOK
<1>2. IsFiniteSet(DOMAIN versions)
  BY <1>1, FS_Interval
<1>3. Published \in SUBSET DOMAIN versions
  BY DEF Published, Having
<1>4. GovUnderWay \in SUBSET GovCalls /\ Publishing \in SUBSET GovUnderWay
  BY DEF GovUnderWay, Publishing, GovAt
<1>5. IsFiniteSet(GovUnderWay)
  BY <1>4, GovAssumption, FS_Subset
<1>6. IsFiniteSet(Publishing) /\ Cardinality(Publishing) <= Cardinality(GovUnderWay)
  BY <1>4, <1>5, FS_Subset
<1>7. IsFiniteSet(Published)
  BY <1>2, <1>3, FS_Subset
<1>. QED  BY <1>1, <1>5, <1>6, <1>7, FS_CardinalityType DEF Counted

\* What a step may do to the versions that are published and to the requests.
LEMMA CountsKept ==
  ASSUME GovInv, GovTypeOK', peak' >= peak,
         Cardinality(GovUnderWay') <= peak',
         \/ Published' \subseteq Published /\ Publishing' \subseteq Publishing
         \/ Published' = {}
         \/ \E v, c : /\ Published' \subseteq Published \cup {v}
                      /\ c \in Publishing /\ Publishing' \subseteq Publishing \ {c}
         \/ \E v, c : /\ v \in Published /\ Published' \subseteq Published \ {v}
                      /\ Publishing' \subseteq Publishing \cup {c}
  PROVE  Cardinality(Published') + Cardinality(Publishing') <= peak'
<1>. DEFINE P == Published  Q == Publishing  U == GovUnderWay
<1>1. /\ IsFiniteSet(P) /\ Cardinality(P) \in Nat
      /\ IsFiniteSet(Q) /\ Cardinality(Q) \in Nat
  BY SetsFinite DEF GovInv, Counted
<1>2. /\ IsFiniteSet(P') /\ Cardinality(P') \in Nat
      /\ IsFiniteSet(Q') /\ Cardinality(Q') \in Nat
      /\ Cardinality(Q') <= Cardinality(U') /\ Cardinality(U') \in Nat
  <2>1. Counted'
    BY SetsFinite, PTL
  <2>. QED  BY <2>1 DEF Counted
<1>3. Cardinality(P) + Cardinality(Q) <= peak /\ peak \in Nat /\ peak' \in Nat
  BY DEF GovInv, GovTypeOK
<1>4. CASE P' \subseteq P /\ Q' \subseteq Q
  <2>1. Cardinality(P') <= Cardinality(P) /\ Cardinality(Q') <= Cardinality(Q)
    BY <1>1, <1>4, FS_Subset
  <2>. QED  BY <1>1, <1>2, <1>3, <2>1
<1>5. CASE P' = {}
  <2>1. Cardinality(P') = 0
    BY <1>5, FS_EmptySet
  <2>. QED  BY <1>2, <1>3, <2>1
<1>6. ASSUME NEW v, NEW c, P' \subseteq P \cup {v}, c \in Q, Q' \subseteq Q \ {c}
      PROVE  Cardinality(P') + Cardinality(Q') <= peak'
  <2>1. /\ IsFiniteSet(P \cup {v}) /\ Cardinality(P \cup {v}) \in Nat
        /\ Cardinality(P \cup {v}) <= Cardinality(P) + 1
    BY <1>1, FS_AddElement, FS_CardinalityType
  <2>2. IsFiniteSet(Q \ {c}) /\ Cardinality(Q \ {c}) = Cardinality(Q) - 1
    BY <1>1, <1>6, FS_RemoveElement
  <2>3. Cardinality(P') <= Cardinality(P \cup {v}) /\ Cardinality(Q') <= Cardinality(Q \ {c})
    BY <1>6, <2>1, <2>2, FS_Subset
  <2>. QED  BY <1>1, <1>2, <1>3, <2>1, <2>2, <2>3
<1>7. ASSUME NEW v, NEW c, v \in P, P' \subseteq P \ {v}, Q' \subseteq Q \cup {c}
      PROVE  Cardinality(P') + Cardinality(Q') <= peak'
  <2>1. IsFiniteSet(P \ {v}) /\ Cardinality(P \ {v}) = Cardinality(P) - 1
    BY <1>1, <1>7, FS_RemoveElement
  <2>2. /\ IsFiniteSet(Q \cup {c}) /\ Cardinality(Q \cup {c}) \in Nat
        /\ Cardinality(Q \cup {c}) <= Cardinality(Q) + 1
    <3>1. /\ IsFiniteSet(Q \cup {c})
          /\ Cardinality(Q \cup {c}) = IF c \in Q THEN Cardinality(Q) ELSE Cardinality(Q) + 1
      BY <1>1, FS_AddElement
    <3>. QED  BY <1>1, <3>1
  <2>3. Cardinality(P') <= Cardinality(P \ {v}) /\ Cardinality(Q') <= Cardinality(Q \cup {c})
    BY <1>7, <2>1, <2>2, FS_Subset
  <2>. QED  BY <1>1, <1>2, <1>3, <2>1, <2>2, <2>3
<1>. QED  BY <1>4, <1>5, <1>6, <1>7

-----------------------------------------------------------------------------
(* What each kind of step does to the versions and to the requests.        *)

LEMMA SetsKeeps ==
  ASSUME GovTypeOK, NEW v \in DOMAIN versions, NEW s \in VersionStatus, Sets(v, s)
  PROVE  /\ versions' \in Seq(Version) /\ DOMAIN versions' = DOMAIN versions
         /\ versions'[v].status = s /\ versions'[v].createdBy = versions[v].createdBy
         /\ versions'[v].approvedBy = versions[v].approvedBy
         /\ \A u \in DOMAIN versions : u # v => versions'[u] = versions[u]
<1>1. versions[v] \in Version /\ v \in 1..Len(versions)
  BY DEF GovTypeOK
<1>2. /\ [versions[v] EXCEPT !.status = s] \in Version
      /\ [versions[v] EXCEPT !.status = s].status = s
      /\ [versions[v] EXCEPT !.status = s].createdBy = versions[v].createdBy
      /\ [versions[v] EXCEPT !.status = s].approvedBy = versions[v].approvedBy
  BY <1>1 DEF Version
<1>3. versions' = [versions EXCEPT ![v] = [versions[v] EXCEPT !.status = s]]
  BY DEF Sets
<1>4. versions' \in Seq(Version) /\ Len(versions') = Len(versions)
  BY <1>1, <1>2, <1>3, ExceptSeq DEF GovTypeOK
<1>5. DOMAIN versions' = DOMAIN versions /\ DOMAIN versions = 1..Len(versions)
  BY <1>4 DEF GovTypeOK
<1>. QED  BY <1>2, <1>3, <1>4, <1>5

LEMMA EndsKeeps ==
  ASSUME GovInv, NEW c \in GovCalls, GovEnds(c)
  PROVE  /\ govCall' \in [GovCalls -> [pc : GovSteps \cup {"idle"}, version : Nat]]
         /\ peak' = peak /\ Cardinality(GovUnderWay') <= peak'
         /\ Publishing' \subseteq Publishing \ {c}
<1>1. /\ govCall' = [govCall EXCEPT ![c] = NotGoverning] /\ peak' = peak
      /\ NotGoverning \in [pc : GovSteps \cup {"idle"}, version : Nat]
      /\ NotGoverning.pc = "idle"
  BY DEF GovEnds, NotGoverning
<1>2. /\ govCall' \in [GovCalls -> [pc : GovSteps \cup {"idle"}, version : Nat]]
      /\ govCall'[c].pc = "idle" /\ \A b \in GovCalls \ {c} : govCall'[b] = govCall[b]
  BY <1>1 DEF GovInv, GovTypeOK
<1>3. GovUnderWay' \in SUBSET GovUnderWay
  BY <1>2 DEF GovUnderWay, GovAt
<1>4. Cardinality(GovUnderWay') <= Cardinality(GovUnderWay) /\ IsFiniteSet(GovUnderWay')
  BY <1>3, SetsFinite, FS_Subset DEF GovInv, Counted
<1>5. Cardinality(GovUnderWay') \in Nat
  BY <1>4, FS_CardinalityType
<1>6. Cardinality(GovUnderWay') <= peak'
  BY <1>1, <1>4, <1>5, SetsFinite DEF GovInv, Counted, GovTypeOK
<1>. QED  BY <1>1, <1>2, <1>6 DEF Publishing

LEMMA BeginsKeeps ==
  ASSUME GovInv, NEW c \in GovCalls, NEW pc \in GovSteps, NEW v \in Nat, GovBegins(c, pc, v)
  PROVE  /\ govCall' \in [GovCalls -> [pc : GovSteps \cup {"idle"}, version : Nat]]
         /\ peak' \in Nat /\ peak' >= peak /\ Cardinality(GovUnderWay') <= peak'
         /\ Publishing' \subseteq Publishing \cup {c}
         /\ pc \notin {"publish", "republish"} => Publishing' \subseteq Publishing
<1>. DEFINE new == [pc |-> pc, version |-> v]
<1>1. new \in [pc : GovSteps \cup {"idle"}, version : Nat] /\ new.pc = pc
  OBVIOUS
<1>2. govCall' = [govCall EXCEPT ![c] = new]
  BY DEF GovBegins
<1>. HIDE DEF new
<1>3. /\ govCall' \in [GovCalls -> [pc : GovSteps \cup {"idle"}, version : Nat]]
      /\ govCall'[c].pc = pc /\ \A b \in GovCalls \ {c} : govCall'[b] = govCall[b]
  BY <1>1, <1>2 DEF GovInv, GovTypeOK
<1>4. GovUnderWay' \subseteq GovUnderWay \cup {c}
  BY <1>3 DEF GovUnderWay, GovAt
<1>5. IsFiniteSet(GovUnderWay) /\ Cardinality(GovUnderWay) \in Nat
  BY SetsFinite DEF GovInv, Counted
<1>6. /\ IsFiniteSet(GovUnderWay \cup {c})
      /\ Cardinality(GovUnderWay \cup {c}) =
           IF c \in GovUnderWay THEN Cardinality(GovUnderWay) ELSE Cardinality(GovUnderWay) + 1
  BY <1>5, FS_AddElement
<1>7. Cardinality(GovUnderWay') <= Cardinality(GovUnderWay \cup {c}) /\ IsFiniteSet(GovUnderWay')
  BY <1>4, <1>6, FS_Subset
<1>8. Cardinality(GovUnderWay') \in Nat
  BY <1>7, FS_CardinalityType
<1>9. Cardinality(GovUnderWay') <= Cardinality(GovUnderWay) + 1
  BY <1>5, <1>6, <1>7, <1>8
<1>10. peak' \in Nat /\ peak' >= peak /\ peak' >= Cardinality(GovUnderWay) + 1
  BY <1>5 DEF GovBegins, GovInv, GovTypeOK
<1>11. Cardinality(GovUnderWay') <= peak'
  BY <1>5, <1>8, <1>9, <1>10
<1>. QED  BY <1>3, <1>10, <1>11 DEF Publishing

LEMMA GoesKeeps ==
  ASSUME GovInv, NEW c \in GovCalls, GovGoes(c, "publish"), ~GovAt(c, "idle")
  PROVE  /\ govCall' \in [GovCalls -> [pc : GovSteps \cup {"idle"}, version : Nat]]
         /\ peak' = peak /\ Cardinality(GovUnderWay') <= peak'
<1>1. [govCall[c] EXCEPT !.pc = "publish"] \in [pc : GovSteps \cup {"idle"}, version : Nat]
  BY DEF GovInv, GovTypeOK, GovSteps
<1>2. [govCall[c] EXCEPT !.pc = "publish"].pc = "publish"
  BY DEF GovInv, GovTypeOK
<1>3. govCall' = [govCall EXCEPT ![c] = [govCall[c] EXCEPT !.pc = "publish"]] /\ peak' = peak
  BY DEF GovGoes
<1>4. /\ govCall' \in [GovCalls -> [pc : GovSteps \cup {"idle"}, version : Nat]]
      /\ govCall'[c].pc = "publish" /\ \A b \in GovCalls \ {c} : govCall'[b] = govCall[b]
  BY <1>1, <1>2, <1>3 DEF GovInv, GovTypeOK
<1>5. GovUnderWay' = GovUnderWay
  BY <1>4 DEF GovUnderWay, GovAt
<1>. QED  BY <1>3, <1>4, <1>5 DEF GovInv

-----------------------------------------------------------------------------
(* The invariant is inductive: one step per action.                        *)

AllReviewed == \A v \in DOMAIN versions : versions[v].status \in ReviewedStatus => Reviewed(v)

LEMMA GovInvAfter ==
  ASSUME GovInv, versions' \in Seq(Version),
         govCall' \in [GovCalls -> [pc : GovSteps \cup {"idle"}, version : Nat]],
         peak' \in Nat, peak' >= peak, Cardinality(GovUnderWay') <= peak',
         AllReviewed',
         \/ Published' \subseteq Published /\ Publishing' \subseteq Publishing
         \/ Published' = {}
         \/ \E v, c : /\ Published' \subseteq Published \cup {v}
                      /\ c \in Publishing /\ Publishing' \subseteq Publishing \ {c}
         \/ \E v, c : /\ v \in Published /\ Published' \subseteq Published \ {v}
                      /\ Publishing' \subseteq Publishing \cup {c}
  PROVE  GovInv'
<1>1. GovTypeOK'
  BY DEF GovTypeOK
<1>2. Cardinality(Published') + Cardinality(Publishing') <= peak'
  BY <1>1, CountsKept
<1>. QED  BY <1>1, <1>2 DEF GovInv, AllReviewed, Reviewed

\* A version whose status alone changes stays reviewed if it was.
LEMMA SetsReviewed ==
  ASSUME GovInv, NEW v \in DOMAIN versions, NEW s \in VersionStatus, Sets(v, s),
         s \in ReviewedStatus => versions[v].status \in ReviewedStatus
  PROVE  /\ versions' \in Seq(Version) /\ AllReviewed'
         /\ Published' \subseteq Published \cup {v}
         /\ s # "PUBLISHED" => Published' \subseteq Published \ {v}
<1>1. /\ versions' \in Seq(Version) /\ DOMAIN versions' = DOMAIN versions
      /\ versions'[v].status = s /\ versions'[v].createdBy = versions[v].createdBy
      /\ versions'[v].approvedBy = versions[v].approvedBy
      /\ \A u \in DOMAIN versions : u # v => versions'[u] = versions[u]
  BY SetsKeeps DEF GovInv
<1>2. AllReviewed'
  BY <1>1 DEF AllReviewed, GovInv, Reviewed
<1>3. Published' \subseteq Published \cup {v}
  BY <1>1 DEF Published, Having
<1>4. s # "PUBLISHED" => Published' \subseteq Published \ {v}
  BY <1>1 DEF Published, Having
<1>. QED  BY <1>1, <1>2, <1>3, <1>4

LEMMA VersionsUnchanged ==
  ASSUME GovInv, UNCHANGED versions
  PROVE  versions' \in Seq(Version) /\ AllReviewed' /\ Published' = Published
BY DEF GovInv, GovTypeOK, AllReviewed, Reviewed, Published, Having

LEMMA CallsUnchanged ==
  ASSUME GovInv, UNCHANGED <<govCall, peak>>
  PROVE  /\ govCall' \in [GovCalls -> [pc : GovSteps \cup {"idle"}, version : Nat]]
         /\ peak' \in Nat /\ peak' >= peak /\ Cardinality(GovUnderWay') <= peak'
         /\ Publishing' = Publishing
<1>1. GovUnderWay' = GovUnderWay /\ Publishing' = Publishing
  BY DEF GovUnderWay, GovAt, Publishing
<1>. QED  BY <1>1 DEF GovInv, GovTypeOK

LEMMA NextGovInv == GovInv /\ [GovNext]_govVars => GovInv'
<1>. SUFFICES ASSUME GovInv, [GovNext]_govVars PROVE GovInv'
  OBVIOUS
<1>. /\ peak \in Nat /\ versions \in Seq(Version)
     /\ govCall \in [GovCalls -> [pc : GovSteps \cup {"idle"}, version : Nat]]
     /\ DOMAIN versions = 1..Len(versions) /\ Len(versions) \in Nat
  BY SetsFinite DEF GovInv, GovTypeOK, Counted
<1>. {"DRAFT", "PENDING_REVIEW", "APPROVED", "PUBLISHED", "SUPERSEDED", "ROLLED_BACK"} = VersionStatus
  BY DEF VersionStatus
<1>1. ASSUME NEW c \in GovCalls, CreateVersion(c) PROVE GovInv'
  <2>1. GovBegins(c, "insert", Len(versions) + 1) /\ UNCHANGED versions
    BY <1>1 DEF CreateVersion
  <2>. QED  BY <2>1, BeginsKeeps, VersionsUnchanged, GovInvAfter DEF GovSteps
<1>2. ASSUME NEW c \in GovCalls, InsertVersion(c) PROVE GovInv'
  <2>1. CASE UNCHANGED versions
    <3>1. GovEnds(c)
      BY <1>2 DEF InsertVersion
    <3>. QED  BY <2>1, <3>1, EndsKeeps, VersionsUnchanged, GovInvAfter
  <2>2. ASSUME NEW u \in Admins,
               versions' = Append(versions,
                 [status |-> "DRAFT", createdBy |-> u, approvedBy |-> NoAdmin])
        PROVE  GovInv'
    <3>. DEFINE new == [status |-> "DRAFT", createdBy |-> u, approvedBy |-> NoAdmin]
    <3>1. new \in Version /\ new.status = "DRAFT"
      BY DEF Version
    <3>2. versions' = Append(versions, new) /\ GovEnds(c)
      BY <1>2, <2>2 DEF InsertVersion
    <3>. HIDE DEF new
    <3>3. /\ versions' \in Seq(Version) /\ Len(versions') = Len(versions) + 1
          /\ \A v \in 1..Len(versions) : versions'[v] = versions[v]
          /\ versions'[Len(versions) + 1] = new
      BY <3>1, <3>2, AppendProperties
    <3>4. DOMAIN versions' = 1..(Len(versions) + 1)
      BY <3>3
    <3>5. "DRAFT" \notin ReviewedStatus
      BY DEF ReviewedStatus
    <3>6. AllReviewed'
      BY <3>1, <3>3, <3>4, <3>5 DEF AllReviewed, GovInv, Reviewed
    <3>7. Published' \subseteq Published
      BY <3>1, <3>3, <3>4 DEF Published, Having
    <3>. QED  BY <3>2, <3>3, <3>6, <3>7, EndsKeeps, GovInvAfter
  <2>. QED  BY <1>2, <2>1, <2>2 DEF InsertVersion
<1>3. ASSUME NEW v \in DOMAIN versions, SubmitVersion(v) PROVE GovInv'
  <2>1. /\ Sets(v, "PENDING_REVIEW") /\ UNCHANGED <<govCall, peak>>
        /\ "PENDING_REVIEW" \notin ReviewedStatus
    BY <1>3 DEF SubmitVersion, ReviewedStatus
  <2>2. versions' \in Seq(Version) /\ AllReviewed' /\ Published' \subseteq Published \ {v}
    BY <2>1, SetsReviewed
  <2>. QED  BY <2>1, <2>2, CallsUnchanged, GovInvAfter
<1>4. ASSUME NEW v \in DOMAIN versions, NEW u \in Admins, ApproveVersion(v, u) PROVE GovInv'
  <2>. DEFINE new == [versions[v] EXCEPT !.status = "APPROVED", !.approvedBy = u]
  <2>1. versions[v] \in Version /\ versions[v].createdBy # u /\ u # NoAdmin
    BY <1>4, GovAssumption DEF ApproveVersion
  <2>2. /\ new \in Version /\ new.status = "APPROVED" /\ new.approvedBy = u
        /\ new.createdBy = versions[v].createdBy
    BY <2>1 DEF Version
  <2>3. versions' = [versions EXCEPT ![v] = new] /\ UNCHANGED <<govCall, peak>>
    BY <1>4 DEF ApproveVersion
  <2>. HIDE DEF new
  <2>4. versions' \in Seq(Version) /\ Len(versions') = Len(versions)
    BY <2>2, <2>3, ExceptSeq
  <2>5. /\ DOMAIN versions' = DOMAIN versions /\ versions'[v] = new
        /\ \A i \in DOMAIN versions : i # v => versions'[i] = versions[i]
    BY <2>3, <2>4
  <2>6. AllReviewed'
    BY <2>1, <2>2, <2>5 DEF AllReviewed, GovInv, Reviewed
  <2>7. Published' \subseteq Published
    BY <2>2, <2>5 DEF Published, Having
  <2>. QED  BY <2>3, <2>4, <2>6, <2>7, CallsUnchanged, GovInvAfter
<1>5. ASSUME NEW c \in GovCalls, NEW v \in DOMAIN versions, PublishVersion(c, v) PROVE GovInv'
  <2>1. GovBegins(c, "supersede", v) /\ UNCHANGED versions /\ v \in Nat
    BY <1>5 DEF PublishVersion
  <2>. QED  BY <2>1, BeginsKeeps, VersionsUnchanged, GovInvAfter DEF GovSteps
<1>6. ASSUME NEW c \in GovCalls, SupersedePublished(c) PROVE GovInv'
  <2>. DEFINE new(v) == IF v \in Published THEN [versions[v] EXCEPT !.status = "SUPERSEDED"]
                                           ELSE versions[v]
  <2>1. GovGoes(c, "publish") /\ ~GovAt(c, "idle") /\ versions' = [v \in DOMAIN versions |-> new(v)]
    BY <1>6 DEF SupersedePublished, GovAt
  <2>2. \A v \in DOMAIN versions :
          /\ new(v) \in Version /\ new(v).status # "PUBLISHED"
          /\ new(v).createdBy = versions[v].createdBy
          /\ new(v).approvedBy = versions[v].approvedBy
          /\ new(v).status \in ReviewedStatus => versions[v].status \in ReviewedStatus
    <3>. TAKE v \in DOMAIN versions
    <3>1. versions[v] \in Version
      OBVIOUS
    <3>. QED  BY <3>1 DEF Version, Published, Having, ReviewedStatus
  <2>. HIDE DEF new
  <2>3. versions' \in Seq(Version) /\ DOMAIN versions' = DOMAIN versions
        /\ \A v \in DOMAIN versions : versions'[v] = new(v)
    <3>1. versions' \in [1..Len(versions) -> Version]
      BY <2>1, <2>2
    <3>. QED  BY <2>1, <3>1
  <2>4. AllReviewed'
    BY <2>2, <2>3 DEF AllReviewed, GovInv, Reviewed
  <2>5. Published' = {}
    BY <2>2, <2>3 DEF Published, Having
  <2>. QED  BY <2>1, <2>3, <2>4, <2>5, GoesKeeps, GovInvAfter
<1>7. ASSUME NEW c \in GovCalls, PublishApproved(c) PROVE GovInv'
  <2>. DEFINE v == govCall[c].version
  <2>1. GovEnds(c) /\ c \in Publishing
    BY <1>7 DEF PublishApproved, GovAt, Publishing
  <2>2. CASE UNCHANGED versions
    BY <2>1, <2>2, EndsKeeps, VersionsUnchanged, GovInvAfter
  <2>3. CASE v \in Having({"APPROVED"}) /\ Sets(v, "PUBLISHED")
    <3>1. v \in DOMAIN versions /\ versions[v].status \in ReviewedStatus
      BY <2>3 DEF Having, ReviewedStatus
    <3>2. versions' \in Seq(Version) /\ AllReviewed' /\ Published' \subseteq Published \cup {v}
      BY <2>3, <3>1, SetsReviewed
    <3>3. /\ govCall' \in [GovCalls -> [pc : GovSteps \cup {"idle"}, version : Nat]]
          /\ peak' = peak /\ Cardinality(GovUnderWay') <= peak'
          /\ Publishing' \subseteq Publishing \ {c}
      BY <2>1, EndsKeeps
    <3>4. \E u, b : /\ Published' \subseteq Published \cup {u}
                    /\ b \in Publishing /\ Publishing' \subseteq Publishing \ {b}
      BY <2>1, <3>2, <3>3, Zenon
    <3>5. peak' \in Nat /\ peak' >= peak
      BY <3>3
    <3>. QED  BY <3>2, <3>3, <3>4, <3>5, GovInvAfter, Zenon
  <2>. QED  BY <1>7, <2>2, <2>3 DEF PublishApproved
<1>8. ASSUME NEW c \in GovCalls, NEW v \in DOMAIN versions, RollBack(c, v) PROVE GovInv'
  <2>1. /\ v \in Published /\ Sets(v, "ROLLED_BACK") /\ v \in Nat
        /\ versions[v].status \in ReviewedStatus
    BY <1>8 DEF RollBack, Published, Having, ReviewedStatus
  <2>2. versions' \in Seq(Version) /\ AllReviewed' /\ Published' \subseteq Published \ {v}
    BY <2>1, SetsReviewed
  <2>3. CASE GovBegins(c, "republish", v)
    BY <2>1, <2>2, <2>3, BeginsKeeps, GovInvAfter DEF GovSteps
  <2>4. CASE UNCHANGED <<govCall, peak>>
    BY <2>2, <2>4, CallsUnchanged, GovInvAfter
  <2>. QED  BY <1>8, <2>3, <2>4 DEF RollBack
<1>9. ASSUME NEW c \in GovCalls, Republish(c) PROVE GovInv'
  <2>1. GovEnds(c) /\ c \in Publishing
    BY <1>9 DEF Republish, GovAt, Publishing
  <2>2. CASE UNCHANGED versions
    BY <2>1, <2>2, EndsKeeps, VersionsUnchanged, GovInvAfter
  <2>3. ASSUME NEW v \in Having({"SUPERSEDED", "APPROVED"}), Sets(v, "PUBLISHED")
        PROVE  GovInv'
    <3>1. v \in DOMAIN versions /\ versions[v].status \in ReviewedStatus
      BY <2>3 DEF Having, ReviewedStatus
    <3>2. versions' \in Seq(Version) /\ AllReviewed' /\ Published' \subseteq Published \cup {v}
      BY <2>3, <3>1, SetsReviewed
    <3>3. /\ govCall' \in [GovCalls -> [pc : GovSteps \cup {"idle"}, version : Nat]]
          /\ peak' = peak /\ Cardinality(GovUnderWay') <= peak'
          /\ Publishing' \subseteq Publishing \ {c}
      BY <2>1, EndsKeeps
    <3>4. \E u, b : /\ Published' \subseteq Published \cup {u}
                    /\ b \in Publishing /\ Publishing' \subseteq Publishing \ {b}
      BY <2>1, <3>2, <3>3, Zenon
    <3>5. peak' \in Nat /\ peak' >= peak
      BY <3>3
    <3>. QED  BY <3>2, <3>3, <3>4, <3>5, GovInvAfter, Zenon
  <2>. QED  BY <1>9, <2>2, <2>3 DEF Republish
<1>10. ASSUME NEW c \in GovCalls, GovFails(c) PROVE GovInv'
  BY <1>10, EndsKeeps, VersionsUnchanged, GovInvAfter DEF GovFails
<1>11. CASE UNCHANGED govVars
  BY <1>11, CallsUnchanged, VersionsUnchanged, GovInvAfter DEF govVars
<1>. QED  BY <1>1, <1>2, <1>3, <1>4, <1>5, <1>6, <1>7, <1>8, <1>9, <1>10, <1>11 DEF GovNext

LEMMA InitGovInv == GovInit => GovInv
<1>. SUFFICES ASSUME GovInit PROVE GovInv
  OBVIOUS
<1>1. GovTypeOK
  BY DEF GovInit, GovTypeOK, NotGoverning
<1>2. GovUnderWay = {} /\ Publishing = {} /\ Published = {}
  BY DEF GovInit, GovUnderWay, GovAt, Publishing, Published, Having, NotGoverning
<1>. QED  BY <1>1, <1>2, FS_EmptySet DEF GovInv, GovInit

THEOREM GovInvariant == GovSpec => []GovInv
BY InitGovInv, NextGovInv, PTL DEF GovSpec

\* No more versions are published than requests were ever under way together, so
\* exactly those that interleave can leave two; and none without a second pair of eyes.
THEOREM PublishedAccountedFor == GovSpec => []PublishedIsAccountedFor
<1>1. GovInv => PublishedIsAccountedFor
  <2>. SUFFICES ASSUME GovInv PROVE PublishedIsAccountedFor
    OBVIOUS
  <2>1. Cardinality(Published) <= peak
    BY SetsFinite DEF GovInv, Counted, GovTypeOK
  <2>2. \A v \in Published : Reviewed(v)
    BY DEF GovInv, Published, Having, ReviewedStatus, VersionStatus
  <2>. QED  BY <2>1, <2>2 DEF PublishedIsAccountedFor, Reviewed
<1>. QED  BY <1>1, GovInvariant, PTL

-----------------------------------------------------------------------------
(* Language models: the invariant.                                         *)

ProviderRecord ==
  [here : BOOLEAN, active : BOOLEAN, default : BOOLEAN, assigned : BOOLEAN, setBy : SUBSET AdminCalls]
CachedRecord ==
  [config : Providers \cup {EnvConfig, NoConfig}, fresh : BOOLEAN, late : BOOLEAN,
   blind : BOOLEAN, missed : SUBSET AdminCalls]
Circuits == [failures : Nat, cooling : BOOLEAN, inARow : Nat]
CompletionRecord ==
  [pc : {"idle", "select", "selected", "fetch", "done"}, at : Instances \cup {NoInstance},
   key : ConfigKeys, config : Providers \cup {EnvConfig, NoConfig}, late : BOOLEAN,
   blind : BOOLEAN, missed : SUBSET AdminCalls]
AdminRecord ==
  [pc : AdminSteps \cup {"idle", "done", "failed"}, at : Instances \cup {NoInstance},
   kind : {"none", "post", "patch", "prompt"},
   target : Providers \cup {NoConfig}, fields : Fields, beside : SUBSET AdminCalls]

\* A completion that is under way is at an instance.
Placed(r) == r.pc \notin {"idle", "done"} => r.at \in Instances
CompletionTypeOK ==
  completion \in [Completions -> CompletionRecord] /\ \A c \in Completions : Placed(completion[c])

\* Where a request is says what it is for.
StepsFitKind ==
  \A a \in AdminCalls :
    /\ adminCall[a].pc \in {"deactivate", "insert"} => adminCall[a].kind = "prompt"
    /\ adminCall[a].pc = "unset" => adminCall[a].fields.default = "set"

\* Only a request that was made has set a default.
SettersWereMade ==
  \A p \in Providers : \A b \in provider[p].setBy : adminCall[b].pc # "idle"

\* Requests that are under way together know of each other.
KnowEachOther ==
  \A a, b \in AdminUnderWay : a # b => a \in adminCall[b].beside

\* What has become the default since a request has unset the others was set beside it.
SetsBeside(a) ==
  adminCall[a].pc = "write" /\ adminCall[a].fields.default = "set" =>
    \A q \in Defaults : \E b \in provider[q].setBy :
      a \in adminCall[b].beside /\ b \in adminCall[a].beside

AInv ==
  /\ LlmTypeOK /\ StepsFitKind /\ SettersWereMade /\ KnowEachOther
  /\ \A a \in AdminCalls : SetsBeside(a)
  /\ DefaultsAreAccountedFor /\ NewestPromptIsActive

-----------------------------------------------------------------------------
(* Types.                                                                  *)

LEMMA TypeOfRow ==
  ASSUME NEW here \in BOOLEAN, NEW default \in BOOLEAN, NEW assigned \in BOOLEAN
  PROVE  LET row == [NoProviderRow EXCEPT !.here = here, !.active = here, !.default = default,
                                          !.assigned = assigned]
         IN row \in ProviderRecord /\ row.setBy = {} /\ row.default = default
BY DEF NoProviderRow, ProviderRecord

\* The conjuncts of LlmTypeOK under the names of this module.
LEMMA TypeParts ==
  LlmTypeOK <=>
    /\ provider \in [Providers -> ProviderRecord]
    /\ prompts \in Seq(BOOLEAN)
    /\ cachedConfig \in [Instances -> [ConfigKeys -> CachedRecord]]
    /\ circuit \in [Instances -> Circuits]
    /\ CompletionTypeOK
    /\ adminCall \in [AdminCalls -> AdminRecord]
BY DEF LlmTypeOK, ProviderRecord, CachedRecord, Circuits, CompletionRecord, AdminRecord,
       CompletionTypeOK, Placed

LEMMA TypePartsNext ==
  ASSUME provider' \in [Providers -> ProviderRecord],
         prompts' \in Seq(BOOLEAN),
         cachedConfig' \in [Instances -> [ConfigKeys -> CachedRecord]],
         circuit' \in [Instances -> Circuits],
         CompletionTypeOK',
         adminCall' \in [AdminCalls -> AdminRecord]
  PROVE  LlmTypeOK'
BY DEF LlmTypeOK, ProviderRecord, CachedRecord, Circuits, CompletionRecord, AdminRecord,
       CompletionTypeOK, Placed

\* The rows at the beginning.
LEMMA RowsInit ==
  ASSUME LlmInit
  PROVE  /\ provider \in [Providers -> ProviderRecord]
         /\ \A p \in Providers : provider[p].setBy = {}
         /\ \E default \in Providers : Defaults = {default}
<1>. DEFINE Row(here, default, assigned, p) ==
       [NoProviderRow EXCEPT !.here = p \in here, !.active = p \in here,
                             !.default = p = default, !.assigned = p \in assigned]
<1>1. PICK here \in SUBSET Providers : \E default \in here, assigned \in SUBSET here :
        provider = [p \in Providers |-> Row(here, default, assigned, p)]
  BY Zenon DEF LlmInit
<1>2. PICK default \in here : \E assigned \in SUBSET here :
        provider = [p \in Providers |-> Row(here, default, assigned, p)]
  BY Zenon, <1>1
<1>3. PICK assigned \in SUBSET here :
        provider = [p \in Providers |-> Row(here, default, assigned, p)]
  BY Zenon, <1>2
<1>4. ASSUME NEW p \in Providers
      PROVE  /\ Row(here, default, assigned, p) \in ProviderRecord
             /\ Row(here, default, assigned, p).setBy = {}
             /\ Row(here, default, assigned, p).default = (p = default)
  <2>1. (p \in here) \in BOOLEAN /\ (p = default) \in BOOLEAN /\ (p \in assigned) \in BOOLEAN
    OBVIOUS
  <2>. QED  BY Zenon, <2>1, TypeOfRow
<1>. HIDE DEF Row
<1>5. \A p \in Providers : provider[p] = Row(here, default, assigned, p)
  BY Zenon, <1>3
<1>6. \A p \in Providers : provider[p].setBy = {} /\ provider[p].default = (p = default)
  BY Zenon, <1>4, <1>5
<1>7. Defaults = {default}
  BY <1>6 DEF Defaults
<1>. QED  BY <1>3, <1>4, <1>6, <1>7

LEMMA TypeOfInit == LlmInit => LlmTypeOK
<1>. SUFFICES ASSUME LlmInit PROVE LlmTypeOK
  OBVIOUS
<1>1. prompts \in Seq(BOOLEAN)
  <2>1. prompts = <<>>
    BY Zenon DEF LlmInit
  <2>. QED  BY <2>1
<1>2. cachedConfig \in [Instances -> [ConfigKeys -> CachedRecord]]
  BY DEF LlmInit, NotCached, CachedRecord
<1>3. circuit \in [Instances -> Circuits]
  BY DEF LlmInit, NoFailures, Circuits
<1>4. CompletionTypeOK
  <2>1. NotCompleting \in CompletionRecord /\ NotCompleting.pc = "idle"
    BY DEF NotCompleting, CompletionRecord, ConfigKeys
  <2>. QED  BY <2>1 DEF LlmInit, CompletionTypeOK, Placed
<1>5. adminCall \in [AdminCalls -> AdminRecord]
  <2>1. NotAdmin \in AdminRecord
    BY DEF NotAdmin, NoFields, Fields, AdminRecord
  <2>. QED  BY <2>1 DEF LlmInit
<1>. QED  BY <1>1, <1>2, <1>3, <1>4, <1>5, RowsInit, TypeParts

LEMMA TypeOfCircuit ==
  ASSUME NEW s \in Circuits
  PROVE  /\ Forgotten(s) \in Circuits /\ AfterFailure(s) \in Circuits
         /\ [s EXCEPT !.failures = 0, !.inARow = 0] \in Circuits
         /\ [s EXCEPT !.cooling = FALSE, !.inARow = 0] \in Circuits
<1>1. (s.cooling \/ s.failures + 1 >= Threshold) \in BOOLEAN /\ s.failures + 1 \in Nat /\ s.inARow + 1 \in Nat
  BY DEF Circuits
<1>2. \A n, m \in Nat, open \in BOOLEAN : [failures |-> n, inARow |-> m, cooling |-> open] \in Circuits
  BY DEF Circuits
<1>3. AfterFailure(s) \in Circuits
  BY Zenon, <1>1, <1>2 DEF AfterFailure
<1>. QED  BY <1>3 DEF Circuits, Forgotten

\* One completion goes to another step.
LEMMA CompletionMoves ==
  ASSUME CompletionTypeOK, NEW c \in Completions, NEW r \in CompletionRecord, Placed(r),
         completion' = [completion EXCEPT ![c] = r]
  PROVE  CompletionTypeOK'
BY DEF CompletionTypeOK

LEMMA TypeOfLooks ==
  ASSUME LlmTypeOK, NEW c \in Completions, NEW i \in Instances, NEW config, Looks(c, i, config)
  PROVE  CompletionTypeOK' /\ circuit' \in [Instances -> Circuits]
<1>1. CompletionTypeOK /\ circuit \in [Instances -> Circuits]
  BY TypeParts
<1>2. /\ [NotCompleting EXCEPT !.pc = "done"] \in CompletionRecord
      /\ Placed([NotCompleting EXCEPT !.pc = "done"])
      /\ [NotCompleting EXCEPT !.pc = "fetch", !.at = i] \in CompletionRecord
      /\ Placed([NotCompleting EXCEPT !.pc = "fetch", !.at = i])
  BY DEF NotCompleting, CompletionRecord, ConfigKeys, Placed
<1>3. CASE config = NoConfig \/ IsCircuitOpen(i)
  BY <1>1, <1>2, <1>3, CompletionMoves DEF Looks
<1>4. CASE ~(config = NoConfig \/ IsCircuitOpen(i))
  <2>1. circuit' = [circuit EXCEPT ![i] = Forgotten(circuit[i])]
    BY <1>4 DEF Looks
  <2>2. circuit' \in [Instances -> Circuits]
    BY <1>1, <2>1, TypeOfCircuit
  <2>. QED  BY <1>1, <1>2, <1>4, <2>2, CompletionMoves DEF Looks
<1>. QED  BY <1>3, <1>4

LEMMA TypeOfLooksUp ==
  ASSUME LlmTypeOK, NEW c \in Completions, NEW i \in Instances, NEW key \in ConfigKeys, NEW cache,
         LooksUp(c, i, key, cache)
  PROVE  CompletionTypeOK' /\ circuit' \in [Instances -> Circuits]
<1>1. CASE cache[key].fresh
  BY <1>1, TypeOfLooks DEF LooksUp
<1>2. CASE ~cache[key].fresh
  <2>1. /\ [NotCompleting EXCEPT !.pc = "select", !.at = i, !.key = key] \in CompletionRecord
        /\ Placed([NotCompleting EXCEPT !.pc = "select", !.at = i, !.key = key])
    BY DEF NotCompleting, CompletionRecord, Placed
  <2>2. CompletionTypeOK /\ circuit \in [Instances -> Circuits]
    BY TypeParts
  <2>. QED  BY <1>2, <2>1, <2>2, CompletionMoves DEF LooksUp
<1>. QED  BY <1>1, <1>2

-----------------------------------------------------------------------------
(* Steps of completions, which leave alone what administrators write.      *)

LEMMA AdminSame ==
  ASSUME AInv, UNCHANGED <<provider, prompts, adminCall>>,
         cachedConfig' \in [Instances -> [ConfigKeys -> CachedRecord]],
         circuit' \in [Instances -> Circuits], CompletionTypeOK'
  PROVE  AInv'
<1>1. LlmTypeOK'
  BY TypeParts, TypePartsNext DEF AInv
<1>. QED  BY <1>1 DEF AInv, StepsFitKind, SettersWereMade, KnowEachOther, SetsBeside, AdminUnderWay,
                      Defaults, DefaultsAreAccountedFor, NewestPromptIsActive

\* The parts of the type that completions change.
LEMMA CompletionTyped ==
  AInv => /\ LlmTypeOK /\ CompletionTypeOK
          /\ completion \in [Completions -> CompletionRecord]
          /\ \A c \in Completions : Placed(completion[c])
          /\ cachedConfig \in [Instances -> [ConfigKeys -> CachedRecord]]
          /\ circuit \in [Instances -> Circuits]
BY TypeParts DEF AInv, CompletionTypeOK

LEMMA StepComplete == ASSUME AInv, NEW c \in Completions, Complete(c) PROVE AInv'
<1>1. CompletionTypeOK' /\ circuit' \in [Instances -> Circuits]
  BY TypeOfLooksUp, CompletionTyped DEF Complete
<1>. QED  BY <1>1, CompletionTyped, AdminSame DEF Complete

LEMMA StepSelect == ASSUME AInv, NEW c \in Completions, SelectConfig(c) PROVE AInv'
<1>1. completion \in [Completions -> CompletionRecord] /\ completion[c].at \in Instances
  BY CompletionTyped DEF SelectConfig, CompletionAt, Placed
<1>2. CompletionTypeOK'
  <2>1. CASE completion' = [completion EXCEPT ![c].pc = "selected", ![c].blind = TRUE]
    <3>1. /\ [completion[c] EXCEPT !.pc = "selected", !.blind = TRUE] \in CompletionRecord
          /\ Placed([completion[c] EXCEPT !.pc = "selected", !.blind = TRUE])
      BY <1>1 DEF CompletionRecord, Placed
    <3>2. completion' = [completion EXCEPT ![c] = [completion[c] EXCEPT !.pc = "selected", !.blind = TRUE]]
      BY <1>1, <2>1
    <3>. QED  BY <3>1, <3>2, CompletionTyped, CompletionMoves
  <2>2. ASSUME NEW p \in Providers \cup {NoConfig},
               completion' = [completion EXCEPT ![c].pc = "selected", ![c].config = p]
        PROVE  CompletionTypeOK'
    <3>1. /\ [completion[c] EXCEPT !.pc = "selected", !.config = p] \in CompletionRecord
          /\ Placed([completion[c] EXCEPT !.pc = "selected", !.config = p])
      BY <1>1 DEF CompletionRecord, Placed
    <3>2. completion' = [completion EXCEPT ![c] = [completion[c] EXCEPT !.pc = "selected", !.config = p]]
      BY <1>1, <2>2
    <3>. QED  BY <3>1, <3>2, CompletionTyped, CompletionMoves
  <2>3. Serving(completion[c].key) \subseteq Providers
    BY DEF Serving
  <2>. QED  BY <2>1, <2>2, <2>3 DEF SelectConfig
<1>. QED  BY <1>2, CompletionTyped, AdminSame DEF SelectConfig

LEMMA StepKeepConfig == ASSUME AInv, NEW c \in Completions, KeepConfig(c) PROVE AInv'
<1>. DEFINE key == completion[c].key
            i == completion[c].at
            config == IF completion[c].config = NoConfig /\ key = "default" /\ HasEnv
                      THEN EnvConfig ELSE completion[c].config
            kept == IF config = NoConfig THEN cachedConfig[i]
                    ELSE [cachedConfig[i] EXCEPT ![key] =
                           [config |-> config, fresh |-> TRUE, late |-> completion[c].late,
                            blind |-> completion[c].blind, missed |-> completion[c].missed]]
<1>1. completion[c] \in CompletionRecord /\ i \in Instances
  BY CompletionTyped DEF KeepConfig, CompletionAt, Placed
<1>2. /\ key \in ConfigKeys /\ config \in Providers \cup {EnvConfig, NoConfig}
      /\ completion[c].late \in BOOLEAN /\ completion[c].blind \in BOOLEAN
      /\ completion[c].missed \in SUBSET AdminCalls
  BY <1>1 DEF CompletionRecord
<1>3. kept \in [ConfigKeys -> CachedRecord]
  <2>1. [config |-> config, fresh |-> TRUE, late |-> completion[c].late,
         blind |-> completion[c].blind, missed |-> completion[c].missed] \in CachedRecord
    BY <1>2 DEF CachedRecord
  <2>2. cachedConfig[i] \in [ConfigKeys -> CachedRecord]
    BY <1>1, CompletionTyped
  <2>. HIDE DEF config, key, i
  <2>. QED  BY <1>2, <2>1, <2>2
<1>4. /\ cachedConfig' = [cachedConfig EXCEPT ![i] = kept]
      /\ IF config = NoConfig /\ key = "useCase" THEN LooksUp(c, i, "default", kept)
                                                ELSE Looks(c, i, config)
  BY DEF KeepConfig
<1>5. CompletionTypeOK' /\ circuit' \in [Instances -> Circuits]
  <2>1. "default" \in ConfigKeys
    BY DEF ConfigKeys
  <2>. HIDE DEF kept, config, key, i
  <2>. QED  BY <1>1, <1>4, <2>1, CompletionTyped, TypeOfLooks, TypeOfLooksUp
<1>. HIDE DEF kept, config, key, i
<1>6. cachedConfig' \in [Instances -> [ConfigKeys -> CachedRecord]]
  BY <1>1, <1>3, <1>4, CompletionTyped
<1>. QED  BY <1>5, <1>6, AdminSame DEF KeepConfig

LEMMA StepFetchEnds == ASSUME AInv, NEW c \in Completions, FetchEnds(c) PROVE AInv'
<1>1. completion[c].at \in Instances
  BY CompletionTyped DEF FetchEnds, CompletionAt, Placed
<1>2. CompletionTypeOK'
  <2>1. /\ [NotCompleting EXCEPT !.pc = "done"] \in CompletionRecord
        /\ Placed([NotCompleting EXCEPT !.pc = "done"])
    BY DEF NotCompleting, CompletionRecord, ConfigKeys, Placed
  <2>. QED  BY <2>1, CompletionTyped, CompletionMoves DEF FetchEnds
<1>3. circuit' \in [Instances -> Circuits]
  <2>. DEFINE i == completion[c].at
  <2>0. circuit \in [Instances -> Circuits] /\ circuit[i] \in Circuits
    BY <1>1, CompletionTyped
  <2>1. CASE RecordFailure(i)
    <3>1. circuit' = [circuit EXCEPT ![i] = AfterFailure(circuit[i])]
      BY <2>1 DEF RecordFailure
    <3>. QED  BY <1>1, <2>0, <3>1, TypeOfCircuit
  <2>2. CASE RecordSuccess(i)
    <3>1. circuit' = [circuit EXCEPT ![i] = [circuit[i] EXCEPT !.failures = 0, !.inARow = 0]]
      BY <1>1, <2>0, <2>2 DEF RecordSuccess
    <3>. QED  BY <1>1, <2>0, <3>1, TypeOfCircuit
  <2>. QED  BY <2>1, <2>2 DEF FetchEnds
<1>. QED  BY <1>2, <1>3, CompletionTyped, AdminSame DEF FetchEnds

LEMMA StepExpires ==
  ASSUME AInv, NEW i \in Instances, NEW key \in ConfigKeys, ConfigExpires(i, key) PROVE AInv'
<1>1. NotCached \in CachedRecord
  BY DEF NotCached, CachedRecord
<1>2. cachedConfig' = [cachedConfig EXCEPT ![i] = [cachedConfig[i] EXCEPT ![key] = NotCached]]
  BY CompletionTyped DEF ConfigExpires
<1>3. cachedConfig' \in [Instances -> [ConfigKeys -> CachedRecord]]
  BY <1>1, <1>2, CompletionTyped
<1>4. CompletionTypeOK'
  BY CompletionTyped DEF ConfigExpires, CompletionTypeOK
<1>. QED  BY <1>3, <1>4, CompletionTyped, AdminSame DEF ConfigExpires

LEMMA StepCooldown == ASSUME AInv, NEW i \in Instances, CooldownEnds(i) PROVE AInv'
<1>1. circuit' = [circuit EXCEPT ![i] = [circuit[i] EXCEPT !.cooling = FALSE, !.inARow = 0]]
  BY CompletionTyped DEF CooldownEnds
<1>2. circuit' \in [Instances -> Circuits]
  BY <1>1, CompletionTyped, TypeOfCircuit
<1>3. CompletionTypeOK'
  BY CompletionTyped DEF CooldownEnds, CompletionTypeOK
<1>. QED  BY <1>2, <1>3, CompletionTyped, AdminSame DEF CooldownEnds

-----------------------------------------------------------------------------
(* Steps of administrators.                                                *)

LEMMA AdminTyped ==
  AInv => /\ LlmTypeOK
          /\ \A a \in AdminCalls : adminCall[a] \in AdminRecord
          /\ adminCall \in [AdminCalls -> AdminRecord]
          /\ provider \in [Providers -> ProviderRecord]
          /\ prompts \in Seq(BOOLEAN)
BY TypeParts DEF AInv

\* One request moves on, and the others are as they were.
LEMMA AdminMoves ==
  ASSUME AInv, NEW a \in AdminCalls, NEW pc \in AdminSteps \cup {"idle", "done", "failed"},
         AdminGoes(a, pc)
  PROVE  /\ adminCall' \in [AdminCalls -> AdminRecord]
         /\ adminCall'[a].pc = pc
         /\ \A b \in AdminCalls :
              /\ adminCall'[b].kind = adminCall[b].kind /\ adminCall'[b].fields = adminCall[b].fields
              /\ adminCall'[b].beside = adminCall[b].beside /\ adminCall'[b].at = adminCall[b].at
              /\ b # a => adminCall'[b].pc = adminCall[b].pc
<1>1. adminCall \in [AdminCalls -> AdminRecord]
  BY AdminTyped
<1>2. adminCall' = [adminCall EXCEPT ![a].pc = pc]
  BY DEF AdminGoes
<1>3. adminCall'[a] = [adminCall[a] EXCEPT !.pc = pc] /\ adminCall[a] \in AdminRecord
  BY <1>1, <1>2
<1>4. adminCall'[a] \in AdminRecord
  BY <1>3 DEF AdminRecord
<1>5. /\ adminCall'[a].pc = pc /\ adminCall'[a].kind = adminCall[a].kind
      /\ adminCall'[a].fields = adminCall[a].fields /\ adminCall'[a].beside = adminCall[a].beside
      /\ adminCall'[a].at = adminCall[a].at
  BY <1>3 DEF AdminRecord
<1>6. \A b \in AdminCalls : b # a => adminCall'[b] = adminCall[b]
  BY <1>1, <1>2
<1>7. adminCall' \in [AdminCalls -> AdminRecord]
  BY <1>1, <1>2, <1>4
<1>. QED  BY <1>5, <1>6, <1>7

\* A request that was under way goes on or ends: those who know each other still do.
LEMMA StillKnown ==
  ASSUME AInv, NEW a \in AdminCalls, NEW pc, adminCall[a].pc \in AdminSteps,
         adminCall'[a].pc = pc,
         \A b \in AdminCalls : /\ adminCall'[b].beside = adminCall[b].beside
                               /\ b # a => adminCall'[b].pc = adminCall[b].pc
  PROVE  KnowEachOther'
<1>1. \A b \in AdminUnderWay' : b \in AdminUnderWay
  BY DEF AdminUnderWay
<1>. QED  BY <1>1 DEF AInv, KnowEachOther, AdminUnderWay

\* The types, when only requests and prompts have changed.
LEMMA AdminOnly ==
  ASSUME AInv, UNCHANGED <<provider, cachedConfig, circuit, completion>>,
         prompts' \in Seq(BOOLEAN), adminCall' \in [AdminCalls -> AdminRecord]
  PROVE  LlmTypeOK'
<1>1. CompletionTypeOK'
  BY CompletionTyped DEF CompletionTypeOK
<1>. QED  BY <1>1, CompletionTyped, AdminTyped, TypePartsNext

LEMMA StepBegins ==
  ASSUME AInv, NEW a \in AdminCalls, NEW kind \in {"post", "patch", "prompt"},
         NEW target \in Providers \cup {NoConfig}, NEW fields \in Fields,
         NEW pc \in {"unset", "write", "deactivate"},
         AdminBegins(a, kind, target, fields, pc),
         pc = "deactivate" => kind = "prompt",
         pc = "unset" => fields.default = "set",
         fields.default = "set" => pc # "write"
  PROVE  AInv'
<1>0. PICK i \in Instances : adminCall' = [b \in AdminCalls |->
        IF b = a THEN [pc |-> pc, at |-> i, kind |-> kind, target |-> target, fields |-> fields,
                       beside |-> AdminUnderWay]
        ELSE IF b \in AdminUnderWay THEN [adminCall[b] EXCEPT !.beside = @ \cup {a}]
        ELSE adminCall[b]]
  BY DEF AdminBegins
<1>. DEFINE new == [pc |-> pc, at |-> i, kind |-> kind, target |-> target, fields |-> fields,
                    beside |-> AdminUnderWay]
<1>1. adminCall \in [AdminCalls -> AdminRecord] /\ adminCall[a].pc = "idle" /\ a \notin AdminUnderWay
  BY AdminTyped DEF AdminBegins, AdminAt, AdminUnderWay, AdminSteps
<1>2. adminCall' = [b \in AdminCalls |->
        IF b = a THEN new
        ELSE IF b \in AdminUnderWay THEN [adminCall[b] EXCEPT !.beside = @ \cup {a}]
        ELSE adminCall[b]]
  BY <1>0
<1>3. new \in AdminRecord
  BY DEF AdminRecord, AdminSteps, AdminUnderWay
<1>4. ASSUME NEW b \in AdminCalls, b # a
      PROVE  /\ adminCall'[b] \in AdminRecord
             /\ adminCall'[b].pc = adminCall[b].pc /\ adminCall'[b].kind = adminCall[b].kind
             /\ adminCall'[b].fields = adminCall[b].fields
             /\ adminCall'[b].beside = IF b \in AdminUnderWay THEN adminCall[b].beside \cup {a}
                                       ELSE adminCall[b].beside
  <2>1. adminCall[b] \in AdminRecord
    BY <1>1
  <2>2. CASE b \in AdminUnderWay
    <3>1. adminCall'[b] = [adminCall[b] EXCEPT !.beside = adminCall[b].beside \cup {a}]
      BY <1>2, <1>4, <2>2
    <3>. QED  BY <2>1, <2>2, <3>1 DEF AdminRecord
  <2>3. CASE b \notin AdminUnderWay
    BY <1>2, <1>4, <2>1, <2>3
  <2>. QED  BY <2>2, <2>3
<1>a. adminCall'[a] = new
  BY <1>2
<1>5. /\ adminCall'[a].pc = pc /\ adminCall'[a].kind = kind /\ adminCall'[a].fields = fields
      /\ adminCall'[a].beside = AdminUnderWay
  BY <1>a
<1>. HIDE DEF new
<1>6. LlmTypeOK'
  <2>1. adminCall' \in [AdminCalls -> AdminRecord]
    BY <1>2, <1>3, <1>4, <1>a
  <2>. QED  BY <2>1, AdminOnly, AdminTyped DEF AdminBegins
<1>7. StepsFitKind'
  <2>1. \A b \in AdminCalls \ {a} : /\ adminCall'[b].pc = adminCall[b].pc
                                   /\ adminCall'[b].kind = adminCall[b].kind
                                   /\ adminCall'[b].fields = adminCall[b].fields
    BY <1>4
  <2>. QED  BY <1>4, <1>5, <2>1 DEF AInv, StepsFitKind
<1>8. AdminUnderWay' = AdminUnderWay \cup {a}
  BY <1>4, <1>5 DEF AdminUnderWay, AdminSteps
<1>9. KnowEachOther'
  <2>. SUFFICES ASSUME NEW b \in AdminUnderWay \cup {a}, NEW c \in AdminUnderWay \cup {a}, b # c
                PROVE  b \in adminCall'[c].beside
    BY <1>8 DEF KnowEachOther
  <2>. QED  BY <1>1, <1>4, <1>5 DEF AInv, KnowEachOther, AdminUnderWay
<1>10. \A b \in AdminCalls : SetsBeside(b)'
  <2>. SUFFICES ASSUME NEW b \in AdminCalls, adminCall'[b].pc = "write",
                       adminCall'[b].fields.default = "set", NEW q \in Defaults
                PROVE  \E c \in provider[q].setBy :
                         b \in adminCall'[c].beside /\ c \in adminCall'[b].beside
    BY DEF SetsBeside, Defaults, AdminBegins
  <2>1. b # a
    BY <1>5
  <2>2. PICK c \in provider[q].setBy : b \in adminCall[c].beside /\ c \in adminCall[b].beside
    BY <1>4, <2>1 DEF AInv, SetsBeside
  <2>3. c \in AdminCalls
    BY AdminTyped DEF Defaults, ProviderRecord
  <2>4. b \in AdminUnderWay
    BY <1>4, <2>1 DEF AdminUnderWay, AdminSteps
  <2>5. c \in adminCall'[b].beside
    BY <1>4, <2>1, <2>2
  <2>6. b \in adminCall'[c].beside
    BY <1>4, <1>5, <2>2, <2>3, <2>4
  <2>. QED  BY <2>2, <2>5, <2>6
<1>b. SettersWereMade'
  <2>. SUFFICES ASSUME NEW p \in Providers, NEW b \in provider[p].setBy
                PROVE  adminCall'[b].pc # "idle"
    BY DEF SettersWereMade, AdminBegins
  <2>1. b \in AdminCalls /\ adminCall[b].pc # "idle"
    BY AdminTyped DEF AInv, SettersWereMade, ProviderRecord
  <2>. QED  BY <1>1, <1>4, <2>1
<1>11. DefaultsAreAccountedFor'
  <2>1. UNCHANGED Defaults /\ UNCHANGED provider
    BY DEF Defaults, AdminBegins
  <2>2. ASSUME NEW p \in Defaults, NEW q \in Defaults, p # q
        PROVE  \E x \in provider[p].setBy, y \in provider[q].setBy : x \in adminCall'[y].beside
    <3>1. PICK x \in provider[p].setBy, y \in provider[q].setBy : x \in adminCall[y].beside
      BY <2>2 DEF AInv, DefaultsAreAccountedFor
    <3>2. y \in AdminCalls /\ y # a
      BY <1>1, AdminTyped DEF AInv, SettersWereMade, Defaults, ProviderRecord
    <3>. QED  BY <1>4, <3>1, <3>2
  <2>3. ASSUME Defaults = {}
        PROVE  \E b \in AdminCalls :
                 \/ adminCall'[b].fields.default = "set" /\ adminCall'[b].pc \in {"write", "failed"}
                 \/ adminCall'[b].fields.default = "clear" /\ adminCall'[b].pc \in {"invalidate", "done"}
    <3>1. PICK b \in AdminCalls :
            \/ adminCall[b].fields.default = "set" /\ adminCall[b].pc \in {"write", "failed"}
            \/ adminCall[b].fields.default = "clear" /\ adminCall[b].pc \in {"invalidate", "done"}
      BY <2>3 DEF AInv, DefaultsAreAccountedFor
    <3>2. b # a
      BY <1>1, <3>1
    <3>. QED  BY <1>4, <3>1, <3>2
  <2>. QED  BY <2>1, <2>2, <2>3 DEF DefaultsAreAccountedFor
<1>12. NewestPromptIsActive'
  BY <1>1, <1>4 DEF AInv, NewestPromptIsActive, AdminBegins, AdminSteps
<1>. QED  BY <1>6, <1>7, <1>9, <1>10, <1>11, <1>12, <1>b DEF AInv

\* A step of a request that writes no provider.
LEMMA ProvidersSame ==
  ASSUME AInv, NEW a \in AdminCalls, adminCall[a].pc \in AdminSteps,
         NEW pc \in {"invalidate", "insert", "done", "failed"}, AdminGoes(a, pc),
         LlmTypeOK', UNCHANGED provider, NewestPromptIsActive',
         pc = "insert" => adminCall[a].kind = "prompt" /\ adminCall[a].pc = "deactivate",
         pc = "failed" \/ adminCall[a].pc # "write",
         pc = "failed" => adminCall[a].pc # "invalidate",
         pc = "done" => adminCall[a].pc # "unset" /\ adminCall[a].pc # "write",
         pc # "invalidate"
  PROVE  AInv'
<1>1. /\ adminCall'[a].pc = pc
      /\ \A b \in AdminCalls :
           /\ adminCall'[b].kind = adminCall[b].kind /\ adminCall'[b].fields = adminCall[b].fields
           /\ adminCall'[b].beside = adminCall[b].beside
           /\ b # a => adminCall'[b].pc = adminCall[b].pc
  BY AdminMoves DEF AdminSteps
<1>2. StepsFitKind'
  BY <1>1 DEF AInv, StepsFitKind
<1>3. KnowEachOther'
  BY <1>1, StillKnown
<1>4. SettersWereMade'
  BY <1>1, AdminTyped DEF AInv, SettersWereMade, ProviderRecord
<1>5. \A b \in AdminCalls : SetsBeside(b)'
  <2>. SUFFICES ASSUME NEW b \in AdminCalls, adminCall'[b].pc = "write",
                       adminCall'[b].fields.default = "set", NEW q \in Defaults
                PROVE  \E c \in provider[q].setBy :
                         b \in adminCall'[c].beside /\ c \in adminCall'[b].beside
    BY DEF SetsBeside, Defaults
  <2>1. PICK c \in provider[q].setBy : b \in adminCall[c].beside /\ c \in adminCall[b].beside
    BY <1>1 DEF AInv, SetsBeside
  <2>2. c \in AdminCalls
    BY AdminTyped DEF Defaults, ProviderRecord
  <2>. QED  BY <1>1, <2>1, <2>2
<1>6. DefaultsAreAccountedFor'
  <2>1. UNCHANGED Defaults
    BY DEF Defaults
  <2>2. ASSUME NEW p \in Defaults, NEW q \in Defaults, p # q
        PROVE  \E x \in provider[p].setBy, y \in provider[q].setBy : x \in adminCall'[y].beside
    <3>1. PICK x \in provider[p].setBy, y \in provider[q].setBy : x \in adminCall[y].beside
      BY <2>2 DEF AInv, DefaultsAreAccountedFor
    <3>2. y \in AdminCalls
      BY AdminTyped DEF Defaults, ProviderRecord
    <3>. QED  BY <1>1, <3>1, <3>2
  <2>3. ASSUME Defaults = {}
        PROVE  \E b \in AdminCalls :
                 \/ adminCall'[b].fields.default = "set" /\ adminCall'[b].pc \in {"write", "failed"}
                 \/ adminCall'[b].fields.default = "clear" /\ adminCall'[b].pc \in {"invalidate", "done"}
    <3>1. PICK b \in AdminCalls :
            \/ adminCall[b].fields.default = "set" /\ adminCall[b].pc \in {"write", "failed"}
            \/ adminCall[b].fields.default = "clear" /\ adminCall[b].pc \in {"invalidate", "done"}
      BY <2>3 DEF AInv, DefaultsAreAccountedFor
    <3>2. CASE b # a
      BY <1>1, <3>1, <3>2
    <3>3. CASE b = a
      BY <1>1, <3>1, <3>3 DEF AdminSteps
    <3>. QED  BY <3>2, <3>3
  <2>. QED  BY <2>1, <2>2, <2>3 DEF DefaultsAreAccountedFor
<1>. QED  BY <1>2, <1>3, <1>4, <1>5, <1>6 DEF AInv

\* A statement that changes the table leaves all as it was but for the history.
LEMMA TypeOfTableChanges ==
  ASSUME AInv, NEW a \in AdminCalls, TableChanges(a)
  PROVE  /\ cachedConfig' \in [Instances -> [ConfigKeys -> CachedRecord]]
         /\ CompletionTypeOK'
         /\ \A i \in Instances, key \in ConfigKeys :
              LET now == cachedConfig'[i][key]
                  was == cachedConfig[i][key]
              IN /\ now.fresh = was.fresh
                 /\ now.missed = IF was.fresh THEN was.missed \cup {a} ELSE was.missed
         /\ \A c \in Completions :
              /\ completion'[c].pc = completion[c].pc
              /\ completion'[c].missed = IF CompletionAt(c, "selected")
                                         THEN completion[c].missed \cup {a} ELSE completion[c].missed
<1>. DEFINE Now(r) == [r EXCEPT !.missed = IF r.fresh THEN r.missed \cup {a} ELSE r.missed]
            Next(c) == [completion[c] EXCEPT !.missed =
                         IF CompletionAt(c, "selected") THEN completion[c].missed \cup {a}
                         ELSE completion[c].missed]
<1>1. /\ cachedConfig' = [i \in Instances |-> [key \in ConfigKeys |-> Now(cachedConfig[i][key])]]
      /\ completion' = [c \in Completions |-> Next(c)]
  BY DEF TableChanges
<1>2. ASSUME NEW r \in CachedRecord
      PROVE  /\ Now(r) \in CachedRecord /\ Now(r).fresh = r.fresh
             /\ Now(r).missed = IF r.fresh THEN r.missed \cup {a} ELSE r.missed
  BY DEF CachedRecord
<1>3. ASSUME NEW c \in Completions
      PROVE  /\ Next(c) \in CompletionRecord /\ Placed(Next(c)) /\ Next(c).pc = completion[c].pc
             /\ Next(c).missed = IF CompletionAt(c, "selected") THEN completion[c].missed \cup {a}
                                 ELSE completion[c].missed
  <2>1. completion[c] \in CompletionRecord /\ Placed(completion[c])
    BY CompletionTyped
  <2>. QED  BY <2>1 DEF CompletionRecord, Placed
<1>. HIDE DEF Now, Next
<1>4. \A i \in Instances, key \in ConfigKeys : cachedConfig[i][key] \in CachedRecord
  BY CompletionTyped
<1>5. \A i \in Instances, key \in ConfigKeys : cachedConfig'[i][key] = Now(cachedConfig[i][key])
  BY <1>1
<1>. QED  BY <1>1, <1>2, <1>3, <1>4, <1>5 DEF CompletionTypeOK

LEMMA StepUnset == ASSUME AInv, NEW a \in AdminCalls, UnsetDefault(a) PROVE AInv'
<1>0. adminCall[a].pc = "unset" /\ AdminGoes(a, "write")
  BY DEF UnsetDefault, AdminAt
<1>1. /\ adminCall' \in [AdminCalls -> AdminRecord] /\ adminCall'[a].pc = "write"
      /\ \A b \in AdminCalls :
           /\ adminCall'[b].kind = adminCall[b].kind /\ adminCall'[b].fields = adminCall[b].fields
           /\ adminCall'[b].beside = adminCall[b].beside
           /\ b # a => adminCall'[b].pc = adminCall[b].pc
  BY <1>0, AdminMoves DEF AdminSteps
<1>2. /\ provider' \in [Providers -> ProviderRecord]
      /\ \A p \in Providers : provider'[p].default = FALSE /\ provider'[p].setBy = {}
  <2>1. \A p \in Providers : provider[p] \in ProviderRecord
    BY AdminTyped
  <2>2. \A p \in Providers : provider'[p] = [provider[p] EXCEPT !.default = FALSE, !.setBy = {}]
    BY DEF UnsetDefault
  <2>3. \A p \in Providers : /\ provider'[p] \in ProviderRecord
                             /\ provider'[p].default = FALSE /\ provider'[p].setBy = {}
    BY <2>1, <2>2 DEF ProviderRecord
  <2>. QED  BY <2>3 DEF UnsetDefault
<1>3. LlmTypeOK'
  BY <1>1, <1>2, TypeOfTableChanges, CompletionTyped, AdminTyped, TypePartsNext DEF UnsetDefault
<1>4. Defaults' = {}
  BY <1>2 DEF Defaults
<1>5. StepsFitKind' /\ SettersWereMade'
  BY <1>1, <1>2 DEF AInv, StepsFitKind, SettersWereMade
<1>6. KnowEachOther'
  BY <1>0, <1>1, StillKnown DEF AdminSteps
<1>7. DefaultsAreAccountedFor' /\ \A b \in AdminCalls : SetsBeside(b)'
  BY <1>0, <1>1, <1>4 DEF DefaultsAreAccountedFor, SetsBeside, AInv, StepsFitKind
<1>8. NewestPromptIsActive'
  BY <1>0, <1>1 DEF UnsetDefault, AInv, NewestPromptIsActive
<1>. QED  BY <1>3, <1>5, <1>6, <1>7, <1>8 DEF AInv

LEMMA StepNotFound == ASSUME AInv, NEW a \in AdminCalls, ProviderNotFound(a) PROVE AInv'
<1>0. adminCall[a].pc = "write" /\ AdminGoes(a, "failed")
  BY DEF ProviderNotFound, AdminAt
<1>1. LlmTypeOK'
  BY <1>0, AdminMoves, AdminTyped, AdminOnly DEF ProviderNotFound
<1>2. NewestPromptIsActive'
  BY <1>0, AdminMoves DEF ProviderNotFound, AInv, NewestPromptIsActive
<1>. QED  BY <1>0, <1>1, <1>2, ProvidersSame DEF ProviderNotFound, AdminSteps

LEMMA StepFails == ASSUME AInv, NEW a \in AdminCalls, AdminFails(a) PROVE AInv'
<1>0. adminCall[a].pc \in AdminSteps \ {"invalidate"} /\ AdminGoes(a, "failed")
  BY DEF AdminFails
<1>1. LlmTypeOK'
  BY <1>0, AdminMoves, AdminTyped, AdminOnly DEF AdminFails
<1>2. NewestPromptIsActive'
  BY <1>0, AdminMoves DEF AdminFails, AInv, NewestPromptIsActive
<1>. QED  BY <1>0, <1>1, <1>2, ProvidersSame DEF AdminFails

LEMMA StepDeactivate == ASSUME AInv, NEW a \in AdminCalls, DeactivatePrompts(a) PROVE AInv'
<1>0. adminCall[a].pc = "deactivate" /\ AdminGoes(a, "insert") /\ adminCall[a].kind = "prompt"
  BY DEF DeactivatePrompts, AdminAt, AInv, StepsFitKind
<1>1. prompts' \in Seq(BOOLEAN)
  <2>1. prompts \in Seq(BOOLEAN)
    BY AdminTyped
  <2>2. PICK n \in Nat : DOMAIN prompts = 1 .. n
    BY <2>1
  <2>3. prompts' = [v \in 1 .. n |-> FALSE]
    BY <2>2 DEF DeactivatePrompts
  <2>. QED  BY <2>3
<1>2. LlmTypeOK'
  BY <1>0, <1>1, AdminMoves, AdminOnly DEF DeactivatePrompts, AdminSteps
<1>3. NewestPromptIsActive'
  BY <1>0, AdminMoves DEF NewestPromptIsActive, AdminSteps
<1>. QED  BY <1>0, <1>2, <1>3, ProvidersSame DEF DeactivatePrompts, AdminSteps

LEMMA StepInsert == ASSUME AInv, NEW a \in AdminCalls, InsertPrompt(a) PROVE AInv'
<1>0. adminCall[a].pc = "insert" /\ AdminGoes(a, "done") /\ prompts' = Append(prompts, TRUE)
  BY DEF InsertPrompt, AdminAt
<1>1. prompts' \in Seq(BOOLEAN) /\ prompts'[Len(prompts')] = TRUE
  BY <1>0, AdminTyped
<1>2. LlmTypeOK'
  BY <1>0, <1>1, AdminMoves, AdminOnly DEF InsertPrompt, AdminSteps
<1>3. NewestPromptIsActive'
  BY <1>1 DEF NewestPromptIsActive
<1>. QED  BY <1>0, <1>2, <1>3, ProvidersSame DEF InsertPrompt, AdminSteps

LEMMA StepInvalidate == ASSUME AInv, NEW a \in AdminCalls, InvalidateProviderCache(a) PROVE AInv'
<1>0. adminCall[a].pc = "invalidate" /\ AdminGoes(a, "done")
  BY DEF InvalidateProviderCache, AdminAt
<1>1. CompletionTypeOK'
  <2>1. ASSUME NEW c \in Completions
        PROVE  completion'[c] \in CompletionRecord /\ Placed(completion'[c])
    <3>1. completion[c] \in CompletionRecord /\ Placed(completion[c])
      BY CompletionTyped
    <3>2. completion'[c] = completion[c] \/ completion'[c] = [completion[c] EXCEPT !.late = TRUE]
      BY DEF InvalidateProviderCache
    <3>. QED  BY <3>1, <3>2 DEF CompletionRecord, Placed
  <2>. QED  BY <2>1 DEF InvalidateProviderCache, CompletionTypeOK
<1>2. LlmTypeOK'
  <2>1. \A i : ClearedConfigs(i) \in [ConfigKeys -> CachedRecord]
    BY DEF ClearedConfigs, NotCached, CachedRecord
  <2>2. cachedConfig' \in [Instances -> [ConfigKeys -> CachedRecord]]
    BY <2>1, CompletionTyped DEF InvalidateProviderCache
  <2>3. adminCall' \in [AdminCalls -> AdminRecord]
    BY <1>0, AdminMoves
  <2>. QED  BY <1>1, <2>2, <2>3, CompletionTyped, AdminTyped, TypePartsNext
            DEF InvalidateProviderCache
<1>3. NewestPromptIsActive'
  BY <1>0, AdminMoves DEF InvalidateProviderCache, AInv, NewestPromptIsActive, AdminSteps
<1>. QED  BY <1>0, <1>2, <1>3, ProvidersSame DEF InvalidateProviderCache, AdminSteps

-----------------------------------------------------------------------------
(* The write of a provider's row.                                          *)

\* The row that is written is a row, and is the default where the request says so or
\* where it was and the request does not say.
LEMMA TypeOfWritten ==
  ASSUME AInv, NEW a \in AdminCalls, NEW p \in Providers
  PROVE  /\ Written(a, provider[p]) \in ProviderRecord
         /\ Written(a, provider[p]).default <=>
              adminCall[a].fields.default = "set"
                \/ (adminCall[a].fields.default = "keep" /\ provider[p].default)
         /\ Written(a, provider[p]).setBy =
              IF adminCall[a].fields.default = "set" THEN {a}
              ELSE IF adminCall[a].fields.default = "keep" THEN provider[p].setBy ELSE {}
<1>. DEFINE f == adminCall[a].fields
            row == provider[p]
<1>1. f \in Fields /\ row \in ProviderRecord
  BY AdminTyped DEF AdminRecord
<1>2. (f.default = "set" \/ (f.default = "keep" /\ row.default)) \in BOOLEAN
  OBVIOUS
<1>3. (IF f.default = "set" THEN {a} ELSE IF f.default = "keep" THEN row.setBy ELSE {})
        \in SUBSET AdminCalls
  BY <1>1 DEF ProviderRecord
<1>4. f.active \in BOOLEAN /\ f.assigned \in BOOLEAN
  BY <1>1 DEF Fields
<1>5. \A x, y, z \in BOOLEAN, s \in SUBSET AdminCalls :
        [here |-> TRUE, active |-> x, assigned |-> y, default |-> z, setBy |-> s] \in ProviderRecord
  BY DEF ProviderRecord
<1>6. Written(a, row) \in ProviderRecord
  <2>1. [here |-> TRUE, active |-> f.active, assigned |-> f.assigned,
         default |-> (f.default = "set" \/ (f.default = "keep" /\ row.default)),
         setBy |-> (IF f.default = "set" THEN {a} ELSE IF f.default = "keep" THEN row.setBy ELSE {})]
           \in ProviderRecord
    BY Zenon, <1>2, <1>3, <1>4, <1>5
  <2>. QED  BY Zenon, <2>1 DEF Written
<1>7. \A x, y, z \in BOOLEAN, s \in SUBSET AdminCalls :
        /\ [here |-> TRUE, active |-> x, assigned |-> y, default |-> z, setBy |-> s].default = z
        /\ [here |-> TRUE, active |-> x, assigned |-> y, default |-> z, setBy |-> s].setBy = s
  OBVIOUS
<1>8. /\ Written(a, row).default = (f.default = "set" \/ (f.default = "keep" /\ row.default))
      /\ Written(a, row).setBy =
           (IF f.default = "set" THEN {a} ELSE IF f.default = "keep" THEN row.setBy ELSE {})
  BY Zenon, <1>2, <1>3, <1>4, <1>7 DEF Written
<1>. QED  BY Zenon, <1>6, <1>8

LEMMA StepWrite == ASSUME AInv, NEW a \in AdminCalls, WriteProvider(a) PROVE AInv'
<1>0. adminCall[a].pc = "write" /\ AdminGoes(a, "invalidate") /\ adminCall[a].fields \in Fields
  BY AdminTyped DEF WriteProvider, AdminAt, AdminRecord
<1>1. /\ adminCall' \in [AdminCalls -> AdminRecord] /\ adminCall'[a].pc = "invalidate"
      /\ \A b \in AdminCalls :
           /\ adminCall'[b].kind = adminCall[b].kind /\ adminCall'[b].fields = adminCall[b].fields
           /\ adminCall'[b].beside = adminCall[b].beside
           /\ b # a => adminCall'[b].pc = adminCall[b].pc
  BY <1>0, AdminMoves DEF AdminSteps
<1>2. PICK p \in Providers : provider' = [provider EXCEPT ![p] = Written(a, provider[p])]
  BY DEF WriteProvider
<1>3. /\ provider' \in [Providers -> ProviderRecord]
      /\ provider'[p].default <=>
           adminCall[a].fields.default = "set"
             \/ (adminCall[a].fields.default = "keep" /\ provider[p].default)
      /\ provider'[p].setBy =
           IF adminCall[a].fields.default = "set" THEN {a}
           ELSE IF adminCall[a].fields.default = "keep" THEN provider[p].setBy ELSE {}
      /\ \A q \in Providers : q # p => provider'[q] = provider[q]
  <2>1. provider \in [Providers -> ProviderRecord]
    BY AdminTyped
  <2>2. provider'[p] = Written(a, provider[p])
    BY <1>2, <2>1
  <2>3. provider' \in [Providers -> ProviderRecord]
    BY <1>2, <2>1, TypeOfWritten
  <2>. QED  BY <1>2, <2>1, <2>2, <2>3, TypeOfWritten
<1>4. \A q \in Providers : provider[q].setBy \subseteq AdminCalls
  BY AdminTyped DEF ProviderRecord
<1>5. LlmTypeOK'
  BY <1>1, <1>3, TypeOfTableChanges, CompletionTyped, AdminTyped, TypePartsNext DEF WriteProvider
<1>6. StepsFitKind'
  BY <1>1 DEF AInv, StepsFitKind
<1>7. SettersWereMade'
  <2>. SUFFICES ASSUME NEW q \in Providers, NEW b \in provider'[q].setBy
                PROVE  adminCall'[b].pc # "idle"
    BY DEF SettersWereMade
  <2>1. b = a \/ b \in provider[q].setBy
    BY <1>3
  <2>. QED  BY <1>1, <1>4, <2>1 DEF AInv, SettersWereMade
<1>8. KnowEachOther'
  BY <1>0, <1>1, StillKnown DEF AdminSteps
<1>9. \A b \in AdminCalls : SetsBeside(b)'
  <2>. SUFFICES ASSUME NEW b \in AdminCalls, adminCall'[b].pc = "write",
                       adminCall'[b].fields.default = "set", NEW q \in Defaults'
                PROVE  \E c \in provider'[q].setBy :
                         b \in adminCall'[c].beside /\ c \in adminCall'[b].beside
    BY DEF SetsBeside
  <2>1. b # a /\ adminCall[b].pc = "write" /\ adminCall[b].fields.default = "set"
    BY <1>1
  <2>2. q \in Providers /\ provider'[q].default
    BY DEF Defaults
  <2>3. CASE q = p /\ adminCall[a].fields.default = "set"
    <3>1. a \in adminCall[b].beside /\ b \in adminCall[a].beside
      BY <1>0, <2>1 DEF AInv, KnowEachOther, AdminUnderWay, AdminSteps
    <3>. QED  BY <1>1, <1>3, <2>3, <3>1
  <2>4. CASE ~(q = p /\ adminCall[a].fields.default = "set")
    <3>1. provider[q].default /\ provider'[q].setBy = provider[q].setBy
      BY <1>3, <2>2, <2>4
    <3>2. PICK c \in provider[q].setBy : b \in adminCall[c].beside /\ c \in adminCall[b].beside
      BY <2>1, <2>2, <3>1 DEF AInv, SetsBeside, Defaults
    <3>. QED  BY <1>1, <1>4, <2>2, <3>1, <3>2
  <2>. QED  BY <2>3, <2>4
<1>10. DefaultsAreAccountedFor'
  <2>1. ASSUME NEW q \in Defaults', NEW r \in Defaults', q # r
        PROVE  \E x \in provider'[q].setBy, y \in provider'[r].setBy : x \in adminCall'[y].beside
    <3>1. /\ q \in Providers /\ provider'[q].default /\ r \in Providers /\ provider'[r].default
      BY DEF Defaults
    <3>2. CASE adminCall[a].fields.default # "set"
      <4>1. /\ provider[q].default /\ provider'[q].setBy = provider[q].setBy
            /\ provider[r].default /\ provider'[r].setBy = provider[r].setBy
        BY <1>3, <3>1, <3>2
      <4>2. PICK x \in provider[q].setBy, y \in provider[r].setBy : x \in adminCall[y].beside
        BY <2>1, <3>1, <4>1 DEF AInv, DefaultsAreAccountedFor, Defaults
      <4>. QED  BY <1>1, <1>4, <3>1, <4>1, <4>2
    <3>3. CASE adminCall[a].fields.default = "set" /\ q # p /\ r # p
      <4>1. /\ provider[q].default /\ provider'[q].setBy = provider[q].setBy
            /\ provider[r].default /\ provider'[r].setBy = provider[r].setBy
        BY <1>3, <3>1, <3>3
      <4>2. PICK x \in provider[q].setBy, y \in provider[r].setBy : x \in adminCall[y].beside
        BY <2>1, <3>1, <4>1 DEF AInv, DefaultsAreAccountedFor, Defaults
      <4>. QED  BY <1>1, <1>4, <3>1, <4>1, <4>2
    <3>4. CASE adminCall[a].fields.default = "set" /\ q = p
      <4>1. provider[r].default /\ provider'[r].setBy = provider[r].setBy /\ provider'[q].setBy = {a}
        BY <1>3, <2>1, <3>1, <3>4
      <4>2. PICK c \in provider[r].setBy : a \in adminCall[c].beside
        BY <1>0, <3>1, <3>4, <4>1 DEF AInv, SetsBeside, Defaults
      <4>. QED  BY <1>1, <1>4, <3>1, <4>1, <4>2
    <3>5. CASE adminCall[a].fields.default = "set" /\ r = p
      <4>1. provider[q].default /\ provider'[q].setBy = provider[q].setBy /\ provider'[r].setBy = {a}
        BY <1>3, <2>1, <3>1, <3>5
      <4>2. PICK c \in provider[q].setBy : c \in adminCall[a].beside
        BY <1>0, <3>1, <3>5, <4>1 DEF AInv, SetsBeside, Defaults
      <4>. QED  BY <1>1, <1>4, <3>1, <4>1, <4>2
    <3>. QED  BY <3>2, <3>3, <3>4, <3>5
  <2>2. ASSUME Defaults' = {}
        PROVE  \E b \in AdminCalls :
                 \/ adminCall'[b].fields.default = "set" /\ adminCall'[b].pc \in {"write", "failed"}
                 \/ adminCall'[b].fields.default = "clear" /\ adminCall'[b].pc \in {"invalidate", "done"}
    <3>1. adminCall[a].fields.default \in {"keep", "clear"}
      <4>1. adminCall[a].fields.default \in {"set", "keep", "clear"}
        BY <1>0 DEF Fields
      <4>2. ~provider'[p].default
        BY <2>2 DEF Defaults
      <4>. QED  BY <1>3, <4>1, <4>2
    <3>2. CASE adminCall[a].fields.default = "clear"
      BY <1>1, <3>2
    <3>3. CASE adminCall[a].fields.default = "keep"
      <4>1. Defaults = {}
        BY <1>3, <2>2, <3>3 DEF Defaults
      <4>2. PICK b \in AdminCalls :
              \/ adminCall[b].fields.default = "set" /\ adminCall[b].pc \in {"write", "failed"}
              \/ adminCall[b].fields.default = "clear" /\ adminCall[b].pc \in {"invalidate", "done"}
        BY <4>1 DEF AInv, DefaultsAreAccountedFor
      <4>3. b # a
        BY <3>3, <4>2
      <4>. QED  BY <1>1, <4>2, <4>3
    <3>. QED  BY <3>1, <3>2, <3>3
  <2>. QED  BY <2>1, <2>2 DEF DefaultsAreAccountedFor
<1>11. NewestPromptIsActive'
  BY <1>0, <1>1 DEF WriteProvider, AInv, NewestPromptIsActive
<1>. QED  BY <1>5, <1>6, <1>7, <1>8, <1>9, <1>10, <1>11 DEF AInv

-----------------------------------------------------------------------------
(* The invariant.                                                          *)

LEMMA AInvInit == LlmInit => AInv
<1>. SUFFICES ASSUME LlmInit PROVE AInv
  OBVIOUS
<1>1. LlmTypeOK
  BY TypeOfInit
<1>2. /\ \A a \in AdminCalls : adminCall[a].pc = "idle"
      /\ prompts = <<>>
  BY DEF LlmInit, NotAdmin
<1>5. \A p \in Providers : provider[p].setBy = {}
  BY RowsInit
<1>6. \E default \in Providers : Defaults = {default}
  BY RowsInit
<1>7. DefaultsAreAccountedFor
  BY <1>6 DEF DefaultsAreAccountedFor
<1>8. StepsFitKind /\ SettersWereMade /\ KnowEachOther /\ NewestPromptIsActive
  BY <1>2, <1>5 DEF StepsFitKind, SettersWereMade, KnowEachOther, NewestPromptIsActive,
                    AdminUnderWay, AdminSteps
<1>9. \A a \in AdminCalls : SetsBeside(a)
  BY <1>2 DEF SetsBeside
<1>. QED  BY <1>1, <1>7, <1>8, <1>9 DEF AInv

LEMMA AInvNext == AInv /\ [LlmNext]_llmVars => AInv'
<1>. SUFFICES ASSUME AInv, [LlmNext]_llmVars PROVE AInv'
  OBVIOUS
<1>1. ASSUME NEW c \in Completions, Complete(c) \/ SelectConfig(c) \/ KeepConfig(c) \/ FetchEnds(c)
      PROVE  AInv'
  BY <1>1, StepComplete, StepSelect, StepKeepConfig, StepFetchEnds
<1>2. ASSUME NEW i \in Instances,
             CooldownEnds(i) \/ \E key \in ConfigKeys : ConfigExpires(i, key)
      PROVE  AInv'
  BY <1>2, StepExpires, StepCooldown
<1>3. ASSUME NEW a \in AdminCalls, NEW kind \in {"post", "patch"}, NEW fields \in FieldChoices,
             NEW target \in {NoConfig} \cup {p \in Providers : provider[p].here},
             ChangeProvider(a, kind, target, fields)
      PROVE  AInv'
  <2>1. target \in Providers \cup {NoConfig} /\ fields \in Fields
    BY FieldAssumption
  <2>2. CASE fields.default = "set"
    <3>1. AdminBegins(a, kind, target, fields, "unset")
      BY <1>3, <2>2 DEF ChangeProvider
    <3>. QED  BY <2>1, <2>2, <3>1, StepBegins
  <2>3. CASE fields.default # "set"
    <3>1. AdminBegins(a, kind, target, fields, "write")
      BY <1>3, <2>3 DEF ChangeProvider
    <3>. QED  BY <2>1, <2>3, <3>1, StepBegins
  <2>. QED  BY <2>2, <2>3
<1>4. ASSUME NEW a \in AdminCalls, ChangePrompt(a) PROVE AInv'
  <2>1. NoFields \in Fields /\ NoFields.default # "set" /\ NoConfig \in Providers \cup {NoConfig}
    BY DEF NoFields, Fields
  <2>2. AdminBegins(a, "prompt", NoConfig, NoFields, "deactivate")
    BY <1>4 DEF ChangePrompt
  <2>. QED  BY <2>1, <2>2, StepBegins
<1>5. ASSUME NEW a \in AdminCalls,
             \/ UnsetDefault(a) \/ WriteProvider(a) \/ ProviderNotFound(a)
             \/ InvalidateProviderCache(a) \/ DeactivatePrompts(a) \/ InsertPrompt(a) \/ AdminFails(a)
      PROVE  AInv'
  BY <1>5, StepUnset, StepWrite, StepNotFound, StepInvalidate, StepDeactivate, StepInsert, StepFails
<1>6. CASE UNCHANGED llmVars
  <2>1. CompletionTypeOK'
    BY <1>6, CompletionTyped DEF llmVars, CompletionTypeOK
  <2>. QED  BY <1>6, <2>1, CompletionTyped, AdminSame DEF llmVars
<1>. QED  BY <1>1, <1>2, <1>3, <1>4, <1>5, <1>6 DEF LlmNext

\* The invariant that the theorems below are read from.
THEOREM LlmInvariant == LlmSpec => []AInv
BY AInvInit, AInvNext, PTL DEF LlmSpec

\* The variables of LlmProvider keep their types.
THEOREM LlmTypeCorrect == LlmSpec => []LlmTypeOK
<1>1. AInv => LlmTypeOK
  BY DEF AInv
<1>. QED  BY <1>1, LlmInvariant, PTL

\* Two default providers are the work of requests that overlapped, and none is that of a
\* request which took the default away and put none in its place (the two statements of
\* the POST and PATCH handlers).
THEOREM DefaultsAccounted == LlmSpec => []DefaultsAreAccountedFor
<1>1. AInv => DefaultsAreAccountedFor
  BY DEF AInv
<1>. QED  BY <1>1, LlmInvariant, PTL

\* The newest system prompt is active, but for a request that stopped between its two
\* statements (the PUT handler of prompts).
THEOREM NewestActive == LlmSpec => []NewestPromptIsActive
<1>1. AInv => NewestPromptIsActive
  BY DEF AInv
<1>. QED  BY <1>1, LlmInvariant, PTL

-----------------------------------------------------------------------------
(* The caches of provider rows.                                            *)

\* What the table names for a key; nothing is the environment's turn.
Names(config, key, nothing) ==
  config \in Serving(key) \/ (config = nothing /\ Serving(key) = {})

\* A request that has changed the table and not cleared the caches of instance i, or too
\* early for a SELECT that was under way.
Excuses(a, i, late) ==
  \/ adminCall[a].pc \in {"write", "invalidate", "failed"}
  \/ adminCall[a].pc = "done" /\ (late \/ adminCall[a].at # i)

\* What was read before the table changed is told by missed.
ReadIsAccountedFor ==
  \A c \in Completions :
    CompletionAt(c, "selected") =>
      /\ ~completion[c].blind /\ completion[c].missed = {} =>
           Names(completion[c].config, completion[c].key, NoConfig)
      /\ \A a \in completion[c].missed : Excuses(a, completion[c].at, completion[c].late)

CachedIsAccountedFor ==
  \A i \in Instances, key \in ConfigKeys :
    LET cached == cachedConfig[i][key]
    IN cached.fresh =>
         /\ ~cached.blind /\ cached.missed = {} => Names(cached.config, key, EnvConfig)
         /\ \A a \in cached.missed : Excuses(a, i, cached.late)

CacheInv == ReadIsAccountedFor /\ CachedIsAccountedFor

LEMMA CacheCurrent == CacheInv => CachedConfigIsCurrent
<1>. SUFFICES ASSUME CacheInv, NEW i \in Instances, NEW key \in ConfigKeys,
                     cachedConfig[i][key].fresh, ~cachedConfig[i][key].blind
              PROVE  LET cached == cachedConfig[i][key]
                     IN \/ cached.config \in Serving(key)
                        \/ cached.config = EnvConfig /\ Serving(key) = {}
                        \/ \E a \in cached.missed :
                             adminCall[a].at # i \/ adminCall[a].pc # "done" \/ cached.late
  BY DEF CachedConfigIsCurrent
<1>1. CASE cachedConfig[i][key].missed = {}
  BY <1>1 DEF CacheInv, CachedIsAccountedFor, Names
<1>2. CASE cachedConfig[i][key].missed # {}
  <2>1. PICK a \in cachedConfig[i][key].missed : Excuses(a, i, cachedConfig[i][key].late)
    BY <1>2 DEF CacheInv, CachedIsAccountedFor
  <2>. QED  BY <2>1 DEF Excuses
<1>. QED  BY <1>1, <1>2

LEMMA CacheInvInit == LlmInit => CacheInv
<1>. SUFFICES ASSUME LlmInit PROVE CacheInv
  OBVIOUS
<1>1. \A c \in Completions : ~CompletionAt(c, "selected")
  BY DEF LlmInit, CompletionAt, NotCompleting
<1>2. \A i \in Instances, key \in ConfigKeys : ~cachedConfig[i][key].fresh
  BY DEF LlmInit, NotCached
<1>. QED  BY <1>1, <1>2 DEF CacheInv, ReadIsAccountedFor, CachedIsAccountedFor

\* The requests that account for what is stale, by themselves.
LEMMA MissedAreRequests ==
  ASSUME AInv
  PROVE  /\ \A c \in Completions : completion[c].missed \subseteq AdminCalls
         /\ \A i \in Instances, key \in ConfigKeys : cachedConfig[i][key].missed \subseteq AdminCalls
<1>1. /\ \A c \in Completions : completion[c] \in CompletionRecord
      /\ \A i \in Instances, key \in ConfigKeys : cachedConfig[i][key] \in CachedRecord
  BY CompletionTyped
<1>. QED  BY <1>1 DEF CompletionRecord, CachedRecord

\* The table stays, the requests that account for something still do, and nothing new is
\* read or cached.
LEMMA CacheSame ==
  ASSUME AInv, CacheInv, UNCHANGED provider,
         \A a \in AdminCalls : \A i, late : Excuses(a, i, late) => Excuses(a, i, late)',
         \A c \in Completions : CompletionAt(c, "selected")' => completion'[c] = completion[c],
         \A i \in Instances, key \in ConfigKeys :
           cachedConfig'[i][key].fresh => cachedConfig'[i][key] = cachedConfig[i][key]
  PROVE  CacheInv'
<1>1. \A key : Serving(key)' = Serving(key)
  BY DEF Serving, Serves
<1>2. ReadIsAccountedFor'
  <2>. SUFFICES ASSUME NEW c \in Completions, CompletionAt(c, "selected")'
                PROVE  /\ ~completion'[c].blind /\ completion'[c].missed = {} =>
                            Names(completion[c].config, completion[c].key, NoConfig)'
                       /\ \A a \in completion'[c].missed :
                            Excuses(a, completion[c].at, completion[c].late)'
    BY DEF ReadIsAccountedFor
  <2>1. completion'[c] = completion[c] /\ CompletionAt(c, "selected")
    BY DEF CompletionAt
  <2>. QED  BY <1>1, <2>1, MissedAreRequests DEF CacheInv, ReadIsAccountedFor, Names
<1>3. CachedIsAccountedFor'
  <2>. SUFFICES ASSUME NEW i \in Instances, NEW key \in ConfigKeys, cachedConfig'[i][key].fresh
                PROVE  /\ ~cachedConfig'[i][key].blind /\ cachedConfig'[i][key].missed = {} =>
                            Names(cachedConfig[i][key].config, key, EnvConfig)'
                       /\ \A a \in cachedConfig'[i][key].missed :
                            Excuses(a, i, cachedConfig[i][key].late)'
    BY DEF CachedIsAccountedFor
  <2>1. cachedConfig'[i][key] = cachedConfig[i][key]
    OBVIOUS
  <2>. QED  BY <1>1, <2>1, MissedAreRequests DEF CacheInv, CachedIsAccountedFor, Names
<1>. QED  BY <1>2, <1>3 DEF CacheInv

\* A look leaves nothing at "selected" that was not there.
LEMMA LooksReadsNothing ==
  ASSUME AInv, NEW c \in Completions, NEW i, NEW key, NEW cache, NEW config,
         Looks(c, i, config) \/ LooksUp(c, i, key, cache)
  PROVE  \A d \in Completions :
           CompletionAt(d, "selected")' => d # c /\ completion'[d] = completion[d]
<1>1. completion \in [Completions -> CompletionRecord]
  BY CompletionTyped
<1>2. \/ completion' = [completion EXCEPT ![c] = [NotCompleting EXCEPT !.pc = "done"]]
      \/ completion' = [completion EXCEPT ![c] = [NotCompleting EXCEPT !.pc = "fetch", !.at = i]]
      \/ completion' = [completion EXCEPT ![c] =
                          [NotCompleting EXCEPT !.pc = "select", !.at = i, !.key = key]]
  BY DEF Looks, LooksUp
<1>. QED  BY <1>1, <1>2 DEF CompletionAt, NotCompleting

\* What has not been read yet has missed nothing.
MissedNothing == \A c \in Completions : CompletionAt(c, "select") => completion[c].missed = {}

LEMMA CacheStepSelect ==
  ASSUME AInv, CacheInv, MissedNothing, NEW c \in Completions, SelectConfig(c) PROVE CacheInv'
<1>. DEFINE key == completion[c].key
<1>1. completion \in [Completions -> CompletionRecord] /\ completion[c] \in CompletionRecord
  BY CompletionTyped
<1>2. /\ UNCHANGED <<provider, cachedConfig, adminCall>>
      /\ \A d \in Completions : d # c => completion'[d] = completion[d]
  BY <1>1 DEF SelectConfig
<1>3. \A a, i, late : Excuses(a, i, late)' <=> Excuses(a, i, late)
  BY <1>2 DEF Excuses
<1>4. \A k : Serving(k)' = Serving(k)
  BY <1>2 DEF Serving, Serves
<1>5. /\ ~completion'[c].blind => Names(completion'[c].config, completion'[c].key, NoConfig)
      /\ completion'[c].missed = {}
  <2>0. completion[c].missed = {}
    BY DEF MissedNothing, SelectConfig
  <2>1. CASE completion' = [completion EXCEPT ![c].pc = "selected", ![c].blind = TRUE]
    BY <1>1, <2>0, <2>1 DEF CompletionRecord
  <2>2. ASSUME NEW p \in IF Serving(key) = {} THEN {NoConfig} ELSE Serving(key),
               completion' = [completion EXCEPT ![c].pc = "selected", ![c].config = p]
        PROVE  /\ Names(completion'[c].config, completion'[c].key, NoConfig)
               /\ completion'[c].missed = {}
    <3>1. completion'[c].config = p /\ completion'[c].key = key /\ completion'[c].missed = {}
      BY <1>1, <2>0, <2>2 DEF CompletionRecord
    <3>. QED  BY <3>1 DEF Names
  <2>. QED  BY <2>1, <2>2 DEF SelectConfig
<1>6. ReadIsAccountedFor'
  BY <1>2, <1>3, <1>4, <1>5 DEF CacheInv, ReadIsAccountedFor, Names, CompletionAt
<1>7. CachedIsAccountedFor'
  BY <1>2, <1>3, <1>4 DEF CacheInv, CachedIsAccountedFor, Names
<1>. QED  BY <1>6, <1>7 DEF CacheInv

LEMMA CacheStepKeep ==
  ASSUME AInv, CacheInv, NEW c \in Completions, KeepConfig(c) PROVE CacheInv'
<1>. DEFINE key == completion[c].key
            at == completion[c].at
            config == IF completion[c].config = NoConfig /\ key = "default" /\ HasEnv
                      THEN EnvConfig ELSE completion[c].config
            entry == [config |-> config, fresh |-> TRUE, late |-> completion[c].late,
                      blind |-> completion[c].blind, missed |-> completion[c].missed]
            kept == IF config = NoConfig THEN cachedConfig[at]
                    ELSE [cachedConfig[at] EXCEPT ![key] = entry]
<1>1. /\ completion[c] \in CompletionRecord /\ at \in Instances
      /\ DOMAIN cachedConfig = Instances
      /\ \A i \in Instances : DOMAIN cachedConfig[i] = ConfigKeys
  BY CompletionTyped DEF KeepConfig, CompletionAt, Placed
<1>2. key \in ConfigKeys /\ CompletionAt(c, "selected")
  BY <1>1 DEF CompletionRecord, KeepConfig
<1>3. /\ cachedConfig' = [cachedConfig EXCEPT ![at] = kept] /\ UNCHANGED <<provider, adminCall>>
      /\ LooksUp(c, at, "default", kept) \/ Looks(c, at, config)
  BY DEF KeepConfig
<1>4. \A d \in Completions : CompletionAt(d, "selected")' => completion'[d] = completion[d]
  <2>. HIDE DEF kept, config, at
  <2>. QED  BY <1>3, LooksReadsNothing
<1>5. \A k : Serving(k)' = Serving(k)
  BY <1>3 DEF Serving, Serves
<1>6. \A a, i, late : Excuses(a, i, late)' <=> Excuses(a, i, late)
  BY <1>3 DEF Excuses
<1>7. ReadIsAccountedFor'
  BY <1>4, <1>5, <1>6 DEF CacheInv, ReadIsAccountedFor, Names, CompletionAt
<1>8. CachedIsAccountedFor'
  <2>. SUFFICES ASSUME NEW i \in Instances, NEW k \in ConfigKeys, cachedConfig'[i][k].fresh
                PROVE  LET cached == cachedConfig'[i][k]
                       IN /\ ~cached.blind /\ cached.missed = {} => Names(cached.config, k, EnvConfig)
                          /\ \A a \in cached.missed : Excuses(a, i, cached.late)
    BY <1>5, <1>6 DEF CachedIsAccountedFor, Names
  <2>1. CASE config = NoConfig \/ k # key \/ i # at
    <3>1. cachedConfig'[i][k] = cachedConfig[i][k]
      <4>1. CASE i # at
        BY <1>1, <1>3, <4>1
      <4>2. CASE i = at
        <5>1. cachedConfig'[i] = kept
          BY <1>1, <1>3, <4>2
        <5>. HIDE DEF entry
        <5>. QED  BY <1>1, <2>1, <4>2, <5>1
      <4>. QED  BY <4>1, <4>2
    <3>. QED  BY <3>1 DEF CacheInv, CachedIsAccountedFor
  <2>2. CASE config # NoConfig /\ k = key /\ i = at
    <3>1. cachedConfig'[i][k] = entry
      <4>1. cachedConfig'[i] = kept
        BY <1>1, <1>3, <2>2
      <4>. HIDE DEF entry
      <4>. QED  BY <1>1, <1>2, <2>2, <4>1
    <3>2. /\ ~entry.blind /\ entry.missed = {} => Names(completion[c].config, key, NoConfig)
          /\ \A a \in entry.missed : Excuses(a, at, entry.late)
      BY <1>2 DEF CacheInv, ReadIsAccountedFor
    <3>3. Names(completion[c].config, key, NoConfig) => Names(config, key, EnvConfig)
      BY <2>2, LlmAssumption DEF Names, Serving
    <3>4. entry.config = config
      OBVIOUS
    <3>. HIDE DEF entry, config
    <3>. QED  BY <2>2, <3>1, <3>2, <3>3, <3>4
  <2>. QED  BY <2>1, <2>2
<1>. QED  BY <1>7, <1>8 DEF CacheInv

\* A request that moves on or begins accounts for what it accounted for, unless it comes to
\* clear the caches.
LEMMA StillExcuses ==
  ASSUME AInv, NEW a \in AdminCalls, NEW pc \in AdminSteps \cup {"idle", "done", "failed"},
         AdminGoes(a, pc),
         adminCall[a].pc \in {"write", "invalidate", "failed"} => pc \in {"write", "invalidate", "failed"},
         adminCall[a].pc # "done"
  PROVE  \A b \in AdminCalls : \A i, late : Excuses(b, i, late) => Excuses(b, i, late)'
BY AdminMoves DEF Excuses

\* Once the caches of an instance are cleared nothing is fresh there, and what was read is
\* late.
LEMMA CacheStepInvalidate ==
  ASSUME AInv, CacheInv, NEW a \in AdminCalls, InvalidateProviderCache(a) PROVE CacheInv'
<1>. DEFINE at == adminCall[a].at
<1>0. /\ completion \in [Completions -> CompletionRecord] /\ UNCHANGED provider
      /\ adminCall[a].pc = "invalidate" /\ adminCall'[a].pc = "done" /\ adminCall'[a].at = at
      /\ \A b \in AdminCalls : /\ adminCall'[b].at = adminCall[b].at
                               /\ b # a => adminCall'[b].pc = adminCall[b].pc
  BY CompletionTyped, AdminMoves DEF InvalidateProviderCache, AdminAt, AdminSteps
<1>1. \A key : Serving(key)' = Serving(key)
  BY <1>0 DEF Serving, Serves
<1>2. \A b \in AdminCalls : \A i, late : Excuses(b, i, late) /\ (late \/ i # at) => Excuses(b, i, late)'
  BY <1>0 DEF Excuses
<1>3. \A b \in AdminCalls : \A i, late : Excuses(b, i, late) => Excuses(b, i, TRUE)'
  BY <1>0 DEF Excuses
<1>4. ReadIsAccountedFor'
  <2>. SUFFICES ASSUME NEW c \in Completions, CompletionAt(c, "selected")'
                PROVE  /\ ~completion'[c].blind /\ completion'[c].missed = {} =>
                            Names(completion[c].config, completion[c].key, NoConfig)'
                       /\ \A b \in completion'[c].missed :
                            Excuses(b, completion[c].at, completion[c].late)'
    BY DEF ReadIsAccountedFor
  <2>1. completion[c] \in CompletionRecord
    BY <1>0
  <2>2. \/ completion'[c] = [completion[c] EXCEPT !.late = TRUE]
        \/ completion'[c] = completion[c] /\ ~(CompletionAt(c, "selected") /\ completion[c].at = at)
    BY DEF InvalidateProviderCache
  <2>3. /\ completion'[c].pc = completion[c].pc /\ completion'[c].blind = completion[c].blind
        /\ completion'[c].missed = completion[c].missed /\ completion'[c].key = completion[c].key
        /\ completion'[c].config = completion[c].config /\ completion'[c].at = completion[c].at
        /\ \/ completion'[c].late = TRUE
           \/ /\ completion'[c].late = completion[c].late
              /\ ~(CompletionAt(c, "selected") /\ completion[c].at = at)
    <3>1. CASE completion'[c] = [completion[c] EXCEPT !.late = TRUE]
      BY <2>1, <3>1 DEF CompletionRecord
    <3>2. CASE completion'[c] = completion[c] /\ ~(CompletionAt(c, "selected") /\ completion[c].at = at)
      BY <3>2
    <3>. QED  BY <2>2, <3>1, <3>2
  <2>4. CompletionAt(c, "selected")
    BY <2>3 DEF CompletionAt
  <2>5. /\ ~completion[c].blind /\ completion[c].missed = {} =>
             Names(completion[c].config, completion[c].key, NoConfig)
        /\ \A b \in completion[c].missed : Excuses(b, completion[c].at, completion[c].late)
    BY <2>4 DEF CacheInv, ReadIsAccountedFor
  <2>6. \A b \in completion'[c].missed : Excuses(b, completion[c].at, completion[c].late)'
    BY <1>2, <1>3, <2>3, <2>4, <2>5, MissedAreRequests
  <2>. QED  BY <1>1, <2>3, <2>5, <2>6 DEF Names
<1>5. CachedIsAccountedFor'
  <2>. SUFFICES ASSUME NEW i \in Instances, NEW key \in ConfigKeys, cachedConfig'[i][key].fresh
                PROVE  /\ ~cachedConfig'[i][key].blind /\ cachedConfig'[i][key].missed = {} =>
                            Names(cachedConfig[i][key].config, key, EnvConfig)'
                       /\ \A b \in cachedConfig'[i][key].missed :
                            Excuses(b, i, cachedConfig[i][key].late)'
    BY DEF CachedIsAccountedFor
  <2>1. i # at /\ cachedConfig'[i] = cachedConfig[i]
    BY CompletionTyped DEF InvalidateProviderCache, ClearedConfigs, NotCached
  <2>. QED  BY <1>1, <1>2, <2>1, MissedAreRequests DEF CacheInv, CachedIsAccountedFor, Names
<1>. QED  BY <1>4, <1>5 DEF CacheInv

\* A statement that changes the table is told by missed wherever something has been read.
LEMMA CacheStepTable ==
  ASSUME AInv, CacheInv, NEW a \in AdminCalls, TableChanges(a),
         NEW pc \in {"write", "invalidate"}, AdminGoes(a, pc), adminCall[a].pc \in {"unset", "write"}
  PROVE  CacheInv'
<1>1. pc \in AdminSteps
  BY DEF AdminSteps
<1>2. \A b \in AdminCalls : \A i, late : Excuses(b, i, late) => Excuses(b, i, late)'
  BY <1>1, StillExcuses
<1>3. \A i, late : Excuses(a, i, late)'
  BY <1>1, AdminMoves DEF Excuses
<1>4. ReadIsAccountedFor'
  <2>. SUFFICES ASSUME NEW c \in Completions, CompletionAt(c, "selected")'
                PROVE  /\ completion'[c].missed # {}
                       /\ \A b \in completion'[c].missed :
                            Excuses(b, completion[c].at, completion[c].late)'
    BY DEF ReadIsAccountedFor
  <2>1. CompletionAt(c, "selected") /\ completion'[c].missed = completion[c].missed \cup {a}
    BY TypeOfTableChanges DEF CompletionAt
  <2>2. completion'[c].at = completion[c].at /\ completion'[c].late = completion[c].late
    <3>1. completion[c] \in CompletionRecord
      BY CompletionTyped
    <3>2. completion'[c] = [completion[c] EXCEPT !.missed =
            IF CompletionAt(c, "selected") THEN completion[c].missed \cup {a} ELSE completion[c].missed]
      BY DEF TableChanges
    <3>. QED  BY <3>1, <3>2 DEF CompletionRecord
  <2>. QED  BY <1>2, <1>3, <2>1, <2>2, MissedAreRequests DEF CacheInv, ReadIsAccountedFor
<1>5. CachedIsAccountedFor'
  <2>. SUFFICES ASSUME NEW i \in Instances, NEW key \in ConfigKeys, cachedConfig'[i][key].fresh
                PROVE  /\ cachedConfig'[i][key].missed # {}
                       /\ \A b \in cachedConfig'[i][key].missed :
                            Excuses(b, i, cachedConfig[i][key].late)'
    BY DEF CachedIsAccountedFor
  <2>1. /\ cachedConfig[i][key].fresh
        /\ cachedConfig'[i][key].missed = cachedConfig[i][key].missed \cup {a}
    BY TypeOfTableChanges
  <2>2. cachedConfig'[i][key].late = cachedConfig[i][key].late
    <3>1. cachedConfig[i][key] \in CachedRecord
      BY CompletionTyped
    <3>2. cachedConfig'[i][key] = [cachedConfig[i][key] EXCEPT !.missed =
            IF cachedConfig[i][key].fresh THEN cachedConfig[i][key].missed \cup {a}
            ELSE cachedConfig[i][key].missed]
      BY DEF TableChanges
    <3>. QED  BY <3>1, <3>2 DEF CachedRecord
  <2>. QED  BY <1>2, <1>3, <2>1, <2>2, MissedAreRequests DEF CacheInv, CachedIsAccountedFor
<1>. QED  BY <1>4, <1>5 DEF CacheInv

LEMMA CacheInvNext == ASSUME AInv, MissedNothing, CacheInv, [LlmNext]_llmVars PROVE CacheInv'
<1>0. ASSUME UNCHANGED adminCall
      PROVE  \A a \in AdminCalls : \A i, late : Excuses(a, i, late) => Excuses(a, i, late)'
  BY <1>0 DEF Excuses
<1>1. ASSUME NEW c \in Completions, Complete(c) PROVE CacheInv'
  <2>1. UNCHANGED <<provider, cachedConfig, adminCall>>
    BY <1>1 DEF Complete
  <2>2. \A d \in Completions : CompletionAt(d, "selected")' => completion'[d] = completion[d]
    BY <1>1, LooksReadsNothing DEF Complete
  <2>. QED  BY <1>0, <2>1, <2>2, CacheSame
<1>2. ASSUME NEW c \in Completions, FetchEnds(c) PROVE CacheInv'
  <2>1. UNCHANGED <<provider, cachedConfig, adminCall>>
    BY <1>2 DEF FetchEnds
  <2>2. \A d \in Completions : CompletionAt(d, "selected")' => completion'[d] = completion[d]
    BY <1>2, CompletionTyped DEF FetchEnds, CompletionAt, NotCompleting
  <2>. QED  BY <1>0, <2>1, <2>2, CacheSame
<1>3. ASSUME NEW i \in Instances, NEW key \in ConfigKeys, ConfigExpires(i, key) PROVE CacheInv'
  <2>1. UNCHANGED <<provider, completion, adminCall>>
    BY <1>3 DEF ConfigExpires
  <2>2. \A j \in Instances, k \in ConfigKeys :
          cachedConfig'[j][k].fresh => cachedConfig'[j][k] = cachedConfig[j][k]
    BY <1>3, CompletionTyped DEF ConfigExpires, NotCached
  <2>. QED  BY <1>0, <2>1, <2>2, CacheSame
<1>4. ASSUME NEW i \in Instances, CooldownEnds(i) PROVE CacheInv'
  <2>1. UNCHANGED <<provider, cachedConfig, completion, adminCall>>
    BY <1>4 DEF CooldownEnds
  <2>. QED  BY <1>0, <2>1, CacheSame
<1>5. ASSUME NEW a \in AdminCalls, NEW kind, NEW target, NEW fields, NEW pc,
             AdminBegins(a, kind, target, fields, pc)
      PROVE  CacheInv'
  <2>1. adminCall[a].pc = "idle" /\ UNCHANGED <<provider, cachedConfig, completion>>
    BY <1>5 DEF AdminBegins, AdminAt
  <2>2. ASSUME NEW b \in AdminCalls, b # a
        PROVE  adminCall'[b].pc = adminCall[b].pc /\ adminCall'[b].at = adminCall[b].at
    <3>1. adminCall'[b] = IF b \in AdminUnderWay THEN [adminCall[b] EXCEPT !.beside = @ \cup {a}]
                          ELSE adminCall[b]
      BY <1>5, <2>2 DEF AdminBegins
    <3>2. adminCall[b] \in AdminRecord
      BY AdminTyped
    <3>. QED  BY <3>1, <3>2 DEF AdminRecord
  <2>3. \A b \in AdminCalls : \A i, late : Excuses(b, i, late) => Excuses(b, i, late)'
    BY <2>1, <2>2 DEF Excuses
  <2>. QED  BY <2>1, <2>3, CacheSame
<1>6. ASSUME NEW a \in AdminCalls, NEW kind, NEW target, NEW fields,
             ChangeProvider(a, kind, target, fields) \/ ChangePrompt(a)
      PROVE  CacheInv'
  BY <1>5, <1>6 DEF ChangeProvider, ChangePrompt
<1>7. ASSUME NEW a \in AdminCalls, UnsetDefault(a) \/ WriteProvider(a) PROVE CacheInv'
  <2>1. CASE UnsetDefault(a)
    BY <2>1, CacheStepTable DEF UnsetDefault, AdminAt
  <2>2. CASE WriteProvider(a)
    BY <2>2, CacheStepTable DEF WriteProvider, AdminAt
  <2>. QED  BY <1>7, <2>1, <2>2
<1>8. ASSUME NEW a \in AdminCalls,
             ProviderNotFound(a) \/ DeactivatePrompts(a) \/ InsertPrompt(a) \/ AdminFails(a)
      PROVE  CacheInv'
  <2>1. PICK pc \in {"failed", "insert", "done"} :
          /\ AdminGoes(a, pc) /\ adminCall[a].pc \in AdminSteps
          /\ pc = "failed" \/ adminCall[a].pc \notin {"write", "invalidate", "failed"}
    BY <1>8 DEF ProviderNotFound, DeactivatePrompts, InsertPrompt, AdminFails, AdminAt, AdminSteps
  <2>2. UNCHANGED <<provider, cachedConfig, completion>>
    BY <1>8 DEF ProviderNotFound, DeactivatePrompts, InsertPrompt, AdminFails
  <2>3. pc \in AdminSteps \cup {"idle", "done", "failed"} /\ adminCall[a].pc # "done"
    BY <2>1 DEF AdminSteps
  <2>4. \A b \in AdminCalls : \A i, late : Excuses(b, i, late) => Excuses(b, i, late)'
    BY <2>1, <2>3, StillExcuses
  <2>. QED  BY <2>2, <2>4, CacheSame
<1>9. CASE UNCHANGED llmVars
  <2>1. UNCHANGED <<provider, cachedConfig, completion, adminCall>>
    BY <1>9 DEF llmVars
  <2>. QED  BY <1>0, <2>1, CacheSame
<1>. QED  BY <1>1, <1>2, <1>3, <1>4, <1>6, <1>7, <1>8, <1>9, CacheStepSelect, CacheStepKeep,
             CacheStepInvalidate DEF LlmNext

LEMMA MissedNothingNext == ASSUME AInv, MissedNothing, [LlmNext]_llmVars PROVE MissedNothing'
<1>0. /\ completion \in [Completions -> CompletionRecord]
      /\ \A c \in Completions : completion[c] \in CompletionRecord
  BY CompletionTyped
<1>1. ASSUME NEW c \in Completions, NEW i, NEW key, NEW cache, NEW config,
             Looks(c, i, config) \/ LooksUp(c, i, key, cache)
      PROVE  MissedNothing'
  <2>1. \/ completion' = [completion EXCEPT ![c] = [NotCompleting EXCEPT !.pc = "done"]]
        \/ completion' = [completion EXCEPT ![c] = [NotCompleting EXCEPT !.pc = "fetch", !.at = i]]
        \/ completion' = [completion EXCEPT ![c] =
                            [NotCompleting EXCEPT !.pc = "select", !.at = i, !.key = key]]
    BY <1>1 DEF Looks, LooksUp
  <2>. QED  BY <1>0, <2>1 DEF MissedNothing, CompletionAt, NotCompleting
<1>2. ASSUME NEW c \in Completions, Complete(c) \/ KeepConfig(c) PROVE MissedNothing'
  <2>1. \E i, key, cache, config : Looks(c, i, config) \/ LooksUp(c, i, key, cache)
    BY <1>2 DEF Complete, KeepConfig
  <2>. QED  BY <1>1, <2>1
<1>3. ASSUME NEW c \in Completions, SelectConfig(c) PROVE MissedNothing'
  <2>1. \A d \in Completions : d # c => completion'[d] = completion[d]
    BY <1>0, <1>3 DEF SelectConfig
  <2>2. completion'[c].pc = "selected"
    <3>1. CASE completion' = [completion EXCEPT ![c].pc = "selected", ![c].blind = TRUE]
      BY <1>0, <3>1 DEF CompletionRecord
    <3>2. ASSUME NEW p, completion' = [completion EXCEPT ![c].pc = "selected", ![c].config = p]
          PROVE  completion'[c].pc = "selected"
      BY <1>0, <3>2 DEF CompletionRecord
    <3>. QED  BY <1>3, <3>1, <3>2 DEF SelectConfig
  <2>. QED  BY <2>1, <2>2 DEF MissedNothing, CompletionAt
<1>4. ASSUME NEW c \in Completions, FetchEnds(c) PROVE MissedNothing'
  BY <1>0, <1>4 DEF FetchEnds, MissedNothing, CompletionAt, NotCompleting
<1>5. ASSUME NEW a \in AdminCalls, InvalidateProviderCache(a) PROVE MissedNothing'
  <2>1. ASSUME NEW c \in Completions
        PROVE  completion'[c].pc = completion[c].pc /\ completion'[c].missed = completion[c].missed
    <3>1. completion'[c] = completion[c] \/ completion'[c] = [completion[c] EXCEPT !.late = TRUE]
      BY <1>5 DEF InvalidateProviderCache
    <3>. QED  BY <1>0, <3>1 DEF CompletionRecord
  <2>. QED  BY <2>1 DEF MissedNothing, CompletionAt
<1>6. ASSUME NEW a \in AdminCalls, UnsetDefault(a) \/ WriteProvider(a) PROVE MissedNothing'
  <2>1. TableChanges(a)
    BY <1>6 DEF UnsetDefault, WriteProvider
  <2>. QED  BY <2>1, TypeOfTableChanges DEF MissedNothing, CompletionAt
<1>7. ASSUME UNCHANGED completion PROVE MissedNothing'
  BY <1>7 DEF MissedNothing, CompletionAt
<1>8. ASSUME NEW i \in Instances,
             CooldownEnds(i) \/ \E key \in ConfigKeys : ConfigExpires(i, key)
      PROVE  MissedNothing'
  BY <1>7, <1>8 DEF CooldownEnds, ConfigExpires
<1>9. ASSUME NEW a \in AdminCalls, NEW kind, NEW target, NEW fields,
             ChangeProvider(a, kind, target, fields)
      PROVE  MissedNothing'
  BY <1>7, <1>9 DEF ChangeProvider, AdminBegins
<1>10. ASSUME NEW a \in AdminCalls,
              \/ ChangePrompt(a) \/ ProviderNotFound(a) \/ DeactivatePrompts(a) \/ InsertPrompt(a)
              \/ AdminFails(a)
       PROVE  MissedNothing'
  BY <1>7, <1>10 DEF ChangePrompt, AdminBegins, ProviderNotFound, DeactivatePrompts, InsertPrompt,
                     AdminFails
<1>11. ASSUME UNCHANGED llmVars PROVE MissedNothing'
  BY <1>7, <1>11 DEF llmVars
<1>. QED  BY <1>2, <1>3, <1>4, <1>5, <1>6, <1>8, <1>9, <1>10, <1>11 DEF LlmNext

LEMMA MissedNothingInit == LlmInit => MissedNothing
<1>1. NotCompleting.pc = "idle"
  BY DEF NotCompleting
<1>. QED  BY <1>1 DEF LlmInit, MissedNothing, CompletionAt

\* A provider that an instance has cached is the one that the table names, but for the
\* requests and the SELECTs that CachedConfigIsCurrent excepts, however many instances there
\* are: a request makes its own instance current, and the others stay as they are until
\* their entries expire (invalidateProviderCache).
THEOREM CacheCorrect == LlmSpec => []CachedConfigIsCurrent
<1>1. AInv /\ MissedNothing /\ CacheInv /\ [LlmNext]_llmVars => CacheInv' /\ MissedNothing'
  BY CacheInvNext, MissedNothingNext
<1>2. LlmInit => CacheInv /\ MissedNothing
  BY CacheInvInit, MissedNothingInit
<1>. QED  BY <1>1, <1>2, CacheCurrent, LlmInvariant, PTL DEF LlmSpec

-----------------------------------------------------------------------------
(* Idempotency.                                                            *)

\* The row holds the answer of an attempt that did the work, or there is none.
RowIsOfWork ==
  /\ keyRow.by = NoAttempt => ~keyRow.fresh
  /\ keyRow.by # NoAttempt => attempt[keyRow.by].did

\* What is on record has a row that can be replayed.
RecordHasRow == \A t \in Attempts : attempt[t].onRecord => keyRow.fresh

\* An attempt that got past its look could not look, or there was nothing to know of.
HandlersKnewNothing ==
  \A t \in Attempts :
    /\ AttemptAt(t, "idle") => attempt[t] = NotTried
    /\ attempt[t].blind \/ attempt[t].knew = {}

AnsweredDid == \A t \in Attempts : AttemptAt(t, "answered") => attempt[t].did

ReplaysAreOfWork ==
  \A t \in Attempts : attempt[t].replays # NoAttempt => attempt[attempt[t].replays].did

IdemInv ==
  IdemTypeOK /\ RowIsOfWork /\ RecordHasRow /\ HandlersKnewNothing /\ AnsweredDid /\ ReplaysAreOfWork

LEMMA IdemInvInit == IdemInit => IdemInv
<1>. SUFFICES ASSUME IdemInit PROVE IdemInv
  OBVIOUS
<1>1. keyRow = NoKeyRow /\ \A t \in Attempts : attempt[t] = NotTried
  BY DEF IdemInit
<1>a. /\ NotTried.pc = "idle" /\ ~NotTried.onRecord /\ NotTried.knew = {}
      /\ NotTried.replays = NoAttempt /\ NoKeyRow.by = NoAttempt /\ ~NoKeyRow.fresh
  BY DEF NotTried, NoKeyRow
<1>2. NotTried \in Attempt /\ NoKeyRow \in KeyRow
  BY DEF NotTried, Attempt, NoKeyRow, KeyRow
<1>3. IdemTypeOK
  BY <1>2 DEF IdemInit, IdemTypeOK
<1>. QED  BY <1>1, <1>3, <1>a DEF IdemInv, RowIsOfWork, RecordHasRow, HandlersKnewNothing,
                                  AnsweredDid, ReplaysAreOfWork, AttemptAt

\* An attempt has looked, and had not done or recorded anything before.
LEMMA LookKeeps ==
  ASSUME IdemInv, NEW t \in Attempts, attempt[t] = NotTried, UNCHANGED keyRow, IdemTypeOK',
         \A u \in Attempts : u # t => attempt'[u] = attempt[u],
         attempt'[t].pc \in {"done", "handle"}, attempt'[t].replays \in {NoAttempt, keyRow.by},
         attempt'[t].blind \/ attempt'[t].knew = {}, ~attempt'[t].onRecord
  PROVE  IdemInv'
<1>0. ~attempt[t].did
  BY DEF NotTried
<1>1. RowIsOfWork'
  <2>1. keyRow.by # NoAttempt => keyRow.by \in Attempts /\ keyRow.by # t
    BY <1>0 DEF IdemInv, IdemTypeOK, RowIsOfWork, KeyRow
  <2>. QED  BY <2>1 DEF IdemInv, RowIsOfWork
<1>2. RecordHasRow' /\ HandlersKnewNothing' /\ AnsweredDid'
  BY DEF IdemInv, RecordHasRow, HandlersKnewNothing, AnsweredDid, AttemptAt
<1>3. ReplaysAreOfWork'
  <2>. SUFFICES ASSUME NEW u \in Attempts, attempt'[u].replays # NoAttempt
                PROVE  attempt'[attempt'[u].replays].did
    BY DEF ReplaysAreOfWork
  <2>1. /\ attempt[attempt'[u].replays].did
        /\ attempt'[u].replays \in Attempts
    BY DEF IdemInv, IdemTypeOK, Attempt, KeyRow, ReplaysAreOfWork, RowIsOfWork
  <2>. QED  BY <1>0, <2>1
<1>. QED  BY <1>1, <1>2, <1>3 DEF IdemInv

\* An attempt that is past its look goes on, and work done stays done.
LEMMA GoesOnKeeps ==
  ASSUME IdemInv, NEW t \in Attempts, attempt[t].pc # "idle", attempt'[t].pc # "idle",
         attempt' \in [Attempts -> Attempt], keyRow' \in KeyRow,
         keyRow'.by = NoAttempt => ~keyRow'.fresh,
         keyRow.fresh => keyRow'.fresh,
         keyRow'.by = keyRow.by \/ (keyRow'.by = t /\ attempt[t].did),
         attempt'[t].pc = "answered" => attempt'[t].did,
         attempt'[t].onRecord => attempt[t].onRecord \/ keyRow'.fresh,
         \A u \in Attempts :
           /\ attempt'[u].knew = attempt[u].knew /\ attempt'[u].blind = attempt[u].blind
           /\ attempt'[u].replays = attempt[u].replays
           /\ attempt[u].did => attempt'[u].did
           /\ u # t => attempt'[u] = attempt[u]
  PROVE  IdemInv'
<1>1. RowIsOfWork'
  <2>1. keyRow.by # NoAttempt => keyRow.by \in Attempts /\ attempt[keyRow.by].did
    BY DEF IdemInv, IdemTypeOK, RowIsOfWork, KeyRow
  <2>. QED  BY <2>1 DEF RowIsOfWork
<1>2. RecordHasRow' /\ HandlersKnewNothing' /\ AnsweredDid'
  BY DEF IdemInv, RecordHasRow, HandlersKnewNothing, AnsweredDid, AttemptAt
<1>3. ReplaysAreOfWork'
  <2>. SUFFICES ASSUME NEW u \in Attempts, attempt[u].replays # NoAttempt
                PROVE  attempt'[attempt[u].replays].did
    BY DEF ReplaysAreOfWork
  <2>1. attempt[attempt[u].replays].did /\ attempt[u].replays \in Attempts
    BY DEF IdemInv, IdemTypeOK, Attempt, ReplaysAreOfWork
  <2>. QED  BY <2>1
<1>. QED  BY <1>1, <1>2, <1>3 DEF IdemInv, IdemTypeOK

LEMMA IdemInvNext == ASSUME IdemInv, [IdemNext]_idemVars PROVE IdemInv'
<1>. USE DEF AttemptAt
<1>0. /\ attempt \in [Attempts -> Attempt] /\ keyRow \in KeyRow
      /\ \A t \in Attempts : attempt[t] \in Attempt
  BY DEF IdemInv, IdemTypeOK
<1>1. ASSUME NEW t \in Attempts, LookUpKey(t) PROVE IdemInv'
  <2>1. PICK blind \in BOOLEAN :
          attempt' = [attempt EXCEPT ![t] =
            IF keyRow.fresh /\ ~blind
            THEN [attempt[t] EXCEPT !.pc = "done", !.replays = keyRow.by]
            ELSE [attempt[t] EXCEPT !.pc = "handle", !.blind = blind, !.knew = OnRecord]]
    BY <1>1 DEF LookUpKey
  <2>2. attempt[t] = NotTried /\ UNCHANGED keyRow /\ attempt[t] \in Attempt
    BY <1>0, <1>1 DEF LookUpKey, IdemInv, HandlersKnewNothing
  <2>3. \A u \in Attempts : u # t => attempt'[u] = attempt[u]
    BY <1>0, <2>1
  <2>4. CASE keyRow.fresh /\ ~blind
    <3>1. attempt'[t] = [attempt[t] EXCEPT !.pc = "done", !.replays = keyRow.by]
      BY <1>0, <2>1, <2>4
    <3>2. keyRow.by \in Attempts /\ keyRow.by # t /\ attempt[keyRow.by].did
      BY <1>0, <2>2, <2>4 DEF IdemInv, RowIsOfWork, KeyRow, NotTried
    <3>3. attempt'[t] \in Attempt /\ attempt'[t] = [NotTried EXCEPT !.pc = "done", !.replays = keyRow.by]
      BY <2>2, <3>1, <3>2 DEF Attempt
    <3>4. IdemTypeOK'
      BY <1>0, <2>1, <2>2, <2>3, <3>3 DEF IdemTypeOK
    <3>5. /\ attempt'[t].pc = "done" /\ attempt'[t].replays = keyRow.by
          /\ attempt'[t].knew = {} /\ ~attempt'[t].onRecord
      BY <3>3 DEF NotTried
    <3>. QED  BY <2>2, <2>3, <3>2, <3>4, <3>5, LookKeeps
  <2>5. CASE ~(keyRow.fresh /\ ~blind)
    <3>1. attempt'[t] = [NotTried EXCEPT !.pc = "handle", !.blind = blind, !.knew = OnRecord]
      BY <1>0, <2>1, <2>2, <2>5
    <3>2. OnRecord \subseteq Attempts /\ (blind \/ OnRecord = {})
      BY <2>5 DEF OnRecord, IdemInv, RecordHasRow
    <3>3. attempt'[t] \in Attempt
      BY <3>1, <3>2 DEF Attempt, NotTried
    <3>4. IdemTypeOK'
      BY <1>0, <2>1, <2>2, <2>3, <3>3 DEF IdemTypeOK
    <3>5. /\ attempt'[t].pc = "handle" /\ attempt'[t].replays = NoAttempt
          /\ attempt'[t].blind \/ attempt'[t].knew = {}
          /\ ~attempt'[t].onRecord
      BY <3>1, <3>2 DEF NotTried
    <3>. QED  BY <2>2, <2>3, <3>4, <3>5, LookKeeps
  <2>. QED  BY <2>4, <2>5
<1>2. ASSUME NEW t \in Attempts, Handle(t) PROVE IdemInv'
  <2>1. attempt[t].pc = "handle" /\ UNCHANGED keyRow
    BY <1>2 DEF Handle
  <2>2. \/ attempt' = [attempt EXCEPT ![t].pc = "answered", ![t].did = TRUE]
        \/ attempt' = [attempt EXCEPT ![t].pc = "done"]
    BY <1>2 DEF Handle
  <2>3. /\ attempt' \in [Attempts -> Attempt]
        /\ attempt'[t].pc # "idle" /\ (attempt'[t].pc = "answered" => attempt'[t].did)
        /\ \A u \in Attempts :
             /\ attempt'[u].onRecord = attempt[u].onRecord /\ attempt'[u].knew = attempt[u].knew
             /\ attempt'[u].blind = attempt[u].blind /\ attempt'[u].replays = attempt[u].replays
             /\ attempt[u].did => attempt'[u].did
             /\ u # t => attempt'[u] = attempt[u]
    BY <1>0, <2>1, <2>2 DEF Attempt
  <2>4. keyRow'.by = NoAttempt => ~keyRow'.fresh
    BY <2>1 DEF IdemInv, RowIsOfWork
  <2>. QED  BY <1>0, <2>1, <2>3, <2>4, GoesOnKeeps
<1>3. ASSUME NEW t \in Attempts, StoreAnswer(t) \/ AnswerLost(t) PROVE IdemInv'
  <2>1. attempt[t].pc = "answered" /\ attempt[t].did
    BY <1>3 DEF StoreAnswer, AnswerLost, IdemInv, AnsweredDid
  <2>2. /\ keyRow' \in KeyRow /\ (keyRow.fresh => keyRow'.fresh)
        /\ keyRow'.by \in {keyRow.by, t} /\ (keyRow'.by = NoAttempt => ~keyRow'.fresh)
    <3>1. keyRow.by = NoAttempt => ~keyRow.fresh
      BY DEF IdemInv, RowIsOfWork
    <3>2. keyRow' = keyRow \/ (keyRow = NoKeyRow /\ keyRow' = [by |-> t, fresh |-> TRUE])
      BY <1>3 DEF StoreAnswer, AnswerLost
    <3>3. CASE keyRow' = keyRow
      BY <1>0, <3>1, <3>3
    <3>4. CASE keyRow = NoKeyRow /\ keyRow' = [by |-> t, fresh |-> TRUE]
      <4>1. ~keyRow.fresh /\ keyRow'.by = t /\ keyRow'.fresh /\ t # NoAttempt
        BY <3>4, IdemAssumption DEF NoKeyRow
      <4>2. keyRow' \in KeyRow
        BY <3>4 DEF KeyRow
      <4>. QED  BY <4>1, <4>2
    <3>. QED  BY <3>2, <3>3, <3>4
  <2>3. /\ attempt' \in [Attempts -> Attempt] /\ attempt'[t].pc = "done"
        /\ attempt'[t].onRecord => attempt[t].onRecord \/ keyRow'.fresh
        /\ \A u \in Attempts :
             /\ attempt'[u].knew = attempt[u].knew /\ attempt'[u].did = attempt[u].did
             /\ attempt'[u].blind = attempt[u].blind /\ attempt'[u].replays = attempt[u].replays
             /\ u # t => attempt'[u] = attempt[u]
    <3>1. keyRow'.fresh \in BOOLEAN
      BY <2>2 DEF KeyRow
    <3>2. \/ attempt' = [attempt EXCEPT ![t].pc = "done", ![t].onRecord = keyRow'.fresh]
          \/ attempt' = [attempt EXCEPT ![t].pc = "done"]
      BY <1>3 DEF StoreAnswer, AnswerLost
    <3>. QED  BY <1>0, <3>1, <3>2 DEF Attempt
  <2>. QED  BY <1>0, <2>1, <2>2, <2>3, GoesOnKeeps
<1>4. CASE KeyExpires
  <2>1. keyRow' \in KeyRow /\ keyRow'.by = keyRow.by /\ ~keyRow'.fresh
    BY <1>0, <1>4 DEF KeyExpires, KeyRow
  <2>2. /\ attempt' \in [Attempts -> Attempt]
        /\ \A u \in Attempts :
             /\ attempt'[u].pc = attempt[u].pc /\ attempt'[u].did = attempt[u].did
             /\ attempt'[u].knew = attempt[u].knew /\ attempt'[u].blind = attempt[u].blind
             /\ attempt'[u].replays = attempt[u].replays /\ ~attempt'[u].onRecord
             /\ attempt[u] = NotTried => attempt'[u] = NotTried
    <3>1. attempt' = [t \in Attempts |-> [attempt[t] EXCEPT !.onRecord = FALSE]]
      BY <1>4 DEF KeyExpires
    <3>2. \A u \in Attempts : attempt'[u] = [attempt[u] EXCEPT !.onRecord = FALSE]
      BY <3>1
    <3>3. NotTried.onRecord = FALSE /\ NotTried = [NotTried EXCEPT !.onRecord = NotTried.onRecord]
      BY DEF NotTried
    <3>4. \A u \in Attempts : attempt[u] = NotTried => attempt'[u] = NotTried
      BY <3>2, <3>3
    <3>5. \A u \in Attempts :
            /\ attempt'[u] \in Attempt /\ ~attempt'[u].onRecord
            /\ attempt'[u].pc = attempt[u].pc /\ attempt'[u].did = attempt[u].did
            /\ attempt'[u].knew = attempt[u].knew /\ attempt'[u].blind = attempt[u].blind
            /\ attempt'[u].replays = attempt[u].replays
      <4>. SUFFICES ASSUME NEW u \in Attempts
                    PROVE  /\ attempt'[u] \in Attempt /\ ~attempt'[u].onRecord
                           /\ attempt'[u].pc = attempt[u].pc /\ attempt'[u].did = attempt[u].did
                           /\ attempt'[u].knew = attempt[u].knew
                           /\ attempt'[u].blind = attempt[u].blind
                           /\ attempt'[u].replays = attempt[u].replays
        OBVIOUS
      <4>1. attempt[u] \in Attempt /\ attempt'[u] = [attempt[u] EXCEPT !.onRecord = FALSE]
        BY <1>0, <3>2
      <4>. QED  BY <4>1 DEF Attempt
    <3>6. attempt' \in [Attempts -> Attempt]
      BY <3>1, <3>2, <3>5
    <3>. QED  BY <3>4, <3>5, <3>6
  <2>. QED  BY <1>0, <2>1, <2>2
            DEF IdemInv, IdemTypeOK, RowIsOfWork, RecordHasRow, KeyRow, Attempt,
                HandlersKnewNothing, AnsweredDid, ReplaysAreOfWork
<1>5. CASE CleanUp
  <2>1. ~keyRow.fresh /\ keyRow' = NoKeyRow /\ UNCHANGED attempt /\ NoKeyRow \in KeyRow
    BY <1>5 DEF CleanUp, DeletesExpired, NoKeyRow, KeyRow
  <2>. QED  BY <2>1 DEF IdemInv, IdemTypeOK, RowIsOfWork, RecordHasRow, NoKeyRow,
                        HandlersKnewNothing, AnsweredDid, ReplaysAreOfWork
<1>6. CASE UNCHANGED idemVars
  BY <1>6 DEF idemVars, IdemInv, IdemTypeOK, RowIsOfWork, RecordHasRow, HandlersKnewNothing,
              AnsweredDid, ReplaysAreOfWork
<1>. QED  BY <1>1, <1>2, <1>3, <1>4, <1>5, <1>6 DEF IdemNext

THEOREM IdemInvariant == IdemSpec => []IdemInv
BY IdemInvInit, IdemInvNext, PTL DEF IdemSpec

\* The variables of Idempotency keep their types.
THEOREM IdemTypeCorrect == IdemSpec => []IdemTypeOK
<1>1. IdemInv => IdemTypeOK
  BY DEF IdemInv
<1>. QED  BY <1>1, IdemInvariant, PTL

\* Work on record is repeated only by an attempt that could not look, and what is replayed
\* was done (the two hooks), for any number of attempts, expiries and clean-ups.
THEOREM RepeatsAccounted == IdemSpec => []RepeatsAreAccountedFor
<1>1. IdemInv => RepeatsAreAccountedFor
  BY DEF IdemInv, RepeatsAreAccountedFor, HandlersKnewNothing, ReplaysAreOfWork
<1>. QED  BY <1>1, IdemInvariant, PTL
=============================================================================
