---------------------------- MODULE MCDistrict ----------------------------
(***************************************************************************)
(* An instance for TLC of the two halves of district acquisition: the      *)
(* queue with its threads, and the batch jobs.  Each is seen by the other  *)
(* as a few actions of its own, so that a behaviour is one of the halves;  *)
(* half never changes.                                                     *)
(***************************************************************************)
EXTENDS DistrictAcquisition, DistrictBatch, TLC

VARIABLE half

DistrictInit == half \in {"queue", "batch"} /\ Init /\ BatchInit /\
  (half = "batch" => \A c \in Cases : text[c] = "targeted")

DistrictNext ==
  /\ half' = half
  /\ \/ half = "queue" /\ Next /\ UNCHANGED batchVars
     \/ half = "batch" /\ BatchNext /\ UNCHANGED acquisitionVars

DistrictSpec == DistrictInit /\ [][DistrictNext]_<<half, acquisitionVars, batchVars>>

\* Types of the variables of both.
DistrictTypeOK == TypeOK /\ BatchTypeOK

-----------------------------------------------------------------------------
KanoonThenEcourts == {"indian_kanoon", "ecourts"}
HitOrMiss == {"hit", "miss"}

\* With no daily limit and neither rate limits nor captchas the governor never
\* pauses, so that nothing depends on spent, recent and logged.
Ungoverned == <<half, text, queue, artifact, fetcher, click, selected, batchVars>>

\* Threads and jobs, and artifact ids and case numbers, are interchangeable.
Alike == Permutations(Workers) \cup Permutations(Artifacts)
=============================================================================
