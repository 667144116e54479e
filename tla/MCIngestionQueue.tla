-------------------------- MODULE MCIngestionQueue --------------------------
(* Instances of IngestionQueue for TLC.                                    *)
EXTENDS IngestionQueue, TLC

\* Threads, requests, ordinary documents and row ids are interchangeable; sound for
\* safety only.
Symmetry ==
  Permutations(Workers) \cup Permutations(Requests) \cup Permutations(Docs \ Oversized)
    \cup Permutations(JobIds)

KeptSteps == {"VALIDATE", "SPLIT", "EMBED", "KG_EXTRACT"}
ShortSteps == {"VALIDATE", "SPLIT", "EMBED"}
=============================================================================
