------------------------ MODULE MCDistrictAcquisition ------------------------
(* Instances of DistrictAcquisition for TLC.                               *)
EXTENDS DistrictAcquisition, TLC

\* Threads, requests, cases and artifact ids are interchangeable; sound for
\* safety only.
Symmetry ==
  Permutations(Workers) \cup Permutations(Clicks) \cup Permutations(Cases)
    \cup Permutations(Artifacts)

Ecourts == {"ecourts"}
SomeAnswers == {"hit", "miss", "rate_limited"}
=============================================================================
