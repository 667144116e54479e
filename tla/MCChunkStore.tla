---------------------------- MODULE MCChunkStore ----------------------------
(* Instances of ChunkStore for TLC.                                          *)
EXTENDS ChunkStore, TLC

\* Sound for safety only.
ThreadSymmetry == Permutations(Workers) \cup Permutations(Docs)

\* There are too many row ids for symmetry: they are numbers, and only the behaviours
\* that use them in order are explored.
RowsInOrder ==
  \A i, j \in JobIds :
    i < j /\ jobs[j].status # "ABSENT" => jobs[i].status # "ABSENT"

ChunkedSteps == {"VALIDATE", "SPLIT", "CHUNK", "EMBED", "KG_EXTRACT"}
=============================================================================
