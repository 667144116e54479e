SPECIFICATION Spec
CONSTANTS
  NoDoc = NoDoc  NoJob = NoJob
  Docs = {d1}
  Oversized = {}
  JobIds = {j1, j2, j3}
  Workers = {w1, w2}
  Requests = {r1}
  AdminOps = {"reprocess", "batch_reprocess"}
  MaxAttempts = 2
  Steps <- KeptSteps
  LockOutlivesHandler = FALSE
SYMMETRY Symmetry
CHECK_DEADLOCK FALSE
INVARIANTS
  TypeOK
  NoStrandedDocument
  DeadLetterUsedAllAttempts
  OvershootIsBounded
PROPERTIES
  ForksOnlyFromLateWriters
