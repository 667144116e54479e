SPECIFICATION Spec
CONSTANTS
  NoDoc = NoDoc  NoJob = NoJob
  Docs = {d1, p1, p2}
  Oversized = {d1}
  JobIds = {j1, j2, j3, j4, j5}
  Workers = {w1, w2}
  Requests = {r1}
  AdminOps = {"reprocess", "upload_retry", "delete"}
  MaxAttempts = 1
  Steps <- ShortSteps
  LockOutlivesHandler = TRUE
SYMMETRY Symmetry
CHECK_DEADLOCK FALSE
PROPERTIES
  SplitParentStops
  QuietDeletionLasts
