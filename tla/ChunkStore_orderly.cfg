SPECIFICATION CsSpec
CONSTANTS
  NoDoc = NoDoc  NoJob = NoJob
  Docs = {d1}
  Oversized = {}
  JobIds = {1, 2, 3, 4, 5, 6, 7, 8, 9}
  Workers = {w1, w2}
  Requests = {r1}
  AdminOps = {"upload_retry", "reprocess", "delete"}
  MaxAttempts = 2
  Steps <- ChunkedSteps
  LockOutlivesHandler = TRUE
SYMMETRY ThreadSymmetry
CONSTRAINT RowsInOrder
CHECK_DEADLOCK FALSE
INVARIANTS
  AtMostOnePipeline
  SearchableRanEveryStep
  SearchableIsEmbedded
