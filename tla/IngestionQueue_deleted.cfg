SPECIFICATION Spec
CONSTANTS
  NoDoc = NoDoc  NoJob = NoJob
  Docs = {d1}
  Oversized = {}
  JobIds = {j1, j2, j3}
  Workers = {w1}
  Requests = {}
  AdminOps = {"delete"}
  MaxAttempts = 2
  Steps <- ShortSteps
  LockOutlivesHandler = TRUE
SYMMETRY Symmetry
CHECK_DEADLOCK FALSE
PROPERTIES
  DeletedIsTerminal
