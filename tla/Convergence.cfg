SPECIFICATION BothFair
CONSTANTS
  NoDoc = NoDoc  NoJob = NoJob
  Docs = {d1}
  Oversized = {}
  JobIds = {j1, j2, j3}
  Workers = {w1, w2}
  Requests = {}
  AdminOps = {}
  MaxAttempts = 2
  Steps <- ShortSteps
  LockOutlivesHandler = FALSE
  NoCase = NoCase  NoSource = NoSource
  Cases = {c1}
  Sources <- Ecourts
  Answers <- SomeAnswers
  Artifacts = {a1}
  Clicks = {k1}
  Forced = {k1}
  DailyLimit = 1
  LockOutlivesFetch = FALSE
CHECK_DEADLOCK FALSE
PROPERTIES
  IngestionConverges
  AcquisitionConverges
