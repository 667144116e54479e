SPECIFICATION DistrictSpec
CONSTANTS
  NoCase = NoCase  NoSource = NoSource
  Cases = {c1}
  Sources <- KanoonThenEcourts
  Answers <- HitOrMiss
  Artifacts = {a1, a2}
  Workers = {w1, w2}
  Clicks = {k1}
  Forced = {k1}
  MaxAttempts = 2
  DailyLimit = 0
  LockOutlivesFetch = FALSE
  BatchJobs = {w1, w2}
  Pollers = {w1, w2}
  Cnrs = {a1, a2}
  NoBatchJob = NoBatchJob
VIEW Ungoverned
SYMMETRY Alike
CHECK_DEADLOCK FALSE
INVARIANTS
  DistrictTypeOK
  SuccessHasArtifact
  ArtifactIsVisible
  FailedUsedAllAttempts
  BatchResultsAddUp
