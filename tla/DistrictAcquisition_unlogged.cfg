SPECIFICATION Spec
CONSTANTS
  NoCase = NoCase  NoSource = NoSource
  Cases = {c1}
  Sources <- Ecourts
  Answers <- SomeAnswers
  Artifacts = {a1, a2}
  Workers = {w1}
  Clicks = {}
  Forced = {}
  MaxAttempts = 2
  DailyLimit = 0
  LockOutlivesFetch = FALSE
SYMMETRY Symmetry
CHECK_DEADLOCK FALSE
INVARIANTS
  EveryAttemptLogged
