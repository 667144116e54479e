SPECIFICATION Spec
CONSTANTS
  NoCase = NoCase  NoSource = NoSource
  Cases = {c1, c2}
  Sources <- Ecourts
  Answers <- AllOutcomes
  Artifacts = {a1}
  Workers = {w1, w2}
  Clicks = {k1}
  Forced = {k1}
  MaxAttempts = 2
  DailyLimit = 1
  LockOutlivesFetch = TRUE
SYMMETRY Symmetry
CHECK_DEADLOCK FALSE
INVARIANTS
  OneFetcherPerRow
  DailyOvershootBounded
