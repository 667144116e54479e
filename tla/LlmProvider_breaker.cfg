SPECIFICATION LlmSpec
CONSTANTS
  Providers = {p1}
  EnvConfig = EnvConfig
  HasEnv = TRUE
  NoConfig = NoConfig
  Instances = {i1}
  NoInstance = NoInstance
  Completions = {c1, c2}
  AdminCalls = {}
  FieldChoices = {}
  Threshold = 2
CHECK_DEADLOCK FALSE
INVARIANT
  SustainedFailuresOpenCircuit
