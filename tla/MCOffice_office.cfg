SPECIFICATION OfficeSpec
CONSTANTS
  a1 = a1  a2 = a2  i1 = i1  i2 = i2  x1 = x1  x2 = x2  p1 = p1
  Entities = {e1}
  WfStates = {"draft", "review"}
  Transitions <- FewTransitions
  TaskStates = {"review"}
  Escalation <- Escalated
  NoTransition = NoTransition
  Calls = {a1, a2}
  NoCall = NoCall
  NoEntity = NoEntity
  CarefulCallers = TRUE
  Providers = {p1, p2}
  EnvConfig = EnvConfig
  HasEnv = TRUE
  NoConfig = NoConfig
  Instances = {i1, i2}
  NoInstance = NoInstance
  Completions = {m1}
  AdminCalls = {a1, a2}
  FieldChoices <- FewFields
  Threshold = 2
  GovCalls = {a1, a2}
  Admins = {x1, x2}
  NoAdmin = NoAdmin
  MaxVersions = 3
  Attempts = {a1, a2, x1, x2}
  NoAttempt = NoAttempt
  Files = {x1, x2}
  NameOf <- OwnNames
  Contents = {i1, i2}
  Batches = {a1, a2}
  Elsewhere = {p1}
  MaxRetries = 1
  MaxConcurrent = 2
  MaxServed = 3
  MaxVisits = 1
  Talks = {x1, x2}
  OldAnswers = {m1}
  Sends = {a1, a2}
  NewTalk = NewTalk
  NoSend = NoSend
  NoMessage = NoMessage
CONSTRAINT FewUploads
SYMMETRY Alike
CHECK_DEADLOCK FALSE
INVARIANTS
  OfficeTypeOK
  AnnouncedIsCommitted
  TaskStateHasTask
  DefaultsAreAccountedFor
  CachedConfigIsCurrent
  NewestPromptIsActive
  PublishedIsAccountedFor
  RepeatsAreAccountedFor
  StoredTogether
  FlagCoversUploads
  EarlyAnswerBelongs
  HiddenIsReplaced
PROPERTIES
  MovesAreAudited
  ClearedFilesAreStored
