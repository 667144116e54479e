SPECIFICATION Spec
CONSTANTS
  d1 = d1  d2 = d2  r1 = r1  r2 = r2  NoConversation = NoConversation
  Requests = {r1, r2}
  Admins = {}
  Conversations = {c1}
  Documents = {d1, d2}
  Signals <- SignalsOf
  Questions <- GlobalQuestions
  Detected <- FewDetected
  OwnFilters = {}
  MaxChunks = 2
  MaxGeneration = 0
  MaxChanges = 0
CHECK_DEADLOCK FALSE
INVARIANT MarksKeepTheirPassage
