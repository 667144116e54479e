SPECIFICATION Spec
CONSTANTS
  d1 = d1  d2 = d2  r1 = r1  r2 = r2  NoConversation = NoConversation
  Requests = {r1, r2}
  Admins = {r2}
  Conversations = {c1}
  Documents = {d2}
  Signals <- SignalsOf
  Questions <- FewQuestions
  Detected <- FewDetected
  OwnFilters = {"pinned"}
  MaxChunks = 2
  MaxGeneration = 1
  MaxChanges = 1
CHECK_DEADLOCK FALSE
INVARIANTS
  TypeOK
  CountTracksMessages
  AnswersStayInScope
  UploadedIsUncited
PROPERTIES
  OwnFiltersAreTheUsers
  ConversationsAreExchanges
