SPECIFICATION AllSpec
CONSTANTS
  c1 = c1
  c2 = c2
  c3 = c3
  Operator = Operator
  None = None
  Calls = {c1, c2, c3}
  Streams = {c3}
  Nobody = Nobody
  MaxUnsealErrors = 1
  Capacity = 2
  ChatSends <- OneOfEach
  MaxEvents = 3
  ModelCalls = {c1, c2}
  Files <- Placed
  Parts = 2
  Manifest = TRUE
  MaxStarts = 2
  EmbedCalls = {c1}
  Texts = {"x", "y", "z", "blank"}
  Blank = {"blank"}
  Batches <- Passed
  MaxAttempts = 3
  CompleteCalls = {c1, c2}
  Absent = Absent
  Requests <- Asked
  Answers <- VendorAnswers
  Statuses <- Errors
INVARIANTS UnsealedOnce RetryIsFresh NothingLost AuditTrue AnswersSound InOrder ExchangeTrue
PROPERTIES CallsEnd
CHECK_DEADLOCK FALSE
