SPECIFICATION AllSpec
CONSTANTS
  f1 = f1
  f2 = f2
  r1 = r1
  r2 = r2
  r3 = r3
  None = None
  Absent = Absent
  Garbage = Garbage
  Finds = {f1, f2}
  Input <- Inputs
  Requests <- Searched
  Plain <- Letter
  Dash = "-"
  SlugLength = 3
  Ignored = {"at", "1"}
  MaxSize = 1
  Second = 2
  MaxStarts = 2
  MaxFaults = 1
  Records <- Written
  TopicOf <- Topic
  SlugOf <- Folder
  Cancelled <- Doubtful
  MaxFailures = 1
  MaxBoots = 3
  MaxCorruptions = 1
INVARIANTS BodyInPlace OutcomeHolds SearchIsRight
PROPERTIES IndexFileGrows RestartKeepsAnswers StoreReturns
CHECK_DEADLOCK FALSE
