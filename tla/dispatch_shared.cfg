SPECIFICATION FairSpec
CONSTANTS
  i1 = i1
  i2 = i2
  s1 = s1
  s2 = s2
  s3 = s3
  Ingests = {i1, i2}
  Steps = {s1, s2, s3}
  TypeOf <- TwoEvents
  Cancelled = {i1}
  Panicking = {s1}
  MaxDrops = 1
INVARIANTS EveryStepJoined EverySpanAccounted
PROPERTIES ReturnedIsOver IngestReturns
CHECK_DEADLOCK FALSE
