SPECIFICATION FairSpec
CONSTANTS
  s1 = s1
  s2 = s2
  p1 = p1
  p2 = p2
  Subs = {s1, s2}
  Pubs = {p1, p2}
  Capacity = 1
  MaxPublish <- TwoAndOne
INVARIANTS NoSubscriberSkipped PublisherOrder
PROPERTIES SweepIsExact ContractSpec OwedIsReceived
CHECK_DEADLOCK FALSE
