SPECIFICATION ShortSpec
CONSTANTS
  None = None
  s1 = s1
  s2 = s2
  c1 = c1
  Spans = {s1, s2}
  Clients = {c1}
  Limits <- LimitsShort
  DefaultLimit = 1
  LimitCap = 1
  Retention = 1
  DefaultRetention = 0
  Manual <- ManualShort
  Interval = 2
  TicksPerMs = 2
  Capacity = 1
  MaxClock = 2
  MaxDrops = 1
  MaxFailures = 1
  MaxBoots = 2
INVARIANTS RowsConserved ClientsShownWhole
PROPERTIES RetentionKept HealthRecovers
CHECK_DEADLOCK FALSE
