SPECIFICATION KFairSpec
CONSTANTS
  r1 = r1
  r2 = r2
  r3 = r3
  main = main
  other = other
  Requests = {r1, r2, r3}
  Invalid <- OneInvalid
  Failing = {r2}
  Disconnecting = {r1}
  Panicking = {r1}
  LookupErrs = TRUE
  MaxBoots = 2
  Main = main
  LegacyRows <- SomeLegacy
  Processes = {main, other}
  Binary <- TwoReleases
  Latest = 3
  Files <- LeftBehind
  MaxFaults = 2
INVARIANTS OneToken  PayloadSettles OpenIsWhole RefusedStaysOut
PROPERTIES NeverDowngraded RepliesTrue SetupComesToAnEnd
CHECK_DEADLOCK FALSE
