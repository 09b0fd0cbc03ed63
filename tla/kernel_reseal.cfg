SPECIFICATION KSpec
CONSTANTS
  r1 = r1
  r2 = r2
  r3 = r3
  main = main
  other = other
  Requests = {r1, r2, r3}
  Invalid <- OneInvalid
  Failing <- Valid
  Disconnecting <- Valid
  Panicking <- Valid
  LookupErrs = FALSE
  MaxBoots = 2
  Main = main
  LegacyRows <- SomeLegacy
  Processes = {main, other}
  Binary <- TwoReleases
  Latest = 3
  Files <- LeftBehind
  MaxFaults = 2
INVARIANT ResealWorks
CHECK_DEADLOCK FALSE
