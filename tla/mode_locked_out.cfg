SPECIFICATION Spec
CONSTANTS
  r1 = r1
  r2 = r2
  r3 = r3
  r4 = r4
  Requests = {r1, r2, r3, r4}
  Invalid <- OneInvalid
  Failing <- Valid
  Disconnecting <- Valid
  Panicking <- NoRequests
  LookupErrs = FALSE
  LegacyRows <- NoLegacy
  MaxBoots = 3
SYMMETRY Symmetry
INVARIANT NeverStuck
CHECK_DEADLOCK FALSE
