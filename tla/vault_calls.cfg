SPECIFICATION Spec
CONSTANTS
  n1 = n1
  x1 = x1
  x2 = x2
  x3 = x3
  k1 = k1
  c1 = c1
  c2 = c2
  Names = {n1}
  Secrets = {x1, x2, x3}
  Keys = {k1}
  Clients = {c1, c2}
  Oversized <- TooBig
  Forged <- FirstRef
  Legacy <- LegacyOne
  MaxVersion = 3
SYMMETRY Symmetry
INVARIANTS RotationChain NoStaleUnseal LookupRejectsRotated AuditTells
PROPERTIES ContractSpec
CHECK_DEADLOCK FALSE
