SPECIFICATION Spec
CONSTANTS
  s1 = s1
  s2 = s2
  s3 = s3
  p1 = p1
  p2 = p2
  Subs = {s1, s2, s3}
  Pubs = {p1, p2}
  Capacity = 1
  MaxPublish <- Once
SYMMETRY Symmetry
INVARIANT OpenIsRegistered
CHECK_DEADLOCK FALSE
