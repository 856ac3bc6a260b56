SPECIFICATION Spec
CONSTANTS
  p1 = p1
  p2 = p2
  Posts = {p1}
  Readers = {g1}
  Portals = {TRUE}
  MaxLines = 3
  CanExpire = FALSE
  CanCrash = FALSE
  None = None
INVARIANTS Concluded
CHECK_DEADLOCK FALSE
