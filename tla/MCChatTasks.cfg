SPECIFICATION Spec
CONSTANTS
  p1 = p1
  p2 = p2
  Posts = {p1, p2}
  Readers = {g1}
  Portals = {TRUE, FALSE}
  MaxLines = 1
  CanExpire = TRUE
  CanCrash = TRUE
  None = None
SYMMETRY Symmetry
INVARIANTS TypeOK OneReplyEach LockGuards
PROPERTIES GetWaits EndsInTime
CHECK_DEADLOCK FALSE
