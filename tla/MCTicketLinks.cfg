SPECIFICATION Spec
CONSTANTS
  t1 = t1
  t2 = t2
  r1 = r1
  r2 = r2
  q1 = q1
  q2 = q2
  Tickets = {t1, t2}
  Records = {r1, r2}
  Issues = {x1}
  ConnectionOf <- SameConnection
  Requests = {q1, q2}
  Batches = {{t1, t2}}
  MaxRequests = 2
  CanFail = TRUE
  None = None
SYMMETRY Symmetry
INVARIANTS TypeOK BothSidesAgree
PROPERTIES OwnLinks
CHECK_DEADLOCK FALSE
