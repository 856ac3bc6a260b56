SPECIFICATION Spec
CONSTANTS
  p = p
  q = q
  c1 = c1
  c2 = c2
  c3 = c3
  home = home
  Projects = {p, q}
  Components = {c1, c2, c3, home}
  ProjectOf <- MCProjectOf
  None = None
  MaxAttempts = 2
  MaxFailures = 3
  MaxLogouts = 1
  MaxMounts = 3
INVARIANTS TypeOK Subscribed NoStray StaysShut
PROPERTIES HeardAgain
CHECK_DEADLOCK FALSE
