SPECIFICATION Spec
CONSTANTS
  r1 = r1
  r2 = r2
  Runs = {r1}
  Actions = {1}
  RunOf <- OneRun
  Requests = {q1, q2}
  Ops = {"confirm"}
  PageSize = 1
  QueryCap = 3
  Placeholders = {"none"}
  CanFail = FALSE
  CanCrash = FALSE
  None = None
INVARIANTS PerformedOnce
CHECK_DEADLOCK FALSE
