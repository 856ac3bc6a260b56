SPECIFICATION Spec
CONSTANTS
  r1 = r1
  r2 = r2
  Runs = {r1}
  Actions = {1, 2, 3}
  RunOf <- OneRun
  Requests = {q1, q2}
  Ops = {"confirm", "materialize"}
  PageSize = 1
  QueryCap = 3
  Placeholders = {"none"}
  CanFail = FALSE
  CanCrash = FALSE
  None = None
SYMMETRY Symmetry
INVARIANTS NoStuckExecution
PROPERTIES NeverEmptied Replaced
