SPECIFICATION FairSpec
CONSTANTS
  r1 = r1
  r2 = r2
  Runs = {r1, r2}
  Actions = {1, 2}
  RunOf <- TwoRuns
  Requests = {q1}
  Ops = {"confirm", "auto", "edit", "cancel", "cancelall", "materialize"}
  PageSize = 1
  QueryCap = 3
  Placeholders = {"none"}
  CanFail = TRUE
  CanCrash = TRUE
  None = None
INVARIANTS SummaryFresh PerformedOnce PerformedAsShown ProcessedMeansDone
PROPERTIES CancelAllComplete KeepsToLife RequestsEnd
