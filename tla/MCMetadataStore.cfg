SPECIFICATION Spec
CONSTANTS
  Rows = {r1, r2}
  Initial = {r1}
  Values = {a, b}
  Default = a
  Absent = Absent
  None = None
  EchoAnswers = {TRUE, FALSE}
  MaxUndo = 1
  MaxOps = 3
  MaxReloads = 1
INVARIANTS TypeOK Agreement SentInOrder GroupsFollowValues UndoFits
PROPERTIES Drains
CHECK_DEADLOCK FALSE
