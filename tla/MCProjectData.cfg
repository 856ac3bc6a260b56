SPECIFICATION Spec
CONSTANTS
  Rows = {r1, r2}
  Initial = {r1}
  Values = {a, b}
  Default = a
  Saved = {v1}
  Trash = trash
  Missing = Missing
  MaxCalls = 5
  MaxInFlight = 2
INVARIANTS TypeOK ServesWhatIsStored FilterAsStored
CHECK_DEADLOCK FALSE
