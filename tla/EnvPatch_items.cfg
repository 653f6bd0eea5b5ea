SPECIFICATION Spec
CONSTANTS
  a = a
  b = b
  x = x
  r = r
  None = None
  NoRow = NoRow
  Name = {a, b}
  Value = {x}
  Request = {r}
  Items <- TwoItems
  Direct <- OneDirect
  MaxFaults = 1
INVARIANTS
  TypeOK
  DriftIsOutside
PROPERTIES
  DiffIsApplied
  UndoRestores
  EnvChangeEnds
CHECK_DEADLOCK FALSE
