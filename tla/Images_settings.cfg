SPECIFICATION Spec
CONSTANTS
  p = p
  q = q
  i1 = i1
  i2 = i2
  None = None
  Thread = {p, q}
  Scheduler = "scheduler"
  Kind = {"good", "refused", "scalar", "unparsable", "missing"}
  MaxEdits = 2
  Image = {i1}
  Slots = 1
  Elsewhere = {2}
  MaxFaults = 2
INVARIANTS
  TypeOK
PROPERTIES
  SettingsFollow
  EndStands
CHECK_DEADLOCK FALSE
