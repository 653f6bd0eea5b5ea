SPECIFICATION Spec
CONSTANTS
  p = p
  q = q
  i1 = i1
  i2 = i2
  None = None
  Thread = {p}
  Scheduler = "scheduler"
  Kind = {"good", "refused", "scalar", "unparsable"}
  MaxEdits = 1
  Image = {i1}
  Slots = 1
  Elsewhere = {}
  MaxFaults = 0
INVARIANTS
  SchedulerGoesOn
CHECK_DEADLOCK FALSE
