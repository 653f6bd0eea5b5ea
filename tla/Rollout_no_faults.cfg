SPECIFICATION Spec
CONSTANTS
  d1 = d1
  d2 = d2
  Device = {d1, d2}
  Waves <- EmptyLastWave
  Prev = "prev"
  New = "new"
  Other = "other"
  None = None
  Unset = Unset
  Pins = {None, "prev", "new", "other"}
  MoveFleet = TRUE
  HaltHealth = TRUE
  HaltOffline = 1
  Flaky = {d1}
  Sick = {d2}
  Says = {"ok", "degraded", "unknown", "silent", "late"}
  Removable = {d2}
  OperatorRollback = TRUE
  Faulty = FALSE
INVARIANTS FleetRestored AppliedTookEffect
PROPERTIES FleetMovesOnHeldDevices
CHECK_DEADLOCK FALSE
