SPECIFICATION FairSpec
CONSTANTS
  d1 = d1
  d2 = d2
  Device = {d1, d2}
  Waves <- CanaryThenRest
  Prev = "prev"
  New = "new"
  Other = "other"
  None = None
  Unset = Unset
  Pins = {None, "new", "other"}
  MoveFleet = TRUE
  HaltHealth = TRUE
  HaltOffline = 0
  Flaky = {d2}
  Sick = {d1}
  Says = {"ok", "failed"}
  Removable = {}
  OperatorRollback = FALSE
  Faulty = TRUE
INVARIANTS TypeOK PriorPinsFaithful PinsRestored WavesInOrder
PROPERTIES RolloutEnds DoneInEffect
CHECK_DEADLOCK FALSE
