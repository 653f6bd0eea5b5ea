SPECIFICATION Spec
CONSTANTS
  c1 = c1
  c2 = c2
  c3 = c3
  f1 = f1
  f2 = f2
  ana = ana
  ben = ben
  cai = cai
  envvar = envvar
  deploy = deploy
  None = None
  Change = {c1, c2}
  Fleet = {f1, f2}
  User = {ana}
  Class = {envvar, deploy}
  Version = {0, 1}
  FleetsOf <- Meeting
  Policy <- NoApproval
  Perm <- AllHold
  Target <- AltTarget
  Windowed = {c2}
  DirectWrites = {}
  MaxFaults = 1
INVARIANTS OneRolloutPerFleet
PROPERTIES MutexSpec StartsOnReviewedBase
CHECK_DEADLOCK FALSE
