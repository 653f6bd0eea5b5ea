SPECIFICATION Spec
CONSTANTS
  c1 = c1
  c2 = c2
  c3 = c3
  f1 = f1
  f2 = f2
  ana = ana
  ben = ben
  cai = cai
  envvar = envvar
  deploy = deploy
  None = None
  Change = {c1}
  Fleet = {f1}
  User = {ana, ben, cai}
  Class = {envvar, deploy}
  Version = {0, 1}
  FleetsOf <- OneFleet
  Policy <- TwoClasses
  Perm <- MixedPerm
  Target <- SameTarget
  Windowed = {}
  DirectWrites = {f1}
  MaxFaults = 2
INVARIANTS TypeOK Authorised
CHECK_DEADLOCK FALSE
