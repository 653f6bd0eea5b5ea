SPECIFICATION Spec
CONSTANTS
  b1 = b1
  b2 = b2
  job = job
  None = None
  Build = {b1, b2}
  Delivery = {job}
  Workers = 2
  MaxFaults = 2
INVARIANTS
  TypeOK
  OneReleaseAtATime
  BuiltCanBeDeployed
PROPERTIES
  BuildsEnd
CHECK_DEADLOCK FALSE
