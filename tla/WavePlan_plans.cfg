SPECIFICATION Spec
CONSTANTS
  N = 4
  MaxDrifts = 1
  Asked <- UpToThree
INVARIANTS
  WavesAsSpecified
  RunIsAsShown
CHECK_DEADLOCK FALSE
