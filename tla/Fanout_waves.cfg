SPECIFICATION FairSpec
CONSTANTS
  d1 = d1
  d2 = d2
  d3 = d3
  Device = {d1, d2, d3}
  Waves <- CanaryThenRest
  Items = 1
  MaxFaults = 1
INVARIANTS LaterWavesOverAppliedUncut SentOnce UpdatedIsApplied
PROPERTIES StoppedIsFinal FanoutEnds
CHECK_DEADLOCK FALSE
