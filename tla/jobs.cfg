\* Small thresholds; the idle counter wraps at 4, so it wraps while idling.
CONSTANTS
  c1 = c1
  c2 = c2
  j1 = j1
  j2 = j2
  j3 = j3
  j4 = j4
  Cores = {c1, c2}
  JobsOf <- MCJobsOf
  CycleThreshold = 3
  IdleThreshold = 1
  IdleWrap = 4
SPECIFICATION Spec
INVARIANTS
  TypeOK
  RoundsAreSound
  StopIsBounded
PROPERTIES
  SentryReturns
