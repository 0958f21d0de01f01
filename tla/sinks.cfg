\* Three callers attach at once; the two that share a port detach
\* their channels again.
CONSTANTS
  t1 = t1
  t2 = t2
  t3 = t3
  g1 = g1
  Threads = {t1, t2, t3}
  Detachers = {t1, t3}
  PortOf <- MCPortOf
  GroupOf <- MCGroupOf
  NoGroup = NoGroup
  Null = Null
  Burst = 1
  Hint = 2
  Wrap = 5
  CountWrap = 4
SPECIFICATION Spec
INVARIANTS
  TypeOK
  OutcomesHold
  UseCountExact
  CachedLookupIsFresh
PROPERTIES
  AttachedIsSeen
