\* Three packets after a warm-up of three, over a network that may lose,
\* duplicate, reorder and delay; the array of latencies fills up.
CONSTANTS
  WarmupCount = 3
  Period = 2
  MaxWarmup = 3
  Packets = 3
  Retries = 1
  Cap = 2
  MaxNet = 3
SPECIFICATION Spec
INVARIANTS
  TypeOK
  SamplesSound
  CalmIsMeasured
PROPERTIES
  TestReturns
