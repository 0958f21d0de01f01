\* A channel that gives packets back, as the base class rx_channel does.
CONSTANTS
  Mbufs = {m1, m2, m3}
  Ports = {p1, p2}
  Channels = {c1, c2}
  Null = Null
  Refusing = {c2}
  Burst = 2
  ArraySize = 4
  Start = 3
  Hint = 3
  Wrap = 8
  SvcCap = 1
SPECIFICATION Spec
INVARIANTS
  RefusedIsRecycled
