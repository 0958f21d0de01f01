\* Bursts of up to three packets for two ports and two channels, one of which
\* gives packets back.  ArraySize is exactly twice the burst.
CONSTANTS
  Mbufs = {m1, m2, m3}
  Ports = {p1, p2}
  Channels = {c1, c2}
  Null = Null
  Refusing = {c2}
  Burst = 3
  ArraySize = 6
  Start = 3
  Hint = 3
  Wrap = 16
  SvcCap = 1
SYMMETRY MbufSymmetry
SPECIFICATION Spec
INVARIANTS
  TypeOK
  DeliveredOnceInOrder
  BuffersSafe
  NoLeak
