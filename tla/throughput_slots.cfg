\* A NIC that keeps taking parts of bursts uses up the slots.
CONSTANTS
  ByteWrap = 16
  SeqnBytes = 2
  TypeBytes = 1
  SizeBytes = 1
  QueueShift = 64
  WarmupMask = 128
  SeqnKept = 32
  Ether = 3
  Ip4 = 5
  Udp = 2
  LenWrap = 32
  PayloadSize = 5
  Queue = 1
  N = 3
  B = 2
  ExtraBursts = 1
  Pools = {5}
  TxRing = 3
SPECIFICATION Spec
INVARIANTS
  SlotsSuffice
