\* The NIC may take any part of a burst; a pool barely larger than a burst, where
\* the sender may starve, and one that holds a burst more than the NIC queue.
CONSTANTS
  ByteWrap = 16
  SeqnBytes = 2
  TypeBytes = 1
  SizeBytes = 1
  QueueShift = 64
  WarmupMask = 128
  SeqnKept = 32
  Ether = 3
  Ip4 = 5
  Udp = 2
  LenWrap = 32
  PayloadSize = 5
  Queue = 1
  N = 4
  B = 4
  ExtraBursts = 2
  Pools = {5, 9}
  TxRing = 5
SPECIFICATION Spec
INVARIANTS
  TypeOK
  PacketsAccounted
  StampsFound
PROPERTIES
  SenderReturns
