\* One NIC queue of its own for three sinks, and the shared ring.
CONSTANTS
  UdpSenders = {"u1", "u2"}
  Sinks = {"s1", "s2", "s3"}
  Builders = {"b1", "b2"}
  FirstPorts = {0, 1, 2}
  PortWrap = 3
  Loads <- MCLoads
  TxQueues = 1
  Burst = 2
  Pools <- MCPools
  Room = 4
  Headers = 2
  Udp = 1
  Payloads = {2, 3, 9}
  LenWrap = 16
  RingSize = 2
SPECIFICATION Spec
INVARIANTS
  TypeOK
  RingToNic
  DatagramsSound
  QueueHasOneUser
PROPERTIES
  SendersProgress
