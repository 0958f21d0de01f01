\* Two queues, three channels, a unicast and a multicast endpoint.
CONSTANTS
  NQueues = 2
  c1 = c1  c2 = c2  c3 = c3  e1 = e1  g1 = g1
  Channels = {c1, c2, c3}
  Proxies = {c1}
  Endpoints = {e1, g1}
  Mcast = {g1}
  Calls <- MCCalls
  Null = null
  MaxCalls = 3
  MaxQueued = 1
SPECIFICATION Spec
INVARIANTS
  TypeOK
  QueuesMatchChannels
PROPERTIES
  AttachedIsServed
