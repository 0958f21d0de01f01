\* Up to four lcores on three sockets, options around the limits, and one queue
\* more than the cores can serve.
CONSTANTS
  MaxLcores = 4
  SocketIds = {0, 1, 2}
  MaxRx = 2
  MaxTx = 3
  Nics <- MCNics
  EalOptions <- MCEalOptions
  OptionMaps <- MCOptionMaps
  Bad = Bad
  DefaultPort = 2
  Most = 9
  MaxTxq = 4
  Timeouts = {0, 3}
  DefaultTimeout = 2
  ClockHz = {0, 2}
  NsPerS = 3
  PortWrap = 4
SPECIFICATION Spec
INVARIANTS
  TypeOK
  CoresDivided
  DeviceSound
  JobsOutlived
  OptionsApplied
PROPERTIES
  RunEnds
