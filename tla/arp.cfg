\* Late, lost and unasked-for answers against timeouts and a stop.
CONSTANTS
  r1 = r1  r2 = r2  r3 = r3  r4 = r4  a1 = a1  a2 = a2  local = local  m1 = m1  m2 = m2
  Resolvers = {r1, r2, r3, r4}
  Ips = {a1, a2}
  LocalIps = {local}
  Target <- MCTargetLocal
  Mac <- MCMac
  Macs = {m1, m2}
  OwnMac = own
  Unset = unset
SPECIFICATION Spec
INVARIANTS
  TypeOK
  ResolutionSound
PROPERTIES
  ImplementsResolution
  ReachableIsResolved
