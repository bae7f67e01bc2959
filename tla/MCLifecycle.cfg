SPECIFICATION FairSpec
CONSTANTS
  c1 = c1
  c2 = c2
  a1 = a1
  a2 = a2
  q = q
  r = r
  NoConn = NoConn
  Conns = {c1, c2}
  Addrs = {a1, a2}
  Rpcs = {q}
  Streams = {r}
INVARIANTS
  LifecycleTypeOK
  ClientsExact
PROPERTIES
  CleanStop
  StopReturns
CHECK_DEADLOCK FALSE
