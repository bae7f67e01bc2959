SPECIFICATION Spec
CONSTANTS
  r1 = r1
  as1 = as1
  p1 = p1
  p2 = p2
  a = a
  b = b
  Roas = {r1}
  Customers = {}
  ProviderLists = {p1}
  MaxHistory = 2
  SerialMod = 4
  Routers = {a}
  Versions = {2}
  Stalled = {}
  OddQueries = {}
  WireCap = 1
  MaxUpdates = 3
  MaxDials = 2
  MaxRestarts = 1
INVARIANTS
  WellFramed
PROPERTIES
  ImplementsReplica
CHECK_DEADLOCK FALSE
