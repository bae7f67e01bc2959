SPECIFICATION FairSpec
CONSTANTS
  r1 = r1
  as1 = as1
  p1 = p1
  p2 = p2
  a = a
  b = b
  Roas = {}
  Customers = {as1}
  ProviderLists = {p1}
  MaxHistory = 2
  SerialMod = 3
  Routers = {a}
  Versions = {1, 2, 3}
  Stalled = {}
  OddQueries = {"bad", "other", "version"}
  WireCap = 1
  MaxUpdates = 2
  MaxDials = 2
  MaxRestarts = 0
INVARIANTS
  SessionTypeOK
  ExactUnlessRaced
PROPERTIES
  Converges
  Released
CHECK_DEADLOCK FALSE
