SPECIFICATION DeadlineSpec
CONSTANTS
  r1 = r1
  as1 = as1
  p1 = p1
  p2 = p2
  a = a
  b = b
  Roas = {r1}
  Customers = {}
  ProviderLists = {p1}
  MaxHistory = 2
  SerialMod = 8
  Routers = {a, b}
  Versions = {2}
  Stalled = {b}
  OddQueries = {}
  WireCap = 1
  MaxUpdates = 1
  MaxDials = 1
  MaxRestarts = 0
PROPERTIES
  AllNotified
CHECK_DEADLOCK FALSE
