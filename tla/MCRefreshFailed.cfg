SPECIFICATION RefreshSpec
CONSTANTS
  r1 = r1
  r2 = r2
  as1 = as1
  u1 = u1
  u2 = u2
  v1 = v1
  v2 = v2
  Roas = {r1}
  Customers = {as1}
  ProviderLists = {1}
  MaxHistory = 2
  SerialMod = 8
  RoaUrls = {u1, u2}
  AspaUrls = {v1}
  MaxCycles = 2
  Expires <- MCNoExpiry
PROPERTIES
  FailedFeedRetained
CHECK_DEADLOCK FALSE
