SPECIFICATION RefreshSpec
CONSTANTS
  r1 = r1
  r2 = r2
  as1 = as1
  u1 = u1
  u2 = u2
  v1 = v1
  v2 = v2
  Roas = {r1, r2}
  Customers = {as1}
  ProviderLists = {1}
  MaxHistory = 2
  SerialMod = 8
  RoaUrls = {u1, u2}
  AspaUrls = {v1, v2}
  MaxCycles = 2
  Expires <- MCExpires
INVARIANTS
  RefreshTypeOK
PROPERTIES
  TotalFailureKeeps
  ServedIsFetched
  CycleEnds
  UpdaterEnds
CHECK_DEADLOCK FALSE
