SPECIFICATION CacheSpec
CONSTANTS
  r1 = r1
  r2 = r2
  as1 = as1
  p1 = p1
  p2 = p2
  Roas <- MCRoas
  Customers <- MCCustomers
  ProviderLists <- MCProviderLists
  MaxHistory = 3
  SerialMod = 4
SYMMETRY MCSymmetry
INVARIANT
  AspaDiffsExact
