SPECIFICATION Spec
CONSTANTS
  b1 = b1
  b2 = b2
  t1 = t1
  t2 = t2
  Builds <- TwoBuilds
  Texts <- TwoTexts
  TextOf <- TextOfTwo
  Models = {"m"}
  global = global
  east = east
  Locations <- TwoLocations
  Seeds = {0, 1}
  TTL = 2
  Drifts <- OnlyDrift
  MaxTime = 2
  MaxCreates = 2
INVARIANTS
  PrefixAndCacheAgree
