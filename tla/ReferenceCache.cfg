CONSTANTS
  NoEntry = NoEntry
  Nothing = Nothing
  k1 = k1
  k2 = k2
  k3 = k3
  r1 = r1
  r2 = r2
  v1 = v1
  v2 = v2
  Inputs <- MCInputs
  Keys = {k1, k2, k3}
  generateKey <- MCKey
  Results = {r1, r2}
  Versions = {v1, v2}
  MaxSize = 2
  DefaultMaxSize = 1
  Ttl = 1
  DefaultTtl = 1
  MaxTime = 2
  MaxUses = 4
  MaxMisses = 1
SPECIFICATION CacheSpec
SYMMETRY MCSymmetry
INVARIANTS
  CacheTypeOK
  OrderMatchesCache
  SizeBounded
  OneVersion
PROPERTIES
  OnlyLruEvicted
  ImplementsResultStore
