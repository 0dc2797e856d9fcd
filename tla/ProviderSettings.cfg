CONSTANTS
  m1 = m1
  m2 = m2
  t1 = t1
  Profile = {p1}
  ModelId = {m1, m2}
  BuiltIn = {m1}
  Lists <- MCLists
  Catalogs <- MCCatalogs
  Wide <- MCWide
  Trait = {t1}
  Route = {r1, r2}
  Key = {k1, k2}
  Check = {c1, c2}
  ModelLimit = 3
  ChangeLimit = 4
  FaultLimit = 1
SPECIFICATION Spec
SYMMETRY Symmetric
INVARIANTS SettingsReadable KeysKept CachedFromRoute ReadyIsDurable
CHECK_DEADLOCK FALSE
