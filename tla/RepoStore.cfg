CONSTANTS
  s1 = s1
  s2 = s2
  v1 = v1
  v2 = v2
  manager = manager
  u1 = u1
  none = none
  torn = torn
  Services = {s1, s2}
  Values = {v1, v2}
  Updaters = {u1}
  MaxEntries = 2
SPECIFICATION Spec
INVARIANTS CacheIsFile SavedIsDurable
SYMMETRY Symmetry
VIEW View
