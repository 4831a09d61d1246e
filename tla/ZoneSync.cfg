CONSTANTS
  s1 = s1
  s2 = s2
  Services = {s1, s2}
  Fragile = {s2}
SPECIFICATION Spec
INVARIANTS KnowsRegistered
PROPERTIES RemovesOnlyAbsent ZoneConverges
CHECK_DEADLOCK FALSE
