CONSTANTS
  a = a
  b = b
  c = c
  e1 = e1
  e2 = e2
  e3 = e3
  none = none
  Services = {a, b, c}
  Entries = {e1, e2, e3}
SPECIFICATION Spec
INVARIANTS PopFindsEntry WantedIsQueued UnservedIsMissed
PROPERTY StopEnds
CHECK_DEADLOCK FALSE
