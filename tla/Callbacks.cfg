CONSTANTS
  s1 = s1
  s2 = s2
  nil = nil
  zone = zone
  api = api
  free = free
  lost = lost
  Services = {s1, s2}
  EmptyDC = {s2}
  Assignments <- MCAssignments
SPECIFICATION Spec
INVARIANTS InOrderIsConsistent PanicNeedsOverlap
PROPERTY CallbackEnds
CHECK_DEADLOCK FALSE
