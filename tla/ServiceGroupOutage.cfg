CONSTANTS
  s1 = s1
  s2 = s2
  nil = nil
  Services = {s1, s2}
  EmptyDC = {}
  Priorities = {1, 2}
SPECIFICATION Spec
PROPERTY FailureOfActiveIsAnnounced
