CONSTANTS
  s1 = s1
  s2 = s2
  s3 = s3
  nil = nil
  Services = {s1, s2, s3}
  EmptyDC = {s3}
  Priorities = {1, 2}
SPECIFICATION Spec
INVARIANTS TypeOK ActiveIsBest NoNilDereference PromotionIsTrue
PROPERTY MovesAreAnnounced
