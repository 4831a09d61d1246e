CONSTANTS
  s1 = s1
  s2 = s2
  s3 = s3
  g1 = g1
  g2 = g2
  nil = nil
  Services = {s1, s2, s3}
  EmptyDC = {s3}
  Names = {g1, g2}
  Priorities = {1, 2}
  BaseInterval = 1
  Configs <- MCConfigs
SPECIFICATION Spec
INVARIANTS FlaggedIsActive FlaggedIsHealthy FlaggedIsPublished RegisteredIsChecked
