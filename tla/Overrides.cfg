CONSTANTS
  s1 = s1
  s2 = s2
  s3 = s3
  i1 = i1
  i2 = i2
  nil = nil
  Services = {s1, s2, s3}
  IPs = {i1, i2}
SPECIFICATION OverridesSpec
INVARIANTS OneActive
PROPERTY OthersLeaveOverride
SYMMETRY Symmetry
