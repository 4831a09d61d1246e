CONSTANTS
  v1 = v1
  v2 = v2
  n1 = n1
  n2 = n2
  i1 = i1
  i2 = i2
  none = none
  Servers = {v1, v2}
  Untracked = {v2}
  Names = {n1, n2}
  IPs = {i1, i2}
  Hidden = {n2}
SPECIFICATION SyncSpec
INVARIANTS RoundRepairs
PROPERTY NamesConverge
