CONSTANTS
  p1 = p1
  p2 = p2
  Putters = {p1, p2}
  Capacity = 2
  Targets = {1, 2, 3}
  MaxWorkers = 5
SPECIFICATION PoolSpec
INVARIANTS PoolTypeOK AtLeastMin ClosedIsDeserted
PROPERTIES PutReturns StopReturns
CHECK_DEADLOCK FALSE
