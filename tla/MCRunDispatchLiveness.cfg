SPECIFICATION FairDispatchSpec
CONSTANTS
  Runs = {r1, r2}
  Grants = {g1}
  g1 = g1
  RelayWorkers = {w1, w2}
  Withdrawable = {}
  BatchSize = 1
  MaxAttempts = 2
  MaxDisturbances = 1
PROPERTY DispatchResolves
CHECK_DEADLOCK FALSE
