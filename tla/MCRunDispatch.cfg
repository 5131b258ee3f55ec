SPECIFICATION DispatchSpec
CONSTANTS
  Runs = {r1, r2}
  Grants = {g1}
  g1 = g1
  RelayWorkers = {w1, w2}
  Withdrawable <- PluginOnly
  BatchSize = 2
  MaxAttempts = 2
  MaxDisturbances = 1
SYMMETRY RelaySymmetry
CHECK_DEADLOCK FALSE
INVARIANTS
  StartedHasEngineEvidence
  QueuedRunNotForgotten
PROPERTY
  StoppedRunsStayStopped
