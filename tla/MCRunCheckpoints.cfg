SPECIFICATION CheckpointSpec
CONSTANTS
  Runs = {r1}
  Grants = {g1}
  Workers = {w1, w2}
  Definitions <- MCDefinitions
  MaxCrashes = 3
SYMMETRY WorkerSymmetry
CHECK_DEADLOCK FALSE
INVARIANTS
  HistoryIsTraversalPrefix
  
PROPERTY
  CompletedStepNotRedispatched
