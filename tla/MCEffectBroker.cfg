SPECIFICATION BrokerSpec
CONSTANTS
  Runs = {r1}
  Grants = {g1}
  Accounts <- MCAccounts
  Periods <- MCPeriods
  PeriodOf <- MCPeriodOf
  Reservations = {e1, e2}
  Limits = {40}
  MaxBudgetVersion = 2
  ApprovalIds = {}
  Principals = {alice}
  Digests = {d1}
  Connections = {c1}
  Keys = {k1, k2}
  EffectAccounts <- MCAccounts
  Usages = {12, 21}
  Reconcilers = {w1, w2}
  MaxEffectVersion = 6
  MaxWithdrawals = 1
  Withdrawable = {c1, "PLUGIN", g1}
SYMMETRY BrokerSymmetry
CONSTRAINT FewWithdrawals
CHECK_DEADLOCK FALSE
INVARIANTS
  HoldFollowsEffect
  AtMostOneMutation
PROPERTY
  EffectsFollowKernelEdges
