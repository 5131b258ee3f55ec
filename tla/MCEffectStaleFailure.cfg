SPECIFICATION BrokerSpec
CONSTANTS
  Runs = {r1}
  Grants = {g1}
  Accounts <- MCAccounts
  Periods <- MCPeriods
  PeriodOf <- MCPeriodOf
  Reservations = {e1}
  Limits = {40}
  MaxBudgetVersion = 2
  ApprovalIds = {}
  Principals = {alice}
  Digests = {d1}
  Connections = {c1}
  Keys = {k1}
  EffectAccounts <- MCAccounts
  Usages = {12}
  Reconcilers = {w1, w2}
  MaxEffectVersion = 6
  MaxWithdrawals = 1
  Withdrawable = {}
SYMMETRY BrokerSymmetry
INVARIANT MoneyFollowsMutation
CHECK_DEADLOCK FALSE
