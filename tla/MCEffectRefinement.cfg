SPECIFICATION BrokerSpec
CONSTANTS
  Runs = {r1}
  Grants = {g1}
  Accounts <- MCAccounts
  Periods <- MCPeriods
  PeriodOf <- MCPeriodOf
  Reservations = {e1, e2}
  Limits = {40}
  MaxBudgetVersion = 2
  ApprovalIds = {a1, a2}
  Principals = {alice, bob}
  Digests = {d1}
  Connections = {c1}
  Keys = {k1, k2}
  EffectAccounts <- MCAccounts
  Usages = {12}
  Reconcilers = {w1}
  MaxEffectVersion = 5
  MaxWithdrawals = 1
  Withdrawable = {}
SYMMETRY BrokerSymmetry
CHECK_DEADLOCK FALSE
INVARIANTS
  MoneyFollowsMutation
  CompensationsSeparatelyApproved
PROPERTY
  ImplementsExternalMutation
