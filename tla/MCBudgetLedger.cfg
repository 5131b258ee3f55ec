SPECIFICATION LedgerSpec
CONSTANTS
  Accounts = {"RUN:USD:default", "DAY:USD:default"}
  Periods = {"RUN", "DAY"}
  PeriodOf <- MCPeriodOf
  Reservations = {r1, r2, r3}
  Limits = {0, 3, 5}
  MaxBudgetVersion = 3
  Callers = {run1}
  Calls = {c1, c2, c3}
  Bounds = {0, 2, 3}
  Reports = {0, 1, 3}
SYMMETRY LedgerSymmetry
CHECK_DEADLOCK FALSE
INVARIANT
  BooksBalance
PROPERTY
  ClosedIsFinal
