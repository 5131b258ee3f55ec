SPECIFICATION SessionSpec
CONSTANTS
  Ids = {i1, i2, i3}
  Transactions = {t1, t2, t3}
  Requests = {r1, r2}
  Logins = {l1, l2}
  Accounts = {a1, a2}
  PrincipalIds = {p1, p2}
  Idle = 2
  Absolute = 3
  StepUp = 1
  MaxAge = 1
  MaxTime = 3
  MaxEffort = 7
SYMMETRY SessionSymmetry
CONSTRAINT Effort
CHECK_DEADLOCK FALSE
INVARIANTS
  CallbackUsedOnce
  IdsKeepTheirRank
  StepUpByItsAccount
PROPERTIES
  SessionsEnd
  StepUpIsFresh
