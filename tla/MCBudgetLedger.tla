--------------------------- MODULE MCBudgetLedger ---------------------------
(* A small instance of the budget ledger for TLC.                          *)
EXTENDS RunBudget, TLC

MCPeriodOf == [k \in Accounts |-> IF k = "RUN:USD:default" THEN "RUN" ELSE "DAY"]

LedgerSymmetry == Permutations(Reservations) \cup Permutations(Calls)

=============================================================================
