----------------------------- MODULE RunBudget ------------------------------
(***************************************************************************)
(* The budget ledger driven by its standalone entries, each a transaction  *)
(* of its own: reserve_run_budget, settle_run_budget,                      *)
(* mark_run_cost_unknown and release_run_budget                            *)
(* (data-postgres/src/budget_ledger.rs), and by configure_budget.  Callers *)
(* ask for any bound on any set of accounts, in any order.                 *)
(***************************************************************************)
EXTENDS BudgetLedger

CONSTANTS
  Callers,   \* runs that reserve
  Calls,     \* logical call ids
  Bounds,    \* upper bounds asked for; 0 is an unknown price
  Reports    \* usages reported

ASSUME RunBudgetAssumption == Bounds \subseteq Int /\ Reports \subseteq Int

ReserveRunBudget ==
  \E r \in Reservations, run \in Callers, call \in Calls, bound \in Bounds,
     keys \in (SUBSET Accounts) \ {{}} :
    ReserveBudget(r, run, call, bound, keys)

SettleRunBudget ==
  \E r \in Reservations, used \in Reports : SettleBudget(r, used)

MarkRunCostUnknown == \E r \in Reservations : MarkCostUnknown(r)

ReleaseRunBudget == \E r \in Reservations : ReleaseBudget(r)

ConfigurePeriod ==
  \E p \in Periods, limit \in Limits, expected \in 1..MaxBudgetVersion :
    ConfigureBudget(p, limit, expected)

LedgerNext ==
  \/ ReserveRunBudget
  \/ SettleRunBudget
  \/ MarkRunCostUnknown
  \/ ReleaseRunBudget
  \/ ConfigurePeriod

LedgerSpec == LedgerInit /\ [][LedgerNext]_ledgerVars

=============================================================================
