---------------------------- MODULE BudgetLedger ----------------------------
(***************************************************************************)
(* The budget ledger of one tenant: budget_settings, budget_accounts,      *)
(* cost_reservations and cost_ledger (migration 0004), written by          *)
(* reserve_budget, settle_budget, mark_cost_unknown and release_budget     *)
(* (data-postgres/src/budget_ledger.rs) and by configure_budget            *)
(* (data-postgres/src/administration.rs).                                  *)
(*                                                                         *)
(* Each of them runs inside one transaction that holds the tenant's        *)
(* advisory lock, so each is one atomic action.  A refused command rolls   *)
(* its transaction back and an exact repeat writes nothing, so neither is  *)
(* a step.  Amounts are microunits of one currency.                        *)
(***************************************************************************)
EXTENDS Integers, FiniteSets, Functions, KernelStates

CONSTANTS
  Accounts,         \* account keys, such as "RUN:USD:default"
  Periods,          \* budget periods: the prefix of an account key
  PeriodOf,         \* [Accounts -> Periods]
  Reservations,     \* ids of cost_reservations rows, minted by reserve_budget
  Limits,           \* the limits an administrator may configure
  MaxBudgetVersion  \* bound on the version of a budget_settings row

Null == "NULL"

ASSUME LedgerAssumption ==
  /\ Null \notin Reservations
  /\ PeriodOf \in [Accounts -> Periods]
  /\ Limits \subseteq Nat
  /\ MaxBudgetVersion \in Nat

VARIABLES
  settings,      \* budget_settings: [limit, version]; version 0 means no row
  accounts,      \* budget_accounts: [opened, limit, held, charged]
  reservations,  \* cost_reservations: state "NONE" where there is no row
  cost_ledger    \* the set of cost_ledger rows

ledgerVars == <<settings, accounts, reservations, cost_ledger>>

NoUsage == -1    \* settled_microunits IS NULL

NoAccount == [opened |-> FALSE, limit |-> 0, held |-> 0, charged |-> 0]

NoReservation ==
  [state |-> "NONE", run |-> Null, call |-> Null, bound |-> 0,
   settled |-> NoUsage, keys |-> {}]

LedgerInit ==
  /\ settings = [p \in Periods |-> [limit |-> 0, version |-> 0]]
  /\ accounts = [k \in Accounts |-> NoAccount]
  /\ reservations = [r \in Reservations |-> NoReservation]
  /\ cost_ledger = {}

-----------------------------------------------------------------------------

(* The CHECK constraints of budget_accounts.  A write that breaks one is   *)
(* rolled back; reserve_budget reports it as BUDGET_EXCEEDED.              *)
AccountChecks(a) ==
  /\ a.held >= 0
  /\ a.charged >= 0
  /\ a.held <= a.limit - a.charged

(* The states of a reservation whose bound is still part of held.          *)
OpenStates == {"RESERVED", "UNKNOWN"}

(* Fault: the edge check accepts any existing row.                         *)
AnyCostTransition(r, to) == reservations[r].state \in CostStates

RequireCostTransition(r, to) == <<reservations[r].state, to>> \in CostEdges

(* One cost_ledger insert.  UNIQUE (reservation, event_type) turns a       *)
(* second event of one type into an error that rolls the caller back.      *)
CostEventFree(r, type) ==
  ~ \E row \in cost_ledger : row.reservation = r /\ row.event_type = type

CostEvent(r, type, held_delta, charged_delta) ==
  [reservation |-> r, event_type |-> type,
   held_delta |-> held_delta, charged_delta |-> charged_delta]

InsertCostEvent(r, type, held_delta, charged_delta) ==
  /\ CostEventFree(r, type)
  /\ cost_ledger' =
       cost_ledger \cup {CostEvent(r, type, held_delta, charged_delta)}

-----------------------------------------------------------------------------

(* The account a reservation charges: an account that has no row yet is    *)
(* seeded from the limit configured for its period.                        *)
ChargedAccount(k) ==
  IF accounts[k].opened
  THEN accounts[k]
  ELSE [NoAccount EXCEPT !.opened = TRUE,
                         !.limit = settings[PeriodOf[k]].limit]

(* reserve_budget: hold bound on every account, or hold nothing.           *)
ReserveBudget(r, run, call, bound, keys) ==
  /\ reservations[r].state = "NONE"
  /\ bound > 0                                     \* PRICE_BOUND_UNKNOWN
  /\ \A k \in keys : ChargedAccount(k).limit > 0   \* BUDGET_NOT_CONFIGURED
  /\ \A other \in Reservations :                   \* UNIQUE (run, call)
       ~ /\ reservations[other].state # "NONE"
         /\ reservations[other].run = run
         /\ reservations[other].call = call
  /\ accounts' =
       [k \in Accounts |->
          IF k \in keys
          THEN [ChargedAccount(k) EXCEPT !.held = @ + bound]
          ELSE accounts[k]]
  /\ \A k \in keys : AccountChecks(accounts'[k])   \* BUDGET_EXCEEDED
  /\ reservations' =
       [reservations EXCEPT ![r] =
          [state |-> "RESERVED", run |-> run, call |-> call, bound |-> bound,
           settled |-> NoUsage, keys |-> keys]]
  /\ InsertCostEvent(r, "RESERVED", bound, 0)
  /\ UNCHANGED settings

(* Fault: only the part that was used leaves the hold.                     *)
PostClosureOfUsedPart(r, used) ==
  [k \in Accounts |->
     IF k \in reservations[r].keys
     THEN [accounts[k] EXCEPT !.held = @ - used, !.charged = @ + used]
     ELSE accounts[k]]

(* Closing a reservation gives its whole hold back and charges used.       *)
PostClosure(r, used) ==
  [k \in Accounts |->
     IF k \in reservations[r].keys
     THEN [accounts[k] EXCEPT !.held = @ - reservations[r].bound,
                              !.charged = @ + used]
     ELSE accounts[k]]

(* settle_budget.  An exact repeat of a settlement writes nothing; another *)
(* usage for a settled reservation is SETTLEMENT_CONFLICT.                 *)
SettleBudget(r, used) ==
  /\ RequireCostTransition(r, "SETTLED")
  /\ used \in 0..reservations[r].bound             \* USAGE_EXCEEDS_RESERVATION
  /\ accounts' = PostClosure(r, used)
  /\ \A k \in Accounts : AccountChecks(accounts'[k])
  /\ reservations' = [reservations EXCEPT ![r].state = "SETTLED",
                                          ![r].settled = used]
  /\ InsertCostEvent(r, "SETTLED", 0 - reservations[r].bound, used)
  /\ UNCHANGED settings

(* mark_cost_unknown: the hold stays where it is.                          *)
MarkCostUnknown(r) ==
  /\ RequireCostTransition(r, "UNKNOWN")
  /\ reservations' = [reservations EXCEPT ![r].state = "UNKNOWN"]
  /\ InsertCostEvent(r, "UNKNOWN", 0, 0)
  /\ UNCHANGED <<settings, accounts>>

(* release_budget.                                                         *)
ReleaseBudget(r) ==
  /\ RequireCostTransition(r, "RELEASED")
  /\ accounts' = PostClosure(r, 0)
  /\ \A k \in Accounts : AccountChecks(accounts'[k])
  /\ reservations' = [reservations EXCEPT ![r].state = "RELEASED"]
  /\ InsertCostEvent(r, "RELEASED", 0 - reservations[r].bound, 0)
  /\ UNCHANGED settings

(* The version configure_budget compares: a period without a row is seeded *)
(* at limit 0 and version 1 first.                                         *)
SettingsVersion(p) == IF settings[p].version = 0 THEN 1 ELSE settings[p].version

ConfigureBudget(p, limit, expected) ==
  /\ expected = SettingsVersion(p)
  /\ expected < MaxBudgetVersion
  /\ \A k \in Accounts :                           \* BUDGET_BELOW_COMMITMENTS
       PeriodOf[k] = p => accounts[k].held + accounts[k].charged <= limit
  /\ settings' = [settings EXCEPT ![p] = [limit |-> limit,
                                          version |-> expected + 1]]
  /\ accounts' =
       [k \in Accounts |->
          IF PeriodOf[k] = p /\ accounts[k].opened
          THEN [accounts[k] EXCEPT !.limit = limit]
          ELSE accounts[k]]
  /\ UNCHANGED <<reservations, cost_ledger>>

-----------------------------------------------------------------------------

LedgerTypeOK ==
  /\ settings \in [Periods -> [limit: Nat, version: Nat]]
  /\ accounts \in [Accounts -> [opened: BOOLEAN, limit: Nat,
                                held: Nat, charged: Nat]]
  /\ DOMAIN reservations = Reservations
  /\ \A r \in Reservations :
       /\ reservations[r].state \in CostStates \cup {"NONE"}
       /\ reservations[r].bound \in Nat
       /\ reservations[r].settled \in Nat \cup {NoUsage}
       /\ reservations[r].keys \subseteq Accounts

(* The reservations that charge account k and are in one of states.        *)
ChargedTo(k, states) ==
  {r \in Reservations : /\ reservations[r].state \in states
                        /\ k \in reservations[r].keys}

(* The cost_ledger rows of the reservations that charge account k.         *)
EntriesOf(k) == {row \in cost_ledger : k \in reservations[row.reservation].keys}

(* No hold is lost or leaked.  What budget_accounts says is held is the    *)
(* sum of the bounds of the account's open (RESERVED or UNKNOWN)           *)
(* reservations, what it says is charged the sum of the settled usage, and *)
(* both are what replaying the append-only cost_ledger gives, whatever     *)
(* interleaving of reserve, settle, unknown, release and configure         *)
(* produced them.                                                          *)
BooksBalance ==
  LET bounds == [r \in Reservations |-> reservations[r].bound]
      usages == [r \in Reservations |-> reservations[r].settled]
      holds == [row \in cost_ledger |-> row.held_delta]
      charges == [row \in cost_ledger |-> row.charged_delta]
  IN  \A k \in Accounts :
        /\ accounts[k].held
             = SumFunctionOnSet(bounds, ChargedTo(k, OpenStates))
        /\ accounts[k].charged
             = SumFunctionOnSet(usages, ChargedTo(k, {"SETTLED"}))
        /\ accounts[k].held = SumFunctionOnSet(holds, EntriesOf(k))
        /\ accounts[k].charged = SumFunctionOnSet(charges, EntriesOf(k))

(* An opened account always enforces the limit its period is configured    *)
(* with now, and that limit covers what is committed: configure_budget     *)
(* rewrites the accounts reserve_budget opened under an older limit.       *)
AccountsFollowSettings ==
  \A k \in Accounts :
    accounts[k].opened =>
      /\ accounts[k].limit = settings[PeriodOf[k]].limit
      /\ accounts[k].held + accounts[k].charged <= accounts[k].limit

(* A closed reservation is closed for good: once SETTLED or RELEASED the   *)
(* row never changes again, so no retry or late usage report can charge or *)
(* give back the same hold twice.                                          *)
ClosedIsFinal ==
  [][\A r \in Reservations :
       reservations[r].state \in {"SETTLED", "RELEASED"} =>
         reservations'[r] = reservations[r]]_ledgerVars

=============================================================================
