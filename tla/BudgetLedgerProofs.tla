------------------------- MODULE BudgetLedgerProofs -------------------------
(***************************************************************************)
(* The ledger, for every set of accounts, periods and reservations.  What  *)
(* each operation of BudgetLedger preserves, beside the types of its rows  *)
(* (EffectBrokerProofs), and what follows for the ledger driven by its     *)
(* standalone entries and for the ledger driven by the broker: it keeps    *)
(* every account within the limit configured for its period, never reopens *)
(* a closed reservation, and its books balance.                            *)
(***************************************************************************)
EXTENDS RunBudget, EffectBrokerProofs, SharedLemmas

(* reserve_budget opens accounts at the configured limit and within it.    *)
LEMMA ReserveCovers ==
  ASSUME NEW R, NEW C, LedgerRowsOK(R, C), SettingsCoverAccounts,
         NEW r \in Reservations, NEW run, NEW call,
         NEW bound \in Int, NEW keys \in SUBSET Accounts,
         ReserveBudget(r, run, call, bound, keys)
  PROVE  SettingsCoverAccounts'
  <1> SUFFICES ASSUME NEW k \in Accounts
               PROVE  IF accounts'[k].opened
                      THEN /\ accounts'[k].limit = settings'[PeriodOf[k]].limit
                           /\ accounts'[k].held + accounts'[k].charged
                                <= accounts'[k].limit
                      ELSE accounts'[k].held = 0 /\ accounts'[k].charged = 0
    BY Zenon DEF SettingsCoverAccounts
  <1>1. settings' = settings
    BY Zenon DEF ReserveBudget
  <1>2. CASE k \in keys
    <2> DEFINE limit == settings[PeriodOf[k]].limit
    <2>1. limit \in Nat
      BY LedgerAssumption, Zenon DEF LedgerAssumption, LedgerRowsOK
    <2>2. PICK held \in Nat, charged \in Nat :
            accounts'[k] = [opened |-> TRUE, limit |-> limit,
                            held |-> held + bound, charged |-> charged]
      <3>1. CASE accounts[k].opened
        <4>1. accounts'[k] = [accounts[k] EXCEPT !.held = @ + bound]
          BY <1>2, <3>1, Zenon DEF ReserveBudget, ChargedAccount
        <4>2. accounts'[k] = [opened |-> TRUE, limit |-> limit,
                              held |-> accounts[k].held + bound,
                              charged |-> accounts[k].charged]
          <5>1. accounts[k] \in [opened: BOOLEAN, limit: Nat,
                                  held: Nat, charged: Nat]
            BY Zenon DEF LedgerRowsOK
          <5>2. accounts[k].limit = limit
            BY <3>1, Zenon DEF SettingsCoverAccounts
          <5> HIDE DEF limit
          <5> QED
            BY <3>1, <4>1, <5>1, <5>2, Zenon
        <4> QED
          BY <4>2, Zenon DEF LedgerRowsOK
      <3>2. CASE ~ accounts[k].opened
        <4>1. accounts'[k] = [opened |-> TRUE, limit |-> limit,
                              held |-> 0 + bound, charged |-> 0]
          BY <1>2, <3>2, Zenon DEF ReserveBudget, ChargedAccount, NoAccount
        <4> QED
          BY <4>1, Zenon
      <3> QED
        BY <3>1, <3>2, Zenon
    <2>3. held + bound <= limit - charged
      BY <1>2, <2>2, Zenon DEF ReserveBudget, AccountChecks
    <2> QED
      BY <1>1, <2>1, <2>2, <2>3
  <1>3. CASE k \notin keys
    BY <1>1, <1>3, Zenon DEF ReserveBudget, SettingsCoverAccounts
  <1> QED
    BY <1>2, <1>3, Zenon

(* Closing a reservation leaves every limit alone and stays within it.     *)
LEMMA ClosureCovers ==
  ASSUME NEW R, NEW C, LedgerRowsOK(R, C), SettingsCoverAccounts,
         NEW r \in Reservations, NEW used \in 0..reservations[r].bound,
         accounts' = PostClosure(r, used),
         \A k \in Accounts : AccountChecks(accounts'[k]),
         UNCHANGED settings
  PROVE  SettingsCoverAccounts'
  <1> SUFFICES ASSUME NEW k \in Accounts
               PROVE  IF accounts'[k].opened
                      THEN /\ accounts'[k].limit = settings'[PeriodOf[k]].limit
                           /\ accounts'[k].held + accounts'[k].charged
                                <= accounts'[k].limit
                      ELSE accounts'[k].held = 0 /\ accounts'[k].charged = 0
    BY Zenon DEF SettingsCoverAccounts
  <1>1. /\ accounts[k] \in [opened: BOOLEAN, limit: Nat, held: Nat,
                             charged: Nat]
        /\ reservations[r].bound \in Nat
    BY Zenon DEF LedgerRowsOK, ReservationRow
  <1>2. CASE k \in reservations[r].keys
    <2>1. accounts'[k] =
            [opened |-> accounts[k].opened, limit |-> accounts[k].limit,
             held |-> accounts[k].held - reservations[r].bound,
             charged |-> accounts[k].charged + used]
      BY <1>1, <1>2, Zenon DEF PostClosure
    <2>2. /\ accounts[k].held - reservations[r].bound >= 0
          /\ accounts[k].held - reservations[r].bound
               <= accounts[k].limit - (accounts[k].charged + used)
      BY <2>1 DEF AccountChecks
    <2> QED
      BY <1>1, <2>1, <2>2 DEF SettingsCoverAccounts
  <1>3. CASE k \notin reservations[r].keys
    BY <1>3, Zenon DEF PostClosure, SettingsCoverAccounts
  <1> QED
    BY <1>2, <1>3, Zenon

(* configure_budget moves the limit of the accounts that exist with the    *)
(* setting, and refuses a limit below what they have committed.            *)
LEMMA ConfigureCovers ==
  ASSUME NEW R, NEW C, LedgerRowsOK(R, C), SettingsCoverAccounts,
         NEW p \in Periods, NEW limit \in Limits, NEW expected \in Nat,
         ConfigureBudget(p, limit, expected)
  PROVE  SettingsCoverAccounts'
  <1> USE LedgerAssumption DEF LedgerAssumption
  <1> SUFFICES ASSUME NEW k \in Accounts
               PROVE  IF accounts'[k].opened
                      THEN /\ accounts'[k].limit = settings'[PeriodOf[k]].limit
                           /\ accounts'[k].held + accounts'[k].charged
                                <= accounts'[k].limit
                      ELSE accounts'[k].held = 0 /\ accounts'[k].charged = 0
    BY Zenon DEF SettingsCoverAccounts
  <1>1. accounts[k] \in [opened: BOOLEAN, limit: Nat, held: Nat, charged: Nat]
    BY Zenon DEF LedgerRowsOK
  <1>2. CASE PeriodOf[k] = p /\ accounts[k].opened
    BY <1>1, <1>2, Zenon DEF ConfigureBudget, LedgerRowsOK
  <1>3. CASE PeriodOf[k] = p /\ ~ accounts[k].opened
    BY <1>1, <1>3, Zenon DEF ConfigureBudget, SettingsCoverAccounts
  <1>4. CASE PeriodOf[k] # p
    BY <1>1, <1>4, Zenon
       DEF ConfigureBudget, SettingsCoverAccounts, LedgerRowsOK
  <1> QED
    BY <1>2, <1>3, <1>4, Zenon

-----------------------------------------------------------------------------
(* The books.                                                              *)

Entered == {r \in Reservations : reservations[r].state # "NONE"}

(* The inductive form of BooksBalance: only finitely many reservations and *)
(* ledger rows exist, and every ledger row belongs to a reservation.       *)
BooksInv ==
  /\ IsFiniteSet(Entered)
  /\ IsFiniteSet(cost_ledger)
  /\ \A row \in cost_ledger : /\ row.reservation \in Entered
                              /\ row.held_delta \in Int
                              /\ row.charged_delta \in Int
  /\ \A r \in Reservations :
       reservations[r].state = "SETTLED" => reservations[r].settled \in Nat
  /\ BooksBalance

(* What a reservation row makes its accounts hold, and what it charged.    *)
HoldOf(row) == IF row.state \in OpenStates THEN row.bound ELSE 0
ChargeOf(row) == IF row.state = "SETTLED" THEN row.settled ELSE 0

(* Without accounts and reservations the books balance.                    *)
LEMMA BooksInit == LedgerInit => BooksInv
  <1> SUFFICES ASSUME LedgerInit PROVE BooksInv
    BY Zenon
  <1>1. Entered = {} /\ cost_ledger = {} /\ IsFiniteSet({})
    BY FS_EmptySet, Zenon DEF LedgerInit, Entered, NoReservation
  <1>2. \A k \in Accounts :
          /\ ChargedTo(k, OpenStates) = {} /\ ChargedTo(k, {"SETTLED"}) = {}
          /\ EntriesOf(k) = {}
    BY Zenon DEF LedgerInit, NoReservation, ChargedTo, EntriesOf, OpenStates
  <1>3. \A k \in Accounts : accounts[k].held = 0 /\ accounts[k].charged = 0
    BY Zenon DEF LedgerInit, NoAccount
  <1>4. BooksBalance
    BY <1>2, <1>3, SumOfNothing, Zenon DEF BooksBalance
  <1>5. \A r \in Reservations : reservations[r].state # "SETTLED"
    BY Zenon DEF LedgerInit, NoReservation
  <1> QED
    BY <1>1, <1>4, <1>5, Zenon DEF BooksInv

(* One reservation row and one ledger row are written; the accounts of the *)
(* reservation change by the deltas of the ledger row, and those are what  *)
(* the reservation now holds and charges more or less than before.         *)
BooksMove(r, row, event) ==
  /\ reservations' = [reservations EXCEPT ![r] = row]
  /\ row.state # "NONE" /\ row.bound \in Nat
  /\ row.state = "SETTLED" => row.settled \in Nat
  /\ reservations[r].state # "NONE" => reservations[r].keys = row.keys
  /\ cost_ledger' = cost_ledger \cup {event} /\ event \notin cost_ledger
  /\ event.reservation = r
  /\ event.held_delta = HoldOf(row) - HoldOf(reservations[r])
  /\ event.charged_delta = ChargeOf(row) - ChargeOf(reservations[r])
  /\ \A k \in Accounts :
       /\ accounts'[k].held
            = accounts[k].held + (IF k \in row.keys THEN event.held_delta ELSE 0)
       /\ accounts'[k].charged
            = accounts[k].charged
                + (IF k \in row.keys THEN event.charged_delta ELSE 0)

(* The sums over the reservations of an account follow the write.          *)
LEMMA ReservationSums ==
  ASSUME NEW R, NEW C, LedgerRowsOK(R, C), BooksInv,
         NEW r \in Reservations, NEW row, NEW event, BooksMove(r, row, event),
         NEW k \in Accounts
  PROVE  /\ SumFunctionOnSet([q \in Reservations |-> reservations'[q].bound],
                             ChargedTo(k, OpenStates)')
              = accounts'[k].held
         /\ SumFunctionOnSet([q \in Reservations |-> reservations'[q].settled],
                             ChargedTo(k, {"SETTLED"})')
              = accounts'[k].charged
  <1> DEFINE bounds == [q \in Reservations |-> reservations[q].bound]
             usages == [q \in Reservations |-> reservations[q].settled]
             newBounds == [q \in Reservations |-> reservations'[q].bound]
             newUsages == [q \in Reservations |-> reservations'[q].settled]
             open == ChargedTo(k, OpenStates)
             settled == ChargedTo(k, {"SETTLED"})
             newOpen == ChargedTo(k, OpenStates)'
             newSettled == ChargedTo(k, {"SETTLED"})'
  <1>1. /\ reservations'[r] = row
        /\ \A q \in Reservations \ {r} : reservations'[q] = reservations[q]
    BY Zenon DEF LedgerRowsOK, BooksMove
  <1>2. /\ open \subseteq Entered /\ newOpen \subseteq Entered \cup {r}
        /\ settled \subseteq Entered /\ newSettled \subseteq Entered \cup {r}
    BY <1>1, Zenon DEF ChargedTo, Entered, OpenStates
  <1>3. /\ IsFiniteSet(open) /\ IsFiniteSet(newOpen)
        /\ IsFiniteSet(settled) /\ IsFiniteSet(newSettled)
    BY <1>2, FS_AddElement, FS_Subset, Zenon DEF BooksInv
  <1>4. open \ {r} = newOpen \ {r} /\ settled \ {r} = newSettled \ {r}
    BY <1>1 DEF ChargedTo
  <1>5. \A q \in Reservations : reservations[q].bound \in Nat
    BY Zenon DEF LedgerRowsOK, ReservationRow
  <1>6. /\ \A q \in open : bounds[q] \in Int
        /\ \A q \in newOpen : newBounds[q] \in Int
        /\ \A q \in open \ {r} : bounds[q] = newBounds[q]
    BY <1>1, <1>5 DEF ChargedTo, BooksMove
  <1>7. /\ \A q \in settled : usages[q] \in Int
        /\ \A q \in newSettled : newUsages[q] \in Int
        /\ \A q \in settled \ {r} : usages[q] = newUsages[q]
    BY <1>1 DEF ChargedTo, BooksMove, BooksInv
  <1>8. /\ accounts[k].held = SumFunctionOnSet(bounds, open)
        /\ accounts[k].charged = SumFunctionOnSet(usages, settled)
    BY Zenon DEF BooksInv, BooksBalance
  <1>9. /\ Term(bounds, open, r)
             = IF k \in reservations[r].keys THEN HoldOf(reservations[r]) ELSE 0
        /\ Term(newBounds, newOpen, r) = IF k \in row.keys THEN HoldOf(row) ELSE 0
    BY <1>1, Zenon DEF Term, ChargedTo, HoldOf
  <1>10. /\ Term(usages, settled, r)
              = IF k \in reservations[r].keys THEN ChargeOf(reservations[r]) ELSE 0
         /\ Term(newUsages, newSettled, r)
              = IF k \in row.keys THEN ChargeOf(row) ELSE 0
    BY <1>1, Zenon DEF Term, ChargedTo, ChargeOf
  <1>11. /\ HoldOf(row) \in Int /\ HoldOf(reservations[r]) \in Int
         /\ ChargeOf(row) \in Int /\ ChargeOf(reservations[r]) \in Int
         /\ accounts[k].held \in Int /\ accounts[k].charged \in Int
    BY <1>5 DEF HoldOf, ChargeOf, BooksMove, BooksInv, LedgerRowsOK
  <1>12. reservations[r].state = "NONE"
           => HoldOf(reservations[r]) = 0 /\ ChargeOf(reservations[r]) = 0
    BY Zenon DEF HoldOf, ChargeOf, OpenStates
  <1> HIDE DEF bounds, usages, newBounds, newUsages, open, settled, newOpen,
               newSettled
  <1>13. /\ SumFunctionOnSet(newBounds, newOpen)
              = SumFunctionOnSet(bounds, open) - Term(bounds, open, r)
                  + Term(newBounds, newOpen, r)
         /\ SumFunctionOnSet(newUsages, newSettled)
              = SumFunctionOnSet(usages, settled) - Term(usages, settled, r)
                  + Term(newUsages, newSettled, r)
    BY <1>3, <1>4, <1>6, <1>7, SumChange
  <1>14. SumFunctionOnSet(newBounds, newOpen) = accounts'[k].held
    BY <1>8, <1>9, <1>11, <1>12, <1>13 DEF BooksMove
  <1>15. SumFunctionOnSet(newUsages, newSettled) = accounts'[k].charged
    BY <1>8, <1>10, <1>11, <1>12, <1>13 DEF BooksMove
  <1> QED
    BY <1>14, <1>15, Zenon DEF newBounds, newUsages, newOpen, newSettled

(* The sums over the ledger rows of an account follow the write.           *)
LEMMA EntrySums ==
  ASSUME NEW R, NEW C, LedgerRowsOK(R, C), BooksInv,
         NEW r \in Reservations, NEW row, NEW event, BooksMove(r, row, event),
         event.held_delta \in Int, event.charged_delta \in Int,
         NEW k \in Accounts
  PROVE  /\ SumFunctionOnSet([q \in cost_ledger' |-> q.held_delta], EntriesOf(k)')
              = accounts'[k].held
         /\ SumFunctionOnSet([q \in cost_ledger' |-> q.charged_delta],
                             EntriesOf(k)')
              = accounts'[k].charged
  <1> DEFINE holds == [q \in cost_ledger |-> q.held_delta]
             charges == [q \in cost_ledger |-> q.charged_delta]
             newHolds == [q \in cost_ledger' |-> q.held_delta]
             newCharges == [q \in cost_ledger' |-> q.charged_delta]
             entries == EntriesOf(k)
             newEntries == EntriesOf(k)'
  <1>1. /\ reservations'[r] = row
        /\ \A q \in Reservations \ {r} : reservations'[q] = reservations[q]
    BY Zenon DEF LedgerRowsOK, BooksMove
  <1>2. \A q \in Entered : reservations'[q].keys = reservations[q].keys
    BY <1>1, Zenon DEF BooksMove, Entered
  <1>3. /\ entries \subseteq cost_ledger /\ newEntries \subseteq cost_ledger'
        /\ event \notin entries
        /\ event \in newEntries <=> k \in row.keys
        /\ newEntries \ {event} = entries \ {event}
    BY <1>1, <1>2, Zenon DEF BooksMove, BooksInv, EntriesOf
  <1>4. IsFiniteSet(entries) /\ IsFiniteSet(newEntries)
    BY <1>3, FS_AddElement, FS_Subset, Zenon DEF BooksMove, BooksInv
  <1>5. /\ \A q \in entries : holds[q] \in Int /\ charges[q] \in Int
        /\ \A q \in newEntries : newHolds[q] \in Int /\ newCharges[q] \in Int
        /\ \A q \in entries \ {event} : /\ holds[q] = newHolds[q]
                                        /\ charges[q] = newCharges[q]
    BY <1>3, Zenon DEF BooksMove, BooksInv
  <1>6. /\ accounts[k].held = SumFunctionOnSet(holds, entries)
        /\ accounts[k].charged = SumFunctionOnSet(charges, entries)
    BY Zenon DEF BooksInv, BooksBalance
  <1>7. /\ Term(holds, entries, event) = 0 /\ Term(charges, entries, event) = 0
        /\ Term(newHolds, newEntries, event)
             = IF k \in row.keys THEN event.held_delta ELSE 0
        /\ Term(newCharges, newEntries, event)
             = IF k \in row.keys THEN event.charged_delta ELSE 0
    BY <1>3, Zenon DEF Term
  <1>8. accounts[k].held \in Int /\ accounts[k].charged \in Int
    BY DEF LedgerRowsOK
  <1> HIDE DEF holds, charges, newHolds, newCharges, entries, newEntries
  <1>9. /\ SumFunctionOnSet(newHolds, newEntries)
             = SumFunctionOnSet(holds, entries) - Term(holds, entries, event)
                 + Term(newHolds, newEntries, event)
        /\ SumFunctionOnSet(newCharges, newEntries)
             = SumFunctionOnSet(charges, entries) - Term(charges, entries, event)
                 + Term(newCharges, newEntries, event)
    BY <1>3, <1>4, <1>5, SumChange
  <1>10. SumFunctionOnSet(newHolds, newEntries) = accounts'[k].held
    BY <1>6, <1>7, <1>8, <1>9 DEF BooksMove
  <1>11. SumFunctionOnSet(newCharges, newEntries) = accounts'[k].charged
    BY <1>6, <1>7, <1>8, <1>9 DEF BooksMove
  <1> QED
    BY <1>10, <1>11, Zenon DEF newHolds, newCharges, newEntries

(* A write of this kind keeps the books balanced.                          *)
LEMMA BooksStep ==
  ASSUME NEW R, NEW C, LedgerRowsOK(R, C), BooksInv,
         NEW r \in Reservations, NEW row, NEW event, BooksMove(r, row, event)
  PROVE  BooksInv'
  <1>1. event.held_delta \in Int /\ event.charged_delta \in Int
    <2>1. reservations[r].bound \in Nat
      BY Zenon DEF LedgerRowsOK, ReservationRow
    <2> QED
      BY <2>1 DEF BooksMove, BooksInv, HoldOf, ChargeOf
  <1>2. /\ reservations'[r] = row
        /\ \A q \in Reservations \ {r} : reservations'[q] = reservations[q]
    BY Zenon DEF LedgerRowsOK, BooksMove
  <1>3. Entered' = Entered \cup {r}
    BY <1>2, Zenon DEF Entered, BooksMove
  <1>4. IsFiniteSet(Entered') /\ IsFiniteSet(cost_ledger')
    BY <1>3, FS_AddElement, Zenon DEF BooksMove, BooksInv
  <1>5. BooksBalance'
    BY <1>1, ReservationSums, EntrySums, Zenon DEF BooksBalance
  <1>6. \A q \in cost_ledger' : /\ q.reservation \in Entered'
                               /\ q.held_delta \in Int
                               /\ q.charged_delta \in Int
    BY <1>1, <1>3, Zenon DEF BooksMove, BooksInv
  <1>7. \A q \in Reservations :
          reservations'[q].state = "SETTLED" => reservations'[q].settled \in Nat
    BY <1>2, Zenon DEF BooksMove, BooksInv
  <1> QED
    BY <1>4, <1>5, <1>6, <1>7, Zenon DEF BooksInv

(* The row that an insert adds is new.                                     *)
LEMMA EventIsNew ==
  ASSUME NEW r, NEW type, NEW held, NEW charged,
         InsertCostEvent(r, type, held, charged)
  PROVE  LET event == CostEvent(r, type, held, charged)
         IN  /\ cost_ledger' = cost_ledger \cup {event}
             /\ event \notin cost_ledger
             /\ event.reservation = r
             /\ event.held_delta = held /\ event.charged_delta = charged
  BY Zenon DEF InsertCostEvent, CostEventFree, CostEvent

(* reserve_budget.                                                         *)
LEMMA ReserveBooks ==
  ASSUME NEW R, NEW C, LedgerRowsOK(R, C), SettingsCoverAccounts, BooksInv,
         NEW r \in Reservations, NEW run, NEW call,
         NEW bound \in Int, NEW keys \in SUBSET Accounts,
         ReserveBudget(r, run, call, bound, keys)
  PROVE  BooksInv'
  <1> DEFINE row == [state |-> "RESERVED", run |-> run, call |-> call,
                     bound |-> bound, settled |-> NoUsage, keys |-> keys]
             event == CostEvent(r, "RESERVED", bound, 0)
  <1>1. /\ reservations' = [reservations EXCEPT ![r] = row]
        /\ reservations[r].state = "NONE"
        /\ bound \in Nat
    BY DEF ReserveBudget
  <1>2. /\ cost_ledger' = cost_ledger \cup {event} /\ event \notin cost_ledger
        /\ event.reservation = r
        /\ event.held_delta = bound /\ event.charged_delta = 0
    BY EventIsNew DEF ReserveBudget
  <1>3. ASSUME NEW k \in Accounts
        PROVE  /\ accounts'[k].held
                    = accounts[k].held + (IF k \in keys THEN bound ELSE 0)
               /\ accounts'[k].charged = accounts[k].charged
    <2>1. accounts[k] \in [opened: BOOLEAN, limit: Nat, held: Nat, charged: Nat]
      BY Zenon DEF LedgerRowsOK
    <2>2. CASE k \in keys /\ accounts[k].opened
      BY <2>1, <2>2, Zenon DEF ReserveBudget, ChargedAccount
    <2>3. CASE k \in keys /\ ~ accounts[k].opened
      <3>1. /\ accounts'[k].held = 0 + bound /\ accounts'[k].charged = 0
        BY <2>3, Zenon DEF ReserveBudget, ChargedAccount, NoAccount
      <3> QED
        BY <2>3, <3>1, Zenon DEF SettingsCoverAccounts
    <2>4. CASE k \notin keys
      BY <2>1, <2>4 DEF ReserveBudget
    <2> QED
      BY <2>2, <2>3, <2>4, Zenon
  <1>4. /\ HoldOf(row) = bound /\ HoldOf(reservations[r]) = 0
        /\ ChargeOf(row) = 0 /\ ChargeOf(reservations[r]) = 0
        /\ row.state = "RESERVED" /\ row.bound = bound /\ row.keys = keys
    BY <1>1, Zenon DEF HoldOf, ChargeOf, OpenStates
  <1>5. \A k \in Accounts : accounts[k].charged \in Int
    BY DEF LedgerRowsOK
  <1> HIDE DEF row, event
  <1>6. BooksMove(r, row, event)
    BY <1>1, <1>2, <1>3, <1>4, <1>5 DEF BooksMove
  <1> QED
    BY <1>6, BooksStep, Zenon

(* settle_budget and release_budget: the row keeps its bound and accounts, *)
(* leaves the open states, and its whole hold is given back.               *)
LEMMA ClosureBooks ==
  ASSUME NEW R, NEW C, LedgerRowsOK(R, C), BooksInv,
         NEW r \in Reservations, NEW row, NEW type, NEW used \in Nat,
         reservations[r].state \in OpenStates,
         reservations' = [reservations EXCEPT ![r] = row],
         row.state = type, row.bound = reservations[r].bound,
         row.keys = reservations[r].keys,
         \/ type = "SETTLED" /\ row.settled = used
         \/ type = "RELEASED" /\ used = 0,
         accounts' = PostClosure(r, used),
         InsertCostEvent(r, type, 0 - reservations[r].bound, used)
  PROVE  BooksInv'
  <1> DEFINE bound == reservations[r].bound
             event == CostEvent(r, type, 0 - bound, used)
  <1>1. /\ cost_ledger' = cost_ledger \cup {event} /\ event \notin cost_ledger
        /\ event.reservation = r
        /\ event.held_delta = 0 - bound /\ event.charged_delta = used
    BY EventIsNew
  <1>2. bound \in Nat
    BY Zenon DEF LedgerRowsOK, ReservationRow
  <1>3. ASSUME NEW k \in Accounts
        PROVE  /\ accounts'[k].held
                    = accounts[k].held + (IF k \in row.keys THEN 0 - bound ELSE 0)
               /\ accounts'[k].charged
                    = accounts[k].charged + (IF k \in row.keys THEN used ELSE 0)
    <2>1. accounts[k] \in [opened: BOOLEAN, limit: Nat, held: Nat, charged: Nat]
      BY Zenon DEF LedgerRowsOK
    <2>2. CASE k \in row.keys
      <3>1. accounts'[k] = [accounts[k] EXCEPT !.held = @ - bound,
                                               !.charged = @ + used]
        BY <2>2, Zenon DEF PostClosure
      <3>2. /\ accounts'[k].held = accounts[k].held - bound
            /\ accounts'[k].charged = accounts[k].charged + used
        <4> HIDE DEF bound
        <4> QED
          BY <2>1, <3>1, Zenon
      <3> HIDE DEF bound
      <3> QED
        BY <1>2, <2>1, <2>2, <3>2
    <2>3. CASE k \notin row.keys
      <3>1. accounts'[k] = accounts[k]
        BY <2>3, Zenon DEF PostClosure
      <3> QED
        BY <2>1, <2>3, <3>1
    <2> QED
      BY <2>2, <2>3, Zenon
  <1>4. /\ HoldOf(row) = 0 /\ HoldOf(reservations[r]) = bound
        /\ ChargeOf(row) = used /\ ChargeOf(reservations[r]) = 0
    BY Zenon DEF HoldOf, ChargeOf, OpenStates
  <1> HIDE DEF bound, event
  <1>5. BooksMove(r, row, event)
    BY <1>1, <1>2, <1>3, <1>4 DEF BooksMove, bound
  <1> QED
    BY <1>5, BooksStep, Zenon

(* settle_budget.                                                          *)
LEMMA SettleBooks ==
  ASSUME NEW R, NEW C, LedgerRowsOK(R, C), BooksInv,
         NEW r \in Reservations, NEW used, SettleBudget(r, used)
  PROVE  BooksInv'
  <1> DEFINE row == [reservations[r] EXCEPT !.state = "SETTLED",
                                            !.settled = used]
  <1>1. reservations[r] \in ReservationRow(R, C) /\ used \in Nat
    BY DEF LedgerRowsOK, ReservationRow, SettleBudget
  <1>2. /\ row.state = "SETTLED" /\ row.settled = used
        /\ row.bound = reservations[r].bound
        /\ row.keys = reservations[r].keys
    BY <1>1, Zenon DEF ReservationRow
  <1>3. /\ reservations' = [reservations EXCEPT ![r] = row]
        /\ accounts' = PostClosure(r, used)
        /\ InsertCostEvent(r, "SETTLED", 0 - reservations[r].bound, used)
    BY Zenon DEF SettleBudget
  <1>4. reservations[r].state \in OpenStates
    BY Zenon DEF SettleBudget, RequireCostTransition, CostEdges, OpenStates
  <1> HIDE DEF row
  <1> QED
    BY <1>1, <1>2, <1>3, <1>4, ClosureBooks, Zenon

(* release_budget.                                                         *)
LEMMA ReleaseBooks ==
  ASSUME NEW R, NEW C, LedgerRowsOK(R, C), BooksInv,
         NEW r \in Reservations, ReleaseBudget(r)
  PROVE  BooksInv'
  <1> DEFINE row == [reservations[r] EXCEPT !.state = "RELEASED"]
  <1>1. reservations[r] \in ReservationRow(R, C) /\ 0 \in Nat
    BY Zenon DEF LedgerRowsOK
  <1>2. /\ row.state = "RELEASED"
        /\ row.bound = reservations[r].bound
        /\ row.keys = reservations[r].keys
    BY <1>1, Zenon DEF ReservationRow
  <1>3. /\ reservations' = [reservations EXCEPT ![r] = row]
        /\ accounts' = PostClosure(r, 0)
        /\ InsertCostEvent(r, "RELEASED", 0 - reservations[r].bound, 0)
    BY Zenon DEF ReleaseBudget
  <1>4. reservations[r].state \in OpenStates
    BY Zenon DEF ReleaseBudget, RequireCostTransition, CostEdges, OpenStates
  <1> HIDE DEF row
  <1> QED
    BY <1>1, <1>2, <1>3, <1>4, ClosureBooks, Zenon

(* mark_cost_unknown moves no money.                                       *)
LEMMA MarkUnknownBooks ==
  ASSUME NEW R, NEW C, LedgerRowsOK(R, C), BooksInv,
         NEW r \in Reservations, MarkCostUnknown(r)
  PROVE  BooksInv'
  <1> DEFINE row == [reservations[r] EXCEPT !.state = "UNKNOWN"]
             event == CostEvent(r, "UNKNOWN", 0, 0)
  <1>1. reservations[r] \in ReservationRow(R, C)
    BY Zenon DEF LedgerRowsOK
  <1>2. /\ row.state = "UNKNOWN"
        /\ row.bound = reservations[r].bound /\ row.bound \in Nat
        /\ row.keys = reservations[r].keys
    BY <1>1, Zenon DEF ReservationRow
  <1>3. /\ cost_ledger' = cost_ledger \cup {event} /\ event \notin cost_ledger
        /\ event.reservation = r
        /\ event.held_delta = 0 /\ event.charged_delta = 0
    BY EventIsNew DEF MarkCostUnknown
  <1>4. /\ reservations' = [reservations EXCEPT ![r] = row]
        /\ accounts' = accounts
        /\ reservations[r].state = "RESERVED"
    BY Zenon DEF MarkCostUnknown, RequireCostTransition, CostEdges
  <1>5. /\ HoldOf(row) = HoldOf(reservations[r]) /\ HoldOf(row) \in Int
        /\ ChargeOf(row) = 0 /\ ChargeOf(reservations[r]) = 0
    BY <1>2, <1>4 DEF HoldOf, ChargeOf, OpenStates
  <1>6. \A k \in Accounts : /\ accounts[k].held \in Int
                            /\ accounts[k].charged \in Int
    BY DEF LedgerRowsOK
  <1> HIDE DEF row, event
  <1>7. BooksMove(r, row, event)
    BY <1>2, <1>3, <1>4, <1>5, <1>6 DEF BooksMove
  <1> QED
    BY <1>7, BooksStep, Zenon

(* A step that leaves reservations, ledger rows and balances alone, as     *)
(* configure_budget does.                                                  *)
LEMMA SameBooks ==
  ASSUME BooksInv, UNCHANGED <<reservations, cost_ledger>>,
         \A k \in Accounts : /\ accounts'[k].held = accounts[k].held
                             /\ accounts'[k].charged = accounts[k].charged
  PROVE  BooksInv'
  BY Zenon DEF BooksInv, BooksBalance, Entered, ChargedTo, EntriesOf

(* configure_budget.                                                       *)
LEMMA ConfigureBooks ==
  ASSUME NEW R, NEW C, LedgerRowsOK(R, C), BooksInv,
         NEW p \in Periods, NEW limit, NEW expected,
         ConfigureBudget(p, limit, expected)
  PROVE  BooksInv'
  <1>1. \A k \in Accounts : /\ accounts'[k].held = accounts[k].held
                            /\ accounts'[k].charged = accounts[k].charged
    BY Zenon DEF LedgerRowsOK, ConfigureBudget
  <1> QED
    BY <1>1, SameBooks, Zenon DEF ConfigureBudget

-----------------------------------------------------------------------------
(* The ledger driven by its standalone entries.                            *)

RunBudgetRows == LedgerRowsOK(Callers \cup {Null}, Calls \cup {Null})

(* The inductive invariant of the three theorems.                          *)
LedgerInv == RunBudgetRows /\ SettingsCoverAccounts

(* Every step of the ledger preserves the inductive invariant.             *)
LEMMA LedgerInvStep ==
  ASSUME LedgerInv, [LedgerNext]_ledgerVars
  PROVE  LedgerInv'
  <1> USE DEF LedgerInv, RunBudgetRows
  <1>1. CASE ReserveRunBudget
    <2>1. PICK r \in Reservations, run \in Callers, call \in Calls,
               bound \in Bounds, keys \in (SUBSET Accounts) \ {{}} :
            ReserveBudget(r, run, call, bound, keys)
      BY <1>1, Zenon DEF ReserveRunBudget
    <2>2. bound \in Int /\ keys \in SUBSET Accounts
      BY RunBudgetAssumption, Zenon DEF RunBudgetAssumption
    <2> QED
      BY <2>1, <2>2, ReserveRows, ReserveCovers, Zenon
  <1>2. CASE SettleRunBudget
    <2>1. PICK r \in Reservations, used \in Reports : SettleBudget(r, used)
      BY <1>2, Zenon DEF SettleRunBudget
    <2>2. RunBudgetRows'
      BY <2>1, SettleRows, Zenon
    <2>3. SettingsCoverAccounts'
      BY <2>1, ClosureCovers, Zenon DEF SettleBudget
    <2> QED
      BY <2>2, <2>3, Zenon
  <1>3. CASE MarkRunCostUnknown
    <2>1. PICK r \in Reservations : MarkCostUnknown(r)
      BY <1>3, Zenon DEF MarkRunCostUnknown
    <2>2. RunBudgetRows'
      BY <2>1, MarkUnknownRows, Zenon
    <2>3. SettingsCoverAccounts'
      BY <2>1, Zenon DEF MarkCostUnknown, SettingsCoverAccounts
    <2> QED
      BY <2>2, <2>3, Zenon
  <1>4. CASE ReleaseRunBudget
    <2>1. PICK r \in Reservations : ReleaseBudget(r)
      BY <1>4, Zenon DEF ReleaseRunBudget
    <2>2. RunBudgetRows'
      BY <2>1, ReleaseRows, Zenon
    <2>3. 0 \in 0..reservations[r].bound
      BY DEF LedgerRowsOK, ReservationRow
    <2>4. SettingsCoverAccounts'
      BY <2>1, <2>3, ClosureCovers, Zenon DEF ReleaseBudget
    <2> QED
      BY <2>2, <2>4, Zenon
  <1>5. CASE ConfigurePeriod
    <2>1. PICK p \in Periods, limit \in Limits,
               expected \in 1..MaxBudgetVersion :
            ConfigureBudget(p, limit, expected)
      BY <1>5, Zenon DEF ConfigurePeriod
    <2>2. expected \in Nat
      BY LedgerAssumption DEF LedgerAssumption
    <2> QED
      BY <2>1, <2>2, ConfigureRows, ConfigureCovers, Zenon
  <1>6. CASE UNCHANGED ledgerVars
    BY <1>6, Zenon DEF ledgerVars, LedgerRowsOK, SettingsCoverAccounts
  <1> QED
    BY <1>1, <1>2, <1>3, <1>4, <1>5, <1>6, Zenon DEF LedgerNext

(* The inductive invariant holds in every reachable state.                 *)
LEMMA LedgerInvariant == LedgerSpec => []LedgerInv
  <1>1. LedgerInit => LedgerInv
    BY LedgerInitRows DEF LedgerInv, RunBudgetRows
  <1>2. LedgerInv /\ [LedgerNext]_ledgerVars => LedgerInv'
    BY LedgerInvStep, Zenon
  <1> QED
    BY <1>1, <1>2, PTL DEF LedgerSpec

(* Type correctness of the ledger: in particular no interleaving of        *)
(* reserve, settle, unknown and release makes held or charged negative.    *)
THEOREM LedgerTypeCorrect == LedgerSpec => []LedgerTypeOK
  <1>1. LedgerInv => LedgerTypeOK
    BY RowsAreTyped, Zenon DEF LedgerInv, RunBudgetRows
  <1> QED
    BY <1>1, LedgerInvariant, PTL

(* Every open account enforces the limit configured for its period now,    *)
(* and what is held and charged never exceeds it (reserve_budget,          *)
(* settle_budget, release_budget and configure_budget together).           *)
THEOREM LimitsHold == LedgerSpec => []AccountsFollowSettings
  <1>1. LedgerInv => AccountsFollowSettings
    BY Zenon DEF LedgerInv, SettingsCoverAccounts, AccountsFollowSettings
  <1> QED
    BY <1>1, LedgerInvariant, PTL

(* No entry of the ledger changes a reservation that is SETTLED or         *)
(* RELEASED (require_cost_transition has no edge that leaves them).        *)
LEMMA ClosedRowsKept ==
  ASSUME LedgerInv, [LedgerNext]_ledgerVars,
         NEW q \in Reservations,
         reservations[q].state \in {"SETTLED", "RELEASED"}
  PROVE  reservations'[q] = reservations[q]
  <1> USE DEF LedgerInv, RunBudgetRows, LedgerRowsOK, RequireCostTransition,
              CostEdges
  <1>1. CASE ReserveRunBudget
    BY <1>1, Zenon DEF ReserveRunBudget, ReserveBudget
  <1>2. CASE SettleRunBudget
    BY <1>2, Zenon DEF SettleRunBudget, SettleBudget
  <1>3. CASE MarkRunCostUnknown
    BY <1>3, Zenon DEF MarkRunCostUnknown, MarkCostUnknown
  <1>4. CASE ReleaseRunBudget
    BY <1>4, Zenon DEF ReleaseRunBudget, ReleaseBudget
  <1>5. CASE ConfigurePeriod
    BY <1>5, Zenon DEF ConfigurePeriod, ConfigureBudget
  <1>6. CASE UNCHANGED ledgerVars
    BY <1>6, Zenon DEF ledgerVars
  <1> QED
    BY <1>1, <1>2, <1>3, <1>4, <1>5, <1>6, Zenon DEF LedgerNext

(* A closed reservation is closed for good, so no retry of a settlement or *)
(* release charges or gives back a hold twice.                             *)
THEOREM ClosedForGood == LedgerSpec => ClosedIsFinal
  <1>1. LedgerInv /\ [LedgerNext]_ledgerVars =>
          [\A r \in Reservations :
             reservations[r].state \in {"SETTLED", "RELEASED"} =>
               reservations'[r] = reservations[r]]_ledgerVars
    BY ClosedRowsKept, Zenon
  <1> QED
    BY <1>1, LedgerInvariant, PTL DEF LedgerSpec, ClosedIsFinal

(* No hold is lost or leaked: every balance of budget_accounts is the sum  *)
(* of its open reservations, or of its settled usage, and the sum of the   *)
(* append-only cost_ledger, for any number of reservations on any sets of  *)
(* accounts in any order.                                                  *)
THEOREM BooksAlwaysBalance == LedgerSpec => []BooksBalance
  <1>1. LedgerInv /\ BooksInv /\ [LedgerNext]_ledgerVars => BooksInv'
    <2> SUFFICES ASSUME LedgerInv, BooksInv, [LedgerNext]_ledgerVars
                 PROVE  BooksInv'
      BY Zenon
    <2> USE DEF LedgerInv, RunBudgetRows
    <2>1. CASE ReserveRunBudget
      <3>1. PICK r \in Reservations, run \in Callers, call \in Calls,
                 bound \in Bounds, keys \in (SUBSET Accounts) \ {{}} :
              ReserveBudget(r, run, call, bound, keys)
        BY <2>1, Zenon DEF ReserveRunBudget
      <3>2. bound \in Int /\ keys \in SUBSET Accounts
        BY RunBudgetAssumption, Zenon DEF RunBudgetAssumption
      <3> QED
        BY <3>1, <3>2, ReserveBooks, Zenon
    <2>2. CASE SettleRunBudget
      BY <2>2, SettleBooks, Zenon DEF SettleRunBudget
    <2>3. CASE MarkRunCostUnknown
      BY <2>3, MarkUnknownBooks, Zenon DEF MarkRunCostUnknown
    <2>4. CASE ReleaseRunBudget
      BY <2>4, ReleaseBooks, Zenon DEF ReleaseRunBudget
    <2>5. CASE ConfigurePeriod
      BY <2>5, ConfigureBooks, Zenon DEF ConfigurePeriod
    <2>6. CASE UNCHANGED ledgerVars
      BY <2>6, SameBooks, Zenon DEF ledgerVars
    <2> QED
      BY <2>1, <2>2, <2>3, <2>4, <2>5, <2>6, Zenon DEF LedgerNext
  <1>2. BooksInv => BooksBalance
    BY Zenon DEF BooksInv
  <1> QED
    BY <1>1, <1>2, BooksInit, LedgerInvariant, PTL DEF LedgerSpec

-----------------------------------------------------------------------------
(* The ledger driven by the broker.                                        *)

(* Each operation keeps the limits and the books.                          *)
LEMMA LedgerMoveKeepsBooks ==
  ASSUME BrokerRows, SettingsCoverAccounts, BooksInv, LedgerMove
  PROVE  SettingsCoverAccounts' /\ BooksInv'
  <1> USE DEF BrokerRows, LedgerRows
  <1>1. ASSUME NEW r \in Reservations, NEW run \in Runs \cup {Null},
               NEW call \in EffectCalls,
               ReserveBudget(r, run, call, EffectBound, EffectAccounts)
        PROVE  SettingsCoverAccounts' /\ BooksInv'
    <2>1. EffectBound \in Int /\ EffectAccounts \in SUBSET Accounts
      BY BrokerAssumption DEF BrokerAssumption, EffectBound
    <2> QED
      BY <1>1, <2>1, ReserveCovers, ReserveBooks, Zenon
  <1>2. ASSUME NEW r \in Reservations, NEW used, SettleBudget(r, used)
        PROVE  SettingsCoverAccounts' /\ BooksInv'
    BY <1>2, ClosureCovers, SettleBooks, Zenon DEF SettleBudget
  <1>3. ASSUME NEW r \in Reservations, MarkCostUnknown(r)
        PROVE  SettingsCoverAccounts' /\ BooksInv'
    <2>1. SettingsCoverAccounts'
      BY <1>3, Zenon DEF MarkCostUnknown, SettingsCoverAccounts
    <2> QED
      BY <1>3, <2>1, MarkUnknownBooks, Zenon
  <1>4. ASSUME NEW r \in Reservations, ReleaseBudget(r)
        PROVE  SettingsCoverAccounts' /\ BooksInv'
    <2>1. 0 \in 0..reservations[r].bound
      BY DEF LedgerRowsOK, ReservationRow
    <2>2. SettingsCoverAccounts'
      BY <1>4, <2>1, ClosureCovers, Zenon DEF ReleaseBudget
    <2> QED
      BY <1>4, <2>2, ReleaseBooks, Zenon
  <1>5. ASSUME NEW p \in Periods, NEW limit \in Limits,
               ConfigureBudget(p, limit, SettingsVersion(p))
        PROVE  SettingsCoverAccounts' /\ BooksInv'
    <2>1. SettingsVersion(p) \in Nat
      BY Zenon DEF LedgerRowsOK, SettingsVersion
    <2> QED
      BY <1>5, <2>1, ConfigureCovers, ConfigureBooks, Zenon
  <1>6. CASE UNCHANGED ledgerVars
    <2>1. SettingsCoverAccounts'
      BY <1>6, Zenon DEF ledgerVars, SettingsCoverAccounts
    <2> QED
      BY <1>6, <2>1, SameBooks, Zenon DEF ledgerVars
  <1> QED
    BY <1>1, <1>2, <1>3, <1>4, <1>5, <1>6, Zenon DEF LedgerMove

(* Under the broker too no hold is lost or leaked and no account exceeds   *)
(* the limit configured for its period: propose_effect and                 *)
(* compensate_effect take holds, the transport and the reconcilers settle, *)
(* keep or release them, late or twice, while limits are reconfigured.     *)
THEOREM BrokerBooksBalance ==
  BrokerSpec => [](BooksBalance /\ AccountsFollowSettings)
  <1>1. BrokerInit => SettingsCoverAccounts /\ BooksInv
    <2> SUFFICES ASSUME BrokerInit PROVE SettingsCoverAccounts /\ BooksInv
      BY Zenon
    <2>1. LedgerInit
      BY Zenon DEF BrokerInit
    <2>2. SettingsCoverAccounts
      BY <2>1, Zenon DEF LedgerInit, NoAccount, SettingsCoverAccounts
    <2> QED
      BY <2>1, <2>2, BooksInit, Zenon
  <1>2. BrokerRows /\ (SettingsCoverAccounts /\ BooksInv)
          /\ [BrokerNext]_brokerVars
          => (SettingsCoverAccounts /\ BooksInv)'
    BY StepMovesLedger, LedgerMoveKeepsBooks, Zenon
  <1>3. SettingsCoverAccounts /\ BooksInv => BooksBalance /\ AccountsFollowSettings
    BY Zenon DEF BooksInv, SettingsCoverAccounts, AccountsFollowSettings
  <1> QED
    BY <1>1, <1>2, <1>3, RowsInvariant, PTL DEF BrokerSpec

=============================================================================
