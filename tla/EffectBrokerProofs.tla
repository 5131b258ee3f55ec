------------------------- MODULE EffectBrokerProofs -------------------------
(***************************************************************************)
(* Proofs about the effect broker, for every set of runs, effects,         *)
(* connections, approvals and reconcilers.                                 *)
(*                                                                         *)
(* First the rows every transaction writes are shown to be well typed.     *)
(* Then StepMoves reduces each step of the broker to what it does to one   *)
(* effect, and the inductive invariants and the refinement of              *)
(* ExternalMutation are proved from that.                                  *)
(***************************************************************************)
EXTENDS EffectBroker, TLAPS

-----------------------------------------------------------------------------
(* The runs table.                                                         *)

(* The empty table is well typed.                                          *)
LEMMA RunInitTyped == RunInit => RunTypeOK
  <1>1. NoRun \in RunRow
    BY Zenon DEF NoRun, RunRow, DispatchStates
  <1> QED
    BY <1>1, Zenon DEF RunInit, RunTypeOK

(* start_run inserts a well typed row.                                     *)
LEMMA StartRunTyped ==
  ASSUME RunTypeOK, NEW r \in Runs, NEW g \in Grants, StartRun(r, g)
  PROVE  RunTypeOK'
  BY Zenon DEF RunTypeOK, RunRow, StartRun, DispatchStates, RunStates

(* cancel_run writes a state of the table, or refuses.                     *)
LEMMA CancelRunTyped ==
  ASSUME RunTypeOK, NEW r \in Runs, NEW unresolved \in BOOLEAN,
         CancelRun(r, runs[r].version, unresolved)
  PROVE  RunTypeOK'
  <1> DEFINE next == CancellationState(runs[r].state, unresolved)
  <1>1. next \in {"CANCEL_REQUESTED", "CANCELLED", "REFUSED"}
    BY Zenon DEF CancellationState
  <1>2. next \in RunStates
    BY <1>1, Zenon DEF CancelRun, RunStates
  <1>3. runs' = [runs EXCEPT ![r].state = next,
                             ![r].version = runs[r].version + 1,
                             ![r].fence = @ + 1,
                             ![r].dispatch_state = "BLOCKED"]
    BY Zenon DEF CancelRun
  <1> HIDE DEF next
  <1> QED
    BY <1>2, <1>3 DEF RunTypeOK, RunRow, CancelRun, DispatchStates

(* mark_run_started, under whatever fence the worker carries.              *)
LEMMA MarkRunStartedTyped ==
  ASSUME RunTypeOK, NEW r \in Runs, NEW fence, MarkRunStarted(r, fence)
  PROVE  RunTypeOK'
  BY DEF RunTypeOK, RunRow, MarkRunStarted, DispatchStates, RunStates

(* mark_run_completed.                                                     *)
LEMMA MarkRunCompletedTyped ==
  ASSUME RunTypeOK, NEW r \in Runs, NEW fence, MarkRunCompleted(r, fence)
  PROVE  RunTypeOK'
  BY DEF RunTypeOK, RunRow, MarkRunCompleted, RunStates

(* revoke_plugin fences every run of the build in one statement.           *)
LEMMA RevokePluginTyped ==
  ASSUME RunTypeOK, RevokePlugin
  PROVE  RunTypeOK'
  <1>1. ASSUME NEW r \in Runs
        PROVE  runs'[r] \in RunRow
    <2>1. runs[r] \in RunRow
      BY Zenon DEF RunTypeOK
    <2>2. CASE ActiveRun(r)
      <3>1. PICK state \in RunStates \cup {"NONE"} :
              runs'[r] = [state |-> state, dispatch_state |-> "BLOCKED",
                          fence |-> runs[r].fence + 1,
                          version |-> runs[r].version + 1,
                          grant |-> runs[r].grant]
        <4>1. CASE runs[r].state = "RUNNING"
          BY <2>1, <2>2, <4>1, Zenon DEF RevokePlugin, RunRow, RunStates
        <4>2. CASE runs[r].state # "RUNNING"
          BY <2>1, <2>2, <4>2, Zenon DEF RevokePlugin, RunRow
        <4> QED
          BY <4>1, <4>2, Zenon
      <3> QED
        BY <2>1, <3>1 DEF RunRow, DispatchStates
    <2>3. CASE ~ ActiveRun(r)
      BY <2>1, <2>3, Zenon DEF RevokePlugin
    <2> QED
      BY <2>2, <2>3, Zenon
  <1> QED
    BY <1>1, Zenon DEF RevokePlugin, RunTypeOK

-----------------------------------------------------------------------------
(* The rows of the ledger.                                                 *)

(* The rows of cost_reservations, for runs in R and logical calls in C.    *)
ReservationRow(R, C) ==
  [state: CostStates \cup {"NONE"}, run: R, call: C, bound: Nat,
   settled: Nat \cup {NoUsage}, keys: SUBSET Accounts]

LedgerRowsOK(R, C) ==
  /\ settings \in [Periods -> [limit: Nat, version: Nat]]
  /\ accounts \in [Accounts -> [opened: BOOLEAN, limit: Nat,
                                held: Nat, charged: Nat]]
  /\ reservations \in [Reservations -> ReservationRow(R, C)]

(* The inductive form of AccountsFollowSettings: an account that no        *)
(* reservation has opened yet has nothing held or charged.                 *)
SettingsCoverAccounts ==
  \A k \in Accounts :
    IF accounts[k].opened
    THEN /\ accounts[k].limit = settings[PeriodOf[k]].limit
         /\ accounts[k].held + accounts[k].charged <= accounts[k].limit
    ELSE accounts[k].held = 0 /\ accounts[k].charged = 0

(* Rows of the table are well typed in the sense of the type invariant.    *)
LEMMA RowsAreTyped ==
  ASSUME NEW R, NEW C, LedgerRowsOK(R, C)
  PROVE  LedgerTypeOK
  BY Zenon DEF LedgerRowsOK, LedgerTypeOK, ReservationRow

(* The empty tables of LedgerInit.                                         *)
LEMMA LedgerInitRows ==
  ASSUME NEW R, NEW C, Null \in R, Null \in C, LedgerInit
  PROVE  LedgerRowsOK(R, C) /\ SettingsCoverAccounts
  BY LedgerAssumption, Zenon
     DEF LedgerAssumption, LedgerInit, LedgerRowsOK, ReservationRow, NoAccount,
         NoReservation, NoUsage, SettingsCoverAccounts

(* reserve_budget writes well typed rows: the CHECK constraints keep the   *)
(* balances of the accounts it charges natural numbers.                    *)
LEMMA ReserveRows ==
  ASSUME NEW R, NEW C, LedgerRowsOK(R, C),
         NEW r \in Reservations, NEW run \in R, NEW call \in C,
         NEW bound \in Int, NEW keys \in SUBSET Accounts,
         ReserveBudget(r, run, call, bound, keys)
  PROVE  LedgerRowsOK(R, C)'
  <1>1. accounts' \in [Accounts -> [opened: BOOLEAN, limit: Nat,
                                    held: Nat, charged: Nat]]
    <2>1. \A k \in Accounts :
            ChargedAccount(k) \in [opened: BOOLEAN, limit: Nat,
                                   held: Nat, charged: Nat]
      BY LedgerAssumption, Zenon
      DEF LedgerAssumption, LedgerRowsOK, ChargedAccount, NoAccount
    <2>2. bound \in Nat
      BY DEF ReserveBudget
    <2> QED
      BY <2>1, <2>2 DEF LedgerRowsOK, ReserveBudget
  <1>2. reservations' \in [Reservations -> ReservationRow(R, C)]
    BY DEF LedgerRowsOK, ReserveBudget, ReservationRow, CostStates, NoUsage
  <1> QED
    BY <1>1, <1>2, Zenon DEF LedgerRowsOK, ReserveBudget

(* Closing a reservation keeps the accounts well typed, because the CHECK  *)
(* constraints refuse a balance below zero.                                *)
LEMMA ClosureAccounts ==
  ASSUME NEW R, NEW C, LedgerRowsOK(R, C),
         NEW r \in Reservations, NEW used \in Nat,
         accounts' = PostClosure(r, used),
         \A k \in Accounts : AccountChecks(accounts'[k])
  PROVE  accounts' \in [Accounts -> [opened: BOOLEAN, limit: Nat,
                                     held: Nat, charged: Nat]]
  <1> DEFINE Row == [opened: BOOLEAN, limit: Nat, held: Nat, charged: Nat]
  <1>1. ASSUME NEW k \in Accounts
        PROVE  accounts'[k] \in Row
    <2>1. accounts[k] \in Row /\ reservations[r].bound \in Nat
      BY Zenon DEF LedgerRowsOK, ReservationRow
    <2>2. CASE k \in reservations[r].keys
      <3>1. accounts'[k] =
              [opened |-> accounts[k].opened, limit |-> accounts[k].limit,
               held |-> accounts[k].held - reservations[r].bound,
               charged |-> accounts[k].charged + used]
        BY <2>1, <2>2, Zenon DEF PostClosure
      <3>2. accounts[k].held - reservations[r].bound >= 0
        BY <3>1 DEF AccountChecks
      <3> QED
        BY <2>1, <3>1, <3>2
    <2>3. CASE k \notin reservations[r].keys
      BY <2>1, <2>3, Zenon DEF PostClosure
    <2> QED
      BY <2>2, <2>3, Zenon
  <1>2. accounts' = [k \in Accounts |-> accounts'[k]]
    BY Zenon DEF PostClosure
  <1> QED
    BY <1>1, <1>2, Zenon

(* settle_budget writes well typed rows.                                   *)
LEMMA SettleRows ==
  ASSUME NEW R, NEW C, LedgerRowsOK(R, C),
         NEW r \in Reservations, NEW used, SettleBudget(r, used)
  PROVE  LedgerRowsOK(R, C)'
  <1>1. used \in Nat
    BY DEF SettleBudget, LedgerRowsOK, ReservationRow
  <1> DEFINE row == [reservations[r] EXCEPT !.state = "SETTLED",
                                            !.settled = used]
  <1>2. reservations' \in [Reservations -> ReservationRow(R, C)]
    <2>1. reservations[r] \in ReservationRow(R, C)
      BY Zenon DEF LedgerRowsOK
    <2>2. row \in ReservationRow(R, C)
      BY <1>1, <2>1, Zenon DEF ReservationRow, CostStates
    <2>3. reservations' = [reservations EXCEPT ![r] = row]
      BY Zenon DEF SettleBudget
    <2> HIDE DEF row
    <2> QED
      BY <2>2, <2>3, Zenon DEF LedgerRowsOK
  <1> QED
    BY <1>1, <1>2, ClosureAccounts, Zenon DEF LedgerRowsOK, SettleBudget

(* mark_cost_unknown writes well typed rows.                               *)
LEMMA MarkUnknownRows ==
  ASSUME NEW R, NEW C, LedgerRowsOK(R, C),
         NEW r \in Reservations, MarkCostUnknown(r)
  PROVE  LedgerRowsOK(R, C)'
  <1> DEFINE row == [reservations[r] EXCEPT !.state = "UNKNOWN"]
  <1>1. reservations[r] \in ReservationRow(R, C)
    BY Zenon DEF LedgerRowsOK
  <1>2. row \in ReservationRow(R, C)
    BY <1>1, Zenon DEF ReservationRow, CostStates
  <1>3. reservations' = [reservations EXCEPT ![r] = row]
    BY Zenon DEF MarkCostUnknown
  <1> HIDE DEF row
  <1> QED
    BY <1>2, <1>3, Zenon DEF LedgerRowsOK, MarkCostUnknown

(* release_budget writes well typed rows.                                  *)
LEMMA ReleaseRows ==
  ASSUME NEW R, NEW C, LedgerRowsOK(R, C),
         NEW r \in Reservations, ReleaseBudget(r)
  PROVE  LedgerRowsOK(R, C)'
  <1> DEFINE row == [reservations[r] EXCEPT !.state = "RELEASED"]
  <1>1. reservations' \in [Reservations -> ReservationRow(R, C)]
    <2>1. reservations[r] \in ReservationRow(R, C)
      BY Zenon DEF LedgerRowsOK
    <2>2. row \in ReservationRow(R, C)
      BY <2>1, Zenon DEF ReservationRow, CostStates
    <2>3. reservations' = [reservations EXCEPT ![r] = row]
      BY Zenon DEF ReleaseBudget
    <2> HIDE DEF row
    <2> QED
      BY <2>2, <2>3, Zenon DEF LedgerRowsOK
  <1> QED
    BY <1>1, ClosureAccounts, Zenon DEF LedgerRowsOK, ReleaseBudget

(* configure_budget writes well typed rows.                                *)
LEMMA ConfigureRows ==
  ASSUME NEW R, NEW C, LedgerRowsOK(R, C),
         NEW p \in Periods, NEW limit \in Limits, NEW expected \in Nat,
         ConfigureBudget(p, limit, expected)
  PROVE  LedgerRowsOK(R, C)'
  <1> USE LedgerAssumption DEF LedgerAssumption
  <1>1. settings' \in [Periods -> [limit: Nat, version: Nat]]
    BY DEF LedgerRowsOK, ConfigureBudget
  <1>2. accounts' \in [Accounts -> [opened: BOOLEAN, limit: Nat,
                                    held: Nat, charged: Nat]]
    BY Zenon DEF LedgerRowsOK, ConfigureBudget
  <1> QED
    BY <1>1, <1>2, Zenon DEF LedgerRowsOK, ConfigureBudget

-----------------------------------------------------------------------------
EffectCalls ==
  ({"effect"} \X Keys) \cup ({"compensate"} \X Effects) \cup {Null}

EvidenceKinds ==
  {"CONFIRMED_PRESENT", "CONFIRMED_FAILURE", "PROVEN_ABSENT", "UNRESOLVED"}

Fates == {"NONE", "SENT", "APPLIED", "REJECTED", "LOST"}

AuthorityRows ==
  /\ connections \in [Connections -> {"ACTIVE", "REVOKED"}]
  /\ kill_switches \subseteq {Tenant} \cup Connections
  /\ revoked_grants \subseteq Grants

EffectRows ==
  /\ effects \in [Effects -> EffectRow]
  /\ receipts \subseteq Effects

ProviderRows ==
  /\ wire \in [Effects -> Fates]
  /\ remote \in [Effects -> Nat]
  /\ lookups \in [Reconcilers -> {NoLookup} \cup
                                 [effect: Effects, evidence: EvidenceKinds]]

LedgerRows == LedgerRowsOK(Runs \cup {Null}, EffectCalls)

(* The type invariant in its inductive form: rows are whole records.       *)
BrokerRows ==
  /\ RunTypeOK
  /\ LedgerRows
  /\ ApprovalTypeOK
  /\ AuthorityRows
  /\ EffectRows
  /\ ProviderRows

(* The evidence a lookup can return.                                       *)
LEMMA EvidenceTyped == \A fate \in Fates : Evidence(fate) \subseteq EvidenceKinds
  BY Zenon DEF Evidence, EvidenceKinds, Fates

(* The inductive form implies the type invariant that TLC checks.          *)
LEMMA RowsGiveType == BrokerRows => BrokerTypeOK
  <1> SUFFICES ASSUME BrokerRows PROVE BrokerTypeOK
    BY Zenon
  <1>1. LedgerTypeOK
    BY RowsAreTyped, Zenon DEF BrokerRows, LedgerRows
  <1>2. EvidenceKinds \subseteq
          UNION {Evidence(fate) : fate \in {"APPLIED", "REJECTED"}}
    <2>1. Evidence("APPLIED") = {"UNRESOLVED", "CONFIRMED_PRESENT"}
      BY Zenon DEF Evidence
    <2>2. Evidence("REJECTED") =
            {"UNRESOLVED", "CONFIRMED_FAILURE", "PROVEN_ABSENT"}
      BY Zenon DEF Evidence
    <2> QED
      BY <2>1, <2>2, Zenon DEF EvidenceKinds
  <1>3. \A w \in Reconcilers :
          /\ lookups[w].effect \in Effects \cup {Null}
          /\ lookups[w].evidence \in {"NONE"} \cup EvidenceKinds
    BY DEF BrokerRows, ProviderRows, NoLookup
  <1>4. DOMAIN lookups = Reconcilers
    BY Zenon DEF BrokerRows, ProviderRows
  <1> QED
    BY <1>1, <1>2, <1>3, <1>4, Zenon
       DEF BrokerRows, BrokerTypeOK, AuthorityRows, EffectRows, ProviderRows,
           Fates

(* The empty tables.                                                       *)
LEMMA InitRows == BrokerInit => BrokerRows
  <1> SUFFICES ASSUME BrokerInit PROVE BrokerRows
    BY Zenon
  <1>1. RunTypeOK
    BY RunInitTyped, Zenon DEF BrokerInit
  <1>2. LedgerRows
    BY LedgerInitRows, Zenon DEF BrokerInit, LedgerRows, EffectCalls
  <1>3. ApprovalTypeOK
    <2>1. NoApproval \in ApprovalRow
      BY Zenon DEF NoApproval, ApprovalRow
    <2> QED
      BY <2>1, Zenon DEF BrokerInit, ApprovalInit, ApprovalTypeOK
  <1>4. EffectRows
    <2>1. NoEffect \in EffectRow
      BY Zenon DEF NoEffect, EffectRow, Null
    <2> QED
      BY <2>1, Zenon DEF BrokerInit, EffectRows
  <1>5. AuthorityRows /\ ProviderRows
    BY Zenon DEF BrokerInit, AuthorityRows, ProviderRows, Fates
  <1> QED
    BY <1>1, <1>2, <1>3, <1>4, <1>5, Zenon DEF BrokerRows

-----------------------------------------------------------------------------
(* Well typed rows, action by action.                                      *)

(* propose_effect inserts a well typed effect and reservation.             *)
LEMMA ProposeRows ==
  ASSUME BrokerRows,
         NEW e \in Effects, NEW g \in Grants, NEW r \in Runs,
         NEW c \in Connections, NEW key \in Keys, NEW content \in Digests,
         ProposeEffect(e, g, r, c, key, content)
  PROVE  BrokerRows'
  <1>1. LedgerRows'
    <2>1. <<"effect", key>> \in EffectCalls /\ EffectBound \in Int
      BY DEF EffectCalls, EffectBound
    <2>2. EffectAccounts \in SUBSET Accounts
      BY BrokerAssumption, Zenon DEF BrokerAssumption
    <2> QED
      BY <2>1, <2>2, ReserveRows, Zenon
      DEF BrokerRows, LedgerRows, ProposeEffect, Effects
  <1>2. EffectRows'
    BY Zenon DEF BrokerRows, EffectRows, EffectRow, ProposeEffect, NoEffect,
           EffectStates
  <1> QED
    BY <1>1, <1>2, Zenon
    DEF BrokerRows, ProposeEffect, runVars, authorityVars, providerVars,
        RunTypeOK, ApprovalTypeOK, AuthorityRows, ProviderRows

(* compensate_effect inserts a well typed effect and reservation.          *)
LEMMA CompensateRows ==
  ASSUME BrokerRows,
         NEW e \in Effects, NEW original \in Effects, NEW a \in ApprovalIds,
         NEW key \in Keys, NEW content \in Digests,
         CompensateEffect(e, original, a, key, content)
  PROVE  BrokerRows'
  <1>1. /\ effects[original].run \in Runs \cup {Null}
        /\ effects[original].connection \in Connections \cup {Null}
    BY Zenon DEF BrokerRows, EffectRows, EffectRow
  <1>2. LedgerRows'
    <2>1. <<"compensate", e>> \in EffectCalls /\ EffectBound \in Int
      BY DEF EffectCalls, EffectBound
    <2>2. EffectAccounts \in SUBSET Accounts
      BY BrokerAssumption, Zenon DEF BrokerAssumption
    <2> QED
      BY <1>1, <2>1, <2>2, ReserveRows, Zenon
      DEF BrokerRows, LedgerRows, CompensateEffect, Effects
  <1>3. EffectRows'
    BY <1>1, Zenon
    DEF BrokerRows, EffectRows, EffectRow, CompensateEffect, NoEffect,
        EffectStates
  <1> QED
    BY <1>2, <1>3, Zenon
    DEF BrokerRows, CompensateEffect, runVars, authorityVars, providerVars,
        RunTypeOK, ApprovalTypeOK, AuthorityRows, ProviderRows

(* dispatch_effect.                                                        *)
LEMMA DispatchRows ==
  ASSUME BrokerRows, NEW e \in Effects, DispatchEffect(e, effects[e].version)
  PROVE  BrokerRows'
  <1>1. EffectRows'
    BY DEF BrokerRows, EffectRows, EffectRow, DispatchEffect, EffectStates
  <1>2. ProviderRows'
    BY Zenon DEF BrokerRows, ProviderRows, DispatchEffect, Fates
  <1> QED
    BY <1>1, <1>2, Zenon
    DEF BrokerRows, DispatchEffect, runVars, ledgerVars, authorityVars,
        RunTypeOK, ApprovalTypeOK, AuthorityRows, LedgerRows, LedgerRowsOK

(* reconcile_effect.                                                       *)
LEMMA ReconcileRows ==
  ASSUME BrokerRows, NEW e \in Effects, ReconcileEffect(e, effects[e].version)
  PROVE  BrokerRows'
  <1>1. EffectRows'
    BY DEF BrokerRows, EffectRows, EffectRow, ReconcileEffect, EffectStates
  <1> QED
    BY <1>1, Zenon
    DEF BrokerRows, ReconcileEffect, runVars, ledgerVars, authorityVars,
        providerVars, RunTypeOK, ApprovalTypeOK, AuthorityRows, ProviderRows,
        LedgerRows, LedgerRowsOK

(* record_effect_unknown.                                                  *)
LEMMA UnknownRows ==
  ASSUME BrokerRows, NEW e \in Effects, RecordEffectUnknown(e),
         ProviderRows'
  PROVE  BrokerRows'
  <1>1. LedgerRows'
    BY MarkUnknownRows, Zenon
       DEF BrokerRows, LedgerRows, RecordEffectUnknown, Effects
  <1>2. EffectRows'
    BY DEF BrokerRows, EffectRows, EffectRow, RecordEffectUnknown, EffectStates
  <1> QED
    BY <1>1, <1>2, Zenon
    DEF BrokerRows, RecordEffectUnknown, runVars, authorityVars, RunTypeOK,
        ApprovalTypeOK, AuthorityRows

(* record_effect_succeeded.                                                *)
LEMMA SucceededRows ==
  ASSUME BrokerRows, NEW e \in Effects, NEW used,
         RecordEffectSucceeded(e, used), ProviderRows'
  PROVE  BrokerRows'
  <1>1. LedgerRows'
    BY SettleRows, Zenon
       DEF BrokerRows, LedgerRows, RecordEffectSucceeded, Effects
  <1>2. EffectRows'
    BY DEF BrokerRows, EffectRows, EffectRow, RecordEffectSucceeded,
           EffectStates
  <1> QED
    BY <1>1, <1>2, Zenon
    DEF BrokerRows, RecordEffectSucceeded, runVars, authorityVars, RunTypeOK,
        ApprovalTypeOK, AuthorityRows

(* apply_reconciliation_evidence.                                          *)
LEMMA EvidenceRows ==
  ASSUME BrokerRows, NEW e \in Effects, NEW evidence \in EvidenceKinds,
         NEW used, ApplyReconciliationEvidence(e, evidence, used),
         ProviderRows'
  PROVE  BrokerRows'
  <1>1. CASE evidence = "CONFIRMED_PRESENT"
    BY <1>1, SucceededRows, Zenon DEF ApplyReconciliationEvidence
  <1>2. CASE evidence # "CONFIRMED_PRESENT"
    <2>1. LedgerRows'
      <3>1. CASE ReleasesHold(evidence)
        BY <1>2, <3>1, ReleaseRows, Zenon
        DEF BrokerRows, LedgerRows, ApplyReconciliationEvidence, Effects
      <3>2. CASE ~ ReleasesHold(evidence)
        BY <1>2, <3>2, Zenon
        DEF BrokerRows, LedgerRows, LedgerRowsOK, ledgerVars,
            ApplyReconciliationEvidence
      <3> QED
        BY <3>1, <3>2, Zenon
    <2>2. EvidenceState(evidence) \in EffectStates
      BY <1>2, Zenon DEF EvidenceState, EvidenceKinds, EffectStates
    <2>3. EffectRows'
      BY <1>2, <2>2
      DEF BrokerRows, EffectRows, EffectRow, ApplyReconciliationEvidence
    <2> QED
      BY <1>2, <2>1, <2>3, Zenon
      DEF BrokerRows, ApplyReconciliationEvidence, runVars, authorityVars,
          RunTypeOK, ApprovalTypeOK, AuthorityRows
  <1> QED
    BY <1>1, <1>2, Zenon

(* decide_approval, a new proposal, or its expiry.                         *)
LEMMA ApprovalRows ==
  ASSUME BrokerRows, NEW a \in ApprovalIds, ApprovalStep(a)
  PROVE  BrokerRows'
  <1>1. ApprovalTypeOK'
    <2>1. ASSUME NEW author \in Principals, NEW digest \in Digests,
                 RequestApproval(a, author, digest)
          PROVE  ApprovalTypeOK'
      BY <2>1, Zenon
         DEF BrokerRows, ApprovalTypeOK, ApprovalRow, RequestApproval
    <2>2. ASSUME NEW principal \in Principals, NEW digest \in Digests,
                 NEW decision \in {"APPROVE", "REJECT", "CANCEL"},
                 DecideApproval(a, principal, decision, digest,
                                approvals[a].version)
          PROVE  ApprovalTypeOK'
      <3>1. DecisionState(decision) \in {"APPROVED", "REJECTED", "CANCELLED"}
        BY Zenon DEF DecisionState
      <3> QED
        BY <2>2, <3>1
           DEF BrokerRows, ApprovalTypeOK, ApprovalRow, DecideApproval
    <2>3. CASE ApprovalExpires(a)
      <3> DEFINE row == [approvals[a] EXCEPT !.expired = TRUE]
      <3>1. approvals[a] \in ApprovalRow
        BY Zenon DEF BrokerRows, ApprovalTypeOK
      <3>2. row \in ApprovalRow
        BY <3>1, Zenon DEF ApprovalRow
      <3>3. approvals' = [approvals EXCEPT ![a] = row]
        BY <2>3, Zenon DEF ApprovalExpires
      <3> HIDE DEF row
      <3> QED
        BY <3>2, <3>3, Zenon DEF BrokerRows, ApprovalTypeOK
    <2> QED
      BY <2>1, <2>2, <2>3, Zenon DEF ApprovalStep
  <1> QED
    BY <1>1, Zenon
    DEF ApprovalStep, BrokerRows, runVars, ledgerVars, authorityVars,
        effectAndProviderVars, effectVars, providerVars, RunTypeOK, LedgerRows,
        LedgerRowsOK, AuthorityRows, EffectRows, ProviderRows

(* The commands on runs.                                                   *)
LEMMA RunRows ==
  ASSUME BrokerRows,
         \/ \E r \in Runs : RunProgress(r) \/ \E g \in Grants : Start(r, g)
         \/ Revoke
  PROVE  BrokerRows'
  <1>1. RunTypeOK'
    <2>1. ASSUME NEW r \in Runs, RunProgress(r) PROVE RunTypeOK'
      <3>1. OwnsUnresolved(r) \in BOOLEAN
        BY Zenon DEF OwnsUnresolved
      <3> QED
        BY <2>1, <3>1, MarkRunStartedTyped, MarkRunCompletedTyped,
           CancelRunTyped, Zenon DEF RunProgress, BrokerRows
    <2>2. ASSUME NEW r \in Runs, NEW g \in Grants, Start(r, g)
          PROVE  RunTypeOK'
      BY <2>2, StartRunTyped, Zenon DEF Start, BrokerRows
    <2>3. CASE Revoke
      BY <2>3, RevokePluginTyped, Zenon DEF Revoke, BrokerRows
    <2> QED
      BY <2>1, <2>2, <2>3, Zenon
  <1>2. UNCHANGED <<ledgerVars, approvals, authorityVars,
                    effectAndProviderVars>>
    BY Zenon DEF RunProgress, Start, Revoke
  <1> QED
    BY <1>1, <1>2, Zenon
    DEF BrokerRows, ledgerVars, authorityVars, effectAndProviderVars,
        effectVars, providerVars, ApprovalTypeOK, LedgerRows, LedgerRowsOK,
        AuthorityRows, EffectRows, ProviderRows

(* Kill switches, connections and grants.                                  *)
LEMMA AuthorityStepRows ==
  ASSUME BrokerRows,
         \/ \E target \in {Tenant} \cup Connections, active \in BOOLEAN :
              SetKillSwitch(target, active)
         \/ \E c \in Connections : RevokeConnection(c)
         \/ \E g \in Grants : RevokeGrant(g)
  PROVE  BrokerRows'
  <1>1. AuthorityRows'
    <2>1. ASSUME NEW target \in {Tenant} \cup Connections,
                 NEW active \in BOOLEAN, SetKillSwitch(target, active)
          PROVE  AuthorityRows'
      BY <2>1, Zenon DEF SetKillSwitch, BrokerRows, AuthorityRows
    <2>2. ASSUME NEW c \in Connections, RevokeConnection(c)
          PROVE  AuthorityRows'
      BY <2>2, Zenon DEF RevokeConnection, BrokerRows, AuthorityRows
    <2>3. ASSUME NEW g \in Grants, RevokeGrant(g)
          PROVE  AuthorityRows'
      BY <2>3, Zenon DEF RevokeGrant, BrokerRows, AuthorityRows
    <2> QED
      BY <2>1, <2>2, <2>3, Zenon
  <1>2. UNCHANGED <<runVars, ledgerVars, approvals, effectAndProviderVars>>
    BY Zenon DEF SetKillSwitch, RevokeConnection, RevokeGrant
  <1> QED
    BY <1>1, <1>2, Zenon
    DEF BrokerRows, runVars, ledgerVars, effectAndProviderVars, effectVars,
        providerVars, RunTypeOK, ApprovalTypeOK, LedgerRows, LedgerRowsOK,
        EffectRows, ProviderRows

(* configure_budget.                                                       *)
LEMMA ConfigureStepRows ==
  ASSUME BrokerRows, NEW p \in Periods, NEW limit \in Limits,
         Configure(p, limit)
  PROVE  BrokerRows'
  <1>1. SettingsVersion(p) \in Nat
    BY Zenon DEF SettingsVersion, BrokerRows, LedgerRows, LedgerRowsOK
  <1>2. LedgerRows'
    BY <1>1, ConfigureRows, Zenon DEF Configure, BrokerRows, LedgerRows
  <1> QED
    BY <1>2, Zenon
    DEF Configure, BrokerRows, runVars, authorityVars, effectAndProviderVars,
        effectVars, providerVars, RunTypeOK, ApprovalTypeOK, AuthorityRows,
        EffectRows, ProviderRows

(* External: the provider.                                                 *)
LEMMA ProviderStepRows ==
  ASSUME BrokerRows, NEW e \in Effects, ProviderStep(e)
  PROVE  BrokerRows'
  <1>1. ProviderRows'
    BY DEF ProviderStep, ProviderApplies, ProviderDeclines, BrokerRows,
           ProviderRows, Fates
  <1>2. UNCHANGED <<runVars, ledgerVars, approvals, effectVars, authorityVars>>
    BY Zenon DEF ProviderStep, ProviderApplies, ProviderDeclines
  <1> QED
    BY <1>1, <1>2, Zenon
    DEF BrokerRows, runVars, ledgerVars, authorityVars, effectVars, RunTypeOK,
        ApprovalTypeOK, LedgerRows, LedgerRowsOK, AuthorityRows, EffectRows

(* External: the transport reports through the handlers above.             *)
LEMMA TransportStepRows ==
  ASSUME BrokerRows, NEW e \in Effects, TransportStep(e)
  PROVE  BrokerRows'
  <1>1. ASSUME NEW used \in Usages, TransportSuccess(e, used)
        PROVE  BrokerRows'
    <2>1. RecordEffectSucceeded(e, used) /\ ProviderRows'
      BY <1>1, Zenon DEF TransportSuccess, RecordEffectSucceeded, providerVars,
                  BrokerRows, ProviderRows
    <2> QED
      BY <2>1, SucceededRows, Zenon
  <1>2. CASE TransportFailure(e)
    <2>1. ApplyReconciliationEvidence(e, "CONFIRMED_FAILURE", NoUsage)
      BY <1>2, Zenon DEF TransportFailure
    <2>2. ProviderRows'
      BY <1>2, Zenon DEF TransportFailure, ApplyReconciliationEvidence,
                  RecordEffectSucceeded, providerVars, BrokerRows, ProviderRows
    <2> QED
      BY <2>1, <2>2, EvidenceRows, Zenon DEF EvidenceKinds
  <1>3. CASE TransportTimeout(e)
    <2>1. RecordEffectUnknown(e) /\ ProviderRows'
      BY <1>3, Zenon DEF TransportTimeout, RecordEffectUnknown, providerVars,
                  BrokerRows, ProviderRows
    <2> QED
      BY <2>1, UnknownRows, Zenon
  <1> QED
    BY <1>1, <1>2, <1>3, Zenon DEF TransportStep

(* A lookup that is applied was made for an effect, with known evidence.   *)
LEMMA LookupTyped ==
  ASSUME BrokerRows, NEW w \in Reconcilers, NEW e \in Effects,
         lookups[w].effect = e
  PROVE  lookups[w].evidence \in EvidenceKinds
  BY LedgerAssumption
  DEF LedgerAssumption, BrokerRows, ProviderRows, NoLookup, Effects

(* A reconciler that gives its lookup up, by itself or after applying it.  *)
LEMMA LookupDropped ==
  ASSUME BrokerRows, NEW w \in Reconcilers, UNCHANGED providerVars,
         lookups' = [lookups EXCEPT ![w] = NoLookup]
  PROVE  ProviderRows'
  BY Zenon DEF BrokerRows, ProviderRows, providerVars

(* The steps of a reconciler.                                              *)
LEMMA ReconcilerStepRows ==
  ASSUME BrokerRows, NEW w \in Reconcilers, ReconcilerStep(w)
  PROVE  BrokerRows'
  <1> USE DEF BrokerRows, runVars, ledgerVars, authorityVars, effectVars,
              RunTypeOK, ApprovalTypeOK, LedgerRows, LedgerRowsOK,
              AuthorityRows, EffectRows
  <1>1. ASSUME NEW e \in Effects, NEW evidence \in Evidence(wire[e]),
               LookUp(w, e, evidence)
        PROVE  BrokerRows'
    <2>1. evidence \in EvidenceKinds
      BY EvidenceTyped, Zenon DEF ProviderRows
    <2>2. ProviderRows'
      BY <1>1, <2>1, Zenon DEF LookUp, ProviderRows, providerVars
    <2> QED
      BY <1>1, <2>2, Zenon DEF LookUp
  <1>2. ASSUME NEW e \in Effects, NEW used, ApplyLookup(w, e, used)
        PROVE  BrokerRows'
    <2>1. lookups[w].evidence \in EvidenceKinds
      BY <1>2, LookupTyped, Zenon DEF ApplyLookup
    <2>2. ApplyReconciliationEvidence(e, lookups[w].evidence, used)
      BY <1>2, Zenon DEF ApplyLookup
    <2>3. UNCHANGED providerVars
      BY <2>2, Zenon DEF ApplyReconciliationEvidence, RecordEffectSucceeded
    <2>4. ProviderRows'
      BY <1>2, <2>3, LookupDropped, Zenon DEF ApplyLookup
    <2> QED
      BY <2>1, <2>2, <2>4, EvidenceRows, Zenon
  <1>3. CASE DropLookup(w)
    <2>1. ProviderRows'
      BY <1>3, LookupDropped, Zenon DEF DropLookup
    <2> QED
      BY <1>3, <2>1, Zenon DEF DropLookup
  <1> QED
    BY <1>1, <1>2, <1>3, Zenon DEF ReconcilerStep

(* Every step of the broker writes well typed rows.                        *)
LEMMA StepRows ==
  ASSUME BrokerRows, [BrokerNext]_brokerVars
  PROVE  BrokerRows'
  <1>1. ASSUME NEW e \in Effects, EffectCommand(e)
        PROVE  BrokerRows'
    BY <1>1, ProposeRows, DispatchRows, ReconcileRows, CompensateRows, Zenon
    DEF EffectCommand
  <1>2. CASE UNCHANGED brokerVars
    BY <1>2, Zenon
    DEF brokerVars, BrokerRows, RunTypeOK, LedgerRows, LedgerRowsOK,
        ApprovalTypeOK, AuthorityRows, EffectRows, ProviderRows
  <1> QED
    BY <1>1, <1>2, ProviderStepRows, TransportStepRows, ReconcilerStepRows,
       RunRows, ConfigureStepRows, ApprovalRows, AuthorityStepRows, Zenon
    DEF BrokerNext

(* The rows are well typed in every reachable state.                       *)
LEMMA RowsInvariant == BrokerSpec => []BrokerRows
  <1>1. BrokerRows /\ [BrokerNext]_brokerVars => BrokerRows'
    BY StepRows, Zenon
  <1> QED
    BY InitRows, <1>1, PTL DEF BrokerSpec

(* Type correctness of the broker and the tables it shares: in particular  *)
(* no order of dispatches, timeouts and reconciliations drives a balance   *)
(* of budget_accounts below zero.                                          *)
THEOREM BrokerTypeCorrect == BrokerSpec => []BrokerTypeOK
  BY RowsGiveType, RowsInvariant, PTL

-----------------------------------------------------------------------------
(* What a step does to one effect.  A move names the effect, where it was  *)
(* and where it is after the step; every other effect stays as it was.     *)

Same(q) ==
  /\ effects'[q].state = effects[q].state
  /\ effects'[q].transmit_count = effects[q].transmit_count
  /\ reservations'[q].state = reservations[q].state
  /\ q \in receipts' <=> q \in receipts
  /\ wire'[q] = wire[q]
  /\ remote'[q] = remote[q]

OthersSame(e) == \A q \in Effects : q # e => Same(q)

(* Effect e comes to a state and a hold, after count transmissions.        *)
Becomes(e, state, hold, count) ==
  /\ OthersSame(e)
  /\ effects'[e].state = state
  /\ reservations'[e].state = hold
  /\ effects'[e].transmit_count = count

ProviderSame(e) == wire'[e] = wire[e] /\ remote'[e] = remote[e]
ReceiptSame(e) == e \in receipts' <=> e \in receipts

InsertMove(e) ==
  /\ effects[e].state = "NONE"
  /\ \E state \in {"PREPARED", "AUTHORIZED"} : Becomes(e, state, "RESERVED", 0)
  /\ ProviderSame(e) /\ ReceiptSame(e) /\ lookups' = lookups

DispatchMove(e) ==
  /\ effects[e].state \in {"PREPARED", "AUTHORIZED"}
  /\ Becomes(e, "EXECUTING", reservations[e].state,
             effects[e].transmit_count + 1)
  /\ wire'[e] = "SENT" /\ remote'[e] = remote[e]
  /\ ReceiptSame(e) /\ lookups' = lookups

ReconcileMove(e) ==
  /\ effects[e].state \in {"OUTCOME_UNKNOWN", "MANUAL_REVIEW"}
  /\ Becomes(e, "RECONCILING", reservations[e].state, effects[e].transmit_count)
  /\ ProviderSame(e) /\ ReceiptSame(e) /\ lookups' = lookups

UnknownMove(e) ==
  /\ effects[e].state = "EXECUTING" /\ reservations[e].state = "RESERVED"
  /\ Becomes(e, "OUTCOME_UNKNOWN", "UNKNOWN", effects[e].transmit_count)
  /\ ProviderSame(e) /\ ReceiptSame(e) /\ lookups' = lookups

(* Who reports an outcome: the transport, which saw the fate of the        *)
(* transmission, or a reconciler.                                          *)
ReportedBy(e, evidence, fate) ==
  \/ wire[e] = fate /\ lookups' = lookups
  \/ \E w \in Reconcilers :
       /\ lookups[w].effect = e
       /\ lookups[w].evidence = evidence
       /\ lookups' = [lookups EXCEPT ![w] = NoLookup]

SuccessMove(e) ==
  /\ effects[e].state \in {"EXECUTING", "RECONCILING"}
  /\ Becomes(e, "SUCCEEDED", "SETTLED", effects[e].transmit_count)
  /\ ProviderSame(e) /\ e \in receipts'
  /\ ReportedBy(e, "CONFIRMED_PRESENT", "APPLIED")

FailureMove(e) ==
  /\ effects[e].state \in {"EXECUTING", "RECONCILING"}
  /\ Becomes(e, "FAILED_CONFIRMED", "RELEASED", effects[e].transmit_count)
  /\ ProviderSame(e) /\ ReceiptSame(e)
  /\ ReportedBy(e, "CONFIRMED_FAILURE", "REJECTED")

(* A reconciler proves absence or leaves the outcome open.                 *)
EvidenceMove(e, evidence, state) ==
  /\ effects[e].state = "RECONCILING"
  /\ Becomes(e, state, reservations[e].state, effects[e].transmit_count)
  /\ ProviderSame(e) /\ ReceiptSame(e)
  /\ \E w \in Reconcilers :
       /\ lookups[w].effect = e
       /\ lookups[w].evidence = evidence
       /\ lookups' = [lookups EXCEPT ![w] = NoLookup]

(* The provider decides the fate of a transmission.                        *)
FateMove(e) ==
  /\ wire[e] = "SENT"
  /\ Becomes(e, effects[e].state, reservations[e].state,
             effects[e].transmit_count)
  /\ \/ wire'[e] = "APPLIED" /\ remote'[e] = remote[e] + 1
     \/ wire'[e] \in NotApplied /\ remote'[e] = remote[e]
  /\ ReceiptSame(e) /\ lookups' = lookups

LookupMove(w, e) ==
  /\ \A q \in Effects : Same(q)
  /\ lookups[w] = NoLookup
  /\ effects[e].state = "RECONCILING"
  /\ \E evidence \in Evidence(wire[e]) :
       lookups' = [lookups EXCEPT ![w] = [effect |-> e, evidence |-> evidence]]

QuietMove ==
  /\ \A q \in Effects : Same(q)
  /\ \/ lookups' = lookups
     \/ \E w \in Reconcilers : lookups' = [lookups EXCEPT ![w] = NoLookup]

EffectMove(e) ==
  \/ InsertMove(e)
  \/ DispatchMove(e)
  \/ ReconcileMove(e)
  \/ UnknownMove(e)
  \/ SuccessMove(e)
  \/ FailureMove(e)
  \/ EvidenceMove(e, "PROVEN_ABSENT", "AUTHORIZED")
  \/ EvidenceMove(e, "UNRESOLVED", "MANUAL_REVIEW")
  \/ FateMove(e)

(* propose_effect and compensate_effect insert an effect with its hold.    *)
LEMMA InsertMoves ==
  ASSUME BrokerRows, NEW e \in Effects,
         \/ \E g \in Grants, r \in Runs, c \in Connections, key \in Keys,
               content \in Digests : ProposeEffect(e, g, r, c, key, content)
         \/ \E original \in Effects, a \in ApprovalIds, key \in Keys,
               content \in Digests :
              CompensateEffect(e, original, a, key, content)
  PROVE  InsertMove(e)
  <1> USE DEF InsertMove, Becomes, OthersSame, Same, ProviderSame, ReceiptSame,
              ReserveBudget, NoEffect, providerVars, BrokerRows, EffectRows,
              LedgerRows, LedgerRowsOK, Effects
  <1>1. ASSUME NEW g \in Grants, NEW r \in Runs, NEW c \in Connections,
               NEW key \in Keys, NEW content \in Digests,
               ProposeEffect(e, g, r, c, key, content)
        PROVE  InsertMove(e)
    BY <1>1, Zenon DEF ProposeEffect
  <1>2. ASSUME NEW original \in Effects, NEW a \in ApprovalIds,
               NEW key \in Keys, NEW content \in Digests,
               CompensateEffect(e, original, a, key, content)
        PROVE  InsertMove(e)
    BY <1>2, Zenon DEF CompensateEffect
  <1> QED
    BY <1>1, <1>2, Zenon

(* dispatch_effect.                                                        *)
LEMMA DispatchMoves ==
  ASSUME BrokerRows, NEW e \in Effects, DispatchEffect(e, effects[e].version)
  PROVE  DispatchMove(e)
  BY Zenon
     DEF DispatchEffect, Dispatchable, DispatchMove, Becomes, OthersSame, Same,
         ReceiptSame, ledgerVars, BrokerRows, EffectRows, EffectRow,
         ProviderRows, LedgerRows, LedgerRowsOK

(* reconcile_effect.                                                       *)
LEMMA ReconcileMoves ==
  ASSUME BrokerRows, NEW e \in Effects, ReconcileEffect(e, effects[e].version)
  PROVE  ReconcileMove(e)
  BY Zenon
     DEF ReconcileEffect, ReconcileMove, Becomes, OthersSame, Same,
         ReceiptSame, ProviderSame, ledgerVars, providerVars, BrokerRows,
         EffectRows, EffectRow, LedgerRows, LedgerRowsOK

(* record_effect_unknown.                                                  *)
LEMMA UnknownMoves ==
  ASSUME BrokerRows, NEW e \in Effects, TransportTimeout(e)
  PROVE  UnknownMove(e)
  <1>1. reservations[e].state = "RESERVED"
    BY Zenon DEF TransportTimeout, RecordEffectUnknown, MarkCostUnknown,
           RequireCostTransition, CostEdges
  <1> QED
    BY <1>1, Zenon
    DEF TransportTimeout, RecordEffectUnknown, MarkCostUnknown, UnknownMove,
        Becomes, OthersSame, Same, ReceiptSame, ProviderSame, providerVars,
        BrokerRows, EffectRows, EffectRow, LedgerRows, LedgerRowsOK,
        ReservationRow, Effects

(* record_effect_succeeded, whoever reports it.                            *)
LEMMA SuccessMoves ==
  ASSUME BrokerRows, NEW e \in Effects, NEW used,
         RecordEffectSucceeded(e, used),
         ReportedBy(e, "CONFIRMED_PRESENT", "APPLIED")
  PROVE  SuccessMove(e)
  BY DEF RecordEffectSucceeded, SettleBudget, SuccessMove, Becomes, OthersSame,
         Same, ProviderSame, providerVars, BrokerRows, EffectRows, EffectRow,
         LedgerRows, LedgerRowsOK, ReservationRow, Effects

(* A confirmed failure, whoever reports it.                                *)
LEMMA FailureMoves ==
  ASSUME BrokerRows, NEW e \in Effects, NEW used,
         ApplyReconciliationEvidence(e, "CONFIRMED_FAILURE", used),
         ReportedBy(e, "CONFIRMED_FAILURE", "REJECTED")
  PROVE  FailureMove(e)
  BY DEF ApplyReconciliationEvidence, EvidenceStates, EvidenceState,
         ReleasesHold, ReleaseBudget, FailureMove, Becomes, OthersSame, Same,
         ProviderSame, ReceiptSame, providerVars, BrokerRows, EffectRows,
         EffectRow, LedgerRows, LedgerRowsOK, ReservationRow, Effects

(* Proven absence and an unresolved lookup leave the hold alone.           *)
LEMMA EvidenceMoves ==
  ASSUME BrokerRows, NEW e \in Effects, NEW used, NEW w \in Reconcilers,
         NEW evidence \in {"PROVEN_ABSENT", "UNRESOLVED"},
         lookups[w].evidence = evidence,
         ApplyLookup(w, e, used)
  PROVE  EvidenceMove(e, evidence, EvidenceState(evidence))
  <1>1. /\ effects[e].state = "RECONCILING"
        /\ effects' = [effects EXCEPT ![e].state = EvidenceState(evidence),
                                      ![e].queued = FALSE,
                                      ![e].version = @ + 1]
        /\ UNCHANGED <<ledgerVars, receipts, providerVars>>
    BY Zenon DEF ApplyLookup, ApplyReconciliationEvidence, EvidenceStates,
           ReleasesHold
  <1>2. /\ lookups[w].effect = e
        /\ lookups' = [lookups EXCEPT ![w] = NoLookup]
    BY Zenon DEF ApplyLookup
  <1>3. Becomes(e, EvidenceState(evidence), reservations[e].state,
                effects[e].transmit_count)
    BY <1>1, Zenon
    DEF Becomes, OthersSame, Same, ledgerVars, providerVars, BrokerRows,
        EffectRows, EffectRow
  <1> QED
    BY <1>1, <1>2, <1>3, Zenon
       DEF EvidenceMove, ProviderSame, ReceiptSame, providerVars

(* The provider.                                                           *)
LEMMA FateMoves ==
  ASSUME BrokerRows, NEW e \in Effects, ProviderStep(e)
  PROVE  FateMove(e)
  BY Zenon
     DEF ProviderStep, ProviderApplies, ProviderDeclines, FateMove, NotApplied,
         Becomes, OthersSame, Same, ReceiptSame, ledgerVars, effectVars,
         BrokerRows, ProviderRows

(* What a reconciler applies is one of the moves above.                    *)
LEMMA ApplyLookupMoves ==
  ASSUME BrokerRows, NEW e \in Effects, NEW used, NEW w \in Reconcilers,
         ApplyLookup(w, e, used)
  PROVE  EffectMove(e)
  <1> DEFINE evidence == lookups[w].evidence
  <1>1. evidence \in EvidenceKinds
    BY LookupTyped, Zenon DEF ApplyLookup
  <1>2. ApplyReconciliationEvidence(e, evidence, used)
    BY Zenon DEF ApplyLookup
  <1>3. CASE evidence = "CONFIRMED_PRESENT"
    <2>1. RecordEffectSucceeded(e, used)
      BY <1>2, <1>3, Zenon DEF ApplyReconciliationEvidence
    <2>2. ReportedBy(e, "CONFIRMED_PRESENT", "APPLIED")
      BY <1>3, Zenon DEF ReportedBy, ApplyLookup
    <2> QED
      BY <2>1, <2>2, SuccessMoves, Zenon DEF EffectMove
  <1>4. CASE evidence = "CONFIRMED_FAILURE"
    <2>1. ReportedBy(e, "CONFIRMED_FAILURE", "REJECTED")
      BY <1>4, Zenon DEF ReportedBy, ApplyLookup
    <2> QED
      BY <1>2, <1>4, <2>1, FailureMoves, Zenon DEF EffectMove
  <1>5. CASE evidence \in {"PROVEN_ABSENT", "UNRESOLVED"}
    <2>1. EvidenceMove(e, evidence, EvidenceState(evidence))
      BY <1>5, EvidenceMoves, Zenon
    <2> QED
      BY <1>5, <2>1, Zenon DEF EvidenceState, EffectMove
  <1> QED
    BY <1>1, <1>3, <1>4, <1>5, Zenon DEF EvidenceKinds

(* Every step of the broker moves one effect, starts one lookup, or leaves *)
(* effects, holds, receipts and the provider alone.                        *)
LEMMA StepMoves ==
  ASSUME BrokerRows, [BrokerNext]_brokerVars
  PROVE  \/ \E e \in Effects : EffectMove(e)
         \/ \E w \in Reconcilers, e \in Effects : LookupMove(w, e)
         \/ QuietMove
  <1>1. ASSUME NEW e \in Effects, EffectCommand(e)
        PROVE  EffectMove(e)
    BY <1>1, InsertMoves, DispatchMoves, ReconcileMoves, Zenon
    DEF EffectCommand, EffectMove
  <1>2. ASSUME NEW e \in Effects, ProviderStep(e)
        PROVE  EffectMove(e)
    BY <1>2, FateMoves, Zenon DEF EffectMove
  <1>3. ASSUME NEW e \in Effects, TransportStep(e)
        PROVE  EffectMove(e)
    <2>1. ASSUME NEW used \in Usages, TransportSuccess(e, used)
          PROVE  EffectMove(e)
      <3>1. /\ RecordEffectSucceeded(e, used)
            /\ ReportedBy(e, "CONFIRMED_PRESENT", "APPLIED")
        BY <2>1, Zenon DEF TransportSuccess, ReportedBy
      <3> QED
        BY <3>1, SuccessMoves, Zenon DEF EffectMove
    <2>2. CASE TransportFailure(e)
      <3>1. /\ ApplyReconciliationEvidence(e, "CONFIRMED_FAILURE", NoUsage)
            /\ ReportedBy(e, "CONFIRMED_FAILURE", "REJECTED")
        BY <2>2, Zenon DEF TransportFailure, ReportedBy
      <3> QED
        BY <3>1, FailureMoves, Zenon DEF EffectMove
    <2>3. CASE TransportTimeout(e)
      BY <2>3, UnknownMoves, Zenon DEF EffectMove
    <2> QED
      BY <1>3, <2>1, <2>2, <2>3, Zenon DEF TransportStep
  <1>4. ASSUME NEW w \in Reconcilers, ReconcilerStep(w)
        PROVE  \/ \E e \in Effects : EffectMove(e)
               \/ \E e \in Effects : LookupMove(w, e)
               \/ QuietMove
    <2>1. ASSUME NEW e \in Effects, NEW evidence \in Evidence(wire[e]),
                 LookUp(w, e, evidence)
          PROVE  LookupMove(w, e)
      BY <2>1, Zenon
         DEF LookUp, LookupMove, Same, ledgerVars, effectVars, providerVars
    <2>2. CASE DropLookup(w)
      BY <2>2, Zenon DEF DropLookup, QuietMove, Same, ledgerVars, effectVars,
                  providerVars
    <2> QED
      BY <1>4, <2>1, <2>2, ApplyLookupMoves, Zenon DEF ReconcilerStep
  <1>5. CASE \/ \E r \in Runs : RunProgress(r) \/ \E g \in Grants : Start(r, g)
             \/ Revoke
             \/ \E p \in Periods, limit \in Limits : Configure(p, limit)
             \/ \E a \in ApprovalIds : ApprovalStep(a)
             \/ \E target \in {Tenant} \cup Connections, active \in BOOLEAN :
                  SetKillSwitch(target, active)
             \/ \E c \in Connections : RevokeConnection(c)
             \/ \E g \in Grants : RevokeGrant(g)
    <2>1. UNCHANGED <<effects, receipts, reservations, wire, remote, lookups>>
      BY <1>5, Zenon
      DEF RunProgress, Start, Revoke, Configure, ConfigureBudget, ApprovalStep,
          SetKillSwitch, RevokeConnection, RevokeGrant, ledgerVars,
          effectAndProviderVars, effectVars, providerVars
    <2> QED
      BY <2>1, Zenon DEF QuietMove, Same
  <1>6. CASE UNCHANGED brokerVars
    BY <1>6, Zenon DEF brokerVars, QuietMove, Same
  <1> QED
    BY <1>1, <1>2, <1>3, <1>4, <1>5, <1>6, Zenon DEF BrokerNext

-----------------------------------------------------------------------------
(* At most one mutation.                                                   *)

(* An effect that a step leaves as it is keeps its part of the invariant.  *)
LEMMA SameKeepsTransmission ==
  ASSUME NEW q \in Effects, TransmissionOK(q), Same(q)
  PROVE  TransmissionOK(q)'
  BY Zenon DEF TransmissionOK, Same

(* Every move of an effect preserves its part of the invariant.            *)
LEMMA MoveKeepsTransmission ==
  ASSUME BrokerRows, TransmissionInv, NEW e \in Effects, EffectMove(e)
  PROVE  TransmissionOK(e)'
  <1>1. /\ TransmissionOK(e)
        /\ effects[e].transmit_count \in Nat /\ remote[e] \in Nat
    BY Zenon
       DEF TransmissionInv, BrokerRows, EffectRows, EffectRow, ProviderRows
  <1>2. CASE InsertMove(e)
    <2>1. wire[e] = "NONE" /\ remote[e] = 0 /\ e \notin receipts
      BY <1>1, <1>2, Zenon DEF InsertMove, TransmissionOK, Phase
    <2>2. /\ effects'[e].state = "PREPARED" \/ effects'[e].state = "AUTHORIZED"
          /\ reservations'[e].state = "RESERVED"
          /\ effects'[e].transmit_count = 0
      BY <1>2, Zenon DEF InsertMove, Becomes
    <2>3. wire'[e] = "NONE" /\ remote'[e] = 0 /\ e \notin receipts'
      BY <1>2, <2>1, Zenon DEF InsertMove, ProviderSame, ReceiptSame
    <2>4. Phase(effects[e].state, reservations[e].state,
                effects[e].transmit_count)'
      <3>1. CASE effects'[e].state = "PREPARED"
        BY <2>2, <3>1, Zenon DEF Phase
      <3>2. CASE effects'[e].state = "AUTHORIZED"
        BY <2>2, <3>2, Zenon DEF Phase
      <3>3. effects'[e].state \in {"PREPARED", "AUTHORIZED"}
        BY <2>2, Zenon
      <3> QED
        BY <3>1, <3>2, <3>3, Zenon
    <2>5. effects'[e].transmit_count # 1 /\ effects'[e].state # "SUCCEEDED"
      BY <2>2
    <2> QED
      BY <2>3, <2>4, <2>5, Zenon DEF TransmissionOK
  <1>3. CASE DispatchMove(e)
    <2>1. /\ e \notin receipts /\ wire[e] # "APPLIED"
          /\ \/ reservations[e].state = "RESERVED"
                /\ effects[e].transmit_count = 0
             \/ reservations[e].state = "UNKNOWN"
                /\ effects[e].transmit_count = 1
      BY <1>1, <1>3, Zenon DEF DispatchMove, TransmissionOK, Phase, NotApplied
    <2>2. remote[e] = 0
      BY <1>1, <2>1, Zenon DEF TransmissionOK
    <2>3. /\ effects'[e].state = "EXECUTING"
          /\ reservations'[e].state = reservations[e].state
          /\ effects'[e].transmit_count = effects[e].transmit_count + 1
      BY <1>3, Zenon DEF DispatchMove, Becomes
    <2>4. wire'[e] = "SENT" /\ remote'[e] = 0 /\ e \notin receipts'
      BY <1>3, <2>1, <2>2, Zenon DEF DispatchMove, ReceiptSame
    <2>5. Phase(effects[e].state, reservations[e].state,
                effects[e].transmit_count)'
      BY <2>1, <2>3 DEF Phase
    <2>6. effects'[e].transmit_count # 0
      BY <2>1, <2>3
    <2> QED
      BY <2>3, <2>4, <2>5, <2>6, Zenon DEF TransmissionOK
  <1>10. CASE FateMove(e)
    <2>1. /\ effects'[e].state = effects[e].state
          /\ reservations'[e].state = reservations[e].state
          /\ effects'[e].transmit_count = effects[e].transmit_count
          /\ e \in receipts' <=> e \in receipts
      BY <1>10, Zenon DEF FateMove, Becomes, ReceiptSame
    <2>2. wire[e] = "SENT" /\ remote[e] = 0
      BY <1>1, <1>10, Zenon DEF FateMove, TransmissionOK
    <2>3. remote'[e] = IF wire'[e] = "APPLIED" THEN 1 ELSE 0
      BY <1>10, <2>2 DEF FateMove, NotApplied
    <2>4. /\ effects[e].transmit_count # 0
          /\ ~ (effects[e].state = "AUTHORIZED" /\ effects[e].transmit_count = 1)
      BY <1>1, <2>2, Zenon DEF TransmissionOK, NotApplied
    <2> QED
      BY <1>1, <2>1, <2>3, <2>4, Zenon DEF TransmissionOK
  <1> USE <1>1 DEF TransmissionOK, Phase, Becomes, ProviderSame, ReceiptSame,
                   NotApplied
  <1>4. CASE ReconcileMove(e)
    BY <1>4, Zenon DEF ReconcileMove
  <1>5. CASE UnknownMove(e)
    BY <1>5, Zenon DEF UnknownMove
  <1>6. CASE SuccessMove(e)
    BY <1>6, Zenon DEF SuccessMove
  <1>7. CASE FailureMove(e)
    BY <1>7, Zenon DEF FailureMove
  <1>8. CASE EvidenceMove(e, "PROVEN_ABSENT", "AUTHORIZED")
    <2>1. PICK w \in Reconcilers : /\ lookups[w].effect = e
                                   /\ lookups[w].evidence = "PROVEN_ABSENT"
      BY <1>8, Zenon DEF EvidenceMove
    <2>2. AbsenceOK(w, e)
      BY Zenon DEF TransmissionInv
    <2>3. effects[e].transmit_count = 1
      BY <1>8, Zenon DEF EvidenceMove
    <2>4. wire[e] \in NotApplied
      BY <2>1, <2>2, <2>3, Zenon DEF AbsenceOK
    <2> QED
      BY <1>8, <2>3, <2>4, Zenon DEF EvidenceMove
  <1>9. CASE EvidenceMove(e, "UNRESOLVED", "MANUAL_REVIEW")
    BY <1>9, Zenon DEF EvidenceMove
  <1> QED
    BY <1>2, <1>3, <1>4, <1>5, <1>6, <1>7, <1>8, <1>9, <1>10, Zenon
       DEF EffectMove

(* Evidence that a reconciler keeps carrying stays about the transmission  *)
(* it was gathered for: the first transmission is never undecided again,   *)
(* and a dispatch after it makes a second one.                             *)
LEMMA MoveKeepsAbsence ==
  ASSUME BrokerRows, TransmissionInv, NEW e \in Effects, EffectMove(e),
         NEW w \in Reconcilers, NEW q \in Effects,
         lookups'[w] = lookups[w]
  PROVE  AbsenceOK(w, q)'
  <1>1. AbsenceOK(w, q) /\ TransmissionOK(q)
    BY Zenon DEF TransmissionInv
  <1>2. CASE q # e
    <2>1. Same(q)
      BY <1>2, Zenon
         DEF EffectMove, InsertMove, DispatchMove, ReconcileMove, UnknownMove,
             SuccessMove, FailureMove, EvidenceMove, FateMove, Becomes,
             OthersSame
    <2> QED
      BY <1>1, <2>1, Zenon DEF AbsenceOK, Same
  <1>3. CASE q = e
    <2>1. CASE DispatchMove(e)
      <3>1. effects[e].transmit_count \in {0, 1}
        BY <1>1, <1>3, <2>1, Zenon DEF DispatchMove, TransmissionOK, Phase
      <3>2. effects'[e].transmit_count = effects[e].transmit_count + 1
        BY <2>1, Zenon DEF DispatchMove, Becomes
      <3> QED
        BY <1>1, <1>3, <3>1, <3>2 DEF AbsenceOK
    <2>2. CASE InsertMove(e)
      BY <1>1, <1>3, <2>2, Zenon
      DEF InsertMove, Becomes, AbsenceOK, TransmissionOK, Phase
    <2>3. CASE FateMove(e)
      BY <1>1, <1>3, <2>3, Zenon
      DEF FateMove, Becomes, AbsenceOK, TransmissionOK, Phase, NotApplied
    <2>4. CASE ~ (DispatchMove(e) \/ InsertMove(e) \/ FateMove(e))
      <3>1. /\ effects'[e].transmit_count = effects[e].transmit_count
            /\ wire'[e] = wire[e]
        BY <2>4, Zenon DEF EffectMove, ReconcileMove, UnknownMove, SuccessMove,
                    FailureMove, EvidenceMove, Becomes, ProviderSame
      <3> QED
        BY <1>1, <1>3, <3>1, Zenon DEF AbsenceOK
    <2> QED
      BY <2>1, <2>2, <2>3, <2>4, Zenon
  <1> QED
    BY <1>2, <1>3, Zenon

(* A reconciler's lookup after a move is the one before, or none.          *)
LEMMA MoveKeepsLookups ==
  ASSUME BrokerRows, NEW e \in Effects, EffectMove(e), NEW w \in Reconcilers
  PROVE  lookups'[w] = lookups[w] \/ lookups'[w] = NoLookup
  BY Zenon
     DEF EffectMove, InsertMove, DispatchMove, ReconcileMove, UnknownMove,
         SuccessMove, FailureMove, EvidenceMove, FateMove, ReportedBy,
         BrokerRows, ProviderRows

(* A reconciler that carries nothing asserts nothing.                      *)
LEMMA NoLookupNoEffect == \A q \in Effects : NoLookup.effect # q
  BY LedgerAssumption, Zenon DEF LedgerAssumption, NoLookup, Effects

(* Every step of the broker preserves the invariant.                       *)
LEMMA TransmissionStep ==
  ASSUME BrokerRows, TransmissionInv, [BrokerNext]_brokerVars
  PROVE  TransmissionInv'
  <1>1. ASSUME NEW e \in Effects, EffectMove(e)
        PROVE  TransmissionInv'
    <2>1. ASSUME NEW q \in Effects PROVE TransmissionOK(q)'
      <3>1. CASE q = e
        BY <1>1, <3>1, MoveKeepsTransmission, Zenon
      <3>2. CASE q # e
        <4>1. Same(q)
          BY <1>1, <3>2, Zenon
          DEF EffectMove, InsertMove, DispatchMove, ReconcileMove, UnknownMove,
              SuccessMove, FailureMove, EvidenceMove, FateMove, Becomes,
              OthersSame
        <4> QED
          BY <4>1, SameKeepsTransmission, Zenon DEF TransmissionInv
      <3> QED
        BY <3>1, <3>2, Zenon
    <2>2. ASSUME NEW w \in Reconcilers, NEW q \in Effects
          PROVE  AbsenceOK(w, q)'
      <3>1. CASE lookups'[w] = lookups[w]
        BY <1>1, <3>1, MoveKeepsAbsence, Zenon
      <3>2. CASE lookups'[w] = NoLookup
        BY <3>2, NoLookupNoEffect, Zenon DEF AbsenceOK
      <3> QED
        BY <1>1, <3>1, <3>2, MoveKeepsLookups, Zenon
    <2> QED
      BY <2>1, <2>2, Zenon DEF TransmissionInv
  <1>2. ASSUME NEW v \in Reconcilers, NEW e \in Effects, LookupMove(v, e)
        PROVE  TransmissionInv'
    <2>1. \A q \in Effects : Same(q) /\ TransmissionOK(q)'
      BY <1>2, SameKeepsTransmission, Zenon DEF LookupMove, TransmissionInv
    <2>2. ASSUME NEW w \in Reconcilers, NEW q \in Effects
          PROVE  AbsenceOK(w, q)'
      <3>1. PICK evidence \in Evidence(wire[e]) :
              lookups' = [lookups EXCEPT ![v] =
                            [effect |-> e, evidence |-> evidence]]
        BY <1>2, Zenon DEF LookupMove
      <3>2. Same(q) /\ AbsenceOK(w, q)
        BY <2>1, Zenon DEF TransmissionInv
      <3>3. CASE w # v
        BY <3>1, <3>2, <3>3, Zenon
           DEF AbsenceOK, Same, BrokerRows, ProviderRows
      <3>4. CASE w = v
        <4>1. lookups'[w] = [effect |-> e, evidence |-> evidence]
          BY <3>1, <3>4, Zenon DEF BrokerRows, ProviderRows
        <4>2. effects[e].transmit_count = 1
          <5>1. effects[e].state = "RECONCILING"
            BY <1>2, Zenon DEF LookupMove
          <5>2. TransmissionOK(e)
            BY Zenon DEF TransmissionInv
          <5> QED
            BY <5>1, <5>2, Zenon DEF TransmissionOK, Phase
        <4>3. evidence = "PROVEN_ABSENT" => wire[e] \in NotApplied
          BY Zenon DEF Evidence, NotApplied
        <4> QED
          <5>1. /\ effects'[q].transmit_count = effects[q].transmit_count
                /\ wire'[q] = wire[q]
            BY <3>2, Zenon DEF Same
          <5>2. lookups'[w].effect = e /\ lookups'[w].evidence = evidence
            BY <4>1
          <5> QED
            BY <4>2, <4>3, <5>1, <5>2 DEF AbsenceOK
      <3> QED
        BY <3>3, <3>4, Zenon
    <2> QED
      BY <2>1, <2>2, Zenon DEF TransmissionInv
  <1>3. CASE QuietMove
    <2>1. \A q \in Effects : Same(q) /\ TransmissionOK(q)'
      BY <1>3, SameKeepsTransmission, Zenon DEF QuietMove, TransmissionInv
    <2>2. ASSUME NEW w \in Reconcilers, NEW q \in Effects
          PROVE  AbsenceOK(w, q)'
      <3>1. lookups'[w] = lookups[w] \/ lookups'[w] = NoLookup
        BY <1>3, Zenon DEF QuietMove, BrokerRows, ProviderRows
      <3>2. Same(q) /\ AbsenceOK(w, q)
        BY <2>1, Zenon DEF TransmissionInv
      <3> QED
        BY <3>1, <3>2, NoLookupNoEffect, Zenon DEF AbsenceOK, Same
    <2> QED
      BY <2>1, <2>2, Zenon DEF TransmissionInv
  <1> QED
    BY <1>1, <1>2, <1>3, StepMoves, Zenon


(* No effect is known at first and no reconciler carries evidence.         *)
LEMMA TransmissionInit == BrokerInit => TransmissionInv
  <1> SUFFICES ASSUME BrokerInit PROVE TransmissionInv
    BY Zenon
  <1>1. \A e \in Effects : TransmissionOK(e)
    BY Zenon
       DEF BrokerInit, LedgerInit, NoEffect, NoReservation, TransmissionOK,
           Phase, Effects
  <1>2. \A w \in Reconcilers, e \in Effects : AbsenceOK(w, e)
    BY NoLookupNoEffect, Zenon DEF BrokerInit, AbsenceOK
  <1> QED
    BY <1>1, <1>2, Zenon DEF TransmissionInv

(* However many reconcilers there are, an effect is transmitted a second   *)
(* time only after its ambiguous first transmission was shown not to be    *)
(* applied, and never a third time.                                        *)
THEOREM TransmissionsAreJustified == BrokerSpec => []TransmissionInv
  <1>1. BrokerRows /\ TransmissionInv /\ [BrokerNext]_brokerVars
          => TransmissionInv'
    BY TransmissionStep, Zenon
  <1> QED
    BY TransmissionInit, RowsInvariant, <1>1, PTL DEF BrokerSpec

(* effects, cost_reservations and effect_receipts move together, in every  *)
(* order of proposals, dispatches, outcomes and reconciliations.           *)
THEOREM HoldsFollowEffects == BrokerSpec => []HoldFollowsEffect
  <1>1. ASSUME NEW e \in Effects, TransmissionOK(e)
        PROVE  /\ reservations[e].state \in HoldStates(effects[e].state)
               /\ e \in receipts <=> effects[e].state = "SUCCEEDED"
    BY <1>1, Zenon DEF TransmissionOK, Phase, HoldStates, OpenStates
  <1>2. TransmissionInv => HoldFollowsEffect
    BY <1>1, Zenon DEF TransmissionInv, HoldFollowsEffect
  <1> QED
    BY <1>2, TransmissionsAreJustified, PTL

(* The provider applies no effect twice.                                   *)
THEOREM NoEffectTwice == BrokerSpec => []AtMostOneMutation
  <1>1. ASSUME NEW e \in Effects, TransmissionOK(e)
        PROVE  remote[e] <= 1
    BY <1>1 DEF TransmissionOK
  <1>2. TransmissionInv => AtMostOneMutation
    BY <1>1, Zenon DEF TransmissionInv, AtMostOneMutation
  <1> QED
    BY <1>2, TransmissionsAreJustified, PTL

-----------------------------------------------------------------------------
(* The kernel's table.                                                     *)

(* A move of an effect that exists follows an edge of the table, or is the *)
(* dispatch of an effect that needs no approval.                           *)
LEMMA MoveFollowsEdges ==
  ASSUME NEW e \in Effects, EffectMove(e), NEW q \in Effects, Known(q),
         effects'[q].state # effects[q].state
  PROVE  <<effects[q].state, effects'[q].state>>
           \in EffectEdges \cup {<<"PREPARED", "EXECUTING">>}
  <1>1. q = e
    BY Zenon
       DEF EffectMove, InsertMove, DispatchMove, ReconcileMove, UnknownMove,
           SuccessMove, FailureMove, EvidenceMove, FateMove, Becomes,
           OthersSame, Same
  <1>2. ~ InsertMove(e) /\ ~ FateMove(e)
    BY <1>1, Zenon DEF Known, InsertMove, FateMove, Becomes
  <1> QED
    BY <1>1, <1>2, Zenon
    DEF EffectMove, DispatchMove, ReconcileMove, UnknownMove, SuccessMove,
        FailureMove, EvidenceMove, Becomes, EffectEdges

(* The handlers never ask the kernel's transition table, and yet effects   *)
(* move along its edges only, PREPARED to EXECUTING aside, whoever reports *)
(* what and in whatever order.                                             *)
THEOREM EffectsStayOnKernelEdges == BrokerSpec => EffectsFollowKernelEdges
  <1>1. BrokerRows /\ [BrokerNext]_brokerVars
          => [\A e \in Effects :
                Known(e) /\ effects'[e].state # effects[e].state
                  => <<effects[e].state, effects'[e].state>>
                       \in EffectEdges \cup {<<"PREPARED", "EXECUTING">>}]_brokerVars
    <2> SUFFICES ASSUME BrokerRows, [BrokerNext]_brokerVars,
                        NEW q \in Effects, Known(q),
                        effects'[q].state # effects[q].state
                 PROVE  <<effects[q].state, effects'[q].state>>
                          \in EffectEdges \cup {<<"PREPARED", "EXECUTING">>}
      BY Zenon
    <2>1. ~ QuietMove /\ ~ \E w \in Reconcilers, e \in Effects : LookupMove(w, e)
      BY Zenon DEF QuietMove, LookupMove, Same
    <2> QED
      BY <2>1, StepMoves, MoveFollowsEdges, Zenon
  <1> QED
    BY <1>1, RowsInvariant, PTL DEF BrokerSpec, EffectsFollowKernelEdges

-----------------------------------------------------------------------------
(* Compensations.                                                          *)

(* A reviewed decision, once APPROVED, was taken by someone else than the  *)
(* author of the proposal.                                                 *)
FourEyes ==
  \A a \in ApprovalIds :
    approvals[a].state = "APPROVED"
      => approvals[a].decided_by # approvals[a].created_by

(* Only an effect that exists names an original, the original exists too,  *)
(* and the approval of a compensation is a proposal.                       *)
OriginalsExist ==
  \A e \in Effects :
    effects[e].original # Null =>
      /\ Known(e)
      /\ Known(effects[e].original)
      /\ effects[e].approval \in ApprovalIds

CompensationInv ==
  FourEyes /\ OriginalsExist /\ CompensationsSeparatelyApproved

(* A step that inserts no effect: origins and approvals stay what they     *)
(* were written to be.                                                     *)
KeepsOrigins ==
  \A q \in Effects :
    /\ effects'[q].original = effects[q].original
    /\ effects'[q].approval = effects[q].approval
    /\ effects'[q].state = "NONE" <=> effects[q].state = "NONE"

(* A decision on a proposal is final, its author and its reviewer stay.    *)
KeepsApprovals ==
  \A a \in ApprovalIds :
    approvals[a].state = "APPROVED" =>
      /\ approvals'[a].state = "APPROVED"
      /\ approvals'[a].decided_by = approvals[a].decided_by
      /\ approvals'[a].created_by = approvals[a].created_by

(* Only the proposals' own commands write approvals.                       *)
LEMMA ApprovalsAreFinal ==
  ASSUME BrokerRows, FourEyes, [BrokerNext]_brokerVars
  PROVE  KeepsApprovals /\ FourEyes'
  <1>1. ASSUME NEW a \in ApprovalIds, ApprovalStep(a)
        PROVE  KeepsApprovals /\ FourEyes'
    <2>1. ASSUME NEW author \in Principals, NEW digest \in Digests,
                 RequestApproval(a, author, digest)
          PROVE  KeepsApprovals /\ FourEyes'
      BY <2>1, Zenon
         DEF BrokerRows, ApprovalTypeOK, RequestApproval, KeepsApprovals,
             FourEyes
    <2>2. ASSUME NEW principal \in Principals, NEW digest \in Digests,
                 NEW decision \in {"APPROVE", "REJECT", "CANCEL"},
                 DecideApproval(a, principal, decision, digest,
                                approvals[a].version)
          PROVE  KeepsApprovals /\ FourEyes'
      <3>1. /\ approvals'[a].decided_by = principal
            /\ approvals'[a].created_by = approvals[a].created_by
            /\ \A b \in ApprovalIds \ {a} : approvals'[b] = approvals[b]
        BY <2>2, Zenon
           DEF BrokerRows, ApprovalTypeOK, ApprovalRow, DecideApproval
      <3> QED
        BY <2>2, <3>1, Zenon DEF DecideApproval, KeepsApprovals, FourEyes
    <2>3. CASE ApprovalExpires(a)
      <3>1. \A b \in ApprovalIds :
              /\ approvals'[b].state = approvals[b].state
              /\ approvals'[b].decided_by = approvals[b].decided_by
              /\ approvals'[b].created_by = approvals[b].created_by
        BY <2>3, Zenon
           DEF BrokerRows, ApprovalTypeOK, ApprovalRow, ApprovalExpires
      <3> QED
        BY <3>1, Zenon DEF KeepsApprovals, FourEyes
    <2> QED
      BY <1>1, <2>1, <2>2, <2>3, Zenon DEF ApprovalStep
  <1>2. CASE UNCHANGED approvals
    BY <1>2, Zenon DEF KeepsApprovals, FourEyes
  <1>3. (\A a \in ApprovalIds : ~ ApprovalStep(a)) => UNCHANGED approvals
    <2>1. ASSUME NEW e \in Effects, EffectCommand(e) \/ ProviderStep(e) \/ TransportStep(e)
          PROVE  UNCHANGED approvals
      BY <2>1, Zenon
      DEF EffectCommand, ProviderStep, TransportStep, ProposeEffect,
          DispatchEffect, ReconcileEffect, CompensateEffect, ProviderApplies,
          ProviderDeclines, TransportSuccess, TransportFailure,
          TransportTimeout, RecordEffectSucceeded, RecordEffectUnknown,
          ApplyReconciliationEvidence
    <2>2. ASSUME NEW w \in Reconcilers, ReconcilerStep(w)
          PROVE  UNCHANGED approvals
      BY <2>2, Zenon
      DEF ReconcilerStep, LookUp, ApplyLookup, DropLookup,
          ApplyReconciliationEvidence, RecordEffectSucceeded
    <2> QED
      BY <2>1, <2>2, Zenon
      DEF BrokerNext, RunProgress, Start, Revoke, Configure, SetKillSwitch,
          RevokeConnection, RevokeGrant, brokerVars
  <1> QED
    BY <1>1, <1>2, <1>3, Zenon

(* A proposed effect compensates nothing; every other command but          *)
(* compensate_effect keeps the origins.                                    *)
LEMMA OriginsStay ==
  ASSUME BrokerRows, [BrokerNext]_brokerVars,
         ~ \E e, original \in Effects, a \in ApprovalIds, key \in Keys,
              content \in Digests : CompensateEffect(e, original, a, key, content)
  PROVE  \/ KeepsOrigins
         \/ \E e \in Effects :
              /\ effects[e].state = "NONE" /\ effects'[e].original = Null
              /\ \A q \in Effects \ {e} : effects'[q] = effects[q]
  <1>1. ASSUME NEW e \in Effects, NEW g \in Grants, NEW r \in Runs,
               NEW c \in Connections, NEW key \in Keys, NEW content \in Digests,
               ProposeEffect(e, g, r, c, key, content)
        PROVE  /\ effects[e].state = "NONE" /\ effects'[e].original = Null
               /\ \A q \in Effects \ {e} : effects'[q] = effects[q]
    BY <1>1, Zenon DEF ProposeEffect, NoEffect, BrokerRows, EffectRows
  <1>2. ASSUME NEW e \in Effects,
               \/ DispatchEffect(e, effects[e].version)
               \/ ReconcileEffect(e, effects[e].version)
               \/ RecordEffectUnknown(e)
               \/ \E used : RecordEffectSucceeded(e, used)
        PROVE  KeepsOrigins
    BY <1>2 DEF DispatchEffect, ReconcileEffect, RecordEffectUnknown,
                RecordEffectSucceeded, Known, KeepsOrigins, BrokerRows,
                EffectRows, EffectRow
  <1>3. ASSUME NEW e \in Effects, NEW evidence \in EvidenceKinds, NEW used,
               ApplyReconciliationEvidence(e, evidence, used)
        PROVE  KeepsOrigins
    <2>1. CASE RecordEffectSucceeded(e, used)
      BY <1>2, <2>1, Zenon
    <2>2. CASE evidence # "CONFIRMED_PRESENT" /\ ~ RecordEffectSucceeded(e, used)
      <3>1. /\ effects[e].state \in {"EXECUTING", "RECONCILING"}
            /\ effects' = [effects EXCEPT ![e].state = EvidenceState(evidence),
                                          ![e].queued = FALSE,
                                          ![e].version = @ + 1]
        BY <1>3, <2>2, Zenon DEF ApplyReconciliationEvidence, EvidenceStates
      <3>2. EvidenceState(evidence) # "NONE"
        BY <2>2, Zenon DEF EvidenceKinds, EvidenceState
      <3> QED
        BY <3>1, <3>2, Zenon
           DEF KeepsOrigins, BrokerRows, EffectRows, EffectRow
    <2> QED
      BY <1>3, <2>1, <2>2, Zenon DEF ApplyReconciliationEvidence
  <1>4. ASSUME NEW e \in Effects, ProviderStep(e) \/ TransportStep(e)
        PROVE  KeepsOrigins
    <2>1. CASE ProviderStep(e)
      BY <2>1, Zenon
         DEF ProviderStep, ProviderApplies, ProviderDeclines, effectVars,
             KeepsOrigins
    <2>2. CASE TransportStep(e)
      BY <2>2, <1>2, <1>3, Zenon
      DEF TransportStep, TransportSuccess, TransportFailure, TransportTimeout,
          EvidenceKinds
    <2> QED
      BY <1>4, <2>1, <2>2, Zenon
  <1>5. ASSUME NEW w \in Reconcilers, ReconcilerStep(w)
        PROVE  KeepsOrigins
    <2>1. ASSUME NEW e \in Effects, NEW used, ApplyLookup(w, e, used)
          PROVE  KeepsOrigins
      <3>1. lookups[w].evidence \in EvidenceKinds
        BY <2>1, LookupTyped, Zenon DEF ApplyLookup
      <3> QED
        BY <2>1, <3>1, <1>3, Zenon DEF ApplyLookup
    <2> QED
      BY <1>5, <2>1, Zenon
      DEF ReconcilerStep, LookUp, DropLookup, effectVars, KeepsOrigins
  <1>6. CASE UNCHANGED effects
    BY <1>6, Zenon DEF KeepsOrigins
  <1> QED
    BY <1>1, <1>2, <1>4, <1>5, <1>6, Zenon
    DEF BrokerNext, EffectCommand, RunProgress, Start, Revoke, Configure,
        ApprovalStep, SetKillSwitch, RevokeConnection, RevokeGrant, brokerVars,
        effectAndProviderVars, effectVars

(* compensate_effect inserts a compensation with an approval of its own.   *)
LEMMA CompensateKeepsInv ==
  ASSUME BrokerRows, CompensationInv, FourEyes',
         NEW e \in Effects, NEW original \in Effects, NEW a \in ApprovalIds,
         NEW key \in Keys, NEW content \in Digests,
         CompensateEffect(e, original, a, key, content)
  PROVE  CompensationInv'
  <1>1. /\ effects'[e].original = original
        /\ effects'[e].approval = a
        /\ effects'[e].state = "AUTHORIZED"
        /\ \A q \in Effects \ {e} : effects'[q] = effects[q]
        /\ approvals' = approvals
        /\ e # original
    BY Zenon DEF CompensateEffect, NoEffect, BrokerRows, EffectRows
  <1>2. \A q \in Effects : effects[q].original # Null
                             => q # e /\ effects[q].original \in Effects \ {e}
    BY Zenon
       DEF CompensateEffect, CompensationInv, OriginalsExist, Known,
           BrokerRows, EffectRows, EffectRow
  <1>3. OriginalsExist'
    <2> SUFFICES ASSUME NEW q \in Effects, effects'[q].original # Null
                 PROVE  /\ effects'[q].state # "NONE"
                        /\ effects'[effects'[q].original].state # "NONE"
                        /\ effects'[q].approval \in ApprovalIds
      BY Zenon DEF OriginalsExist, Known
    <2>1. CASE q = e
      BY <1>1, <2>1, Zenon DEF CompensateEffect
    <2>2. CASE q # e
      BY <1>1, <1>2, <2>2, Zenon DEF CompensationInv, OriginalsExist, Known
    <2> QED
      BY <2>1, <2>2, Zenon
  <1>4. CompensationsSeparatelyApproved'
    <2> SUFFICES ASSUME NEW q \in Effects, effects'[q].original # Null
                 PROVE  /\ approvals[effects'[q].approval].state = "APPROVED"
                        /\ approvals[effects'[q].approval].decided_by
                             # approvals[effects'[q].approval].created_by
                        /\ effects'[q].approval
                             # effects'[effects'[q].original].approval
                        /\ \A other \in Effects \ {q} :
                             ~ /\ effects'[other].original = effects'[q].original
                               /\ effects'[other].approval = effects'[q].approval
      BY <1>1, Zenon DEF CompensationsSeparatelyApproved
    <2>1. CASE q = e
      BY <1>1, <2>1
      DEF CompensateEffect, CompensationInv, FourEyes, ApprovalUnused
    <2>2. CASE q # e
      <3>1. effects[q].original # Null /\ effects'[q] = effects[q]
        BY <1>1, <2>2, Zenon
      <3>2. effects[q].original \in Effects \ {e}
        BY <1>2, <3>1, Zenon
      <3>3. ~ (effects[q].original = original /\ effects[q].approval = a)
        BY Zenon DEF CompensateEffect, ApprovalUnused
      <3>4. /\ approvals[effects[q].approval].state = "APPROVED"
            /\ approvals[effects[q].approval].decided_by
                 # approvals[effects[q].approval].created_by
            /\ effects[q].approval # effects[effects[q].original].approval
            /\ \A other \in Effects \ {q} :
                 ~ /\ effects[other].original = effects[q].original
                   /\ effects[other].approval = effects[q].approval
        BY <3>1, Zenon DEF CompensationInv, CompensationsSeparatelyApproved
      <3>5. effects'[effects'[q].original].approval
              = effects[effects[q].original].approval
        BY <1>1, <3>1, <3>2, Zenon
      <3>6. \A other \in Effects \ {q} :
              ~ /\ effects'[other].original = effects'[q].original
                /\ effects'[other].approval = effects'[q].approval
        BY <1>1, <3>1, <3>3, <3>4, Zenon
      <3> QED
        BY <3>1, <3>4, <3>5, <3>6, Zenon
    <2> QED
      BY <2>1, <2>2, Zenon
  <1> QED
    BY <1>3, <1>4, Zenon DEF CompensationInv

(* No other step touches a compensation.                                   *)
LEMMA CompensationStep ==
  ASSUME BrokerRows, CompensationInv, [BrokerNext]_brokerVars
  PROVE  CompensationInv'
  <1>1. KeepsApprovals /\ FourEyes'
    BY ApprovalsAreFinal, Zenon DEF CompensationInv
  <1>2. CASE \E e, original \in Effects, a \in ApprovalIds, key \in Keys,
                content \in Digests :
               CompensateEffect(e, original, a, key, content)
    BY <1>1, <1>2, CompensateKeepsInv, Zenon
  <1>3. ASSUME NEW new \in SUBSET Effects,
               \A q \in new : /\ effects[q].state = "NONE"
                             /\ effects'[q].original = Null,
               \A q \in Effects \ new :
                 /\ effects'[q].original = effects[q].original
                 /\ effects'[q].approval = effects[q].approval
                 /\ effects'[q].state = "NONE" <=> effects[q].state = "NONE"
        PROVE  CompensationInv'
    <2>1. ASSUME NEW q \in Effects, effects'[q].original # Null
          PROVE  /\ q \notin new
                 /\ effects[q].original # Null
                 /\ effects'[q].original \in Effects \ new
                 /\ effects'[q].original = effects[q].original
                 /\ effects'[q].approval = effects[q].approval
                 /\ effects[q].approval \in ApprovalIds
      BY <1>3, <2>1 DEF CompensationInv, OriginalsExist, Known, BrokerRows,
                        EffectRows, EffectRow
    <2>2. OriginalsExist'
      <3>1. ASSUME NEW q \in Effects, effects'[q].original # Null
            PROVE  /\ effects'[q].state # "NONE"
                   /\ effects'[effects'[q].original].state # "NONE"
                   /\ effects'[q].approval \in ApprovalIds
        <4>1. effects[q].state # "NONE" /\ effects[effects[q].original].state # "NONE"
          BY <2>1, <3>1, Zenon DEF CompensationInv, OriginalsExist, Known
        <4> QED
          BY <1>3, <2>1, <3>1, <4>1, Zenon
      <3> QED
        BY <3>1, Zenon DEF OriginalsExist, Known
    <2>3. CompensationsSeparatelyApproved'
      <3> SUFFICES ASSUME NEW q \in Effects, effects'[q].original # Null
                   PROVE  /\ approvals'[effects'[q].approval].state = "APPROVED"
                          /\ approvals'[effects'[q].approval].decided_by
                               # approvals'[effects'[q].approval].created_by
                          /\ effects'[q].approval
                               # effects'[effects'[q].original].approval
                          /\ \A other \in Effects \ {q} :
                               ~ /\ effects'[other].original = effects'[q].original
                                 /\ effects'[other].approval = effects'[q].approval
        BY Zenon DEF CompensationsSeparatelyApproved
      <3>1. /\ approvals[effects[q].approval].state = "APPROVED"
            /\ effects[q].approval # effects[effects[q].original].approval
            /\ \A other \in Effects \ {q} :
                 ~ /\ effects[other].original = effects[q].original
                   /\ effects[other].approval = effects[q].approval
        BY <2>1, Zenon DEF CompensationInv, CompensationsSeparatelyApproved
      <3>2. effects'[effects'[q].original].approval
              = effects[effects[q].original].approval
        BY <1>3, <2>1, Zenon
      <3> QED
        BY <1>1, <2>1, <3>1, <3>2, Zenon DEF KeepsApprovals, FourEyes
    <2> QED
      BY <1>1, <2>2, <2>3, Zenon DEF CompensationInv
  <1>4. CASE KeepsOrigins
    <2>1. {} \in SUBSET Effects
      BY Zenon
    <2> QED
      BY <1>3, <1>4, <2>1, Zenon DEF KeepsOrigins
  <1>5. ASSUME NEW e \in Effects,
               effects[e].state = "NONE", effects'[e].original = Null,
               \A q \in Effects \ {e} : effects'[q] = effects[q]
        PROVE  CompensationInv'
    <2>1. {e} \in SUBSET Effects
      BY Zenon
    <2> QED
      BY <1>3, <1>5, <2>1, Zenon
  <1> QED
    BY <1>2, <1>4, <1>5, OriginsStay, Zenon

(* A compensation carries an approval decided by someone else than its     *)
(* author, other than the original's and used by no other compensation of  *)
(* that original, and none of this changes after compensate_effect commits.*)
THEOREM CompensationsKeepTheirApproval ==
  BrokerSpec => []CompensationsSeparatelyApproved
  <1>1. BrokerInit => CompensationInv
    BY DEF BrokerInit, ApprovalInit, NoApproval, NoEffect, CompensationInv,
           FourEyes, OriginalsExist, CompensationsSeparatelyApproved
  <1>2. BrokerRows /\ CompensationInv /\ [BrokerNext]_brokerVars
          => CompensationInv'
    BY CompensationStep, Zenon
  <1>3. CompensationInv => CompensationsSeparatelyApproved
    BY Zenon DEF CompensationInv
  <1> QED
    BY <1>1, <1>2, <1>3, RowsInvariant, PTL DEF BrokerSpec

-----------------------------------------------------------------------------
(* The ledger under the broker.                                            *)

(* A step of the broker drives the ledger by at most one of its operations.*)
LedgerMove ==
  \/ UNCHANGED ledgerVars
  \/ \E r \in Reservations, run \in Runs \cup {Null}, call \in EffectCalls :
       ReserveBudget(r, run, call, EffectBound, EffectAccounts)
  \/ \E r \in Reservations : \E used : SettleBudget(r, used)
  \/ \E r \in Reservations : MarkCostUnknown(r) \/ ReleaseBudget(r)
  \/ \E p \in Periods, limit \in Limits :
       ConfigureBudget(p, limit, SettingsVersion(p))

(* Every step of the broker moves the ledger as LedgerMove says.           *)
LEMMA StepMovesLedger ==
  ASSUME BrokerRows, [BrokerNext]_brokerVars
  PROVE  LedgerMove
  <1>1. ASSUME NEW e \in Effects, NEW evidence, NEW used,
               ApplyReconciliationEvidence(e, evidence, used)
        PROVE  LedgerMove
    BY <1>1, Zenon
       DEF ApplyReconciliationEvidence, RecordEffectSucceeded, LedgerMove,
           Effects
  <1>2. ASSUME NEW e \in Effects, EffectCommand(e)
        PROVE  LedgerMove
    <2>1. ASSUME NEW g \in Grants, NEW r \in Runs, NEW c \in Connections,
                 NEW key \in Keys, NEW content \in Digests,
                 ProposeEffect(e, g, r, c, key, content)
          PROVE  LedgerMove
      <3>1. <<"effect", key>> \in EffectCalls
        BY Zenon DEF EffectCalls
      <3>2. ReserveBudget(e, r, <<"effect", key>>, EffectBound, EffectAccounts)
        BY <2>1, Zenon DEF ProposeEffect
      <3> QED
        BY <3>1, <3>2, Zenon DEF LedgerMove, Effects
    <2>2. ASSUME NEW original \in Effects, NEW a \in ApprovalIds,
                 NEW key \in Keys, NEW content \in Digests,
                 CompensateEffect(e, original, a, key, content)
          PROVE  LedgerMove
      <3>1. /\ <<"compensate", e>> \in EffectCalls
            /\ effects[original].run \in Runs \cup {Null}
        BY Zenon DEF EffectCalls, BrokerRows, EffectRows, EffectRow
      <3>2. ReserveBudget(e, effects[original].run, <<"compensate", e>>,
                          EffectBound, EffectAccounts)
        BY <2>2, Zenon DEF CompensateEffect
      <3> QED
        BY <3>1, <3>2, Zenon DEF LedgerMove, Effects
    <2>3. CASE \/ DispatchEffect(e, effects[e].version)
               \/ ReconcileEffect(e, effects[e].version)
      BY <2>3, Zenon DEF DispatchEffect, ReconcileEffect, LedgerMove
    <2> QED
      BY <1>2, <2>1, <2>2, <2>3, Zenon DEF EffectCommand
  <1>3. ASSUME NEW e \in Effects, ProviderStep(e) \/ TransportStep(e)
        PROVE  LedgerMove
    <2>1. CASE ProviderStep(e)
      BY <2>1, Zenon
         DEF ProviderStep, ProviderApplies, ProviderDeclines, LedgerMove
    <2>2. CASE TransportStep(e)
      BY <1>1, <2>2, Zenon
      DEF TransportStep, TransportSuccess, TransportFailure, TransportTimeout,
          RecordEffectSucceeded, RecordEffectUnknown, LedgerMove, Effects
    <2> QED
      BY <1>3, <2>1, <2>2, Zenon
  <1>4. ASSUME NEW w \in Reconcilers, ReconcilerStep(w)
        PROVE  LedgerMove
    BY <1>1, <1>4, Zenon
    DEF ReconcilerStep, LookUp, ApplyLookup, DropLookup, LedgerMove
  <1>5. ASSUME NEW p \in Periods, NEW limit \in Limits, Configure(p, limit)
        PROVE  LedgerMove
    BY <1>5, Zenon DEF Configure, LedgerMove
  <1>6. CASE UNCHANGED ledgerVars
    BY <1>6, Zenon DEF LedgerMove
  <1> QED
    BY <1>2, <1>3, <1>4, <1>5, <1>6, Zenon
    DEF BrokerNext, RunProgress, Start, Revoke, ApprovalStep, SetKillSwitch,
        RevokeConnection, RevokeGrant, brokerVars, ledgerVars

-----------------------------------------------------------------------------
(* With one reconciler, what is reported is what happened.                 *)

SoleReconciler == \A v, w \in Reconcilers : v = w

(* The reconciler that reports on an effect drops the only lookup there    *)
(* is.                                                                     *)
LEMMA SoleLookupDropped ==
  ASSUME SoleReconciler, BrokerRows, NEW v \in Reconcilers,
         lookups' = [lookups EXCEPT ![v] = NoLookup], NEW w \in Reconcilers
  PROVE  lookups'[w] = NoLookup
  BY Zenon DEF SoleReconciler, BrokerRows, ProviderRows

(* Only effects that are RECONCILING are looked up, and one that has ended *)
(* does not move again, so a move of an effect in another state is a move  *)
(* of one that no reconciler has looked up.                                *)
LEMMA MoveKeepsCurrent ==
  ASSUME SoleReconciler, BrokerRows, LookupsAreCurrent,
         NEW e \in Effects, EffectMove(e), NEW w \in Reconcilers
  PROVE  LookupCurrent(w, e)'
  <1>1. LookupCurrent(w, e)
    BY Zenon DEF LookupsAreCurrent
  <1>2. CASE \E v \in Reconcilers : lookups' = [lookups EXCEPT ![v] = NoLookup]
    BY <1>2, SoleLookupDropped, NoLookupNoEffect, Zenon DEF LookupCurrent
  <1>3. CASE lookups' = lookups /\ FateMove(e)
    BY <1>1, <1>3, Zenon DEF FateMove, Becomes, LookupCurrent, Evidence
  <1>4. CASE lookups' = lookups /\ (SuccessMove(e) \/ FailureMove(e))
    BY <1>1, <1>4, Zenon DEF SuccessMove, FailureMove, Becomes, ProviderSame,
                      LookupCurrent
  <1>5. CASE /\ lookups' = lookups
             /\ InsertMove(e) \/ DispatchMove(e) \/ ReconcileMove(e)
                  \/ UnknownMove(e)
    BY <1>1, <1>5, Zenon
       DEF InsertMove, DispatchMove, ReconcileMove, UnknownMove, LookupCurrent
  <1> QED
    BY <1>2, <1>3, <1>4, <1>5, Zenon
    DEF EffectMove, InsertMove, DispatchMove, ReconcileMove, UnknownMove,
        SuccessMove, FailureMove, EvidenceMove, FateMove, ReportedBy

(* What is reported on the evidence of a current lookup is true.           *)
LEMMA MoveKeepsReports ==
  ASSUME LookupsAreCurrent, NEW e \in Effects, EffectMove(e)
  PROVE  ReportTrue(e)'
  <1>1. ReportTrue(e)
    BY Zenon DEF LookupsAreCurrent
  <1>2. ASSUME NEW v \in Reconcilers, lookups[v].effect = e
        PROVE  /\ lookups[v].evidence = "CONFIRMED_PRESENT" => wire[e] = "APPLIED"
               /\ lookups[v].evidence = "CONFIRMED_FAILURE" => wire[e] = "REJECTED"
    BY <1>2, Zenon DEF LookupsAreCurrent, LookupCurrent, Evidence
  <1>3. CASE SuccessMove(e)
    BY <1>2, <1>3, Zenon
       DEF SuccessMove, ReportedBy, Becomes, ProviderSame, ReportTrue
  <1>4. CASE FailureMove(e)
    BY <1>2, <1>4, Zenon
       DEF FailureMove, ReportedBy, Becomes, ProviderSame, ReportTrue
  <1>5. CASE FateMove(e)
    BY <1>1, <1>5, Zenon DEF FateMove, Becomes, ReportTrue
  <1>6. CASE ~ (SuccessMove(e) \/ FailureMove(e) \/ FateMove(e))
    BY <1>6, Zenon
       DEF EffectMove, InsertMove, DispatchMove, ReconcileMove, UnknownMove,
           EvidenceMove, Becomes, ReportTrue
  <1> QED
    BY <1>3, <1>4, <1>5, <1>6, Zenon

(* With one reconciler every step keeps lookups current and reports true.  *)
LEMMA CurrentStep ==
  ASSUME SoleReconciler, BrokerRows, LookupsAreCurrent, [BrokerNext]_brokerVars
  PROVE  LookupsAreCurrent'
  <1>1. ASSUME NEW w \in Reconcilers, NEW q \in Effects, Same(q),
               lookups'[w] = lookups[w] \/ lookups'[w] = NoLookup
        PROVE  LookupCurrent(w, q)'
    BY <1>1, NoLookupNoEffect, Zenon DEF LookupsAreCurrent, LookupCurrent, Same
  <1>2. ASSUME NEW q \in Effects, Same(q)
        PROVE  ReportTrue(q)'
    BY <1>2, Zenon DEF LookupsAreCurrent, ReportTrue, Same
  <1>3. ASSUME NEW e \in Effects, EffectMove(e)
        PROVE  LookupsAreCurrent'
    <2>1. OthersSame(e)
      BY <1>3, Zenon
         DEF EffectMove, InsertMove, DispatchMove, ReconcileMove, UnknownMove,
             SuccessMove, FailureMove, EvidenceMove, FateMove, Becomes
    <2>2. ASSUME NEW w \in Reconcilers, NEW q \in Effects
          PROVE  LookupCurrent(w, q)'
      BY <1>1, <1>3, <2>1, MoveKeepsCurrent, MoveKeepsLookups, Zenon
         DEF OthersSame
    <2>3. ASSUME NEW q \in Effects
          PROVE  ReportTrue(q)'
      BY <1>2, <1>3, <2>1, MoveKeepsReports, Zenon DEF OthersSame
    <2> QED
      BY <2>2, <2>3, Zenon DEF LookupsAreCurrent
  <1>4. ASSUME NEW v \in Reconcilers, NEW e \in Effects, LookupMove(v, e)
        PROVE  LookupsAreCurrent'
    <2>1. \A q \in Effects : Same(q) /\ ReportTrue(q)'
      BY <1>2, <1>4, Zenon DEF LookupMove
    <2>2. ASSUME NEW w \in Reconcilers, NEW q \in Effects
          PROVE  LookupCurrent(w, q)'
      <3>1. PICK evidence \in Evidence(wire[e]) :
              lookups' = [lookups EXCEPT ![v] =
                            [effect |-> e, evidence |-> evidence]]
        BY <1>4, Zenon DEF LookupMove
      <3>2. CASE w = v
        BY <1>4, <2>1, <3>1, <3>2, Zenon
        DEF LookupMove, LookupCurrent, Same, BrokerRows, ProviderRows
      <3>3. CASE w # v
        BY <1>1, <2>1, <3>1, <3>3, Zenon DEF BrokerRows, ProviderRows
      <3> QED
        BY <3>2, <3>3, Zenon
    <2> QED
      BY <2>1, <2>2, Zenon DEF LookupsAreCurrent
  <1>5. CASE QuietMove
    <2>1. \A q \in Effects : Same(q) /\ ReportTrue(q)'
      BY <1>2, <1>5, Zenon DEF QuietMove
    <2>2. ASSUME NEW w \in Reconcilers, NEW q \in Effects
          PROVE  LookupCurrent(w, q)'
      BY <1>1, <1>5, <2>1, Zenon DEF QuietMove, BrokerRows, ProviderRows
    <2> QED
      BY <2>1, <2>2, Zenon DEF LookupsAreCurrent
  <1> QED
    BY <1>3, <1>4, <1>5, StepMoves, Zenon

(* A reconciler alone never applies evidence that is out of date.          *)
THEOREM LookupsStayCurrent ==
  ASSUME SoleReconciler
  PROVE  BrokerSpec => []LookupsAreCurrent
  <1>1. BrokerInit => LookupsAreCurrent
    <2> SUFFICES ASSUME BrokerInit PROVE LookupsAreCurrent
      BY Zenon
    <2>1. ASSUME NEW w \in Reconcilers, NEW e \in Effects
          PROVE  LookupCurrent(w, e)
      BY NoLookupNoEffect, Zenon DEF BrokerInit, LookupCurrent
    <2>2. ASSUME NEW e \in Effects
          PROVE  effects[e].state = "NONE"
      BY Zenon DEF BrokerInit, NoEffect
    <2>3. ASSUME NEW e \in Effects
          PROVE  ReportTrue(e)
      BY <2>2, Zenon DEF ReportTrue
    <2> QED
      BY <2>1, <2>3, Zenon DEF LookupsAreCurrent
  <1>2. BrokerRows /\ LookupsAreCurrent /\ [BrokerNext]_brokerVars
          => LookupsAreCurrent'
    BY CurrentStep, Zenon
  <1> QED
    BY <1>1, <1>2, RowsInvariant, PTL DEF BrokerSpec

(* With one reconciler the books agree with the world: what is settled was *)
(* applied, and what is given back was not and never will be.  With two it *)
(* fails (run MCEffectStaleFailure).                                       *)
THEOREM MoneyIsRight ==
  ASSUME SoleReconciler
  PROVE  BrokerSpec => []MoneyFollowsMutation
  <1>1. ASSUME NEW e \in Effects, TransmissionOK(e), ReportTrue(e)
        PROVE  /\ reservations[e].state = "SETTLED" => remote[e] = 1
               /\ reservations[e].state = "RELEASED" => remote[e] = 0
    BY <1>1, Zenon DEF TransmissionOK, ReportTrue, Phase
  <1>2. TransmissionInv /\ LookupsAreCurrent => MoneyFollowsMutation
    BY <1>1, Zenon DEF TransmissionInv, LookupsAreCurrent, MoneyFollowsMutation
  <1> QED
    BY <1>2, TransmissionsAreJustified, LookupsStayCurrent, PTL


-----------------------------------------------------------------------------
(* The broker implements ExternalMutation.                                 *)

Intent(e) == IntentOf(effects[e].state)
Applied(e) == remote[e] > 0

(* Counts that are positive together are the same set of applied effects.  *)
LEMMA SameSigns ==
  ASSUME \A q \in Effects : (remote'[q] > 0) <=> (remote[q] > 0)
  PROVE  [q \in Effects |-> remote[q] > 0]' = [q \in Effects |-> remote[q] > 0]
  OBVIOUS

(* What a step may do to one effect, as ExternalMutation sees it.          *)
LEMMA MutationStepOfOne ==
  ASSUME NEW e \in Effects,
         \A q \in Effects \ {e} : Intent(q)' = Intent(q) /\ Applied(q)' = Applied(q),
         \/ /\ Intent(e) = "NONE" /\ Intent(e)' = "INTENDED"
            /\ Applied(e)' = Applied(e)
         \/ /\ Intent(e) = "INTENDED" /\ Intent(e)' = "INTENDED"
            /\ ~ Applied(e) /\ Applied(e)'
         \/ /\ Intent(e) = "INTENDED" /\ Intent(e)' = "SUCCEEDED"
            /\ Applied(e) /\ Applied(e)'
         \/ /\ Intent(e) = "INTENDED" /\ Intent(e)' = "FAILED"
            /\ ~ Applied(e) /\ ~ Applied(e)'
         \/ Intent(e)' = Intent(e) /\ Applied(e)' = Applied(e)
  PROVE  [Mutation!MutationNext]_(Mutation!mutationVars)
  <1> DEFINE intent == [q \in Effects |-> IntentOf(effects[q].state)]
             applied == [q \in Effects |-> remote[q] > 0]
  <1>1. CASE Intent(e)' = Intent(e) /\ Applied(e)' = Applied(e)
    <2>1. intent' = intent /\ applied' = applied
      BY <1>1, Zenon DEF Intent, Applied
    <2> QED
      BY <2>1, Zenon DEF Mutation!mutationVars
  <1>2. CASE /\ Intent(e) = "NONE" /\ Intent(e)' = "INTENDED"
             /\ Applied(e)' = Applied(e)
    <2>1. applied' = applied /\ intent' = [intent EXCEPT ![e] = "INTENDED"]
      BY <1>2, Zenon DEF Intent, Applied
    <2>2. Mutation!Intend(e)
      BY <1>2, <2>1, Zenon DEF Mutation!Intend, Intent
    <2> QED
      BY <2>2, Zenon DEF Mutation!MutationNext
  <1>3. CASE /\ Intent(e) = "INTENDED" /\ Intent(e)' = "INTENDED"
             /\ ~ Applied(e) /\ Applied(e)'
    <2>1. intent' = intent /\ applied' = [applied EXCEPT ![e] = TRUE]
      BY <1>3, Zenon DEF Intent, Applied
    <2>2. Mutation!Apply(e)
      BY <1>3, <2>1, Zenon DEF Mutation!Apply, Intent, Applied
    <2> QED
      BY <2>2, Zenon DEF Mutation!MutationNext
  <1>4. CASE /\ Intent(e) = "INTENDED" /\ Intent(e)' = "SUCCEEDED"
             /\ Applied(e) /\ Applied(e)'
    <2>1. intent' = [intent EXCEPT ![e] = "SUCCEEDED"]
      BY <1>4, Zenon DEF Intent
    <2>2. \A q \in Effects : (remote'[q] > 0) <=> (remote[q] > 0)
      BY <1>4, Zenon DEF Applied
    <2>4. applied' = applied
      BY <2>2, SameSigns, Zenon
    <2>5. Mutation!ReportSuccess(e)
      BY <1>4, <2>1, <2>4, Zenon DEF Mutation!ReportSuccess, Intent, Applied
    <2> QED
      BY <2>5, Zenon DEF Mutation!MutationNext
  <1>5. CASE /\ Intent(e) = "INTENDED" /\ Intent(e)' = "FAILED"
             /\ ~ Applied(e) /\ ~ Applied(e)'
    <2>1. intent' = [intent EXCEPT ![e] = "FAILED"]
      BY <1>5, Zenon DEF Intent
    <2>2. \A q \in Effects : (remote'[q] > 0) <=> (remote[q] > 0)
      BY <1>5, Zenon DEF Applied
    <2>4. applied' = applied
      BY <2>2, SameSigns, Zenon
    <2>5. Mutation!ReportFailure(e)
      BY <1>5, <2>1, <2>4, Zenon DEF Mutation!ReportFailure, Intent, Applied
    <2> QED
      BY <2>5, Zenon DEF Mutation!MutationNext
  <1> QED
    BY <1>1, <1>2, <1>3, <1>4, <1>5, Zenon


(* A transmission whose fate is open is intended and not yet reported on;  *)
(* an effect that is reported on has the fate that is reported.            *)
LEMMA MutationStep ==
  ASSUME BrokerRows, TransmissionInv, LookupsAreCurrent, LookupsAreCurrent',
         TransmissionInv', [BrokerNext]_brokerVars
  PROVE  [Mutation!MutationNext]_(Mutation!mutationVars)
  <1>1. ASSUME NEW q \in Effects, Same(q)
        PROVE  Intent(q)' = Intent(q) /\ Applied(q)' = Applied(q)
    BY <1>1, Zenon DEF Intent, Applied, Same
  <1>2. ASSUME NEW e \in Effects, EffectMove(e)
        PROVE  [Mutation!MutationNext]_(Mutation!mutationVars)
    <2>1. \A q \in Effects \ {e} :
            Intent(q)' = Intent(q) /\ Applied(q)' = Applied(q)
      BY <1>1, <1>2, Zenon
      DEF EffectMove, InsertMove, DispatchMove, ReconcileMove, UnknownMove,
          SuccessMove, FailureMove, EvidenceMove, FateMove, Becomes, OthersSame
    <2>2. /\ TransmissionOK(e) /\ ReportTrue(e)
          /\ TransmissionOK(e)' /\ ReportTrue(e)'
      BY Zenon DEF TransmissionInv, LookupsAreCurrent
    <2>3. CASE InsertMove(e)
      <3>1. Intent(e) = "NONE" /\ Intent(e)' = "INTENDED"
        BY <2>3, Zenon DEF InsertMove, Becomes, Intent, IntentOf
      <3>2. Applied(e)' = Applied(e)
        BY <2>3, Zenon DEF InsertMove, ProviderSame, Applied
      <3> QED
        BY <2>1, <3>1, <3>2, MutationStepOfOne, Zenon
    <2>4. CASE SuccessMove(e)
      <3>1. Intent(e) = "INTENDED" /\ Intent(e)' = "SUCCEEDED"
        BY <2>4, Zenon DEF SuccessMove, Becomes, Intent, IntentOf
      <3>2. remote[e] = 1 /\ remote'[e] = 1
        BY <2>2, <2>4, Zenon
           DEF SuccessMove, Becomes, ProviderSame, ReportTrue, TransmissionOK
      <3>3. Applied(e) /\ Applied(e)'
        BY <3>2 DEF Applied
      <3> QED
        BY <2>1, <3>1, <3>3, MutationStepOfOne, Zenon
    <2>5. CASE FailureMove(e)
      <3>1. Intent(e) = "INTENDED" /\ Intent(e)' = "FAILED"
        BY <2>5, Zenon DEF FailureMove, Becomes, Intent, IntentOf
      <3>2. remote[e] = 0 /\ remote'[e] = 0
        BY <2>2, <2>5, Zenon
           DEF FailureMove, Becomes, ProviderSame, ReportTrue, TransmissionOK
      <3>3. ~ Applied(e) /\ ~ Applied(e)'
        BY <3>2 DEF Applied
      <3> QED
        BY <2>1, <3>1, <3>3, MutationStepOfOne, Zenon
    <2>6. CASE FateMove(e)
      <3>1. effects[e].state \notin {"NONE", "SUCCEEDED", "FAILED_CONFIRMED"}
        BY <2>2, <2>6, Zenon DEF FateMove, TransmissionOK, ReportTrue, Phase
      <3>2. Intent(e) = "INTENDED" /\ Intent(e)' = "INTENDED"
        BY <2>6, <3>1, Zenon DEF FateMove, Becomes, Intent, IntentOf
      <3>3. remote[e] = 0
        BY <2>2, <2>6, Zenon DEF FateMove, TransmissionOK
      <3>4. CASE wire'[e] = "APPLIED" /\ remote'[e] = remote[e] + 1
        <4>1. remote'[e] = 1
          BY <3>3, <3>4
        <4>2. ~ Applied(e) /\ Applied(e)'
          BY <3>3, <4>1 DEF Applied
        <4> QED
          BY <2>1, <3>2, <4>2, MutationStepOfOne, Zenon
      <3>5. CASE remote'[e] = remote[e]
        <4>1. Applied(e)' = Applied(e)
          BY <3>5, Zenon DEF Applied
        <4> QED
          BY <2>1, <3>2, <4>1, MutationStepOfOne, Zenon
      <3> QED
        BY <2>6, <3>4, <3>5, Zenon DEF FateMove
    <2>7. CASE \/ DispatchMove(e) \/ ReconcileMove(e) \/ UnknownMove(e)
               \/ EvidenceMove(e, "PROVEN_ABSENT", "AUTHORIZED")
               \/ EvidenceMove(e, "UNRESOLVED", "MANUAL_REVIEW")
      <3>1. Intent(e)' = Intent(e)
        BY <2>7, Zenon
           DEF DispatchMove, ReconcileMove, UnknownMove, EvidenceMove, Becomes,
               Intent, IntentOf
      <3>2. Applied(e)' = Applied(e)
        BY <2>7, Zenon
           DEF DispatchMove, ReconcileMove, UnknownMove, EvidenceMove,
               ProviderSame, Applied
      <3> QED
        BY <2>1, <3>1, <3>2, MutationStepOfOne, Zenon
    <2> QED
      BY <1>2, <2>3, <2>4, <2>5, <2>6, <2>7, Zenon DEF EffectMove
  <1>3. ASSUME \A q \in Effects : Same(q)
        PROVE  UNCHANGED Mutation!mutationVars
    BY <1>3, Zenon DEF Same, Mutation!mutationVars
  <1> QED
    BY <1>2, <1>3, StepMoves, Zenon DEF LookupMove, QuietMove

(* With one reconciler the broker implements ExternalMutation: intent      *)
(* before mutation, at most one mutation, and no report that is not true,  *)
(* whatever is lost, timed out, looked up late or sent again.              *)
THEOREM BrokerImplementsMutation ==
  ASSUME SoleReconciler
  PROVE  BrokerSpec => ImplementsExternalMutation
  <1>1. BrokerInit => Mutation!MutationInit
    <2> SUFFICES ASSUME BrokerInit PROVE Mutation!MutationInit
      BY Zenon
    <2>1. \A e \in Effects : effects[e].state = "NONE" /\ remote[e] = 0
      BY Zenon DEF BrokerInit, NoEffect
    <2>2. \A e \in Effects : IntentOf(effects[e].state) = "NONE"
      BY <2>1, Zenon DEF IntentOf
    <2>3. \A e \in Effects : (remote[e] > 0) = FALSE
      BY <2>1
    <2> QED
      BY <2>2, <2>3, Zenon DEF Mutation!MutationInit
  <1>2. /\ BrokerRows /\ TransmissionInv /\ TransmissionInv'
        /\ LookupsAreCurrent /\ LookupsAreCurrent' /\ [BrokerNext]_brokerVars
        => [Mutation!MutationNext]_(Mutation!mutationVars)
    BY MutationStep, Zenon
  <1> QED
    BY <1>1, <1>2, RowsInvariant, TransmissionsAreJustified,
       LookupsStayCurrent, PTL DEF BrokerSpec, ImplementsExternalMutation,
       Mutation!MutationSpec

=============================================================================
