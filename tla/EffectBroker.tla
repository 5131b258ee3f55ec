---------------------------- MODULE EffectBroker ----------------------------
(***************************************************************************)
(* The effect broker of one tenant: propose, dispatch, reconcile and       *)
(* compensate (data-postgres/src/effect_commands.rs), composed with the    *)
(* runs table, the budget ledger and the approvals its transactions read   *)
(* and write.  Every handler is one transaction under the tenant's         *)
(* exclusive lock, hence one action; what interleaves with them is the     *)
(* provider, the transport that calls it and the reconciliation workers,   *)
(* which look an outcome up outside any transaction and apply what they    *)
(* saw later.                                                              *)
(*                                                                         *)
(* The provider, the transport and the lookup are not code of the          *)
(* repository; they are marked external.  A lookup is assumed sound at the *)
(* moment it is made: present only if the mutation was applied, failed or  *)
(* absent only if the transmission can no longer be applied.               *)
(***************************************************************************)
EXTENDS RunTable, BudgetLedger, Approvals

CONSTANTS
  Connections,
  Keys,              \* idempotency keys
  EffectAccounts,    \* the accounts an effect is charged to
  Usages,            \* usage a provider may report
  Reconcilers,       \* reconciliation workers
  MaxEffectVersion,  \* bound on the rounds of reconciliation
  Withdrawable       \* the authorities the operators of an instance withdraw

ASSUME BrokerAssumption ==
  /\ EffectAccounts \subseteq Accounts
  /\ Usages \subseteq Nat
  /\ MaxEffectVersion \in Nat

VARIABLES
  effects,        \* the effects table; state "NONE" where there is no row
  receipts,       \* the effects that have a row in effect_receipts
  connections,    \* connections.state
  kill_switches,  \* the targets whose kill switch is active
  revoked_grants, \* grants revoked or expired
  wire,           \* external: the fate of the latest transmission
  remote,         \* external: how often the provider applied the effect
  lookups         \* external: what each reconciler saw and has yet to apply

authorityVars == <<connections, kill_switches, revoked_grants>>
providerVars == <<wire, remote>>
effectVars == <<effects, receipts>>

brokerVars ==
  <<runs, plugin_revoked, settings, accounts, reservations, cost_ledger,
    approvals, effects, receipts, connections, kill_switches, revoked_grants,
    wire, remote, lookups>>

(* An effect and the reservation made in the transaction that inserts it   *)
(* are created together and never separated, so they share an id here.     *)
Effects == Reservations

EffectBound == 20     \* microunits held for one effect
DefaultUsage == 12    \* charged when the evidence names no usage

NoEffect ==
  [state |-> "NONE", run |-> Null, connection |-> Null, key |-> Null,
   content |-> Null, approval |-> Null, original |-> Null,
   transmit_count |-> 0, queued |-> FALSE, version |-> 0]

EffectRow ==
  [state: EffectStates \cup {"NONE"}, run: Runs \cup {Null},
   connection: Connections \cup {Null}, key: Keys \cup {Null},
   content: Digests \cup {Null}, approval: ApprovalIds \cup {Null},
   original: Effects \cup {Null}, transmit_count: Nat, queued: BOOLEAN,
   version: Nat]

Tenant == "TENANT"

NoLookup == [effect |-> Null, evidence |-> "NONE"]

BrokerInit ==
  /\ RunInit
  /\ LedgerInit
  /\ ApprovalInit
  /\ effects = [e \in Effects |-> NoEffect]
  /\ receipts = {}
  /\ connections = [c \in Connections |-> "ACTIVE"]
  /\ kill_switches = {}
  /\ revoked_grants = {}
  /\ wire = [e \in Effects |-> "NONE"]
  /\ remote = [e \in Effects |-> 0]
  /\ lookups = [w \in Reconcilers |-> NoLookup]

-----------------------------------------------------------------------------

Known(e) == effects[e].state # "NONE"

(* States in which a transmission may have been made and its outcome is    *)
(* open: the ones cancel_run asks about.                                   *)
UnresolvedStates ==
  {"EXECUTING", "OUTCOME_UNKNOWN", "RECONCILING", "MANUAL_REVIEW"}

OwnsUnresolved(r) ==
  \E e \in Effects :
    effects[e].run = r /\ effects[e].state \in UnresolvedStates

(* require_dispatch_enabled for a connection.                              *)
DispatchEnabled(c) == Tenant \notin kill_switches /\ c \notin kill_switches

(* UNIQUE (connection, idempotency_key).  A proposal that repeats a key is *)
(* an idempotent replay or IDEMPOTENCY_CONFLICT; neither changes a row     *)
(* modelled here.                                                          *)
KeyFree(c, key) ==
  \A e \in Effects :
    ~ (Known(e) /\ effects[e].connection = c /\ effects[e].key = key)

(* propose_effect.  The run is the one active run of the grant; none is    *)
(* RUN_CONTEXT_REQUIRED, several RUN_CONTEXT_AMBIGUOUS.                    *)
ProposeEffect(e, g, r, c, key, content) ==
  /\ effects[e].state = "NONE"
  /\ connections[c] = "ACTIVE"                     \* CONNECTION_NOT_ACTIVE
  /\ g \notin revoked_grants                       \* GRANT_REVOKED_OR_EXPIRED
  /\ DispatchEnabled(c)                            \* KILL_SWITCH_ACTIVE
  /\ {active \in Runs : ActiveRun(active) /\ runs[active].grant = g} = {r}
  /\ KeyFree(c, key)
  /\ ReserveBudget(e, r, <<"effect", key>>, EffectBound, EffectAccounts)
  /\ effects' = [effects EXCEPT ![e] =
                   [NoEffect EXCEPT !.state = "PREPARED", !.run = r,
                                    !.connection = c, !.key = key,
                                    !.content = content, !.version = 1]]
  /\ UNCHANGED <<runVars, approvals, receipts, authorityVars, providerVars,
                 lookups>>

(* The approval an effect names, if any, is APPROVED and unexpired.        *)
ApprovalInForce(a) ==
  a # Null => approvals[a].state = "APPROVED" /\ ~ approvals[a].expired

(* Fault: an effect whose outcome is unknown may be sent again.            *)
DispatchableOrUnknown(state) ==
  state \in {"PREPARED", "AUTHORIZED", "OUTCOME_UNKNOWN"}

(* OUTCOME_UNKNOWN_BLOCKS_RESEND and ILLEGAL_TRANSITION otherwise.         *)
Dispatchable(state) == state \in {"PREPARED", "AUTHORIZED"}

(* dispatch_effect; the committed EXECUTING row is what the transport      *)
(* sends.                                                                  *)
DispatchEffect(e, expected) ==
  /\ Known(e)
  /\ effects[e].version = expected
  /\ DispatchEnabled(effects[e].connection)
  /\ Dispatchable(effects[e].state)
  /\ ApprovalInForce(effects[e].approval)
  /\ effects' = [effects EXCEPT ![e].state = "EXECUTING",
                                ![e].transmit_count = @ + 1,
                                ![e].version = expected + 1]
  /\ wire' = [wire EXCEPT ![e] = "SENT"]
  /\ UNCHANGED <<runVars, ledgerVars, approvals, receipts, authorityVars,
                 remote, lookups>>

(* reconcile_effect.                                                       *)
ReconcileEffect(e, expected) ==
  /\ effects[e].version = expected
  /\ expected < MaxEffectVersion
  /\ effects[e].state \in {"OUTCOME_UNKNOWN", "MANUAL_REVIEW"}
  /\ effects' = [effects EXCEPT ![e].state = "RECONCILING",
                                ![e].queued = TRUE,
                                ![e].version = expected + 1]
  /\ UNCHANGED <<runVars, ledgerVars, approvals, receipts, authorityVars,
                 providerVars, lookups>>

(* APPROVAL_ALREADY_USED otherwise.                                        *)
ApprovalUnused(original, a) ==
  ~ \E e \in Effects :
      effects[e].original = original /\ effects[e].approval = a

(* compensate_effect: a new effect, AUTHORIZED from the start.             *)
CompensateEffect(e, original, a, key, content) ==
  /\ effects[e].state = "NONE"
  /\ effects[original].state \in {"SUCCEEDED", "FAILED_CONFIRMED"}
  /\ a # effects[original].approval                \* SEPARATE_APPROVAL_REQUIRED
  /\ approvals[a].state = "APPROVED"               \* APPROVAL_REQUIRED
  /\ ApprovalUnused(original, a)
  /\ KeyFree(effects[original].connection, key)
  /\ ReserveBudget(e, effects[original].run, <<"compensate", e>>, EffectBound,
                   EffectAccounts)
  /\ effects' = [effects EXCEPT ![e] =
                   [NoEffect EXCEPT !.state = "AUTHORIZED",
                                    !.run = effects[original].run,
                                    !.connection = effects[original].connection,
                                    !.key = key, !.content = content,
                                    !.approval = a, !.original = original,
                                    !.version = 1]]
  /\ UNCHANGED <<runVars, approvals, receipts, authorityVars, providerVars,
                 lookups>>

-----------------------------------------------------------------------------
(* The system path: what the transport and the reconciliation workers      *)
(* report.                                                                 *)

(* Fault: no answer in time counts as a failure.                           *)
RecordTimeoutAsFailure(e) ==
  /\ effects[e].state = "EXECUTING"
  /\ effects' = [effects EXCEPT ![e].state = "FAILED_CONFIRMED",
                                ![e].version = @ + 1]
  /\ ReleaseBudget(e)
  /\ UNCHANGED <<runVars, approvals, receipts, authorityVars, providerVars>>

(* record_effect_unknown.                                                  *)
RecordEffectUnknown(e) ==
  /\ effects[e].state = "EXECUTING"
  /\ effects' = [effects EXCEPT ![e].state = "OUTCOME_UNKNOWN",
                                ![e].queued = TRUE,
                                ![e].version = @ + 1]
  /\ MarkCostUnknown(e)
  /\ UNCHANGED <<runVars, approvals, receipts, authorityVars, providerVars>>

(* record_effect_succeeded.                                                *)
RecordEffectSucceeded(e, used) ==
  /\ effects[e].state \in {"EXECUTING", "RECONCILING"}
  /\ e \notin receipts                             \* UNIQUE (effect_id)
  /\ effects' = [effects EXCEPT ![e].state = "SUCCEEDED",
                                ![e].queued = FALSE,
                                ![e].version = @ + 1]
  /\ receipts' = receipts \cup {e}
  /\ SettleBudget(e, used)
  /\ UNCHANGED <<runVars, approvals, authorityVars, providerVars>>

(* Where apply_reconciliation_evidence leads for evidence other than       *)
(* presence, and from which states.                                        *)
EvidenceState(evidence) ==
  CASE evidence = "CONFIRMED_FAILURE" -> "FAILED_CONFIRMED"
    [] evidence = "PROVEN_ABSENT" -> "AUTHORIZED"
    [] evidence = "UNRESOLVED" -> "MANUAL_REVIEW"

EvidenceStates(evidence) ==
  IF evidence = "CONFIRMED_FAILURE"
  THEN {"EXECUTING", "RECONCILING"}
  ELSE {"RECONCILING"}

(* Fault: proven absence gives the hold back although a retry may follow.  *)
ReleasesOnAbsence(evidence) == evidence \in {"CONFIRMED_FAILURE", "PROVEN_ABSENT"}

ReleasesHold(evidence) == evidence = "CONFIRMED_FAILURE"

ApplyReconciliationEvidence(e, evidence, used) ==
  \/ /\ evidence = "CONFIRMED_PRESENT"
     /\ RecordEffectSucceeded(e, used)
  \/ /\ evidence # "CONFIRMED_PRESENT"
     /\ effects[e].state \in EvidenceStates(evidence)
     /\ effects' = [effects EXCEPT ![e].state = EvidenceState(evidence),
                                   ![e].queued = FALSE,
                                   ![e].version = @ + 1]
     /\ IF ReleasesHold(evidence)
        THEN ReleaseBudget(e)
        ELSE UNCHANGED ledgerVars
     /\ UNCHANGED <<runVars, approvals, receipts, authorityVars, providerVars>>

-----------------------------------------------------------------------------
(* External: the provider decides the fate of what was sent, once.         *)
ProviderApplies(e) ==
  /\ wire[e] = "SENT"
  /\ wire' = [wire EXCEPT ![e] = "APPLIED"]
  /\ remote' = [remote EXCEPT ![e] = @ + 1]
  /\ UNCHANGED <<runVars, ledgerVars, approvals, effectVars, authorityVars,
                 lookups>>

ProviderDeclines(e, fate) ==
  /\ wire[e] = "SENT"
  /\ fate \in {"REJECTED", "LOST"}
  /\ wire' = [wire EXCEPT ![e] = fate]
  /\ UNCHANGED <<runVars, ledgerVars, approvals, effectVars, authorityVars,
                 remote, lookups>>

(* External: the transport reports the answer of the transmission, on time *)
(* or after it has timed out, when a reconciler may be at work; or that it *)
(* got none in time, whatever the provider did.                            *)
TransportSuccess(e, used) ==
  /\ wire[e] = "APPLIED"
  /\ RecordEffectSucceeded(e, used)
  /\ UNCHANGED lookups

TransportFailure(e) ==
  /\ wire[e] = "REJECTED"
  /\ ApplyReconciliationEvidence(e, "CONFIRMED_FAILURE", NoUsage)
  /\ UNCHANGED lookups

TransportTimeout(e) ==
  /\ RecordEffectUnknown(e)
  /\ UNCHANGED lookups

(* External: what a sound lookup can find.                                 *)
Evidence(fate) ==
  {"UNRESOLVED"} \cup
  (CASE fate = "APPLIED" -> {"CONFIRMED_PRESENT"}
     [] fate = "REJECTED" -> {"CONFIRMED_FAILURE", "PROVEN_ABSENT"}
     [] fate = "LOST" -> {"PROVEN_ABSENT"}
     [] OTHER -> {})

LookUp(w, e, evidence) ==
  /\ lookups[w] = NoLookup
  /\ effects[e].state = "RECONCILING"
  /\ evidence \in Evidence(wire[e])
  /\ lookups' = [lookups EXCEPT ![w] = [effect |-> e, evidence |-> evidence]]
  /\ UNCHANGED <<runVars, ledgerVars, approvals, effectVars, authorityVars,
                 providerVars>>

ApplyLookup(w, e, used) ==
  /\ lookups[w].effect = e
  /\ ApplyReconciliationEvidence(e, lookups[w].evidence, used)
  /\ lookups' = [lookups EXCEPT ![w] = NoLookup]

(* External: a worker crashes, or gives up after a refusal.                *)
DropLookup(w) ==
  /\ lookups[w] # NoLookup
  /\ lookups' = [lookups EXCEPT ![w] = NoLookup]
  /\ UNCHANGED <<runVars, ledgerVars, approvals, effectVars, authorityVars,
                 providerVars>>

-----------------------------------------------------------------------------
(* Commands of the other components that the broker depends on.            *)

effectAndProviderVars == <<effectVars, providerVars, lookups>>

(* start_run, mark_run_started, mark_run_completed, cancel_run.            *)
Start(r, g) ==
  /\ g \notin revoked_grants
  /\ Tenant \notin kill_switches
  /\ StartRun(r, g)
  /\ UNCHANGED <<ledgerVars, approvals, authorityVars, effectAndProviderVars>>

RunProgress(r) ==
  /\ \/ MarkRunStarted(r, runs[r].fence)
     \/ MarkRunCompleted(r, runs[r].fence)
     \/ CancelRun(r, runs[r].version, OwnsUnresolved(r))
  /\ UNCHANGED <<ledgerVars, approvals, authorityVars, effectAndProviderVars>>

Revoke ==
  /\ "PLUGIN" \in Withdrawable
  /\ RevokePlugin
  /\ UNCHANGED <<ledgerVars, approvals, authorityVars, effectAndProviderVars>>

Configure(p, limit) ==
  /\ ConfigureBudget(p, limit, SettingsVersion(p))
  /\ UNCHANGED <<runVars, approvals, authorityVars, effectAndProviderVars>>

ApprovalStep(a) ==
  /\ \/ \E author \in Principals, digest \in Digests :
          RequestApproval(a, author, digest)
     \/ \E principal \in Principals, digest \in Digests,
           decision \in {"APPROVE", "REJECT", "CANCEL"} :
          DecideApproval(a, principal, decision, digest, approvals[a].version)
     \/ ApprovalExpires(a)
  /\ UNCHANGED <<runVars, ledgerVars, authorityVars, effectAndProviderVars>>

(* set_kill_switch, either way.                                            *)
SetKillSwitch(target, active) ==
  /\ target \in Withdrawable
  /\ kill_switches' = IF active THEN kill_switches \cup {target}
                                ELSE kill_switches \ {target}
  /\ UNCHANGED <<runVars, ledgerVars, approvals, connections, revoked_grants,
                 effectAndProviderVars>>

(* revoke_connection.                                                      *)
RevokeConnection(c) ==
  /\ c \in Withdrawable
  /\ connections' = [connections EXCEPT ![c] = "REVOKED"]
  /\ UNCHANGED <<runVars, ledgerVars, approvals, kill_switches,
                 revoked_grants, effectAndProviderVars>>

(* revoke_grant, or the grant expiring.                                    *)
RevokeGrant(g) ==
  /\ g \in Withdrawable
  /\ revoked_grants' = revoked_grants \cup {g}
  /\ UNCHANGED <<runVars, ledgerVars, approvals, connections, kill_switches,
                 effectAndProviderVars>>

-----------------------------------------------------------------------------

EffectCommand(e) ==
  \/ \E g \in Grants, r \in Runs, c \in Connections, key \in Keys,
        content \in Digests : ProposeEffect(e, g, r, c, key, content)
  \/ DispatchEffect(e, effects[e].version)
  \/ ReconcileEffect(e, effects[e].version)
  \/ \E original \in Effects, a \in ApprovalIds, key \in Keys,
        content \in Digests : CompensateEffect(e, original, a, key, content)

ProviderStep(e) ==
  \/ ProviderApplies(e)
  \/ \E fate \in {"REJECTED", "LOST"} : ProviderDeclines(e, fate)

TransportStep(e) ==
  \/ \E used \in Usages : TransportSuccess(e, used)
  \/ TransportFailure(e)
  \/ TransportTimeout(e)

ReconcilerStep(w) ==
  \/ \E e \in Effects : \E evidence \in Evidence(wire[e]) :
       LookUp(w, e, evidence)
  \/ \E e \in Effects, used \in Usages \cup {DefaultUsage} :
       ApplyLookup(w, e, used)
  \/ DropLookup(w)

BrokerNext ==
  \/ \E e \in Effects : EffectCommand(e) \/ ProviderStep(e) \/ TransportStep(e)
  \/ \E w \in Reconcilers : ReconcilerStep(w)
  \/ \E r \in Runs : RunProgress(r) \/ \E g \in Grants : Start(r, g)
  \/ Revoke
  \/ \E p \in Periods, limit \in Limits : Configure(p, limit)
  \/ \E a \in ApprovalIds : ApprovalStep(a)
  \/ \E target \in {Tenant} \cup Connections, active \in BOOLEAN :
       SetKillSwitch(target, active)
  \/ \E c \in Connections : RevokeConnection(c)
  \/ \E g \in Grants : RevokeGrant(g)

BrokerSpec == BrokerInit /\ [][BrokerNext]_brokerVars

-----------------------------------------------------------------------------

BrokerTypeOK ==
  /\ RunTypeOK
  /\ LedgerTypeOK
  /\ ApprovalTypeOK
  /\ effects \in [Effects -> EffectRow]
  /\ receipts \subseteq Effects
  /\ connections \in [Connections -> {"ACTIVE", "REVOKED"}]
  /\ kill_switches \subseteq {Tenant} \cup Connections
  /\ revoked_grants \subseteq Grants
  /\ wire \in [Effects -> {"NONE", "SENT", "APPLIED", "REJECTED", "LOST"}]
  /\ remote \in [Effects -> Nat]
  /\ DOMAIN lookups = Reconcilers
  /\ \A w \in Reconcilers :
       /\ lookups[w].effect \in Effects \cup {Null}
       /\ lookups[w].evidence \in {"NONE"} \cup
            UNION {Evidence(fate) : fate \in {"APPLIED", "REJECTED"}}

(* The reservation states an effect in a given state can have.             *)
HoldStates(state) ==
  CASE state = "NONE" -> {"NONE"}
    [] state = "PREPARED" -> {"RESERVED"}
    [] state \in {"AUTHORIZED", "EXECUTING"} -> OpenStates
    [] state \in {"OUTCOME_UNKNOWN", "RECONCILING", "MANUAL_REVIEW"}
         -> {"UNKNOWN"}
    [] state = "SUCCEEDED" -> {"SETTLED"}
    [] state = "FAILED_CONFIRMED" -> {"RELEASED"}
    [] OTHER -> {}

(* The money follows the effect: the hold of an effect stays in place      *)
(* while its transmission may still be made or its outcome is open, is     *)
(* marked unknown usage after an ambiguous outcome, and is settled or      *)
(* given back exactly with the outcome; a receipt exists exactly for the   *)
(* effects that succeeded.  So no handler can move one of effects,         *)
(* cost_reservations and effect_receipts and leave the others behind.      *)
HoldFollowsEffect ==
  \A e \in Effects :
    /\ reservations[e].state \in HoldStates(effects[e].state)
    /\ e \in receipts <=> effects[e].state = "SUCCEEDED"

(* The provider applies each effect at most once, whatever timeouts,       *)
(* retries, crashed or late reconcilers there are: an effect is sent again *)
(* only after a lookup has shown that it was not applied.                  *)
AtMostOneMutation == \A e \in Effects : remote[e] <= 1

(* What an effect, its hold and its number of transmissions can be at one  *)
(* time.                                                                   *)
Phase(state, hold, count) ==
  \/ state = "NONE" /\ hold = "NONE" /\ count = 0
  \/ state \in {"PREPARED", "AUTHORIZED"} /\ hold = "RESERVED" /\ count = 0
  \/ state = "AUTHORIZED" /\ hold = "UNKNOWN" /\ count = 1
  \/ state = "EXECUTING" /\ hold = "RESERVED" /\ count = 1
  \/ state = "EXECUTING" /\ hold = "UNKNOWN" /\ count = 2
  \/ /\ state \in {"OUTCOME_UNKNOWN", "RECONCILING", "MANUAL_REVIEW"}
     /\ hold = "UNKNOWN" /\ count = 1
  \/ state = "SUCCEEDED" /\ hold = "SETTLED" /\ count \in {1, 2}
  \/ state = "FAILED_CONFIRMED" /\ hold = "RELEASED" /\ count \in {1, 2}

NotApplied == {"REJECTED", "LOST"}

(* An effect is transmitted again only after its one ambiguous             *)
(* transmission was shown not to be applied.                               *)
TransmissionOK(e) ==
  /\ Phase(effects[e].state, reservations[e].state, effects[e].transmit_count)
  /\ e \in receipts <=> effects[e].state = "SUCCEEDED"
  /\ effects[e].transmit_count = 0 => wire[e] = "NONE"
  /\ effects[e].state = "AUTHORIZED" /\ effects[e].transmit_count = 1
       => wire[e] \in NotApplied
  /\ remote[e] = IF wire[e] = "APPLIED" THEN 1 ELSE 0

(* Evidence of absence, however long a reconciler has carried it, is about *)
(* the only transmission, or there was a second one.                       *)
AbsenceOK(w, e) ==
  lookups[w].effect = e =>
    /\ effects[e].transmit_count # 0
    /\ lookups[w].evidence = "PROVEN_ABSENT" /\ effects[e].transmit_count = 1
         => wire[e] \in NotApplied

(* Why an effect is mutated at most once.  It rests on a detail of the     *)
(* ledger: a second ambiguous outcome cannot be recorded, because the      *)
(* reservation is UNKNOWN already, so no third transmission is authorized  *)
(* on evidence about the first.                                            *)
TransmissionInv ==
  /\ \A e \in Effects : TransmissionOK(e)
  /\ \A w \in Reconcilers, e \in Effects : AbsenceOK(w, e)

(* The books agree with the world: a charged effect was applied, and the   *)
(* hold of an applied effect is never given back.                          *)
MoneyFollowsMutation ==
  \A e \in Effects :
    /\ reservations[e].state = "SETTLED" => remote[e] = 1
    /\ reservations[e].state = "RELEASED" => remote[e] = 0

(* A lookup that is not stale: the effect is still RECONCILING or an       *)
(* answer has ended it, and what was seen of its transmission is still so. *)
LookupCurrent(w, e) ==
  lookups[w].effect = e =>
    /\ effects[e].state \in {"RECONCILING", "SUCCEEDED", "FAILED_CONFIRMED"}
    /\ lookups[w].evidence \in Evidence(wire[e])

ReportTrue(e) ==
  /\ effects[e].state = "SUCCEEDED" => wire[e] = "APPLIED"
  /\ effects[e].state = "FAILED_CONFIRMED" => wire[e] = "REJECTED"

(* With one reconciler a lookup is never stale until the reconciler        *)
(* applies it.  So a reported outcome is the true one.                     *)
LookupsAreCurrent ==
  /\ \A w \in Reconcilers, e \in Effects : LookupCurrent(w, e)
  /\ \A e \in Effects : ReportTrue(e)

(* A compensation of an effect has an approval of its own: decided by      *)
(* someone else than its author, not the one the original was executed     *)
(* under, and not spent on another compensation of the same original.      *)
CompensationsSeparatelyApproved ==
  \A e \in Effects :
    effects[e].original # Null =>
      LET a == effects[e].approval
      IN  /\ approvals[a].state = "APPROVED"
          /\ approvals[a].decided_by # approvals[a].created_by
          /\ a # effects[effects[e].original].approval
          /\ \A other \in Effects \ {e} :
               ~ /\ effects[other].original = effects[e].original
                 /\ effects[other].approval = a

(* Effects move only along the edges of the kernel's table, which the      *)
(* handlers do not ask, with one exception: dispatch_effect takes an       *)
(* effect that needs no approval from PREPARED straight to EXECUTING.      *)
EffectsFollowKernelEdges ==
  [][\A e \in Effects :
       Known(e) /\ effects'[e].state # effects[e].state
         => <<effects[e].state, effects'[e].state>>
              \in EffectEdges \cup {<<"PREPARED", "EXECUTING">>}]_brokerVars

(* How far an effect has come, as ExternalMutation tells it.               *)
IntentOf(state) ==
  CASE state = "NONE" -> "NONE"
    [] state = "SUCCEEDED" -> "SUCCEEDED"
    [] state = "FAILED_CONFIRMED" -> "FAILED"
    [] OTHER -> "INTENDED"

Mutation ==
  INSTANCE ExternalMutation WITH
    Mutations <- Effects,
    intent <- [e \in Effects |-> IntentOf(effects[e].state)],
    applied <- [e \in Effects |-> remote[e] > 0]

(* The broker implements ExternalMutation: intent before mutation, at most *)
(* one mutation, success reported only for what happened and failure only  *)
(* for what never will.                                                    *)
ImplementsExternalMutation == Mutation!MutationSpec

=============================================================================
