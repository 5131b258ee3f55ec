# Masonwing: TLA+ specifications, model checking and proofs

Masonwing runs workflows of domain plugins for tenants. People sign in and act
as members of a tenant; they upload files, install plugins and delegate
authority to them. A command admits a *run*, a relay starts it on a durable
engine, workers interpret its workflow from checkpoints, and what a run wants
to do to the outside world goes through an *effect broker* that holds budget,
asks for approval, transmits and reconciles.

This directory holds TLA+ modules of the parts that decide who may act, which
code and which bytes are used, whether a run starts, whether a step or an
external mutation happens twice, and whether the money on record agrees with
what happened. Everything is translated from the Rust code and the SQL
migrations; `PROJECT.json` names for each definition the lines it stands for,
lists every component with its status, and the hazards of the code with the
properties that cover them.

## The system

Every tenant command is one PostgreSQL transaction under an exclusive advisory
lock of its tenant (`store.rs`, `begin` and `begin_system` with `write`); reads
take the lock shared. So a handler is one atomic step, and a refusal (any
`CommandFailure`) is no step: the transaction is rolled back. What interleaves
is everything *between* transactions: the admission of a command and its
transaction, two transactions of one worker, upload or download, the call of
the durable engine, the provider of a connection, a lookup made before the
transaction that applies it, a session record that is loaded and saved later,
the clock, crashes. `Collections` splits a command in two steps (the draw of a
revision number and the commit), because a sequence is not transactional.

| Part of the code | Module | What it models |
| --- | --- | --- |
| `kernel/src/state.rs` | `KernelStates` | states and transition tables |
| `data-postgres/src/budget_ledger.rs`, `configure_budget` | `BudgetLedger` | accounts, reservations, cost ledger; one operator per helper |
| its public entry points | `RunBudget` | the helpers as transactions of their own |
| `run_commands.rs`, `fence_run_blocked`, `revoke_plugin` | `RunTable` | the `runs` row and every handler that writes it |
| `worker/src/run_interpreter.rs` | `RunInterpreter` | `next_step` as an operator on a workflow and a history |
| `worker/src/run_resume.rs`, checkpoints | `RunCheckpoints` | workers that read, decide, execute and record |
| `relay.rs` of `data-postgres` and of `worker` | `RunDispatch` | outbox, lease, verification, start, acknowledgement |
| `approval_commands.rs` | `Approvals` | decisions and expiry |
| `effect_commands.rs` | `EffectBroker` | effects, composed with runs, ledger and approvals |
| what the broker promises | `ExternalMutation` | intent, at most one mutation, true reports |
| `identity_commands.rs`, admission in `host-api/src/runtime.rs`, `begin` and receipts of `store.rs` | `Memberships` | members, roles, invitations, policy proposals, requests in flight |
| `artifact_commands.rs`, derived files of `invocation.rs`, containment in `registry.rs`, streaming in `runtime.rs` | `Artifacts` | uploads, leases, finalization, lineage, deletion, downloads |
| `delegation.rs` | `Delegations` | the tree of grants |
| `registry.rs`, `registry_validation.rs`, `kernel/src/registry.rs`, `invocation.rs`, `plugin_runtime.rs` | `Plugins` | installations, builds, runs pinned to them, products, invocations under a grant |
| `DependencyGraph` in `kernel/src/registry.rs` | `DependencyGraph` | the depth first search of `visit` and `resolve`, on any graph |
| `claim_pending_outbox`, `resolve_manifests` | `Selections` | of a sequence the elements that qualify, in their order |
| `host-api/src/auth/*`, `identity-oidc` | `Sessions` | login, callback, step-up, lifetimes, logout |
| `administration.rs`, projections of `store.rs`, `queries.rs` | `Collections` | versions and projections, paged reads with cursors |

`EffectBroker` extends `RunTable`, `BudgetLedger` and `Approvals`, as the
transactions of `effect_commands.rs` write those tables; `RunDispatch` and
`RunCheckpoints` extend `RunTable`; `Plugins` extends `Delegations`, as an
invocation runs under a grant that names a version of an installation. It uses
`DependencyGraph` for the dependencies of plugins and for the loops of
workflows, and, like `RunDispatch`, `Selections`.
`MC*.tla` instantiate the specifications for TLC. Definitions named in a
comment *Fault:* are faults used to see that a property notices them; no
specification uses them.

### Correspondence

* **Ledger.** `accounts`, `reservations`, `cost_ledger` and `settings` are the
  tables `budget_accounts`, `cost_reservations`, `cost_ledger`,
  `budget_settings`. `AccountChecks` are the CHECK constraints that arbitrate:
  an update that would violate one is not enabled. Amounts are natural numbers;
  the code uses `i64` and refuses a non-positive bound, negative usage and
  usage above the bound, and the CHECKs keep sums below a limit, so the width
  never matters.
* **Runs.** A row has `state`, `dispatch_state`, `fence`, `version` and `grant`.
  Workflow, plugin and artifact pins are constant after admission and left out.
* **Interpreter.** A workflow is a set of nodes with kinds and edges; the
  history is the set of checkpoints. `NextStep` walks the graph exactly as
  `next_step` does, including its early returns: unsupported branches, the
  replay check, the budgets.
* **Relay.** A worker is a record with the transaction it will do next (`pc`),
  the rest of its batch and the fence it read. `attempts` saturates at
  `max_attempts`, the only value it is compared with. Timestamps are replaced by
  what is asked of them: a lease is NULL, HELD or EXPIRED, an event available or
  not.
* **Effects.** An effect and the reservation made for it in one transaction
  share an id. `wire` is the fate of the latest transmission and `remote` how
  often the provider applied the effect. A reconciler keeps what it looked up
  in `lookups` until it applies or drops it.
* **Memberships.** A request in flight is the snapshot of membership, roles and
  policy it was admitted on; `Begin` compares it with the rows. The two epochs
  of a membership move together and are one. Addresses may be shared by several
  identities. `vouched` is history: the principals whose roles an owner granted.
  The Cedar policy is text of the tenant, so any command it might permit is a
  step.
* **Artifacts.** An upload and its file share a name, an attempt is named by its
  lease, and an object in the store by the attempt that wrote it. Bytes are
  abstracted to whether they are complete, have the declared digest and type,
  and are clean. Of the metadata projections of a file the newest is kept.
* **Delegations.** `Ancestry` is the recursive query, defined as a least closed
  set, so that it can be reasoned about without recursion.
* **Plugins.** A manifest keeps what the handlers ask of it: version, contract
  version, dependencies with the set of contract versions each accepts,
  capabilities, class, workflows. A resource of a grant is a
  plugin with a version of its installation. `guest` is the invocation that
  holds the tenant's lock while time passes, `job` the executor's only permit,
  which an abandoned guest keeps. The limit of 512 manifests that one
  resolution accepts is left out.
* **Dependency graph.** The recursive calls of `visit` are a machine with an
  explicit stack: `path` holds the nodes being visited and `at` the position of
  the loop of each. `Resolve` runs it for the number of steps that a node entered
  once and an edge followed once allow.
* **Sessions.** `store` is the session table; `inflight` is the copy of a
  record that a request works on, `Vacant` between requests. Time is counted in steps, and a lifetime is a number of them.
  `logins`, `completed` and `rank` are history.
* **Collections.** A projection is a kind, resource, version, time of creation
  and revision number. `Place` is the pair that rows are ordered by, with the ids
  in an order of their own (`IdOrder`); `Examine` is the body of the loop over
  the rows and `Scan` the loop. A cursor holds the columns of `read_cursors` and,
  as history, the walk that led to it. The search text of a read is left out: it
  is constant along a walk.

### External parts

The provider, the transport that calls it, the provider lookup, the request of
an approval proposal, the durable engine, the identity provider, the session
store, the object store and scanner, the guest code, the clock and the death of
a process are not code of the repository. They are modelled from how the
handlers use them and marked external. The assumptions that matter:

* a provider lookup is sound when it is made: it finds presence only if the
  mutation was applied, and failure or absence only if that transmission can no
  longer be applied; a transport reports an answer of the latest transmission
  only;
* the engine answers a second start with the same id by adopting the workflow;
* the session store writes a record under its id whether or not the row is
  still there;
* the operator provisions a tenant with one owner and its connections.

## Model checking

`CHECK_DEADLOCK FALSE` is set in every configuration, because every bounded
instance ends: all effects finished, all ids used, time up.

| Run | Checks | Instance |
| --- | --- | --- |
| `budget_ledger` | the books balance: every account holds what its open reservations hold and has spent what the ledger says; a closed reservation is final | 2 accounts of different periods, 3 reservations, 3 limits, so that limits are raised and lowered around open holds |
| `run_checkpoints` | history is a prefix of one traversal, and all of it when the run succeeded; budgets bound execution; a completed step is not dispatched again | 2 workers, 3 crashes, six workflows: linear, two model turns with a budget of one, an approval, an undecided branch, a loop only the step budget ends, one step with a budget of one |
| `effect_broker` | holds and receipts follow effects; at most one mutation; effects follow the kernel's edges | 2 effects over shared accounts that fit both holds or one, 2 reconcilers, up to version 6: two rounds of reconciliation and a retry; one usage above the bound; at any time the plugin revoked, and one of: the connection stopped, the connection revoked, the grant revoked (the tenant's kill switch is asked in the same condition as the connection's) |
| `effect_refinement` | books agree with the provider; compensations are separately approved; `ExternalMutation` is implemented | 2 effects, 1 reconciler, 2 approvals, 2 principals, version 5 |
| `stale_failure` | the books with two reconcilers, which do not always agree (below) | 1 effect, 2 reconcilers |
| `run_dispatch` | STARTED has an engine workflow; no queued run is forgotten; a run that was fenced, or whose build was revoked, never begins to run | 2 relays with batches of 2, 2 runs, 2 attempts, 1 disturbance, the plugin disabled, enabled and revoked |
| `dispatch_liveness` | every admitted run is resolved | 2 relays, 2 runs, fairness below |
| `membership` | a tenant keeps an owner; owners are vouched for; an invitation admits one; one invitation per live key; commands commit as admitted; revocation is final | 3 principals who share one address, 2 invitations, 2 requests in flight, 1 key that is used again, 2 versions of each membership |
| `artifacts` | readable bytes are verified; deletion sticks and reaches derived files; streams serve readable files; stale attempts record nothing | 2 uploads, 2 attempts, 2 derived files (so a lineage of depth 3), 1 download, 1 open upload allowed |
| `plugins` | grants narrow and fall with their parents; disabled plugins are idle; an installation follows its build (not enabled on a revoked one, no capability beyond its manifest); only revocation breaks resolution; what is resolved is sound (loops are bounded, products start in order); an invocation runs the granted build and commits under a live grant | 2 plugins, one requiring the other in a range of contracts that the second build of the other leaves, 6 builds of which 2 must be refused, 2 grants, 1 run, 1 product |
| `sessions` | a callback is used once; ids keep their rank; no order of saves extends a session; step-up is by its account and fresh | 3 ids, 3 login transactions, 2 overlapping requests, 2 accounts |
| `collections` | pages of one walk are one snapshot, read under one policy, within its life; versions can be expected | 2 writers, 3 listings of which the first policy hides two, as many as a scan examines; pages of 1 row; one resource of each other kind; 4 revisions |

The instances have at most two workers or requests where concurrency matters:
every shared row is written under one lock, so a stale read needs one reader and
one writer. Versions are bounded by what two conflicting changes need.

Four runs bound the *sum* of what happens instead of each part, with a
CONSTRAINT: in `effect_broker` the kill switches, revoked grants and revoked
connections are at most 1 (`FewWithdrawals`), as each is a condition of its own
on a dispatch or a proposal; in `plugins` the grants, seconds, runs, products, switches, lost
trust, installations late in their life and a second build of the library are
at most 2 (`Load`); in `sessions` time plus twice the number of logins is at
most 7 (`Effort`); in `collections` revisions, deletions and time, with lost
revisions and those of other resources counted twice, are at most 6 (`Focus`).
In the last three each property needs two such things at once (a grant and its
expiry, a child grant under a parent, two logins and a late save, a lost number
and a change of policy), and the full product of the bounds is out of reach.

A run does not repeat what is proved about the same module and says little on
its own: the type invariants, `AccountsFollowSettings`, `TransmissionInv`,
`LookupsAreCurrent`, `RunsFollowKernelEdges`, `ProposalsReportTheirBase`,
`FenceMovesWithState`, `HeldFilesAreKept` and `OpenUploadsBounded` are theorems
only.

Symmetry is used for interchangeable ids, never in the liveness run.

**Fairness** (`dispatch_liveness`). Weak fairness of each relay's next step:
`run_relay` polls for ever and awaits each transaction to an answer. Weak
fairness of lease expiry and of the end of a backoff: time passes. Nothing is
assumed of the engine, which may fail every time, nor of operators. Crashes and
failed transactions are bounded by `MaxDisturbances`; without a bound a worker
could crash for ever. No other liveness is stated: what ends an effect, a run or
a draining plugin is the transport or the engine, for which the repository
gives no ground to assume fairness.

### Where the code and its text differ

`stale_failure` states what a comment says and finds a behaviour of the code
that contradicts it: evidence of a lookup carries no version or fence, so with
two reconcilers a confirmed failure of the first transmission closes the second,
which the provider may have applied, and its hold is given back.

The models contain further behaviours that a comment or document describes
otherwise, which no run singles out (`PROJECT.json` quotes the text with the
hazard):

* an effect is retried after proven absence and times out again. Its
  reservation is UNKNOWN already, `mark_cost_unknown` refuses, and the timeout
  cannot be recorded;
* `dispatch_effect` looks neither at the run nor at the grant, so an effect that
  was PREPARED when its run was cancelled or its grant revoked is still sent; it
  reads the approved digest without comparing it;
* the relay verifies and starts in two transactions, and only a withdrawal that
  moves the fence of the run stops the second one;
* a failed effect, which has no receipt, can be compensated;
* the outcome of an upload that is recorded after the file was deleted writes a
  metadata projection that is not deleted;
* a request that loaded a session before its logout and saves it afterwards
  creates the row again.

And some that nothing contradicts but that a reader might not expect:

* `mark_outbox_failed` clears a lease it may not hold, so two workers can be on
  one event; `run_dispatch` shows that what the relay promises survives that;
* two workers of one fence may execute one step twice, from a history read too
  early; `run_checkpoints` shows that the history survives that;
* `dispatch_effect` and `fence_run_blocked` take edges the kernel's tables do
  not list (PREPARED to EXECUTING, QUEUED to BLOCKED). They are the exceptions
  in `EffectsFollowKernelEdges` and `RunsFollowKernelEdges`, and the only ones;
* an invitation stays acceptable after its author lost their role; an
  invitation whose secret was retrieved but not received is usable by nobody;
* after the revocation of a plugin that others require, the selection does not
  resolve and nothing else can be installed, upgraded or composed until the
  dependents are uninstalled; `OnlyRevocationBreaksResolution` says that
  nothing else has this effect;
* CANCEL_REQUESTED has no handler that leads out of it, so a plugin may stay
  DRAINING;
* a dead letter can be replayed once; the version that `compact_provider`
  reports is one more than the one it stores.

## Proofs

Checked by TLAPS for every value of the constants. Every invariant and action
property that a run checks is a theorem too; only the liveness property is not.

* `SharedLemmas` has what the other proofs need of numbers, sequences, sums and
  graphs. The provers cannot instantiate an induction theorem that takes a
  predicate, so every induction is on a *set*: of the numbers for which a
  statement holds (`NumbersByInduction`), or its least counterexample
  (`LeastNumber`, `SmallestSet`). From it:
  * a function defined by recursion over a number exists and satisfies its
    equation (`RecursionOverNumbers`), and so a filter returns the elements that
    qualify, all of them (`InOrderFinds`);
  * a sum over a finite set does not depend on the order and changes with one
    term (`SumChange`);
  * the depth first search of `DependencyGraph` is right on every finite graph.
    `WalkOK` is its invariant: what is listed comes after all it depends on;
    each node on the path is followed by one it depends on, and its edges before
    the current one lead to listed nodes or to the next node of the path. The search ends
    within `MaxSteps` because every step takes a root, follows an edge or leaves
    a node, each once (`ResolveEnds`). If it succeeds the order is sound
    (`ResolveOrders`) and the graph has no cycle (`OrderedHasNoCycle`); if there
    is no cycle and every edge leads to a node of the graph, it succeeds
    (`ResolveSucceeds`, by `PathHasNoCycle`).
* `BudgetLedgerProofs` has one lemma per helper of the ledger: it keeps the
  rows well typed (`LedgerRowsOK`) and accounts within settings.
  `LedgerTypeCorrect`, `LimitsHold`, `ClosedForGood`: the invariant `LedgerInv`
  adds to the types that every open account has a setting
  (`SettingsCoverAccounts`), without which changing a limit could miss one.
  `BooksAlwaysBalance`: `BooksInv` adds that only finitely many reservations and
  ledger rows exist and that each row belongs to a reservation, which makes the
  row that a helper appends a new term of the sum. The same lemmas give
  `BrokerBooksBalance`, the books under the broker's transactions.
* `EffectBrokerProofs`:
  * `BrokerTypeCorrect` from the row lemmas of the shared tables;
  * `StepMoves` reduces each of the broker's steps to what it does to one
    effect: insert, dispatch, timeout, report, evidence, fate, lookup. The
    other proofs only look at moves;
  * `TransmissionsAreJustified`: `TransmissionInv` is inductive. It lists the
    phases (state, hold, number of transmissions) an effect can be in and says
    that evidence of absence a reconciler still carries is about the only
    transmission, or there was a second one. `AtMostOneMutation` alone is not
    inductive: it needs that a re-authorized effect was not applied, and that
    no third transmission follows. The latter rests on the ledger refusing
    UNKNOWN to UNKNOWN, the refusal that keeps a second timeout from being
    recorded: if that were made recordable, evidence would have to name its
    transmission;
  * `HoldsFollowEffects`, `NoEffectTwice` follow, for any number of
    reconcilers; `EffectsStayOnKernelEdges` needs the phases too, as evidence is
    applied without asking the kernel's table;
  * `CompensationsKeepTheirApproval`: `CompensationInv` adds that nobody decides
    their own proposal and that an original exists before its compensation;
  * with one reconciler (`SoleReconciler`), `LookupsStayCurrent`,
    `MoneyIsRight` and `BrokerImplementsMutation`. `stale_failure` shows that
    the assumption is needed.
* `RunsProofs`, dispatch: each step is first reduced to what it does to one row
  (`TableMove`) or to one worker (`RelayMove`). `DispatchInv` says of a worker
  that is about to mark a run that the engine has its workflow, and of a row
  that STARTED implies a workflow, that a BLOCKED run is not RUNNING, that no
  run of a revoked build awaits dispatch and that none waits in a state no
  handler of the specification enters. From it `StartedRunsHaveWorkflows`,
  `StoppedStayStopped` and `RunsFollowEdges`. `NoRunForgotten` needs `EventsInv`:
  what a worker has in its batch is admitted, and what it is about to
  acknowledge, what is DELIVERED and what is in the inbox no longer waits.
* `RunsProofs`, checkpoints: `CheckpointInv` says that the history of a run holds a
  success only for steps whose predecessors succeeded, and that the decision a
  worker carries was right for the history it read. It survives what other
  workers record meanwhile because a success is never overwritten
  (`DecisionStays`). From it `HistoryFollowsTraversal`,
  `ExecutionStaysInBudget` (model turns are counted along the traversal) and
  `CompletedStepsAreNotRedispatched`, for any workflow, also one with cycles.
* `TenantProofs`, members: `IdentityInv` adds to the properties that the
  epoch of a membership is its version, that an invitation which makes an owner
  was written by one, and that a request carries an epoch no newer than the
  row's, with the same roles if it is the same epoch. The last is what makes
  comparing epochs as good as comparing authority (`CommandsCommitAsAdmitted`).
  Also `OwnersComeFromOwners`, `ATenantKeepsAnOwner`, `OneMemberPerInvitation`,
  `RevokedStaysRevoked`, and, with invariants of their own on versions and keys,
  `ProposalsAreHonest` and `ALiveKeyInvitesOnce`.
* `TenantProofs`, files: `ArtifactInv` says of an attempt with a clean outcome
  that the object under its key holds clean bytes, of a file that is readable or
  ready to be finalized that its key is that of such an attempt for it, and of a
  download between its checks that it holds the settled key of its file. With
  `DeletionSticks` and `DerivedFollowDeletion` it is inductive; the latter needs
  that a file is derived only from a file that is not deleted and that the
  deletion closes over the lineage. From it `ActiveFilesAreVerified`,
  `DeletionIsFinal`, `HeldFilesStay`, `StreamsAreReadable` and
  `StaleAttemptsAreMute`; `UploadsAreLimited` argues on the cardinality of the
  set of open uploads.
* `SessionsProofs`: `SessionInv` speaks of every *copy* of an envelope,
  in the table or in a request's hands. A copy has the level and the principal
  its id was issued with, its login gives the limits of its lifetimes, and a
  request that exchanges a code has deleted the transaction. No save, however
  late, can then write more than the id was issued for. From it
  `ACallbackIsUsedOnce`, `AnIdKeepsItsRank`, `StepUpsAreByTheAccount`,
  `SessionsEndInTime` and `StepUpsAreFresh`.
* `CollectionsProofs`: `CollectionInv` says of every cursor and of the
  last page (`ReadOnce`) that its view is still what the table shows as of its
  snapshot, and that it has read exactly what lies up to its place: each row
  once, but for the deleted and the hidden ones.
  * It holds on while commands commit, because a change in flight has drawn a
    number beyond every snapshot taken so far (`PendingOK`, `RevisionsKeepWalks`).
    That needs the lock: no page is read while a change is in flight, so no
    number up to the watermark of a first page commits later.
  * A page reads on correctly for any limits: `ForemostIsFirst` (a row that comes
    first exists, by time and then by id), `ExamineGoesOn` (one row) and
    `ScanReads` (the loop, by `RecursionOverNumbers`).
  * That the newest version of a listing or a connection is in its row
    (`VersionsCanBeExpected`) is inductive together with the version of the
    change in flight.

  From it `WalksReadOneSnapshot`, `TermsAreKept` and `NewestVersionIsExpected`.
* `PluginsProofs`, grants: `DelegationInv` has narrowing from parent to child,
  and `NarrowingIsTransitive` carries it to all ancestors by giving the set of
  wider grants to the definition of `Ancestry`: induction without recursion.
  `AuthorityOnlyNarrows` and `FencesMove` hold for chains of any length.
* `PluginsProofs`, registry: `PluginInv` is `DelegationInv` with
  * `RegistryInv`: installations follow their builds, plugins at rest are idle,
    composed products are in order, and what is selected is `Coherent` but for
    what was revoked: each dependency is met within its range, is optional or
    was revoked, and there is no cycle. "The selection resolves" is not
    inductive, as a revocation breaks it and what is left must be known;
    `Coherent` survives that, and by the two directions of the search
    (`WhatResolvesIsCoherent`, `WhatIsCoherentResolves`) it is what install and
    upgrade check and what later resolutions need. The six commands on an
    installation are first reduced to one kind of move (`InstallationMoves`);
  * `AuthorityInv`: a grant names no version that its installation has not
    reached, and one that names the present version was made for the present
    build. Every command moves the version, so an old grant never becomes one
    for a new build.

  From it `InstallationsKeepToTheirBuild`, `RestingPluginsAreIdle`,
  `SelectionKeepsResolving`, `ResolutionStaysSound`, `GuestsRunTheGrantedBuild`
  and `OutputsAreCovered`. `PluginsDelegate` shows that the registry with its
  grants implements `DelegationSpec`, and `PluginAuthorityNarrows` carries
  `AuthorityFlowsDown` over to it.

Assumptions on constants: reservations, accounts, limits and budgets of
workflows are of the obvious types, the null value is not one of the ids, effect
accounts are accounts, the founder is a principal, uploads and derived files are
disjoint, as are listings, connections and other resources; ids are totally
ordered; page limit, scan limit and the life of a cursor are not zero.
Principals, connections and uploads are finite, because the code counts owners and
open uploads and the operator provisions connections; plugins are finite, because the code sorts them, and so are the
nodes of a workflow, which a manifest lists. No other set is assumed finite, and
none non-empty. Manifests may name any dependencies, contracts and edges. The
bound `MaxVersion` of installations is any number; the resources of grants
include every plugin at every version up to it.

Only model-checked: `DispatchResolves`, which is liveness under fairness.

## Not modelled

* Wire formats, schema validation, canonical JSON, signatures and digests: a
  build verifies or does not, bytes have their digest or do not.
* The HTTP boundary beyond admission and streaming: routing, header and origin
  checks, error rendering. They keep no state between requests.
* The in-memory oracles of the kernel (`effects.rs`, `budget.rs`, `grants.rs`,
  `approval.rs`, `loop_guard.rs`). No handler calls them, and they lack steps
  the handlers take, so the handlers do not refine them.
* Audit rows, outbox events that nobody consumes, `evaluate_policy` and
  `configure_identity`, which store a fresh row that no command reads.
* `mark_notification_read` (nothing inserts a notification) and `register_ui`
  (its upsert needs a privilege the migrations do not grant).
* Search and the read of a single resource: one statement each.
* The WebAssembly runner and the Cedar evaluation, one bounded call of a library
  each; the remote runner and the adapters that answer NotQualified; the
  Temporal adapter beyond the start of a workflow; the migration runner; the
  products' handlers, which are pure functions; the browser shell.
