------------------------------ MODULE Plugins -------------------------------
(***************************************************************************)
(* The plugin registry (data-postgres/src/registry.rs and                  *)
(* registry_validation.rs, kernel/src/registry.rs) with what depends on    *)
(* it: runs pinned to a build, product compositions, and invocations under *)
(* a delegated grant (invocation.rs, host-api/src/plugin_runtime.rs).      *)
(*                                                                         *)
(* Every command is one transaction under the tenant's lock.  An           *)
(* invocation runs guest code inside its transaction: the lock is held     *)
(* meanwhile, but the clock goes on.  The revocation epoch of an           *)
(* installation is written and never compared, and is left out.            *)
(***************************************************************************)
EXTENDS Delegations, Selections, DependencyGraph

CONSTANTS
  Plugins,
  PluginOrder,  \* the plugins in the order of their names
  Digests,      \* builds
  Manifest,     \* external: the signed manifest of each build of a plugin
  Capabilities,
  Runs,
  Products,
  Offers,       \* what is delegated: by whom to whom, actions and plugins
  Stoppable,    \* plugins that are kill-switched or lose trust
  MaxVersion    \* bound on the version of an installation

Dependencies == [plugin : Plugins, optional : BOOLEAN, range : SUBSET Nat]

ASSUME PluginAssumption ==
  /\ PluginOrder \in Seq(Plugins) /\ Range(PluginOrder) = Plugins
  /\ \A p \in Plugins : \A d \in DOMAIN Manifest[p] :
       /\ Manifest[p][d].version \in Nat
       /\ Manifest[p][d].deps \in Seq(Dependencies)
       /\ \A w \in Manifest[p][d].workflows :
            IsFiniteSet(DOMAIN w.nodes) /\ w.edges \in Seq(Range(w.edges))
  /\ MaxVersion \in Nat
  /\ "plugin.invoke" \in Actions
  /\ Plugins \X (1..MaxVersion) \subseteq Resources
  /\ \A o \in Offers : /\ o.creator \in Principals /\ o.delegate \in Principals
                       /\ o.actions \subseteq Actions /\ o.on \subseteq Plugins

VARIABLES
  inst,         \* plugin_installations
  stored,       \* plugin_versions: <<plugin, digest>>
  revoked,      \* plugin_revocations
  untrusted,    \* builds whose signing key or package no longer verifies
  killed,       \* plugins with an active kill switch
  runs,         \* the plugin, build and progress of each run
  products,     \* product_compositions: the order their plugins start in
  guest,        \* the invocation that holds the tenant's lock
  job,          \* the executor's only permit is taken
  committed,    \* history: the last invocation committed its output
  seen          \* history: builds that were installed when a grant was made

registryVars == <<inst, stored, revoked, untrusted, killed, runs, products>>
guestVars == <<guest, job, committed>>
pluginVars == <<delegationVars, registryVars, guestVars, seen>>

NotInstalled == [state |-> "NONE", digest |-> "NULL", caps |-> {},
                 version |-> 0]

NoRun == [plugin |-> "NULL", digest |-> "NULL", active |-> FALSE]

NoGuest == [pc |-> "IDLE", plugin |-> "NULL", grant |-> "NULL",
            actor |-> "NULL"]

PluginInit ==
  /\ DelegationInit
  /\ inst = [p \in Plugins |-> NotInstalled]
  /\ stored = {} /\ revoked = {} /\ untrusted = {} /\ killed = {}
  /\ runs = [r \in Runs |-> NoRun]
  /\ products = [q \in Products |-> <<>>]
  /\ guest = NoGuest /\ job = FALSE /\ committed = FALSE
  /\ seen = [g \in Grants |-> [p \in Plugins |-> "NULL"]]

-----------------------------------------------------------------------------
(* Resolution of dependencies.                                             *)

(* Every manifest names a dependency once, and each one is selected with a *)
(* contract in its range, or optional and absent.                          *)
Satisfied(selected) ==
  \A p \in DOMAIN selected :
    LET deps == Manifest[p][selected[p]].deps
    IN  \A i \in DOMAIN deps :
          /\ \A j \in DOMAIN deps : deps[i].plugin = deps[j].plugin => i = j
          /\ IF deps[i].plugin \in DOMAIN selected
             THEN Manifest[deps[i].plugin][selected[deps[i].plugin]].contract
                    \in deps[i].range
             ELSE deps[i].optional

(* The dependencies that are present.                                      *)
Edges(selected) ==
  [p \in DOMAIN selected |->
     LET deps == Manifest[p][selected[p]].deps
     IN  InOrder([i \in DOMAIN deps |-> deps[i].plugin], DOMAIN selected)]

(* resolve_manifests visits every plugin in the order of the names.  It    *)
(* starts afresh for each and keeps what is new in the result; going on    *)
(* with what was visited gives the same order.                             *)
Resolution(selected) ==
  Resolve(Edges(selected), InOrder(PluginOrder, DOMAIN selected))

Resolves(selected) == Satisfied(selected) /\ Resolution(selected).ok

(* selected_manifests.                                                     *)
Selected ==
  [p \in {q \in Plugins :
            inst[q].state \notin {"NONE", "UNINSTALLED", "REVOKED"}}
     |-> inst[p].digest]

SelectedWith(p, d) ==
  [q \in DOMAIN Selected \cup {p} |-> IF q = p THEN d ELSE Selected[q]]

SelectedWithout(p) == [q \in DOMAIN Selected \ {p} |-> Selected[q]]

-----------------------------------------------------------------------------
(* Validation of what is installed.                                        *)

(* The edges out of a node that enter no bounded loop.                     *)
Successors(w, n) ==
  LET out == InOrder(w.edges, {e \in Range(w.edges) :
                                 /\ e.from = n
                                 /\ w.nodes[e.to] # "BOUNDED_LOOP"})
  IN  [i \in DOMAIN out |-> out[i].to]

(* validate_workflow: outside of its bounded loops the graph is acyclic.   *)
ValidWorkflow(w, manifest) ==
  LET unbounded == {n \in DOMAIN w.nodes : w.nodes[n] # "BOUNDED_LOOP"}
  IN  /\ w.entry_node \in DOMAIN w.nodes
      /\ w.actions \subseteq manifest.requests
      /\ \A n \in DOMAIN w.nodes :
           w.nodes[n] = "ACTIVITY" => manifest.handler \subseteq w.actions
      /\ \A i \in DOMAIN w.edges :
           /\ {w.edges[i].from, w.edges[i].to} \subseteq DOMAIN w.nodes
           /\ \A j \in DOMAIN w.edges \ {i} :
                \/ w.edges[i].from # w.edges[j].from
                \/ w.edges[i].condition # w.edges[j].condition
      /\ \A n \in unbounded :
           Resolve([k \in unbounded |-> Successors(w, k)], <<n>>).ok

(* validate_manifest, of what the registry acts on.                        *)
ValidManifest(manifest) ==
  /\ manifest.requests \subseteq Capabilities
  /\ manifest.handler \subseteq manifest.requests

-----------------------------------------------------------------------------
(* Lifecycle of an installation.                                           *)

Unlocked == guest.pc = "IDLE"

(* verify_publisher_and_package.                                           *)
Trusted(p, d) == <<p, d>> \notin revoked /\ <<p, d>> \notin untrusted

(* verify_installation: the whole selected set is resolved again.          *)
Installable(p, d) ==
  /\ d \in DOMAIN Manifest[p]
  /\ ValidManifest(Manifest[p][d])
  /\ <<p, d>> \notin stored
  /\ Resolves(SelectedWith(p, d))
  /\ Trusted(p, d)
  /\ \A w \in Manifest[p][d].workflows : ValidWorkflow(w, Manifest[p][d])

(* require_enabled_dependencies.                                           *)
DependenciesEnabled(p, d) ==
  \A i \in DOMAIN Manifest[p][d].deps :
    LET dep == Manifest[p][d].deps[i]
        row == inst[dep.plugin]
    IN  \/ row.state = "NONE" /\ dep.optional
        \/ /\ row.state = "ENABLED"
           /\ Manifest[dep.plugin][row.digest].contract \in dep.range

(* Fault: only runs of the installed build count.                          *)
HasActiveRunsOfBuild(p) ==
  \E r \in Runs : runs[r].plugin = p /\ runs[r].active
                  /\ runs[r].digest = inst[p].digest

HasActiveRuns(p) == \E r \in Runs : runs[r].plugin = p /\ runs[r].active

InstallationStep(p, row) ==
  /\ Unlocked
  /\ row.version <= MaxVersion
  /\ inst' = [inst EXCEPT ![p] = row]
  /\ UNCHANGED <<delegationVars, untrusted, killed, products, guestVars,
                 seen>>

SavePluginVersion(p, d) == stored' = stored \cup {<<p, d>>}

InstallPlugin(p, d) ==
  /\ inst[p].state = "NONE"
  /\ Installable(p, d)
  /\ SavePluginVersion(p, d)
  /\ InstallationStep(p, [state |-> "INSTALLED_DISABLED", digest |-> d,
                          caps |-> {}, version |-> 1])
  /\ UNCHANGED <<revoked, runs>>

EnablePlugin(p, caps) ==
  /\ inst[p].state \in {"INSTALLED_DISABLED", "DISABLED"}
  /\ Trusted(p, inst[p].digest)
  /\ DependenciesEnabled(p, inst[p].digest)
  /\ p \notin killed
  /\ caps \subseteq Manifest[p][inst[p].digest].requests
  /\ InstallationStep(p, [inst[p] EXCEPT !.state = "ENABLED", !.caps = caps,
                                         !.version = @ + 1])
  /\ UNCHANGED <<stored, revoked, runs>>

(* An idle plugin drains and is disabled in one transaction.               *)
DisablePlugin(p) ==
  LET active == HasActiveRuns(p)
  IN  /\ \/ inst[p].state = "ENABLED"
         \/ inst[p].state = "DRAINING" /\ ~ active
      /\ InstallationStep(p,
           [inst[p] EXCEPT
              !.state = IF active THEN "DRAINING" ELSE "DISABLED",
              !.version = @ + (IF inst[p].state = "ENABLED" /\ ~ active
                               THEN 2 ELSE 1)])
      /\ UNCHANGED <<stored, revoked, runs>>

(* Fault: an upgrade leaves the version of the installation.               *)
UpgradedInPlace(p, d) ==
  [inst[p] EXCEPT !.digest = d, !.caps = @ \cap Manifest[p][d].requests]

(* Fault: an upgrade carries every capability over.                        *)
UpgradedWithCaps(p, d) ==
  [inst[p] EXCEPT !.digest = d, !.version = @ + 1]

Upgraded(p, d) ==
  [inst[p] EXCEPT !.digest = d, !.caps = @ \cap Manifest[p][d].requests,
                  !.version = @ + 1]

UpgradePlugin(p, d) ==
  /\ inst[p].state \in {"ENABLED", "DISABLED", "INSTALLED_DISABLED"}
  /\ Installable(p, d)
  /\ Manifest[p][d].version > Manifest[p][inst[p].digest].version
  /\ inst[p].state = "ENABLED" => DependenciesEnabled(p, d)
  /\ SavePluginVersion(p, d)
  /\ InstallationStep(p, Upgraded(p, d))
  /\ UNCHANGED <<revoked, runs>>

RevokedInstallation(p, d) ==
  [inst[p] EXCEPT
     !.state = IF inst[p].digest = d /\ @ # "UNINSTALLED" THEN "REVOKED"
               ELSE @,
     !.caps = IF inst[p].digest = d THEN {} ELSE @,
     !.version = @ + 1]

(* revoke_plugin of any stored build.  Its unfinished runs are fenced and  *)
(* blocked, which RunDispatch models; they stay active here.               *)
RevokePlugin(p, d) ==
  /\ inst[p].state # "NONE"
  /\ <<p, d>> \in stored \ revoked
  /\ revoked' = revoked \cup {<<p, d>>}
  /\ InstallationStep(p, RevokedInstallation(p, d))
  /\ UNCHANGED <<stored, runs>>

(* Fault: what still depends on the plugin is not asked.                   *)
Anyway(p) == p \in DOMAIN Selected

RestResolves(p) == Resolves(SelectedWithout(p))

UninstallPlugin(p) ==
  /\ inst[p].state \in {"INSTALLED_DISABLED", "DISABLED"}
  /\ ~ HasActiveRuns(p)
  /\ RestResolves(p)
  /\ InstallationStep(p, [inst[p] EXCEPT !.state = "UNINSTALLED",
                                         !.caps = {}, !.version = @ + 1])
  /\ UNCHANGED <<stored, revoked, runs>>

(* A product is composed once, of plugins that are enabled at the builds   *)
(* its lock pins.                                                          *)
ComposeProduct(q, pinned) ==
  LET lock == [p \in pinned |-> inst[p].digest]
  IN  /\ Unlocked
      /\ products[q] = <<>>
      /\ pinned # {}
      /\ \A p \in pinned : inst[p].state = "ENABLED"
                           /\ Trusted(p, inst[p].digest)
      /\ Resolves(lock)
      /\ products' = [products EXCEPT ![q] = Resolution(lock).order]
      /\ UNCHANGED <<delegationVars, inst, stored, revoked, untrusted,
                     killed, runs, guestVars, seen>>

-----------------------------------------------------------------------------
(* What else moves: runs, kill switches, trust, grants.                    *)

RegistryStep ==
  /\ Unlocked
  /\ UNCHANGED <<delegationVars, inst, stored, revoked, products, guestVars,
                 seen>>

(* start_run: only the installed build of an enabled plugin admits runs.   *)
StartRun(r, p) ==
  /\ runs[r].plugin = "NULL"
  /\ inst[p].state = "ENABLED"
  /\ p \notin killed
  /\ runs' = [runs EXCEPT ![r] = [plugin |-> p, digest |-> inst[p].digest,
                                  active |-> TRUE]]
  /\ RegistryStep
  /\ UNCHANGED <<untrusted, killed>>

(* A run reaches SUCCEEDED, FAILED or CANCELLED (see RunDispatch).         *)
FinishRun(r) ==
  /\ runs[r].active
  /\ runs' = [runs EXCEPT ![r].active = FALSE]
  /\ RegistryStep
  /\ UNCHANGED <<untrusted, killed>>

SetKillSwitch(p) ==
  /\ inst[p].state \notin {"NONE", "UNINSTALLED"}
  /\ killed' = IF p \in killed THEN killed \ {p} ELSE killed \cup {p}
  /\ RegistryStep
  /\ UNCHANGED <<untrusted, runs>>

WithdrawTrust(p, d) ==
  /\ <<p, d>> \in stored
  /\ untrusted' = untrusted \cup {<<p, d>>}
  /\ RegistryStep
  /\ UNCHANGED <<killed, runs>>

(* ResourceRef of an installation.                                         *)
Ref(p) == <<p, inst[p].version>>

(* create_grant: resources at their current version.                       *)
GrantOn(g, actor, delegate, actions, on, expires, parent) ==
  /\ Unlocked
  /\ \A p \in on : inst[p].state # "NONE"
  /\ CreateGrant(g, actor, delegate, actions, {Ref(p) : p \in on}, expires,
                 parent)
  /\ seen' = [seen EXCEPT ![g] = [p \in Plugins |-> inst[p].digest]]
  /\ UNCHANGED <<registryVars, guestVars>>

Revoke(g) ==
  /\ Unlocked
  /\ RevokeGrant(g)
  /\ UNCHANGED <<registryVars, guestVars, seen>>

(* The clock goes on while a guest runs.                                   *)
Clock == Tick /\ UNCHANGED <<registryVars, guestVars, seen>>

-----------------------------------------------------------------------------
(* Invocations.                                                            *)

(* invoke_plugin up to the guest.  The file a guest reads is modelled in   *)
(* Artifacts.                                                              *)
MayInvoke(g, p, actor) ==
  /\ inst[p].state = "ENABLED"
  /\ p \notin killed
  /\ ActiveFor(g, actor)
  /\ "plugin.invoke" \in grants[g].actions
  /\ Ref(p) \in grants[g].resources
  /\ Manifest[p][inst[p].digest].handler
       \subseteq inst[p].caps \cap grants[g].actions
  /\ Trusted(p, inst[p].digest)

(* PluginExecutor::execute with validate_binding: no transport to remote   *)
(* workers is qualified, and the binding is checked against the manifest.  *)
Executes(p, g) ==
  LET manifest == Manifest[p][inst[p].digest]
  IN  /\ manifest.class \in {"TRUSTED_NATIVE", "WASM_COMPONENT"}
      /\ manifest.handler \subseteq inst[p].caps \cap grants[g].actions
      /\ manifest.handler \subseteq manifest.requests

StartGuest(g, p, actor) ==
  /\ Unlocked
  /\ MayInvoke(g, p, actor)
  /\ ~ job
  /\ job' = TRUE
  /\ guest' = [pc |-> "RUNNING", plugin |-> p, grant |-> g, actor |-> actor]
  /\ committed' = FALSE
  /\ UNCHANGED <<delegationVars, registryVars, seen>>

(* Fault: what was checked before the guest ran is not checked again.      *)
StillStarted(g, actor) == guest.pc = "RUNNING"

StillActive(g, actor) == ActiveFor(g, actor)

(* The guest returns in time and its output is committed, or refused.      *)
GuestReturns ==
  /\ guest.pc = "RUNNING"
  /\ \/ /\ Executes(guest.plugin, guest.grant)
        /\ StillActive(guest.grant, guest.actor)
        /\ committed' = TRUE
     \/ UNCHANGED committed
  /\ guest' = NoGuest
  /\ job' = FALSE
  /\ UNCHANGED <<delegationVars, registryVars, seen>>

(* Its caller gives up at the deadline or disconnects; the job keeps the   *)
(* permit, and its late result has no writer.                              *)
GuestAbandoned ==
  /\ guest.pc = "RUNNING"
  /\ guest' = NoGuest
  /\ UNCHANGED <<delegationVars, registryVars, job, committed, seen>>

JobEnds ==
  /\ job /\ guest.pc = "IDLE"
  /\ job' = FALSE
  /\ UNCHANGED <<delegationVars, registryVars, guest, committed, seen>>

-----------------------------------------------------------------------------
Registry ==
  \/ \E p \in Plugins :
       \/ \E d \in Digests : \/ InstallPlugin(p, d) \/ UpgradePlugin(p, d)
                             \/ RevokePlugin(p, d)
       \/ \E caps \in SUBSET Capabilities : EnablePlugin(p, caps)
       \/ DisablePlugin(p) \/ UninstallPlugin(p)
       \/ \E r \in Runs : StartRun(r, p)
  \/ \E p \in Stoppable :
       SetKillSwitch(p) \/ \E d \in Digests : WithdrawTrust(p, d)
  \/ \E r \in Runs : FinishRun(r)
  \/ \E q \in Products, pinned \in SUBSET Plugins : ComposeProduct(q, pinned)

Delegation ==
  \/ \E g \in Grants, o \in Offers, expires \in 1..MaxTime,
        parent \in Grants \cup {"NULL"} :
       GrantOn(g, o.creator, o.delegate, o.actions, o.on, expires, parent)
  \/ \E g \in Grants : Revoke(g)
  \/ Clock

Invocation ==
  \/ \E g \in Grants, p \in Plugins, actor \in Principals :
       StartGuest(g, p, actor)
  \/ GuestReturns \/ GuestAbandoned \/ JobEnds

PluginNext == Registry \/ Delegation \/ Invocation

PluginSpec == PluginInit /\ [][PluginNext]_pluginVars

-----------------------------------------------------------------------------
(* An installation names a build that is stored, holds no capability that  *)
(* this build does not request, across upgrades to builds that request     *)
(* less, and is REVOKED or gone if the build was revoked: none is enabled, *)
(* drained or brought back (enable_plugin, upgrade_plugin, revoke_plugin). *)
InstallationsFollowTheirBuild ==
  \A p \in Plugins : inst[p].state # "NONE" =>
    /\ <<p, inst[p].digest>> \in stored
    /\ inst[p].caps \subseteq Manifest[p][inst[p].digest].requests
    /\ <<p, inst[p].digest>> \in revoked
         => inst[p].state \in {"REVOKED", "UNINSTALLED"}

(* A plugin that is disabled or uninstalled has no unfinished run, of      *)
(* whichever build, however upgrades, draining and new runs were           *)
(* interleaved (disable_plugin, uninstall_plugin, start_run).              *)
DisabledPluginsAreIdle ==
  \A p \in Plugins :
    inst[p].state \in {"INSTALLED_DISABLED", "DISABLED", "UNINSTALLED"}
      => \A r \in Runs : runs[r].plugin = p => ~ runs[r].active

(* The selected plugins resolve together unless one of them requires a     *)
(* plugin that was revoked: no order of installs, upgrades and uninstalls  *)
(* breaks them (verify_installation, uninstall_plugin).                    *)
OnlyRevocationBreaksResolution ==
  \/ Resolves(Selected)
  \/ \E p \in DOMAIN Selected : \E i \in DOMAIN Manifest[p][Selected[p]].deps :
       LET dep == Manifest[p][Selected[p]].deps[i]
       IN  ~ dep.optional /\ inst[dep.plugin].state = "REVOKED"

(* No stored workflow can go round without passing a bounded loop: every   *)
(* set of its other nodes has one that leads out of the set or ends        *)
(* (validate_workflow; the interpreter follows these edges).               *)
StoredLoopsAreBounded ==
  \A p \in Plugins, d \in Digests : <<p, d>> \in stored =>
    \A w \in Manifest[p][d].workflows : \A S \in SUBSET DOMAIN w.nodes :
      S # {} /\ (\A n \in S : w.nodes[n] # "BOUNDED_LOOP") =>
        \E n \in S : \A i \in DOMAIN w.edges :
          w.edges[i].from = n => w.edges[i].to \notin S

(* A composed product starts every plugin once, and after the plugins it   *)
(* depends on (compose_product, DependencyGraph::resolve).                 *)
ProductsStartInOrder ==
  \A q \in Products :
    /\ \A i, j \in DOMAIN products[q] : products[q][i] = products[q][j] => i = j
    /\ \A j \in DOMAIN products[q] :
         \E d \in DOMAIN Manifest[products[q][j]] :
           /\ <<products[q][j], d>> \in stored
           /\ \A k \in DOMAIN Manifest[products[q][j]][d].deps :
                LET dep == Manifest[products[q][j]][d].deps[k]
                IN  dep.optional \/ \E i \in 1..(j - 1) :
                                      products[q][i] = dep.plugin

(* DependencyGraph::resolve, which both checks use, finds every cycle and  *)
(* puts dependencies first: the two properties above.                      *)
ResolutionIsSound == StoredLoopsAreBounded /\ ProductsStartInOrder

(* An invocation runs the build that was installed when its grant was      *)
(* made: an upgrade in between makes the grant useless (invoke_plugin,     *)
(* upgrade_plugin).                                                        *)
InvocationsRunTheGrantedBuild ==
  guest.pc = "RUNNING" =>
    seen[guest.grant][guest.plugin] = inst[guest.plugin].digest

(* Output is committed only under a grant that is live, with all its       *)
(* ancestors, at the commit, though the clock went on while the guest ran  *)
(* (invoke_plugin).                                                        *)
OutputsNeedLiveGrants ==
  [][~ committed /\ committed' =>
       \A h \in Ancestry(guest.grant) : Live(h)]_pluginVars

=============================================================================
