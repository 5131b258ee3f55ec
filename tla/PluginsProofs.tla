--------------------------- MODULE PluginsProofs ----------------------------
(***************************************************************************)
(* Proofs about delegated authority and the plugin registry, for all       *)
(* grants, plugins, builds, workflows and products.                        *)
(***************************************************************************)
EXTENDS Plugins, SharedLemmas

-----------------------------------------------------------------------------
(* Delegated authority.  The ancestry of a grant is the least set closed   *)
(* under parents, so each fact about ancestors follows by naming the right *)
(* closed set.                                                             *)

(* A set of grants that holds the parents of its members.                  *)
Closed(S) ==
  /\ S \subseteq Grants
  /\ \A k \in S : grants[k].parent # "NULL" => grants[k].parent \in S

(* A grant is in its own ancestry.                                         *)
LEMMA SelfAncestry == ASSUME NEW g \in Grants PROVE g \in Ancestry(g)
  BY Zenon DEF Ancestry

(* A closed set that holds a grant holds all its ancestors.                *)
LEMMA AncestryLeast ==
  ASSUME NEW g \in Grants, NEW S, Closed(S), g \in S
  PROVE  Ancestry(g) \subseteq S
  BY Zenon DEF Ancestry, Closed

(* The ancestors of the parent are ancestors of the child.                 *)
LEMMA AncestryOfParent ==
  ASSUME NEW g \in Grants, grants[g].parent \in Grants,
         grants[g].parent # "NULL"
  PROVE  Ancestry(grants[g].parent) \subseteq Ancestry(g)
  BY Zenon DEF Ancestry

-----------------------------------------------------------------------------
(* The inductive invariant of the delegations.                             *)

(* A child has no more than its parent.                                    *)
ChildNarrows(g) ==
  grants[g].parent # "NULL" =>
    /\ grants[g].actions \subseteq grants[grants[g].parent].actions
    /\ grants[g].resources \subseteq grants[grants[g].parent].resources
    /\ grants[g].expires <= grants[grants[g].parent].expires

ChildrenNarrow == \A g \in Grants : ChildNarrows(g)

DelegationInv == GrantTypeOK /\ NoOrphanedAuthority /\ ChildrenNarrow

(* What holds of parents holds of all ancestors.                           *)
LEMMA NarrowingIsTransitive ==
  ASSUME GrantTypeOK, ChildrenNarrow
  PROVE  AuthorityNarrows
  <1> SUFFICES ASSUME NEW g \in Grants, NEW h \in Ancestry(g)
               PROVE  /\ grants[g].actions \subseteq grants[h].actions
                      /\ grants[g].resources \subseteq grants[h].resources
                      /\ grants[g].expires <= grants[h].expires
    BY Zenon DEF AuthorityNarrows
  <1> DEFINE wider ==
        {k \in Grants : /\ grants[g].actions \subseteq grants[k].actions
                        /\ grants[g].resources \subseteq grants[k].resources
                        /\ grants[g].expires <= grants[k].expires}
  <1>1. g \in wider
    BY DEF GrantTypeOK, GrantRow
  <1>2. Closed(wider)
    <2>1. ASSUME NEW k \in wider, grants[k].parent # "NULL"
          PROVE  grants[k].parent \in wider
      <3>1. grants[k].parent \in Grants
        BY <2>1, Zenon DEF GrantTypeOK, GrantRow
      <3>2. ChildNarrows(k)
        BY Zenon DEF ChildrenNarrow
      <3>3. /\ grants[g].expires \in Nat
            /\ grants[k].expires \in Nat
            /\ grants[grants[k].parent].expires \in Nat
        BY <3>1, Zenon DEF GrantTypeOK, GrantRow
      <3> QED
        BY <2>1, <3>1, <3>2, <3>3 DEF ChildNarrows
    <2> QED
      BY <2>1, Zenon DEF Closed
  <1>3. h \in wider
    BY <1>1, <1>2, AncestryLeast, Zenon
  <1> QED
    BY <1>3, Zenon

(* An empty table.                                                         *)
LEMMA DelegationInitInv == DelegationInit => DelegationInv
  <1> SUFFICES ASSUME DelegationInit PROVE DelegationInv
    BY Zenon
  <1>1. NoGrant \in GrantRow
    BY Zenon DEF NoGrant, GrantRow
  <1>2. \A g \in Grants : grants[g].parent = "NULL"
    BY Zenon DEF DelegationInit, NoGrant
  <1>3. GrantTypeOK
    BY <1>1, <1>2, Zenon DEF DelegationInit, GrantTypeOK
  <1> QED
    BY <1>2, <1>3, Zenon
       DEF DelegationInv, NoOrphanedAuthority, ChildrenNarrow, ChildNarrows

-----------------------------------------------------------------------------
(* The steps of the delegations.                                           *)

(* The parent of a new grant exists, is ACTIVE and is another grant.       *)
LEMMA ParentIsActive ==
  ASSUME NEW g \in Grants, NEW p, NEW actions, NEW resources, NEW expires,
         NEW parent \in Grants \cup {"NULL"}, parent # "NULL",
         grants[g].state = "NONE",
         ParentAllows(parent, p, actions, resources, expires)
  PROVE  parent \in Grants \ {g} /\ grants[parent].state = "ACTIVE"
  <1>1. parent \in Grants /\ ActiveFor(parent, p)
    BY Zenon DEF ParentAllows
  <1>2. parent \in Ancestry(parent)
    BY <1>1, SelfAncestry, Zenon
  <1>3. grants[parent].state = "ACTIVE"
    BY <1>1, <1>2, Zenon DEF ActiveFor, Live
  <1> QED
    BY <1>1, <1>3, Zenon

(* create_grant keeps the invariant: the new grant is no one's parent yet, *)
(* and what it takes from its own parent was checked.                      *)
LEMMA CreateGrantInv ==
  ASSUME DelegationInv, NEW g \in Grants,
         NEW p \in Principals, NEW q \in Principals,
         NEW actions \in SUBSET Actions, NEW resources \in SUBSET Resources,
         NEW expires \in 1..MaxTime, NEW parent \in Grants \cup {"NULL"},
         CreateGrant(g, p, q, actions, resources, expires, parent)
  PROVE  DelegationInv'
  <1> DEFINE row == [state |-> "ACTIVE", creator |-> p, delegate |-> q,
                     actions |-> actions, resources |-> resources,
                     expires |-> expires, parent |-> parent, fence |-> 1]
  <1>1. /\ grants' = [grants EXCEPT ![g] = row]
        /\ now' = now
        /\ grants[g].state = "NONE"
        /\ ParentAllows(parent, p, actions, resources, expires)
    BY Zenon DEF CreateGrant
  <1>2. row \in GrantRow
    BY DelegationAssumption DEF DelegationAssumption, GrantRow
  <1>3. /\ row.state = "ACTIVE" /\ row.parent = parent
        /\ row.actions = actions /\ row.resources = resources
        /\ row.expires = expires
    BY Zenon
  <1> HIDE DEF row
  <1>4. grants \in [Grants -> GrantRow] /\ now \in Nat
    BY Zenon DEF DelegationInv, GrantTypeOK
  <1>5. /\ grants'[g] = row
        /\ \A h \in Grants \ {g} : grants'[h] = grants[h]
    BY <1>1, <1>4, Zenon
  <1>6. \A h \in Grants : grants[h].parent # g
    BY <1>1, DelegationAssumption, Zenon
       DEF DelegationInv, GrantTypeOK, DelegationAssumption
  <1>7. parent # "NULL" => /\ parent \in Grants \ {g}
                           /\ grants[parent].state = "ACTIVE"
    BY <1>1, ParentIsActive, Zenon
  <1>8. GrantTypeOK'
    <2>1. ASSUME NEW h \in Grants, grants'[h].parent # "NULL"
          PROVE  /\ grants'[h].state # "NONE"
                 /\ grants'[grants'[h].parent].state # "NONE"
      <3>1. CASE h = g
        BY <1>3, <1>5, <1>7, <2>1, <3>1, Zenon
      <3>2. CASE h # g
        <4>1. grants[h].parent \in Grants \ {g}
          BY <1>4, <1>5, <1>6, <2>1, <3>2, Zenon DEF GrantRow
        <4> QED
          BY <1>5, <2>1, <3>2, <4>1, Zenon DEF DelegationInv, GrantTypeOK
      <3> QED
        BY <3>1, <3>2, Zenon
    <2>2. grants' \in [Grants -> GrantRow] /\ now' \in Nat
      BY <1>1, <1>2, <1>4, Zenon
    <2> QED
      BY <2>1, <2>2, Zenon DEF GrantTypeOK
  <1>9. NoOrphanedAuthority'
    <2>1. ASSUME NEW h \in Grants, grants'[h].state = "ACTIVE",
                 grants'[h].parent # "NULL"
          PROVE  grants'[grants'[h].parent].state = "ACTIVE"
      <3>1. CASE h = g
        BY <1>3, <1>5, <1>7, <2>1, <3>1, Zenon
      <3>2. CASE h # g
        <4>1. grants[h].parent \in Grants \ {g}
          BY <1>4, <1>5, <1>6, <2>1, <3>2, Zenon DEF GrantRow
        <4> QED
          BY <1>5, <2>1, <3>2, <4>1, Zenon
             DEF DelegationInv, NoOrphanedAuthority
      <3> QED
        BY <3>1, <3>2, Zenon
    <2> QED
      BY <2>1, Zenon DEF NoOrphanedAuthority
  <1>10. ChildrenNarrow'
    <2>1. ASSUME NEW h \in Grants PROVE ChildNarrows(h)'
      <3>1. CASE h = g /\ parent # "NULL"
        <4>1. Narrows(parent, actions, resources, expires)
          BY <1>1, <3>1, Zenon DEF ParentAllows
        <4> QED
          BY <1>3, <1>5, <1>7, <3>1, <4>1, Zenon DEF ChildNarrows, Narrows
      <3>2. CASE h = g /\ parent = "NULL"
        BY <1>3, <1>5, <3>2, Zenon DEF ChildNarrows
      <3>3. CASE h # g /\ grants[h].parent # "NULL"
        <4>1. grants[h].parent \in Grants \ {g}
          BY <1>4, <1>6, <3>3, Zenon DEF GrantRow
        <4>2. ChildNarrows(h)
          BY Zenon DEF DelegationInv, ChildrenNarrow
        <4> QED
          BY <1>5, <3>3, <4>1, <4>2, Zenon DEF ChildNarrows
      <3>4. CASE h # g /\ grants[h].parent = "NULL"
        BY <1>5, <3>4, Zenon DEF ChildNarrows
      <3> QED
        BY <3>1, <3>2, <3>3, <3>4, Zenon
    <2> QED
      BY <2>1, Zenon DEF ChildrenNarrow
  <1> QED
    BY <1>8, <1>9, <1>10, Zenon DEF DelegationInv

(* The row of a revoked grant.                                             *)
LEMMA RevokedRow ==
  ASSUME NEW row \in GrantRow
  PROVE  /\ RevokedGrant(row) \in GrantRow
         /\ RevokedGrant(row).state = "REVOKED"
         /\ RevokedGrant(row).parent = row.parent
         /\ RevokedGrant(row).actions = row.actions
         /\ RevokedGrant(row).resources = row.resources
         /\ RevokedGrant(row).expires = row.expires
  <1>1. row.fence + 1 \in Nat
    BY DEF GrantRow
  <1>2. RevokedGrant(row) \in GrantRow
    BY <1>1, Zenon DEF RevokedGrant, GrantRow
  <1>3. RevokedGrant(row) = [row EXCEPT !.state = "REVOKED",
                                        !.fence = row.fence + 1]
    BY Zenon DEF RevokedGrant
  <1> QED
    BY <1>2, <1>3, Zenon DEF GrantRow

(* revoke_grant changes state and fence of ACTIVE grants, nothing else.    *)
LEMMA RevokeGrantRows ==
  ASSUME GrantTypeOK, NEW g \in Grants, RevokeGrant(g), NEW h \in Grants
  PROVE  /\ grants'[h] \in GrantRow
         /\ grants'[h].parent = grants[h].parent
         /\ grants'[h].actions = grants[h].actions
         /\ grants'[h].resources = grants[h].resources
         /\ grants'[h].expires = grants[h].expires
         /\ grants'[h] = grants[h] \/ /\ grants[h].state = "ACTIVE"
                                      /\ grants'[h] = RevokedGrant(grants[h])
         /\ grants'[h].state = "NONE" <=> grants[h].state = "NONE"
         /\ grants'[h].state = "ACTIVE" <=>
              grants[h].state = "ACTIVE" /\ h \notin Descendants(g)
  <1>1. grants[h] \in GrantRow
    BY Zenon DEF GrantTypeOK
  <1>2. grants'[h] = IF h \in Descendants(g) /\ grants[h].state = "ACTIVE"
                     THEN RevokedGrant(grants[h]) ELSE grants[h]
    BY Zenon DEF RevokeGrant
  <1>3. CASE h \in Descendants(g) /\ grants[h].state = "ACTIVE"
    BY <1>1, <1>2, <1>3, RevokedRow, Zenon
  <1>4. CASE ~ (h \in Descendants(g) /\ grants[h].state = "ACTIVE")
    BY <1>1, <1>2, <1>4, Zenon
  <1> QED
    BY <1>3, <1>4, Zenon

(* revoke_grant keeps the invariant: a child of a grant that is revoked is *)
(* itself below the grant the command names.                               *)
LEMMA RevokeGrantInv ==
  ASSUME DelegationInv, NEW g \in Grants, RevokeGrant(g)
  PROVE  DelegationInv'
  <1>1. GrantTypeOK /\ now' = now
    BY Zenon DEF DelegationInv, RevokeGrant
  <1>2. \A h \in Grants : grants[h].parent # "NULL" =>
                            grants[h].parent \in Grants
    BY <1>1, Zenon DEF GrantTypeOK, GrantRow
  <1>3. GrantTypeOK'
    <2>1. grants' \in [Grants -> GrantRow]
      <3>1. \A h \in Grants : grants'[h] \in GrantRow
        BY <1>1, RevokeGrantRows, Zenon
      <3> QED
        BY <3>1, Zenon DEF RevokeGrant
    <2>2. ASSUME NEW h \in Grants, grants'[h].parent # "NULL"
          PROVE  /\ grants'[h].state # "NONE"
                 /\ grants'[grants'[h].parent].state # "NONE"
      <3>1. grants'[h].parent = grants[h].parent
        BY <1>1, RevokeGrantRows, Zenon
      <3>2. grants[h].parent \in Grants
        BY <1>2, <2>2, <3>1, Zenon
      <3>3. /\ grants[h].state # "NONE"
            /\ grants[grants[h].parent].state # "NONE"
        BY <1>1, <2>2, <3>1, Zenon DEF GrantTypeOK
      <3> QED
        BY <1>1, <3>1, <3>2, <3>3, RevokeGrantRows
    <2> QED
      BY <1>1, <2>1, <2>2, Zenon DEF GrantTypeOK
  <1>4. NoOrphanedAuthority'
    <2>1. ASSUME NEW h \in Grants, grants'[h].state = "ACTIVE",
                 grants'[h].parent # "NULL"
          PROVE  grants'[grants'[h].parent].state = "ACTIVE"
      <3> DEFINE p == grants[h].parent
      <3>1. /\ grants'[h].parent = p
            /\ grants[h].state = "ACTIVE"
            /\ h \notin Descendants(g)
        BY <1>1, <2>1, RevokeGrantRows, Zenon
      <3>2. p \in Grants /\ p # "NULL"
        BY <1>2, <2>1, <3>1, Zenon
      <3>3. grants[p].state = "ACTIVE"
        BY <2>1, <3>1, Zenon DEF DelegationInv, NoOrphanedAuthority
      <3>4. p \notin Descendants(g)
        BY <3>1, <3>2, AncestryOfParent, Zenon DEF Descendants
      <3> HIDE DEF p
      <3> QED
        BY <1>1, <3>1, <3>2, <3>3, <3>4, RevokeGrantRows, Zenon
    <2> QED
      BY <2>1, Zenon DEF NoOrphanedAuthority
  <1>5. ChildrenNarrow'
    <2>1. ASSUME NEW h \in Grants, grants'[h].parent # "NULL"
          PROVE  ChildNarrows(h)'
      <3> DEFINE p == grants[h].parent
      <3>1. grants'[h].parent = p
        BY <1>1, RevokeGrantRows, Zenon
      <3>2. p \in Grants /\ p # "NULL"
        BY <1>2, <2>1, <3>1, Zenon
      <3>3. ChildNarrows(h)
        BY Zenon DEF DelegationInv, ChildrenNarrow
      <3>4. /\ grants'[h].actions = grants[h].actions
            /\ grants'[h].resources = grants[h].resources
            /\ grants'[h].expires = grants[h].expires
            /\ grants'[p].actions = grants[p].actions
            /\ grants'[p].resources = grants[p].resources
            /\ grants'[p].expires = grants[p].expires
        BY <1>1, <3>2, RevokeGrantRows, Zenon
      <3> QED
        BY <3>1, <3>2, <3>3, <3>4, Zenon DEF ChildNarrows
    <2> QED
      BY <2>1, Zenon DEF ChildrenNarrow, ChildNarrows
  <1> QED
    BY <1>3, <1>4, <1>5, Zenon DEF DelegationInv

(* Every step keeps the invariant.                                         *)
LEMMA DelegationStepInv ==
  DelegationInv /\ [DelegationNext]_delegationVars => DelegationInv'
  <1> SUFFICES ASSUME DelegationInv, [DelegationNext]_delegationVars
               PROVE  DelegationInv'
    BY Zenon
  <1>1. ASSUME NEW g \in Grants, NEW p \in Principals, NEW q \in Principals,
               NEW actions \in SUBSET Actions,
               NEW resources \in SUBSET Resources,
               NEW expires \in 1..MaxTime,
               NEW parent \in Grants \cup {"NULL"},
               CreateGrant(g, p, q, actions, resources, expires, parent)
        PROVE  DelegationInv'
    BY <1>1, CreateGrantInv, Zenon
  <1>2. ASSUME NEW g \in Grants, RevokeGrant(g) PROVE DelegationInv'
    BY <1>2, RevokeGrantInv, Zenon
  <1>3. CASE Tick
    BY <1>3 DEF Tick, DelegationInv, GrantTypeOK, NoOrphanedAuthority,
                ChildrenNarrow, ChildNarrows
  <1>4. CASE UNCHANGED delegationVars
    BY <1>4, Zenon DEF delegationVars, DelegationInv, GrantTypeOK,
                NoOrphanedAuthority, ChildrenNarrow, ChildNarrows
  <1> QED
    BY <1>1, <1>2, <1>3, <1>4, Zenon DEF DelegationNext

-----------------------------------------------------------------------------
(* The theorems about the delegations.                                     *)

(* The inductive invariant holds in every reachable state.                 *)
THEOREM DelegationInvariant == DelegationSpec => []DelegationInv
  <1> QED
    BY DelegationInitInv, DelegationStepInv, PTL DEF DelegationSpec

(* The rows of delegations keep their shape (create_grant, revoke_grant).  *)
THEOREM GrantsTypeCorrect == DelegationSpec => []GrantTypeOK
  <1>1. DelegationInv => GrantTypeOK
    BY Zenon DEF DelegationInv
  <1> QED
    BY <1>1, DelegationInvariant, PTL

(* However long the chain of delegations, revoking a grant leaves nothing  *)
(* ACTIVE below it (revoke_grant's recursive update), and a grant permits  *)
(* nothing that an ancestor of it does not (create_grant compares with the *)
(* parent only).                                                           *)
THEOREM AuthorityOnlyNarrows == DelegationSpec => []AuthorityFlowsDown
  <1>1. DelegationInv => AuthorityFlowsDown
    BY NarrowingIsTransitive, Zenon DEF DelegationInv, AuthorityFlowsDown
  <1> QED
    BY <1>1, DelegationInvariant, PTL

(* No step changes a grant that exists but to revoke it, with a new fence  *)
(* (revoke_grant).                                                         *)
THEOREM FencesMove == DelegationSpec => FenceMovesWithState
  <1> DEFINE Moves(g) ==
        grants[g].state # "NONE" /\ grants'[g] # grants[g]
        => /\ grants[g].state = "ACTIVE"
           /\ grants'[g] = [grants[g] EXCEPT !.state = "REVOKED",
                                             !.fence = @ + 1]
  <1>1. ASSUME DelegationInv, [DelegationNext]_delegationVars, NEW h \in Grants
        PROVE  Moves(h)
    <2>1. grants \in [Grants -> GrantRow] /\ GrantTypeOK
      BY <1>1, Zenon DEF DelegationInv, GrantTypeOK
    <2>2. ASSUME NEW g \in Grants, NEW p, NEW q, NEW actions, NEW resources,
                 NEW expires, NEW parent,
                 CreateGrant(g, p, q, actions, resources, expires, parent)
          PROVE  Moves(h)
      BY <2>1, <2>2, Zenon DEF CreateGrant
    <2>3. ASSUME NEW g \in Grants, RevokeGrant(g) PROVE Moves(h)
      BY <2>1, <2>3, RevokeGrantRows, Zenon DEF RevokedGrant
    <2>4. CASE Tick
      BY <2>4, Zenon DEF Tick
    <2>5. CASE UNCHANGED delegationVars
      BY <2>5, Zenon DEF delegationVars
    <2> QED
      BY <1>1, <2>2, <2>3, <2>4, <2>5, Zenon DEF DelegationNext
  <1>2. DelegationInv /\ [DelegationNext]_delegationVars =>
          [\A g \in Grants : Moves(g)]_delegationVars
    BY <1>1, Zenon
  <1> QED
    BY <1>2, DelegationInvariant, PTL DEF DelegationSpec, FenceMovesWithState

-----------------------------------------------------------------------------
(* The inductive invariant of the registry.                                *)

InstallationRow ==
  [state : {"NONE", "INSTALLED_DISABLED", "ENABLED", "DRAINING", "DISABLED",
            "REVOKED", "UNINSTALLED"},
   digest : Digests \cup {"NULL"}, caps : SUBSET Capabilities, version : Nat]

RunRow == [plugin : Plugins \cup {"NULL"}, digest : Digests \cup {"NULL"},
           active : BOOLEAN]

RegistryTypeOK ==
  /\ inst \in [Plugins -> InstallationRow]
  /\ \A p \in Plugins : IF inst[p].state = "NONE" THEN inst[p].version = 0
                        ELSE inst[p].version \in 1..MaxVersion
  /\ stored \subseteq Plugins \X Digests
  /\ runs \in [Runs -> RunRow]
  /\ products \in [Products -> Seq(Plugins)]

(* A stored build has a manifest, and its workflows were validated.        *)
BuildOK(p, d) ==
  /\ d \in DOMAIN Manifest[p]
  /\ \A w \in Manifest[p][d].workflows : ValidWorkflow(w, Manifest[p][d])

StoredOK == \A p \in Plugins, d \in Digests : <<p, d>> \in stored => BuildOK(p, d)

(* A plugin that is not installed is idle too.                             *)
Resting == {"NONE", "INSTALLED_DISABLED", "DISABLED", "UNINSTALLED"}

RestingAreIdle == \A p \in Plugins : inst[p].state \in Resting => ~ HasActiveRuns(p)

(* What is revoked, and what resolution left of the selected plugins:      *)
(* dependencies that are present are in range, those that are not are      *)
(* optional or were revoked, and there is no cycle.                        *)
Gone == {p \in Plugins : inst[p].state = "REVOKED"}

DependencyOK(selected, gone, dep) ==
  IF dep.plugin \in DOMAIN selected
  THEN Manifest[dep.plugin][selected[dep.plugin]].contract \in dep.range
  ELSE dep.optional \/ dep.plugin \in gone

Deps(selected, p) == Manifest[p][selected[p]].deps

Coherent(selected, gone) ==
  /\ \A p \in DOMAIN selected : \A i \in DOMAIN Deps(selected, p) :
       /\ \A j \in DOMAIN Deps(selected, p) :
            Deps(selected, p)[i].plugin = Deps(selected, p)[j].plugin => i = j
       /\ DependencyOK(selected, gone, Deps(selected, p)[i])
  /\ Acyclic(Edges(selected))

RegistryInv ==
  /\ RegistryTypeOK /\ StoredOK
  /\ InstallationsFollowTheirBuild /\ RestingAreIdle
  /\ Coherent(Selected, Gone)
  /\ ProductsStartInOrder

(* No grant names a version that an installation has not reached, and one  *)
(* that names the present version was made for the present build.          *)
GrantNamesBuild(g, p) ==
  /\ \A v \in Nat : <<p, v>> \in grants[g].resources => v <= inst[p].version
  /\ Ref(p) \in grants[g].resources => seen[g][p] = inst[p].digest

GuestRow ==
  [pc : {"IDLE", "RUNNING"}, plugin : Plugins \cup {"NULL"},
   grant : Grants \cup {"NULL"}, actor : Principals \cup {"NULL"}]

AuthorityInv ==
  /\ seen \in [Grants -> [Plugins -> Digests \cup {"NULL"}]]
  /\ guest \in GuestRow
  /\ \A g \in Grants : grants[g].state = "NONE" => grants[g].resources = {}
  /\ \A g \in Grants, p \in Plugins : GrantNamesBuild(g, p)
  /\ guest.pc = "RUNNING" =>
       /\ guest.plugin \in Plugins /\ guest.grant \in Grants
       /\ Ref(guest.plugin) \in grants[guest.grant].resources

PluginInv == DelegationInv /\ RegistryInv /\ AuthorityInv

-----------------------------------------------------------------------------
(* Resolution of the selected builds.                                      *)

(* A choice of builds that have manifests.                                 *)
Choice(selected) ==
  /\ DOMAIN selected \subseteq Plugins
  /\ \A p \in DOMAIN selected : selected[p] \in DOMAIN Manifest[p]

Needs(selected, p) == {Deps(selected, p)[i].plugin : i \in DOMAIN Deps(selected, p)}

(* Every set of plugins is finite, because PluginOrder lists them all.     *)
LEMMA PluginsAreFinite ==
  ASSUME NEW S \in SUBSET Plugins
  PROVE  IsFiniteSet(S)
  <1> DEFINE n == Len(PluginOrder)
  <1>1. PluginOrder \in [1..n -> Plugins] /\ n \in Nat
    BY PluginAssumption DEF PluginAssumption
  <1>2. \A p \in Plugins : \E i \in 1..n : PluginOrder[i] = p
    BY <1>1, PluginAssumption, Zenon DEF PluginAssumption, Range
  <1>3. PluginOrder \in Surjection(1..n, Plugins)
    BY <1>1, <1>2, Zenon DEF Surjection
  <1>4. IsFiniteSet(1..n)
    BY <1>1, FS_Interval
  <1> HIDE DEF n
  <1>5. IsFiniteSet(Plugins)
    BY <1>3, <1>4, FS_Surjection, Zenon
  <1> QED
    BY <1>5, FS_Subset, Zenon

(* The edges lead to the dependencies that are selected.                   *)
LEMMA EdgesOfSelected ==
  ASSUME NEW selected, Choice(selected)
  PROVE  /\ Edges(selected) \in [DOMAIN selected -> Seq(Plugins)]
         /\ \A p \in DOMAIN selected :
              Range(Edges(selected)[p]) = Needs(selected, p) \cap DOMAIN selected
  <1> DEFINE names(p) == [i \in DOMAIN Deps(selected, p) |-> Deps(selected, p)[i].plugin]
             D == DOMAIN selected
  <1>1. Edges(selected) = [p \in D |-> InOrder(names(p), D)]
    BY Zenon DEF Edges, Deps
  <1>2. ASSUME NEW p \in D
        PROVE  names(p) \in Seq(Plugins) /\ Range(names(p)) = Needs(selected, p)
    <2>1. p \in Plugins /\ selected[p] \in DOMAIN Manifest[p]
      BY Zenon DEF Choice
    <2>2. Deps(selected, p) \in Seq(Dependencies)
      BY <2>1, PluginAssumption, Zenon DEF PluginAssumption, Deps
    <2>3. \A i \in DOMAIN Deps(selected, p) : Deps(selected, p)[i].plugin \in Plugins
      <3> SUFFICES ASSUME NEW i \in DOMAIN Deps(selected, p)
                   PROVE  Deps(selected, p)[i].plugin \in Plugins
        BY Zenon
      <3>1. Deps(selected, p)[i] \in Dependencies
        BY <2>2
      <3> QED
        BY <3>1, Zenon DEF Dependencies
    <2>4. names(p) \in Seq(Plugins)
      BY <2>2, <2>3
    <2> QED
      BY <2>4, Zenon DEF Range, Needs
  <1> HIDE DEF names
  <1>3. ASSUME NEW p \in D
        PROVE  /\ InOrder(names(p), D) \in Seq(Plugins \cap D)
               /\ Range(InOrder(names(p), D)) = Needs(selected, p) \cap D
    BY <1>2, InOrderFinds
  <1>4. \A p \in D : InOrder(names(p), D) \in Seq(Plugins)
    BY <1>3
  <1> HIDE DEF D
  <1>5. Edges(selected) \in [D -> Seq(Plugins)]
    BY <1>1, <1>4, Zenon
  <1>6. \A p \in D : Edges(selected)[p] = InOrder(names(p), D)
    BY <1>1, Zenon
  <1> QED
    BY <1>3, <1>5, <1>6, Zenon DEF D

(* resolve_manifests visits the selected plugins and no others.            *)
LEMMA RootsOfSelected ==
  ASSUME NEW selected, Choice(selected)
  PROVE  /\ InOrder(PluginOrder, DOMAIN selected) \in Seq(Plugins)
         /\ Range(InOrder(PluginOrder, DOMAIN selected)) = DOMAIN selected
  <1>1. /\ InOrder(PluginOrder, DOMAIN selected) \in Seq(Plugins \cap DOMAIN selected)
        /\ Range(InOrder(PluginOrder, DOMAIN selected)) = Range(PluginOrder) \cap DOMAIN selected
    BY InOrderFinds, PluginAssumption, Zenon DEF PluginAssumption
  <1>2. Range(PluginOrder) \cap DOMAIN selected = DOMAIN selected
    BY PluginAssumption, Zenon DEF PluginAssumption, Choice
  <1>3. Seq(Plugins \cap DOMAIN selected) \subseteq Seq(Plugins)
    OBVIOUS
  <1> QED
    BY <1>1, <1>2, <1>3, Zenon

(* A resolution lists every selected plugin once, after what it needs.     *)
LEMMA ResolutionOrders ==
  ASSUME NEW selected, Choice(selected), Resolves(selected), NEW order,
         order = Resolution(selected).order
  PROVE  /\ order \in Seq(DOMAIN selected) /\ Distinct(order)
         /\ DependenciesFirst(Edges(selected), order)
         /\ Range(order) = DOMAIN selected
  <1> DEFINE edges == Edges(selected)
             roots == InOrder(PluginOrder, DOMAIN selected)
             D == DOMAIN selected
  <1>1. IsFiniteSet(D)
    BY PluginsAreFinite, Zenon DEF Choice
  <1>2. edges \in [D -> Seq(Plugins)] /\ roots \in Seq(Plugins) /\ Range(roots) = D
    BY EdgesOfSelected, RootsOfSelected, Zenon
  <1>3. Resolve(edges, roots).ok /\ order = Resolve(edges, roots).order
    BY Zenon DEF Resolves, Resolution
  <1> HIDE DEF edges, roots, D
  <1>4. /\ order \in Seq(D) /\ Distinct(order) /\ DependenciesFirst(edges, order)
        /\ Range(roots) \subseteq Range(order)
    BY <1>1, <1>2, <1>3, ResolveOrders, Zenon
  <1>5. Range(order) \subseteq D
    BY <1>4 DEF Range
  <1>6. Range(order) = D
    BY <1>2, <1>4, <1>5, Zenon
  <1> QED
    BY <1>4, <1>6, Zenon DEF edges, D

(* What resolves is coherent, whatever was revoked.                        *)
LEMMA WhatResolvesIsCoherent ==
  ASSUME NEW selected, Choice(selected), Resolves(selected), NEW gone
  PROVE  Coherent(selected, gone)
  <1> DEFINE order == Resolution(selected).order
             D == DOMAIN selected
  <1>1. /\ order \in Seq(D) /\ DependenciesFirst(Edges(selected), order)
        /\ Range(order) = D /\ DOMAIN Edges(selected) = D
    BY ResolutionOrders, Zenon DEF Edges
  <1> HIDE DEF order
  <1>2. Acyclic(Edges(selected))
    <2> HIDE DEF D
    <2>1. ASSUME NEW S \in SUBSET D, S # {}
          PROVE  \E p \in S : \A i \in DOMAIN Edges(selected)[p] :
                                Edges(selected)[p][i] \notin S
      BY <1>1, <2>1, OrderedHasNoCycle, Zenon
    <2> QED
      BY <1>1, <2>1, Zenon DEF Acyclic
  <1>3. ASSUME NEW p \in D, NEW i \in DOMAIN Deps(selected, p)
        PROVE  /\ \A j \in DOMAIN Deps(selected, p) :
                    Deps(selected, p)[i].plugin = Deps(selected, p)[j].plugin => i = j
               /\ DependencyOK(selected, gone, Deps(selected, p)[i])
    <2>1. Satisfied(selected)
      BY Zenon DEF Resolves
    <2> QED
      BY <2>1, Zenon DEF Satisfied, Deps, DependencyOK
  <1> QED
    BY <1>2, <1>3, Zenon DEF Coherent

(* What is coherent without a cycle resolves, once nothing that is needed  *)
(* is missing.                                                             *)
LEMMA WhatIsCoherentResolves ==
  ASSUME NEW selected, Choice(selected), NEW gone, Coherent(selected, gone),
         \A p \in DOMAIN selected : \A i \in DOMAIN Deps(selected, p) :
           Deps(selected, p)[i].plugin \in gone => Deps(selected, p)[i].optional
  PROVE  Resolves(selected)
  <1> DEFINE edges == Edges(selected)
             roots == InOrder(PluginOrder, DOMAIN selected)
             D == DOMAIN selected
  <1>1. Satisfied(selected)
    BY Zenon DEF Coherent, Satisfied, DependencyOK, Deps
  <1>2. IsFiniteSet(D)
    BY PluginsAreFinite, Zenon DEF Choice
  <1>3. edges \in [D -> Seq(Plugins)] /\ roots \in Seq(Plugins) /\ Range(roots) = D
    BY EdgesOfSelected, RootsOfSelected, Zenon
  <1>4. Acyclic(edges)
    BY Zenon DEF Coherent
  <1>5. Complete(edges)
    <2>1. \A p \in D : Range(edges[p]) \subseteq D
      BY EdgesOfSelected
    <2> QED
      BY <1>3, <2>1, Zenon DEF Complete
  <1> HIDE DEF edges, roots, D
  <1>6. Resolve(edges, roots).ok
    BY <1>2, <1>3, <1>4, <1>5, ResolveSucceeds, Zenon
  <1> QED
    BY <1>1, <1>6, Zenon DEF Resolves, Resolution, edges, roots

(* To revoke a plugin that is selected closes no cycle, and leaves only    *)
(* the plugin itself missing.                                              *)
LEMMA CoherentWithout ==
  ASSUME NEW selected, Choice(selected), NEW gone, Coherent(selected, gone),
         NEW p, NEW rest, rest = [q \in DOMAIN selected \ {p} |-> selected[q]],
         NEW more, gone \cup {p} \subseteq more
  PROVE  Coherent(rest, more)
  <1>1. /\ DOMAIN rest = DOMAIN selected \ {p} /\ Choice(rest)
        /\ \A q \in DOMAIN rest : rest[q] = selected[q]
    BY Zenon DEF Choice
  <1>2. \A q \in DOMAIN rest : Deps(rest, q) = Deps(selected, q)
    BY <1>1, Zenon DEF Deps
  <1>3. ASSUME NEW q \in DOMAIN rest, NEW i \in DOMAIN Deps(rest, q)
        PROVE  /\ \A j \in DOMAIN Deps(rest, q) :
                    Deps(rest, q)[i].plugin = Deps(rest, q)[j].plugin => i = j
               /\ DependencyOK(rest, more, Deps(rest, q)[i])
    <2>1. /\ \A j \in DOMAIN Deps(rest, q) :
               Deps(rest, q)[i].plugin = Deps(rest, q)[j].plugin => i = j
          /\ DependencyOK(selected, gone, Deps(rest, q)[i])
      BY <1>1, <1>2, <1>3, Zenon DEF Coherent
    <2>2. DependencyOK(rest, more, Deps(rest, q)[i])
      BY <1>1, <2>1, Zenon DEF DependencyOK
    <2> QED
      BY <2>1, <2>2, Zenon
  <1>4. Acyclic(Edges(rest))
    <2>1. DOMAIN Edges(rest) = DOMAIN rest /\ DOMAIN Edges(selected) = DOMAIN selected
      BY Zenon DEF Edges
    <2>2. ASSUME NEW S \in SUBSET DOMAIN rest, S # {}
          PROVE  \E q \in S : \A i \in DOMAIN Edges(rest)[q] : Edges(rest)[q][i] \notin S
      <3>1. PICK q \in S : \A i \in DOMAIN Edges(selected)[q] :
                             Edges(selected)[q][i] \notin S
        BY <1>1, <2>1, <2>2, Zenon DEF Coherent, Acyclic
      <3>2. Range(Edges(selected)[q]) \cap S = {}
        BY <3>1, Zenon DEF Range
      <3>3. q \in DOMAIN rest /\ q \in DOMAIN selected
        BY <1>1, Zenon
      <3>4. /\ Range(Edges(selected)[q]) = Needs(selected, q) \cap DOMAIN selected
            /\ Range(Edges(rest)[q]) = Needs(rest, q) \cap DOMAIN rest
        BY <1>1, <3>3, EdgesOfSelected, Zenon
      <3>5. Needs(rest, q) = Needs(selected, q)
        BY <1>2, <3>3, Zenon DEF Needs
      <3>6. Range(Edges(rest)[q]) \cap S = {}
        BY <1>1, <3>2, <3>4, <3>5, Zenon
      <3>7. \A i \in DOMAIN Edges(rest)[q] : Edges(rest)[q][i] \notin S
        BY <3>6, Zenon DEF Range
      <3> QED
        BY <3>7, Zenon
    <2> QED
      BY <2>1, <2>2, Zenon DEF Acyclic
  <1> QED
    BY <1>3, <1>4, Zenon DEF Coherent

(* The successors of a node of a workflow.                                 *)
LEMMA SuccessorsOfNode ==
  ASSUME NEW w, w.edges \in Seq(Range(w.edges)), NEW n
  PROVE  /\ Successors(w, n) \in Seq({e.to : e \in Range(w.edges)})
         /\ \A i \in DOMAIN w.edges :
              w.edges[i].from = n /\ w.nodes[w.edges[i].to] # "BOUNDED_LOOP" =>
                w.edges[i].to \in Range(Successors(w, n))
  <1> DEFINE E == Range(w.edges)
             Q == {e \in E : e.from = n /\ w.nodes[e.to] # "BOUNDED_LOOP"}
             out == InOrder(w.edges, Q)
  <1>1. out \in Seq(E \cap Q) /\ Range(out) = E \cap Q
    BY InOrderFinds, Zenon
  <1>2. Successors(w, n) = [i \in DOMAIN out |-> out[i].to]
    BY Zenon DEF Successors
  <1>3. E \cap Q = Q /\ Q \subseteq E
    BY Zenon
  <1> HIDE DEF out
  <1>4. Successors(w, n) \in Seq({e.to : e \in E})
    <2>1. \A i \in DOMAIN out : out[i] \in E
      BY <1>1
    <2> HIDE DEF E, Q
    <2> QED
      BY <1>1, <1>2, <2>1
  <1>5. ASSUME NEW i \in DOMAIN w.edges, w.edges[i].from = n,
               w.nodes[w.edges[i].to] # "BOUNDED_LOOP"
        PROVE  w.edges[i].to \in Range(Successors(w, n))
    <2>1. w.edges[i] \in Q
      BY <1>5, Zenon DEF Range
    <2> HIDE DEF Q
    <2>2. PICK k \in DOMAIN out : out[k] = w.edges[i]
      BY <1>1, <1>3, <2>1, Zenon DEF Range
    <2>3. Successors(w, n)[k] = w.edges[i].to /\ k \in DOMAIN Successors(w, n)
      BY <1>2, <2>2, Zenon
    <2> QED
      BY <2>3, Zenon DEF Range
  <1> QED
    BY <1>4, <1>5, Zenon

(* A workflow that was validated cannot go round outside of its loops.     *)
LEMMA ValidWorkflowsAreBounded ==
  ASSUME NEW w, IsFiniteSet(DOMAIN w.nodes), w.edges \in Seq(Range(w.edges)),
         NEW manifest, ValidWorkflow(w, manifest),
         NEW S \in SUBSET DOMAIN w.nodes, S # {},
         \A n \in S : w.nodes[n] # "BOUNDED_LOOP"
  PROVE  \E n \in S : \A i \in DOMAIN w.edges :
           w.edges[i].from = n => w.edges[i].to \notin S
  <1> DEFINE D == {n \in DOMAIN w.nodes : w.nodes[n] # "BOUNDED_LOOP"}
             edges == [k \in D |-> Successors(w, k)]
             N == {e.to : e \in Range(w.edges)} \cup D
  <1>1. PICK n \in S : TRUE
    BY Zenon
  <1>2. n \in D /\ S \subseteq D
    BY Zenon
  <1>3. Resolve(edges, <<n>>).ok
    BY <1>2, Zenon DEF ValidWorkflow
  <1>4. IsFiniteSet(D)
    BY FS_Subset, Zenon
  <1>5. edges \in [D -> Seq(N)] /\ <<n>> \in Seq(N)
    <2>1. \A k \in D : Successors(w, k) \in Seq({e.to : e \in Range(w.edges)})
      BY SuccessorsOfNode, Zenon
    <2>2. Seq({e.to : e \in Range(w.edges)}) \subseteq Seq(N)
      OBVIOUS
    <2>3. n \in N
      BY <1>2, Zenon
    <2> HIDE DEF D, N
    <2>4. \A k \in D : Successors(w, k) \in Seq(N)
      BY <2>1, <2>2, Zenon
    <2>5. edges \in [D -> Seq(N)]
      BY <2>4, Zenon
    <2>6. <<n>> \in Seq(N)
      BY <2>3
    <2> QED
      BY <2>5, <2>6, Zenon
  <1>6. \A k \in D : edges[k] = Successors(w, k)
    BY Zenon
  <1>7. DOMAIN edges = D
    BY Zenon
  <1>8. \A k \in S : w.nodes[k] # "BOUNDED_LOOP"
    BY Zenon
  <1> HIDE DEF D, N, edges
  <1> DEFINE roots == <<n>>
  <1> HIDE DEF roots
  <1>0. PICK order : order = Resolve(edges, roots).order
    BY Zenon
  <1>9. /\ order \in Seq(D) /\ DependenciesFirst(edges, order)
        /\ Range(<<n>>) \subseteq Range(order)
    <2>1. roots \in Seq(N) /\ Resolve(edges, roots).ok
      BY <1>3, <1>5, Zenon DEF roots
    <2>2. /\ order \in Seq(D) /\ DependenciesFirst(edges, order)
          /\ Range(roots) \subseteq Range(order)
      BY <1>0, <1>4, <1>5, <2>1, ResolveOrders
    <2> QED
      BY <2>2, Zenon DEF roots
  <1> DEFINE T == S \cap Range(order)
  <1>10. T # {} /\ T \in SUBSET Range(order)
    BY <1>9 DEF Range
  <1>11. PICK p \in T : \A i \in DOMAIN edges[p] : edges[p][i] \notin T
    <2> HIDE DEF T
    <2> QED
      BY <1>7, <1>9, <1>10, OrderedHasNoCycle, Zenon
  <1>12. ASSUME NEW i \in DOMAIN w.edges, w.edges[i].from = p, w.edges[i].to \in S
         PROVE  FALSE
    <2>0. p \in D /\ w.nodes[w.edges[i].to] # "BOUNDED_LOOP"
      BY <1>2, <1>8, <1>12, Zenon
    <2>1. w.edges[i].to \in Range(edges[p])
      <3>1. w.edges[i].to \in Range(Successors(w, p))
        BY <1>12, <2>0, SuccessorsOfNode, Zenon
      <3> QED
        BY <1>6, <2>0, <3>1, Zenon
    <2>2. PICK k \in DOMAIN edges[p] : edges[p][k] = w.edges[i].to
      BY <2>1, Zenon DEF Range
    <2>3. PICK j \in DOMAIN order : order[j] = p
      BY Zenon DEF Range
    <2>4. PICK m \in 1..(j - 1) : order[m] = w.edges[i].to
      BY <1>9, <2>2, <2>3, Zenon DEF DependenciesFirst
    <2>5. m \in DOMAIN order
      BY <1>9, <2>3
    <2>6. w.edges[i].to \in T
      BY <1>12, <2>4, <2>5, Zenon DEF Range
    <2> QED
      BY <1>11, <2>2, <2>6, Zenon
  <1> QED
    BY <1>12, Zenon

(* A product that resolves starts every plugin after what it needs.        *)
ProductOK(order, builds) ==
  /\ \A i, j \in DOMAIN order : order[i] = order[j] => i = j
  /\ \A j \in DOMAIN order : \E d \in DOMAIN Manifest[order[j]] :
       /\ <<order[j], d>> \in builds
       /\ \A k \in DOMAIN Manifest[order[j]][d].deps :
            LET dep == Manifest[order[j]][d].deps[k]
            IN  dep.optional \/ \E i \in 1..(j - 1) : order[i] = dep.plugin

(* ProductsStartInOrder, one product at a time.                            *)
LEMMA ProductsAreOK == ProductsStartInOrder <=> \A q \in Products : ProductOK(products[q], stored)
  BY Zenon DEF ProductsStartInOrder, ProductOK

(* Storing more builds does not disturb a composed product.                *)
LEMMA ProductStaysOK ==
  ASSUME NEW order, NEW builds, ProductOK(order, builds), NEW more, builds \subseteq more
  PROVE  ProductOK(order, more)
  BY Zenon DEF ProductOK

(* What the resolution of stored builds lists is a composition in order.   *)
LEMMA ResolvedProductOK ==
  ASSUME NEW lock, Choice(lock), Resolves(lock),
         \A p \in DOMAIN lock : <<p, lock[p]>> \in stored
  PROVE  /\ ProductOK(Resolution(lock).order, stored)
         /\ Resolution(lock).order \in Seq(Plugins)
  <1> DEFINE order == Resolution(lock).order
  <1>1. /\ order \in Seq(DOMAIN lock) /\ Distinct(order)
        /\ DependenciesFirst(Edges(lock), order)
    BY ResolutionOrders, Zenon
  <1> HIDE DEF order
  <1>2. order \in Seq(Plugins)
    BY <1>1 DEF Choice
  <1>3. ASSUME NEW j \in DOMAIN order
        PROVE  \E d \in DOMAIN Manifest[order[j]] :
                 /\ <<order[j], d>> \in stored
                 /\ \A k \in DOMAIN Manifest[order[j]][d].deps :
                      LET dep == Manifest[order[j]][d].deps[k]
                      IN  dep.optional \/ \E i \in 1..(j - 1) : order[i] = dep.plugin
    <2> DEFINE p == order[j]
               d == lock[p]
    <2>1. p \in DOMAIN lock /\ d \in DOMAIN Manifest[p] /\ <<p, d>> \in stored
      <3>1. p \in DOMAIN lock
        BY <1>1
      <3> QED
        BY <3>1, Zenon DEF Choice
    <2>2. ASSUME NEW k \in DOMAIN Manifest[p][d].deps,
                 ~ Manifest[p][d].deps[k].optional
          PROVE  \E i \in 1..(j - 1) : order[i] = Manifest[p][d].deps[k].plugin
      <3> DEFINE q == Manifest[p][d].deps[k].plugin
      <3>1. q \in DOMAIN lock
        BY <2>1, <2>2, Zenon DEF Resolves, Satisfied
      <3>2. q \in Needs(lock, p)
        BY <2>1, Zenon DEF Needs, Deps
      <3>3. q \in Range(Edges(lock)[p])
        BY <2>1, <3>1, <3>2, EdgesOfSelected, Zenon
      <3> HIDE DEF q
      <3>4. PICK i \in DOMAIN Edges(lock)[p] : Edges(lock)[p][i] = q
        BY <3>3, Zenon DEF Range
      <3>5. \E i2 \in 1..(j - 1) : order[i2] = q
        BY <1>1, <3>4, Zenon DEF DependenciesFirst
      <3> QED
        BY <3>5, Zenon DEF q
    <2> HIDE DEF p, d
    <2>3. \A k \in DOMAIN Manifest[p][d].deps :
            LET dep == Manifest[p][d].deps[k]
            IN  dep.optional \/ \E i \in 1..(j - 1) : order[i] = dep.plugin
      BY <2>2, Zenon
    <2> QED
      BY <2>1, <2>3, Zenon DEF p
  <1>4. \A i, j \in DOMAIN order : order[i] = order[j] => i = j
    BY <1>1, Zenon DEF Distinct
  <1>5. ProductOK(order, stored)
    BY <1>3, <1>4, Zenon DEF ProductOK
  <1> QED
    BY <1>2, <1>5, Zenon DEF order

-----------------------------------------------------------------------------
(* What a command does to an installation.                                 *)

(* The installation that a command writes has a higher version, names a    *)
(* stored build that was not revoked, or is REVOKED or UNINSTALLED itself, *)
(* and rests only when it is idle.  What is selected then resolves, is     *)
(* what was selected, or lost a plugin that was revoked.                   *)
RowMoves(p, row) ==
  /\ row \in InstallationRow /\ row.state # "NONE"
  /\ row.version \in 1..MaxVersion /\ row.version > inst[p].version
  /\ row.caps \subseteq Manifest[p][row.digest].requests
  /\ row.state \in Resting => ~ HasActiveRuns(p)
  /\ inst[p].state = "REVOKED" => row.state = "REVOKED"

BuildsMove(p, row) ==
  /\ stored \subseteq stored' /\ stored' \subseteq Plugins \X Digests
  /\ \A q \in Plugins, d \in Digests :
       <<q, d>> \in stored' => <<q, d>> \in stored \/ BuildOK(q, d)
  /\ <<p, row.digest>> \in stored'
  /\ \A q \in Plugins \ {p}, d \in Digests :
       <<q, d>> \in revoked' => <<q, d>> \in revoked
  /\ <<p, row.digest>> \in revoked' => row.state \in {"REVOKED", "UNINSTALLED"}

SelectionMoves(p) ==
  \/ Resolves(Selected')
  \/ Selected' = Selected
  \/ Selected' = SelectedWithout(p) /\ inst'[p].state = "REVOKED"

InstallationMoves(p) ==
  \E row : /\ InstallationStep(p, row) /\ UNCHANGED runs
           /\ RowMoves(p, row) /\ BuildsMove(p, row) /\ SelectionMoves(p)

Unselected == {"NONE", "UNINSTALLED", "REVOKED"}

(* What is selected is what installations that are not over name.          *)
LEMMA SelectedIs ==
  /\ DOMAIN Selected = {q \in Plugins : inst[q].state \notin Unselected}
  /\ \A q \in DOMAIN Selected : Selected[q] = inst[q].digest
  BY Zenon DEF Selected, Unselected

(* How a command on one installation changes what is selected.             *)
LEMMA SelectedOf ==
  ASSUME RegistryTypeOK, NEW p \in Plugins, NEW row, InstallationStep(p, row)
  PROVE  /\ inst'[p] = row /\ \A q \in Plugins \ {p} : inst'[q] = inst[q]
         /\ row.state \notin Unselected => Selected' = SelectedWith(p, row.digest)
         /\ row.state \in Unselected => Selected' = SelectedWithout(p)
         /\ p \in DOMAIN Selected /\ row.state \notin Unselected /\ row.digest = inst[p].digest
              => Selected' = Selected
         /\ p \notin DOMAIN Selected /\ row.state \in Unselected => Selected' = Selected
  <1>1. inst'[p] = row /\ \A q \in Plugins \ {p} : inst'[q] = inst[q]
    BY Zenon DEF RegistryTypeOK, InstallationStep
  <1>2. Selected' = [q \in {r \in Plugins : inst'[r].state \notin Unselected} |-> inst'[q].digest]
    BY Zenon DEF Selected, Unselected
  <1>3. Selected = [q \in {r \in Plugins : inst[r].state \notin Unselected} |-> inst[q].digest]
    BY Zenon DEF Selected, Unselected
  <1> DEFINE D == {r \in Plugins : inst[r].state \notin Unselected}
             E == {r \in Plugins : inst'[r].state \notin Unselected}
  <1>4. DOMAIN Selected = D /\ \A q \in D : Selected[q] = inst[q].digest
    BY <1>3, Zenon
  <1>5. CASE row.state \notin Unselected
    <2>1. E = D \cup {p}
      BY <1>1, <1>5
    <2>2. \A q \in D \cup {p} : inst'[q].digest = IF q = p THEN row.digest ELSE inst[q].digest
      BY <1>1, Zenon
    <2> HIDE DEF D, E
    <2>3. Selected' = [q \in D \cup {p} |-> IF q = p THEN row.digest ELSE inst[q].digest]
      BY <1>2, <2>1, <2>2, Zenon DEF E
    <2>4. SelectedWith(p, row.digest) =
            [q \in D \cup {p} |-> IF q = p THEN row.digest ELSE inst[q].digest]
      BY <1>4, Zenon DEF SelectedWith
    <2>5. p \in D /\ row.digest = inst[p].digest => Selected' = Selected
      BY <1>3, <2>3, Zenon DEF D
    <2> QED
      BY <1>1, <1>4, <1>5, <2>3, <2>4, <2>5, Zenon
  <1>6. CASE row.state \in Unselected
    <2>1. E = D \ {p}
      BY <1>1, <1>6
    <2>2. \A q \in D \ {p} : inst'[q].digest = inst[q].digest
      BY <1>1, Zenon
    <2> HIDE DEF D, E
    <2>3. Selected' = [q \in D \ {p} |-> inst[q].digest]
      BY <1>2, <2>1, <2>2, Zenon DEF E
    <2>4. SelectedWithout(p) = [q \in D \ {p} |-> inst[q].digest]
      BY <1>4, Zenon DEF SelectedWithout
    <2>5. p \notin D => Selected' = Selected
      BY <1>3, <2>3, Zenon DEF D
    <2> QED
      BY <1>1, <1>4, <1>6, <2>3, <2>4, <2>5, Zenon
  <1> QED
    BY <1>5, <1>6, Zenon

(* What install and upgrade check before they write.                       *)
LEMMA ManifestIsSound ==
  ASSUME NEW p \in Plugins, NEW d \in Digests, Installable(p, d)
  PROVE  BuildOK(p, d) /\ Resolves(SelectedWith(p, d)) /\ <<p, d>> \notin revoked
  BY Zenon DEF Installable, BuildOK, Trusted

(* install_plugin moves an installation.                                   *)
LEMMA InstallMoves ==
  ASSUME RegistryInv, NEW p \in Plugins, NEW d \in Digests, InstallPlugin(p, d)
  PROVE  InstallationMoves(p)
  <1> DEFINE row == [state |-> "INSTALLED_DISABLED", digest |-> d, caps |-> {},
                     version |-> 1]
  <1>1. /\ InstallationStep(p, row) /\ runs' = runs /\ revoked' = revoked
        /\ inst[p].state = "NONE" /\ Installable(p, d)
        /\ stored' = stored \cup {<<p, d>>}
    BY Zenon DEF InstallPlugin, SavePluginVersion
  <1>2. /\ row.state = "INSTALLED_DISABLED" /\ row.digest = d /\ row.caps = {}
        /\ row.version = 1 /\ row \in InstallationRow
    BY Zenon DEF InstallationRow
  <1> HIDE DEF row
  <1>3. RegistryTypeOK /\ stored \subseteq Plugins \X Digests
    BY Zenon DEF RegistryInv, RegistryTypeOK
  <1>4. BuildOK(p, d) /\ Resolves(SelectedWith(p, d)) /\ <<p, d>> \notin revoked
    BY <1>1, ManifestIsSound, Zenon
  <1>5. RowMoves(p, row)
    <2>1. inst[p].version = 0 /\ MaxVersion \in Nat /\ 1 <= MaxVersion
      BY <1>1, <1>2, <1>3, PluginAssumption, Zenon
         DEF RegistryTypeOK, PluginAssumption, InstallationStep
    <2>2. ~ HasActiveRuns(p)
      BY <1>1, Zenon DEF RegistryInv, RestingAreIdle, Resting
    <2> QED
      BY <1>1, <1>2, <2>1, <2>2 DEF RowMoves
  <1>6. BuildsMove(p, row)
    BY <1>1, <1>2, <1>3, <1>4 DEF BuildsMove
  <1>7. Selected' = SelectedWith(p, d)
    BY <1>1, <1>2, <1>3, SelectedOf, Zenon DEF Unselected
  <1>8. SelectionMoves(p)
    BY <1>4, <1>7, Zenon DEF SelectionMoves
  <1> QED
    BY <1>1, <1>5, <1>6, <1>8, Zenon DEF InstallationMoves

(* What the commands on an installation that exists find.                  *)
LEMMA RowIs ==
  ASSUME RegistryInv, NEW p \in Plugins, inst[p].state # "NONE"
  PROVE  /\ RegistryTypeOK /\ stored \subseteq Plugins \X Digests
         /\ inst[p] \in InstallationRow /\ inst[p].version \in Nat
         /\ inst[p].version >= 1 /\ MaxVersion \in Nat
         /\ <<p, inst[p].digest>> \in stored
         /\ inst[p].caps \subseteq Manifest[p][inst[p].digest].requests
         /\ <<p, inst[p].digest>> \in revoked
              => inst[p].state \in {"REVOKED", "UNINSTALLED"}
         /\ inst[p].state \in Resting => ~ HasActiveRuns(p)
  <1>1. RegistryTypeOK /\ InstallationsFollowTheirBuild /\ RestingAreIdle
    BY Zenon DEF RegistryInv
  <1>2. MaxVersion \in Nat
    BY PluginAssumption, Zenon DEF PluginAssumption
  <1>3. /\ inst[p] \in InstallationRow /\ inst[p].version \in Nat /\ inst[p].version >= 1
        /\ stored \subseteq Plugins \X Digests
    BY <1>1, <1>2 DEF RegistryTypeOK
  <1> QED
    BY <1>1, <1>2, <1>3, Zenon
       DEF InstallationsFollowTheirBuild, RestingAreIdle

(* upgrade_plugin moves an installation.                                   *)
LEMMA UpgradeMoves ==
  ASSUME RegistryInv, NEW p \in Plugins, NEW d \in Digests, UpgradePlugin(p, d)
  PROVE  InstallationMoves(p)
  <1> DEFINE row == Upgraded(p, d)
  <1>1. /\ InstallationStep(p, row) /\ runs' = runs /\ revoked' = revoked
        /\ inst[p].state \in {"ENABLED", "DISABLED", "INSTALLED_DISABLED"}
        /\ Installable(p, d) /\ stored' = stored \cup {<<p, d>>}
    BY Zenon DEF UpgradePlugin, SavePluginVersion
  <1>2. /\ RegistryTypeOK /\ stored \subseteq Plugins \X Digests
        /\ inst[p] \in InstallationRow /\ inst[p].version \in Nat
        /\ MaxVersion \in Nat /\ (inst[p].state \in Resting => ~ HasActiveRuns(p))
    BY <1>1, RowIs, Zenon
  <1>3. /\ row.state = inst[p].state /\ row.digest = d
        /\ row.caps \subseteq Manifest[p][d].requests
        /\ row.version = inst[p].version + 1 /\ row \in InstallationRow
    <2>1. inst[p].version + 1 \in Nat
      BY <1>2
    <2>2. row \in InstallationRow
      BY <1>2, <2>1, Zenon DEF Upgraded, InstallationRow
    <2> QED
      BY <1>2, <2>2, Zenon DEF Upgraded, InstallationRow
  <1>4. row.version <= MaxVersion
    BY <1>1, Zenon DEF InstallationStep
  <1> HIDE DEF row
  <1>5. BuildOK(p, d) /\ Resolves(SelectedWith(p, d)) /\ <<p, d>> \notin revoked
    BY <1>1, ManifestIsSound, Zenon
  <1>6. RowMoves(p, row)
    <2>1. row.version \in 1..MaxVersion /\ row.version > inst[p].version
      BY <1>2, <1>3, <1>4
    <2> QED
      BY <1>1, <1>2, <1>3, <2>1, Zenon DEF RowMoves
  <1>7. BuildsMove(p, row)
    BY <1>1, <1>2, <1>3, <1>5 DEF BuildsMove
  <1>8. Selected' = SelectedWith(p, d)
    BY <1>1, <1>2, <1>3, SelectedOf, Zenon DEF Unselected
  <1>9. SelectionMoves(p)
    BY <1>5, <1>8, Zenon DEF SelectionMoves
  <1> QED
    BY <1>1, <1>6, <1>7, <1>9, Zenon DEF InstallationMoves

(* The commands that only move the state of an installation.               *)
LEMMA StateMoves ==
  ASSUME RegistryInv, NEW p \in Plugins, inst[p].state # "NONE",
         NEW row \in InstallationRow, InstallationStep(p, row),
         UNCHANGED <<stored, revoked, runs>>,
         row.digest = inst[p].digest, row.version > inst[p].version,
         row.caps \subseteq Manifest[p][row.digest].requests,
         row.state # "NONE", row.state \in Resting => ~ HasActiveRuns(p),
         inst[p].state = "REVOKED" => row.state = "REVOKED",
         <<p, row.digest>> \in revoked => row.state \in {"REVOKED", "UNINSTALLED"},
         SelectionMoves(p)
  PROVE  InstallationMoves(p)
  <1>1. /\ stored \subseteq Plugins \X Digests /\ <<p, inst[p].digest>> \in stored
        /\ inst[p].version \in Nat /\ MaxVersion \in Nat
    BY RowIs, Zenon
  <1>2. row.version \in Nat /\ row.version <= MaxVersion
    BY Zenon DEF InstallationRow, InstallationStep
  <1>3. row.version \in 1..MaxVersion
    BY <1>1, <1>2
  <1>4. RowMoves(p, row)
    BY <1>3, Zenon DEF RowMoves
  <1>5. BuildsMove(p, row)
    BY <1>1, Zenon DEF BuildsMove
  <1> QED
    BY <1>4, <1>5, Zenon DEF InstallationMoves

(* enable_plugin moves an installation.                                    *)
LEMMA EnableMoves ==
  ASSUME RegistryInv, NEW p \in Plugins, NEW caps \in SUBSET Capabilities,
         EnablePlugin(p, caps)
  PROVE  InstallationMoves(p)
  <1> DEFINE row == [inst[p] EXCEPT !.state = "ENABLED", !.caps = caps,
                                    !.version = @ + 1]
  <1>1. /\ InstallationStep(p, row) /\ UNCHANGED <<stored, revoked, runs>>
        /\ inst[p].state \in {"INSTALLED_DISABLED", "DISABLED"}
        /\ <<p, inst[p].digest>> \notin revoked
        /\ caps \subseteq Manifest[p][inst[p].digest].requests
    BY Zenon DEF EnablePlugin, Trusted
  <1>2. RegistryTypeOK /\ inst[p] \in InstallationRow /\ inst[p].version \in Nat
    BY <1>1, RowIs, Zenon
  <1>3. /\ row.state = "ENABLED" /\ row.digest = inst[p].digest /\ row.caps = caps
        /\ row.version = inst[p].version + 1 /\ row \in InstallationRow
    <2>1. inst[p].version + 1 \in Nat
      BY <1>2
    <2>2. row \in InstallationRow
      BY <1>2, <2>1, Zenon DEF InstallationRow
    <2> QED
      BY <1>2, <2>2, Zenon DEF InstallationRow
  <1> HIDE DEF row
  <1>4. p \in DOMAIN Selected
    BY <1>1, SelectedIs, Zenon DEF Unselected
  <1>5. SelectionMoves(p)
    BY <1>1, <1>2, <1>3, <1>4, SelectedOf, Zenon DEF SelectionMoves, Unselected
  <1>6. row.version > inst[p].version
    BY <1>2, <1>3
  <1> QED
    BY <1>1, <1>3, <1>5, <1>6, StateMoves, Zenon DEF Resting

(* disable_plugin moves an installation.                                   *)
LEMMA DisableMoves ==
  ASSUME RegistryInv, NEW p \in Plugins, DisablePlugin(p)
  PROVE  InstallationMoves(p)
  <1> DEFINE active == HasActiveRuns(p)
             more == IF inst[p].state = "ENABLED" /\ ~ active THEN 2 ELSE 1
             row == [inst[p] EXCEPT !.state = IF active THEN "DRAINING" ELSE "DISABLED",
                                    !.version = @ + more]
  <1>1. /\ InstallationStep(p, row) /\ UNCHANGED <<stored, revoked, runs>>
        /\ inst[p].state \in {"ENABLED", "DRAINING"}
    BY Zenon DEF DisablePlugin
  <1>2. /\ RegistryTypeOK /\ inst[p] \in InstallationRow /\ inst[p].version \in Nat
        /\ inst[p].caps \subseteq Manifest[p][inst[p].digest].requests
        /\ <<p, inst[p].digest>> \notin revoked
    BY <1>1, RowIs, Zenon
  <1>3. more \in Nat /\ more > 0
    OBVIOUS
  <1> HIDE DEF more
  <1>4. /\ row.state = (IF active THEN "DRAINING" ELSE "DISABLED")
        /\ row.digest = inst[p].digest /\ row.caps = inst[p].caps
        /\ row.version = inst[p].version + more /\ row \in InstallationRow
    <2>1. inst[p].version + more \in Nat
      BY <1>2, <1>3
    <2>2. row \in InstallationRow
      BY <1>2, <2>1, Zenon DEF InstallationRow
    <2> QED
      BY <1>2, <2>2, Zenon DEF InstallationRow
  <1> HIDE DEF row
  <1>5. row.version > inst[p].version
    BY <1>2, <1>3, <1>4
  <1>6. p \in DOMAIN Selected /\ row.state \notin Unselected
    BY <1>1, <1>4, SelectedIs, Zenon DEF Unselected
  <1>7. SelectionMoves(p)
    BY <1>1, <1>2, <1>4, <1>6, SelectedOf, Zenon DEF SelectionMoves
  <1>8. /\ row.state # "NONE" /\ inst[p].state # "NONE" /\ inst[p].state # "REVOKED"
        /\ row.state \in Resting => ~ HasActiveRuns(p)
    BY <1>1, <1>4, Zenon DEF Resting
  <1> QED
    BY <1>1, <1>2, <1>4, <1>5, <1>7, <1>8, StateMoves, Zenon

(* uninstall_plugin moves an installation.                                 *)
LEMMA UninstallMoves ==
  ASSUME RegistryInv, NEW p \in Plugins, UninstallPlugin(p)
  PROVE  InstallationMoves(p)
  <1> DEFINE row == [inst[p] EXCEPT !.state = "UNINSTALLED", !.caps = {},
                                    !.version = @ + 1]
  <1>1. /\ InstallationStep(p, row) /\ UNCHANGED <<stored, revoked, runs>>
        /\ inst[p].state \in {"INSTALLED_DISABLED", "DISABLED"}
        /\ ~ HasActiveRuns(p) /\ Resolves(SelectedWithout(p))
    BY Zenon DEF UninstallPlugin, RestResolves
  <1>2. RegistryTypeOK /\ inst[p] \in InstallationRow /\ inst[p].version \in Nat
    BY <1>1, RowIs, Zenon
  <1>3. /\ row.state = "UNINSTALLED" /\ row.digest = inst[p].digest /\ row.caps = {}
        /\ row.version = inst[p].version + 1 /\ row \in InstallationRow
    <2>1. inst[p].version + 1 \in Nat
      BY <1>2
    <2>2. row \in InstallationRow
      BY <1>2, <2>1, Zenon DEF InstallationRow
    <2> QED
      BY <1>2, <2>2, Zenon DEF InstallationRow
  <1> HIDE DEF row
  <1>4. Selected' = SelectedWithout(p)
    BY <1>1, <1>2, <1>3, SelectedOf, Zenon DEF Unselected
  <1>5. SelectionMoves(p)
    BY <1>1, <1>4, Zenon DEF SelectionMoves
  <1>6. row.version > inst[p].version
    BY <1>2, <1>3
  <1> QED
    BY <1>1, <1>3, <1>5, <1>6, StateMoves, Zenon

(* revoke_plugin moves an installation.                                    *)
LEMMA RevokeMoves ==
  ASSUME RegistryInv, NEW p \in Plugins, NEW d \in Digests, RevokePlugin(p, d)
  PROVE  InstallationMoves(p)
  <1> DEFINE row == RevokedInstallation(p, d)
  <1>1. /\ InstallationStep(p, row) /\ stored' = stored /\ runs' = runs
        /\ inst[p].state # "NONE" /\ revoked' = revoked \cup {<<p, d>>}
    BY Zenon DEF RevokePlugin
  <1>2. /\ RegistryTypeOK /\ inst[p] \in InstallationRow /\ inst[p].version \in Nat
        /\ MaxVersion \in Nat /\ stored \subseteq Plugins \X Digests
        /\ <<p, inst[p].digest>> \in stored
        /\ inst[p].caps \subseteq Manifest[p][inst[p].digest].requests
        /\ <<p, inst[p].digest>> \in revoked
             => inst[p].state \in {"REVOKED", "UNINSTALLED"}
        /\ inst[p].state \in Resting => ~ HasActiveRuns(p)
    BY <1>1, RowIs, Zenon
  <1>3. /\ row.state = (IF inst[p].digest = d /\ inst[p].state # "UNINSTALLED"
                        THEN "REVOKED" ELSE inst[p].state)
        /\ row.caps = (IF inst[p].digest = d THEN {} ELSE inst[p].caps)
        /\ row.digest = inst[p].digest /\ row.version = inst[p].version + 1
        /\ row \in InstallationRow
    <2>1. inst[p].version + 1 \in Nat
      BY <1>2
    <2>2. row \in InstallationRow
      BY <1>2, <2>1, Zenon DEF InstallationRow, RevokedInstallation
    <2> QED
      BY <1>2, <2>2 DEF InstallationRow, RevokedInstallation
  <1>4. row.version <= MaxVersion
    BY <1>1, Zenon DEF InstallationStep
  <1> HIDE DEF row
  <1>5. row.version \in 1..MaxVersion /\ row.version > inst[p].version
    BY <1>2, <1>3, <1>4
  <1>6. RowMoves(p, row)
    BY <1>1, <1>2, <1>3, <1>5 DEF RowMoves, Resting
  <1>7. BuildsMove(p, row)
    BY <1>1, <1>2, <1>3, Zenon DEF BuildsMove
  <1>8. SelectionMoves(p)
    <2>1. CASE row.state = "REVOKED"
      BY <1>1, <1>2, <2>1, SelectedOf, Zenon DEF SelectionMoves, Unselected
    <2>2. CASE row.state = inst[p].state
      <3>1. p \in DOMAIN Selected <=> row.state \notin Unselected
        BY <2>2, SelectedIs, Zenon
      <3> QED
        BY <1>1, <1>2, <1>3, <3>1, SelectedOf, Zenon DEF SelectionMoves
    <2> QED
      BY <1>3, <2>1, <2>2, Zenon
  <1> QED
    BY <1>1, <1>6, <1>7, <1>8, Zenon DEF InstallationMoves

-----------------------------------------------------------------------------
(* The steps of the registry.                                              *)

(* A selection stays coherent when more of it is gone.                     *)
LEMMA CoherentMonotone ==
  ASSUME NEW selected, NEW gone, Coherent(selected, gone), NEW more,
         gone \subseteq more
  PROVE  Coherent(selected, more)
  <1>1. \A dep : DependencyOK(selected, gone, dep) => DependencyOK(selected, more, dep)
    BY Zenon DEF DependencyOK
  <1> QED
    BY <1>1, Zenon DEF Coherent

(* The builds that are selected have manifests.                            *)
LEMMA SelectedIsAChoice ==
  RegistryTypeOK /\ StoredOK /\ InstallationsFollowTheirBuild => Choice(Selected)
  <1> SUFFICES ASSUME RegistryTypeOK, StoredOK, InstallationsFollowTheirBuild
               PROVE  Choice(Selected)
    BY Zenon
  <1>1. DOMAIN Selected \subseteq Plugins
    BY SelectedIs, Zenon
  <1>2. ASSUME NEW q \in DOMAIN Selected PROVE Selected[q] \in DOMAIN Manifest[q]
    <2>1. q \in Plugins /\ inst[q].state # "NONE" /\ Selected[q] = inst[q].digest
      BY SelectedIs, Zenon DEF Unselected
    <2>2. <<q, inst[q].digest>> \in stored
      BY <2>1, Zenon DEF InstallationsFollowTheirBuild
    <2>3. inst[q].digest \in Digests
      BY <2>2, Zenon DEF RegistryTypeOK
    <2>4. BuildOK(q, inst[q].digest)
      BY <2>1, <2>2, <2>3, Zenon DEF StoredOK
    <2> QED
      BY <2>1, <2>4, Zenon DEF BuildOK
  <1> QED
    BY <1>1, <1>2, Zenon DEF Choice

(* A command on an installation keeps the invariant of the registry.       *)
LEMMA InstallationMovesInv ==
  ASSUME RegistryInv, NEW p \in Plugins, InstallationMoves(p)
  PROVE  RegistryInv'
  <1>1. PICK row : /\ InstallationStep(p, row) /\ runs' = runs
                   /\ RowMoves(p, row) /\ BuildsMove(p, row) /\ SelectionMoves(p)
    BY Zenon DEF InstallationMoves
  <1>2. RegistryTypeOK /\ StoredOK
    BY Zenon DEF RegistryInv
  <1>3. /\ inst'[p] = row /\ \A q \in Plugins \ {p} : inst'[q] = inst[q]
        /\ inst' = [inst EXCEPT ![p] = row] /\ products' = products
    BY <1>1, <1>2, SelectedOf, Zenon DEF InstallationStep
  <1>4. RegistryTypeOK'
    <2>1. inst' \in [Plugins -> InstallationRow]
      BY <1>1, <1>2, <1>3, Zenon DEF RegistryTypeOK, RowMoves
    <2>2. \A q \in Plugins : IF inst'[q].state = "NONE" THEN inst'[q].version = 0
                             ELSE inst'[q].version \in 1..MaxVersion
      BY <1>1, <1>2, <1>3, Zenon DEF RegistryTypeOK, RowMoves
    <2> QED
      BY <1>1, <1>2, <1>3, <2>1, <2>2, Zenon DEF RegistryTypeOK, BuildsMove
  <1>5. StoredOK'
    <2>1. ASSUME NEW q \in Plugins, NEW d \in Digests, <<q, d>> \in stored'
          PROVE  BuildOK(q, d)
      BY <1>1, <1>2, <2>1, Zenon DEF BuildsMove, StoredOK
    <2> QED
      BY <2>1, Zenon DEF StoredOK
  <1>6. InstallationsFollowTheirBuild'
    <2>1. ASSUME NEW q \in Plugins, inst'[q].state # "NONE"
          PROVE  /\ <<q, inst'[q].digest>> \in stored'
                 /\ inst'[q].caps \subseteq Manifest[q][inst'[q].digest].requests
                 /\ <<q, inst'[q].digest>> \in revoked'
                      => inst'[q].state \in {"REVOKED", "UNINSTALLED"}
      <3>1. CASE q = p
        BY <1>1, <1>3, <3>1, Zenon DEF RowMoves, BuildsMove
      <3>2. CASE q # p
        <4>1. inst'[q] = inst[q]
          BY <1>3, <3>2, Zenon
        <4>2. /\ <<q, inst[q].digest>> \in stored
              /\ inst[q].caps \subseteq Manifest[q][inst[q].digest].requests
              /\ <<q, inst[q].digest>> \in revoked
                   => inst[q].state \in {"REVOKED", "UNINSTALLED"}
          BY <2>1, <4>1, Zenon DEF RegistryInv, InstallationsFollowTheirBuild
        <4>3. inst[q].digest \in Digests
          BY <1>2, <4>2, Zenon DEF RegistryTypeOK
        <4> QED
          BY <1>1, <3>2, <4>1, <4>2, <4>3, Zenon DEF BuildsMove
      <3> QED
        BY <3>1, <3>2, Zenon
    <2> QED
      BY <2>1, Zenon DEF InstallationsFollowTheirBuild
  <1>7. RestingAreIdle'
    <2>1. \A q \in Plugins : HasActiveRuns(q)' <=> HasActiveRuns(q)
      BY <1>1, Zenon DEF HasActiveRuns
    <2>2. ASSUME NEW q \in Plugins, inst'[q].state \in Resting PROVE ~ HasActiveRuns(q)
      BY <1>1, <1>3, <2>2, Zenon DEF RegistryInv, RestingAreIdle, RowMoves
    <2> QED
      BY <2>1, <2>2, Zenon DEF RestingAreIdle
  <1>8. Coherent(Selected, Gone)'
    <2>1. Gone \subseteq Gone'
      BY <1>1, <1>3, Zenon DEF Gone, RowMoves
    <2>2. inst'[p].state = "REVOKED" => p \in Gone'
      BY Zenon DEF Gone
    <2>3. Coherent(Selected, Gone) /\ Choice(Selected)
      BY <1>2, SelectedIsAChoice, Zenon DEF RegistryInv
    <2>4. Choice(Selected')
      <3>1. Choice(Selected)'
        BY <1>4, <1>5, <1>6, SelectedIsAChoice, PTL
      <3> QED
        BY <3>1, Zenon DEF Choice
    <2>5. PICK sel, gone : sel = Selected' /\ gone = Gone'
      BY Zenon
    <2>6. CASE Resolves(Selected')
      <3>1. Coherent(sel, gone)
        BY <2>4, <2>5, <2>6, WhatResolvesIsCoherent, Zenon
      <3> QED
        BY <2>5, <3>1, Zenon
    <2>7. CASE Selected' = Selected
      <3>1. Coherent(sel, gone)
        BY <2>1, <2>3, <2>5, <2>7, CoherentMonotone, Zenon
      <3> QED
        BY <2>5, <3>1, Zenon
    <2>8. CASE Selected' = SelectedWithout(p) /\ inst'[p].state = "REVOKED"
      <3>1. sel = [q \in DOMAIN Selected \ {p} |-> Selected[q]]
        BY <2>5, <2>8, Zenon DEF SelectedWithout
      <3>2. Gone \cup {p} \subseteq gone
        BY <2>1, <2>2, <2>5, <2>8, Zenon
      <3>3. Coherent(sel, gone)
        BY <2>3, <3>1, <3>2, CoherentWithout
      <3> QED
        BY <2>5, <3>3, Zenon
    <2> QED
      BY <1>1, <2>6, <2>7, <2>8, Zenon DEF SelectionMoves
  <1>9. ProductsStartInOrder'
    <2>1. ASSUME NEW q \in Products PROVE ProductOK(products'[q], stored')
      <3>1. ProductOK(products[q], stored)
        BY ProductsAreOK, Zenon DEF RegistryInv
      <3>2. stored \subseteq stored'
        BY <1>1, Zenon DEF BuildsMove
      <3> QED
        BY <1>3, <3>1, <3>2, ProductStaysOK, Zenon
    <2>2. (ProductsStartInOrder <=> \A q \in Products : ProductOK(products[q], stored))'
      BY ProductsAreOK, PTL
    <2> QED
      BY <2>1, <2>2, Zenon
  <1> QED
    BY <1>4, <1>5, <1>6, <1>7, <1>8, <1>9, Zenon DEF RegistryInv

(* Steps that leave the installations and builds alone.                    *)
LEMMA InstallationsStay ==
  ASSUME RegistryInv, UNCHANGED <<inst, stored, revoked>>,
         runs' \in [Runs -> RunRow], products' \in [Products -> Seq(Plugins)],
         \A p \in Plugins : inst[p].state \in Resting => ~ HasActiveRuns(p)',
         \A q \in Products : ProductOK(products'[q], stored)
  PROVE  RegistryInv'
  <1>1. RegistryTypeOK'
    BY Zenon DEF RegistryInv, RegistryTypeOK
  <1>2. StoredOK' /\ InstallationsFollowTheirBuild'
    BY Zenon DEF RegistryInv, StoredOK, InstallationsFollowTheirBuild
  <1>3. RestingAreIdle'
    BY Zenon DEF RestingAreIdle
  <1>4. Coherent(Selected, Gone)'
    <2>1. Selected' = Selected /\ Gone' = Gone
      BY Zenon DEF Selected, Gone
    <2>2. Coherent(Selected, Gone)
      BY Zenon DEF RegistryInv
    <2> QED
      BY <2>1, <2>2, Zenon
  <1>5. ProductsStartInOrder'
    <2>1. (ProductsStartInOrder <=> \A q \in Products : ProductOK(products[q], stored))'
      BY ProductsAreOK, PTL
    <2> QED
      BY <2>1, Zenon
  <1> QED
    BY <1>1, <1>2, <1>3, <1>4, <1>5, Zenon DEF RegistryInv

(* A step that leaves the registry alone keeps its invariant.              *)
LEMMA RegistryStays ==
  ASSUME RegistryInv, UNCHANGED <<inst, stored, revoked, runs, products>>
  PROVE  RegistryInv'
  <1>1. runs' \in [Runs -> RunRow] /\ products' \in [Products -> Seq(Plugins)]
    BY Zenon DEF RegistryInv, RegistryTypeOK
  <1>2. \A p \in Plugins : inst[p].state \in Resting => ~ HasActiveRuns(p)'
    BY Zenon DEF RegistryInv, RestingAreIdle, HasActiveRuns
  <1>3. \A q \in Products : ProductOK(products'[q], stored)
    BY ProductsAreOK, Zenon DEF RegistryInv
  <1> QED
    BY <1>1, <1>2, <1>3, InstallationsStay, Zenon

(* The start of a run keeps the invariant of the registry.                 *)
LEMMA StartRunInv ==
  ASSUME RegistryInv, NEW r \in Runs, NEW p \in Plugins, StartRun(r, p)
  PROVE  RegistryInv'
  <1> DEFINE row == [plugin |-> p, digest |-> inst[p].digest, active |-> TRUE]
  <1>1. /\ UNCHANGED <<inst, stored, revoked, products>> /\ inst[p].state = "ENABLED"
        /\ runs' = [runs EXCEPT ![r] = row]
    BY Zenon DEF StartRun, RegistryStep
  <1>2. runs \in [Runs -> RunRow] /\ inst \in [Plugins -> InstallationRow]
    BY Zenon DEF RegistryInv, RegistryTypeOK
  <1>3. row \in RunRow /\ row.plugin = p
    BY <1>2, Zenon DEF RunRow, InstallationRow
  <1> HIDE DEF row
  <1>4. runs' \in [Runs -> RunRow] /\ products' \in [Products -> Seq(Plugins)]
    BY <1>1, <1>2, <1>3, Zenon DEF RegistryInv, RegistryTypeOK
  <1>5. \A q \in Plugins : inst[q].state \in Resting => ~ HasActiveRuns(q)'
    BY <1>1, <1>2, <1>3, Zenon
       DEF RegistryInv, RestingAreIdle, HasActiveRuns, Resting
  <1>6. \A q \in Products : ProductOK(products'[q], stored)
    BY <1>1, ProductsAreOK, Zenon DEF RegistryInv
  <1> QED
    BY <1>1, <1>4, <1>5, <1>6, InstallationsStay, Zenon

(* The end of a run keeps the invariant of the registry.                   *)
LEMMA FinishRunInv ==
  ASSUME RegistryInv, NEW r \in Runs, FinishRun(r)
  PROVE  RegistryInv'
  <1>1. /\ UNCHANGED <<inst, stored, revoked, products>>
        /\ runs' = [runs EXCEPT ![r].active = FALSE]
    BY Zenon DEF FinishRun, RegistryStep
  <1>2. runs \in [Runs -> RunRow]
    BY Zenon DEF RegistryInv, RegistryTypeOK
  <1>3. runs' \in [Runs -> RunRow] /\ products' \in [Products -> Seq(Plugins)]
    BY <1>1, <1>2, Zenon DEF RegistryInv, RegistryTypeOK, RunRow
  <1>4. \A s \in Runs : runs'[s].plugin = runs[s].plugin /\ (runs'[s].active => runs[s].active)
    BY <1>1, <1>2, Zenon DEF RunRow
  <1>5. \A q \in Plugins : inst[q].state \in Resting => ~ HasActiveRuns(q)'
    BY <1>4, Zenon DEF RegistryInv, RestingAreIdle, HasActiveRuns
  <1>6. \A q \in Products : ProductOK(products'[q], stored)
    BY <1>1, ProductsAreOK, Zenon DEF RegistryInv
  <1> QED
    BY <1>1, <1>3, <1>5, <1>6, InstallationsStay, Zenon

(* A product is composed of builds that are installed.                     *)
LEMMA ComposeInv ==
  ASSUME RegistryInv, NEW q \in Products, NEW pinned \in SUBSET Plugins,
         ComposeProduct(q, pinned)
  PROVE  RegistryInv'
  <1> DEFINE lock == [p \in pinned |-> inst[p].digest]
             order == Resolution(lock).order
  <1>1. /\ UNCHANGED <<inst, stored, revoked, runs>>
        /\ \A p \in pinned : inst[p].state = "ENABLED"
        /\ Resolves(lock) /\ products' = [products EXCEPT ![q] = order]
    BY Zenon DEF ComposeProduct
  <1>2. ASSUME NEW p \in pinned
        PROVE  lock[p] \in DOMAIN Manifest[p] /\ <<p, lock[p]>> \in stored
    <2>1. <<p, inst[p].digest>> \in stored
      BY <1>1, Zenon DEF RegistryInv, InstallationsFollowTheirBuild
    <2>2. inst[p].digest \in Digests
      BY <2>1, Zenon DEF RegistryInv, RegistryTypeOK
    <2>3. BuildOK(p, inst[p].digest)
      BY <2>1, <2>2, Zenon DEF RegistryInv, StoredOK
    <2> QED
      BY <2>1, <2>3, Zenon DEF BuildOK
  <1>3. Choice(lock) /\ DOMAIN lock = pinned
    BY <1>2, Zenon DEF Choice
  <1> HIDE DEF lock
  <1>4. ProductOK(order, stored) /\ order \in Seq(Plugins)
    BY <1>1, <1>2, <1>3, ResolvedProductOK, Zenon
  <1> HIDE DEF order
  <1>5. products \in [Products -> Seq(Plugins)] /\ runs \in [Runs -> RunRow]
    BY Zenon DEF RegistryInv, RegistryTypeOK
  <1>6. /\ products' \in [Products -> Seq(Plugins)] /\ products'[q] = order
        /\ \A o \in Products \ {q} : products'[o] = products[o]
    BY <1>1, <1>4, <1>5, Zenon
  <1>7. \A o \in Products : ProductOK(products'[o], stored)
    <2>1. \A o \in Products : ProductOK(products[o], stored)
      BY ProductsAreOK, Zenon DEF RegistryInv
    <2> QED
      BY <1>4, <1>6, <2>1, Zenon
  <1>8. \A p \in Plugins : inst[p].state \in Resting => ~ HasActiveRuns(p)'
    BY <1>1, Zenon DEF RegistryInv, RestingAreIdle, HasActiveRuns
  <1> QED
    BY <1>1, <1>5, <1>6, <1>7, <1>8, InstallationsStay, Zenon

(* The empty registry satisfies its invariant.                             *)
LEMMA RegistryInvInit == PluginInit => RegistryInv
  <1> SUFFICES ASSUME PluginInit PROVE RegistryInv
    BY Zenon
  <1>1. /\ inst = [p \in Plugins |-> NotInstalled] /\ stored = {}
        /\ runs = [r \in Runs |-> NoRun] /\ products = [q \in Products |-> <<>>]
    BY Zenon DEF PluginInit
  <1>2. \A p \in Plugins : inst[p].state = "NONE" /\ inst[p].version = 0
    BY <1>1, Zenon DEF NotInstalled
  <1>3. RegistryTypeOK
    BY <1>1, <1>2
       DEF RegistryTypeOK, NotInstalled, NoRun, RunRow, InstallationRow
  <1>4. StoredOK /\ InstallationsFollowTheirBuild
    BY <1>1, <1>2, Zenon DEF StoredOK, InstallationsFollowTheirBuild
  <1>5. RestingAreIdle
    BY <1>1, Zenon DEF RestingAreIdle, HasActiveRuns, NoRun
  <1>6. Coherent(Selected, Gone)
    <2>1. DOMAIN Selected = {}
      BY <1>2, SelectedIs, Zenon DEF Unselected
    <2>2. DOMAIN Edges(Selected) = {}
      BY <2>1, Zenon DEF Edges
    <2> QED
      BY <2>1, <2>2, Zenon DEF Coherent, Acyclic
  <1>7. ProductsStartInOrder
    <2>1. \A q \in Products : products[q] = <<>>
      BY <1>1, Zenon
    <2>2. ProductOK(<<>>, stored)
      BY DEF ProductOK
    <2> QED
      BY <2>1, <2>2, ProductsAreOK, Zenon
  <1> QED
    BY <1>3, <1>4, <1>5, <1>6, <1>7, Zenon DEF RegistryInv

-----------------------------------------------------------------------------
(* The steps on grants and guests.                                         *)

(* Without grants and guests the invariants of authority hold.             *)
LEMMA AuthorityInit == PluginInit => DelegationInv /\ AuthorityInv
  <1> SUFFICES ASSUME PluginInit PROVE DelegationInv /\ AuthorityInv
    BY Zenon
  <1>1. DelegationInv
    BY DelegationInitInv, Zenon DEF PluginInit
  <1>2. \A g \in Grants : grants[g].resources = {}
    BY Zenon DEF PluginInit, DelegationInit, NoGrant
  <1>3. guest \in GuestRow /\ guest.pc = "IDLE"
    BY Zenon DEF PluginInit, NoGuest, GuestRow
  <1>4. seen \in [Grants -> [Plugins -> Digests \cup {"NULL"}]]
    BY Zenon DEF PluginInit
  <1> QED
    BY <1>1, <1>2, <1>3, <1>4, Zenon DEF AuthorityInv, GrantNamesBuild

(* A step that leaves grants and installations alone, and starts no guest. *)
LEMMA AuthorityStays ==
  ASSUME AuthorityInv, UNCHANGED <<grants, inst, seen>>,
         guest' = guest \/ guest' = NoGuest
  PROVE  AuthorityInv'
  <1>1. guest' \in GuestRow /\ (guest'.pc = "RUNNING" => guest' = guest)
    BY DEF AuthorityInv, NoGuest, GuestRow
  <1>2. \A g \in Grants, p \in Plugins : GrantNamesBuild(g, p)'
    BY Zenon DEF AuthorityInv, GrantNamesBuild, Ref
  <1> QED
    BY <1>1, <1>2, Zenon DEF AuthorityInv, Ref

(* A command on an installation makes the grants that name it useless.     *)
LEMMA InstallationMovesAuthority ==
  ASSUME RegistryInv, AuthorityInv, NEW p \in Plugins, InstallationMoves(p)
  PROVE  AuthorityInv'
  <1>1. PICK row : InstallationStep(p, row) /\ RowMoves(p, row)
    BY Zenon DEF InstallationMoves
  <1>2. RegistryTypeOK
    BY Zenon DEF RegistryInv
  <1>3. /\ inst'[p] = row /\ \A q \in Plugins \ {p} : inst'[q] = inst[q]
        /\ grants' = grants /\ seen' = seen /\ guest' = guest /\ guest.pc = "IDLE"
    BY <1>1, <1>2, SelectedOf, Zenon
       DEF InstallationStep, delegationVars, guestVars, Unlocked
  <1>4. ASSUME NEW g \in Grants, NEW q \in Plugins PROVE GrantNamesBuild(g, q)'
    <2>1. GrantNamesBuild(g, q)
      BY Zenon DEF AuthorityInv
    <2>2. CASE q # p
      BY <1>3, <2>1, <2>2, Zenon DEF GrantNamesBuild, Ref
    <2>3. CASE q = p
      <3>1. /\ inst[p].version \in Nat /\ row.version \in Nat
            /\ row.version > inst[p].version
        BY <1>1, <1>2, Zenon DEF RegistryTypeOK, InstallationRow, RowMoves
      <3>2. ASSUME NEW v \in Nat, <<p, v>> \in grants[g].resources
            PROVE  v <= row.version /\ v # row.version
        <4>1. v <= inst[p].version
          BY <2>1, <2>3, <3>2, Zenon DEF GrantNamesBuild
        <4> QED
          BY <3>1, <4>1
      <3> QED
        BY <1>3, <2>3, <3>1, <3>2, Zenon DEF GrantNamesBuild, Ref
    <2> QED
      BY <2>2, <2>3, Zenon
  <1> QED
    BY <1>3, <1>4, Zenon DEF AuthorityInv

(* A grant on installed builds keeps the invariants of authority.          *)
LEMMA GrantOnInv ==
  ASSUME DelegationInv, RegistryInv, AuthorityInv, NEW g \in Grants, NEW o \in Offers,
         NEW expires \in 1..MaxTime, NEW parent \in Grants \cup {"NULL"},
         GrantOn(g, o.creator, o.delegate, o.actions, o.on, expires, parent)
  PROVE  DelegationInv' /\ AuthorityInv'
  <1> DEFINE resources == {Ref(p) : p \in o.on}
             builds == [p \in Plugins |-> inst[p].digest]
  <1>1. /\ CreateGrant(g, o.creator, o.delegate, o.actions, resources, expires, parent)
        /\ \A p \in o.on : inst[p].state # "NONE"
        /\ seen' = [seen EXCEPT ![g] = builds]
        /\ inst' = inst /\ guest' = guest /\ guest.pc = "IDLE"
    BY Zenon DEF GrantOn, registryVars, guestVars, Unlocked
  <1>2. /\ o.creator \in Principals /\ o.delegate \in Principals
        /\ o.actions \in SUBSET Actions /\ o.on \subseteq Plugins
        /\ Plugins \X (1..MaxVersion) \subseteq Resources
    BY PluginAssumption, Zenon DEF PluginAssumption
  <1>3. RegistryTypeOK
    BY Zenon DEF RegistryInv
  <1>4. \A p \in Plugins : inst[p].version \in Nat /\ inst[p].digest \in Digests \cup {"NULL"}
    BY <1>3, Zenon DEF RegistryTypeOK, InstallationRow
  <1>5. resources \in SUBSET Resources
    <2>1. \A p \in o.on : Ref(p) \in Resources
      BY <1>1, <1>2, <1>3, Zenon DEF RegistryTypeOK, Ref
    <2> QED
      BY <2>1, Zenon
  <1>6. DelegationInv'
    <2> HIDE DEF resources
    <2> QED
      BY <1>1, <1>2, <1>5, CreateGrantInv, Zenon
  <1>7. /\ grants'[g].resources = resources /\ grants'[g].state = "ACTIVE"
        /\ \A h \in Grants \ {g} : grants'[h] = grants[h]
    <2> HIDE DEF resources
    <2>1. grants \in [Grants -> GrantRow]
      BY Zenon DEF DelegationInv, GrantTypeOK
    <2> QED
      BY <1>1, <2>1, Zenon DEF CreateGrant
  <1>8. /\ seen' \in [Grants -> [Plugins -> Digests \cup {"NULL"}]]
        /\ seen'[g] = builds /\ \A h \in Grants \ {g} : seen'[h] = seen[h]
    <2>1. builds \in [Plugins -> Digests \cup {"NULL"}]
      BY <1>4, Zenon
    <2> HIDE DEF builds
    <2> QED
      BY <1>1, <2>1, Zenon DEF AuthorityInv
  <1>9. ASSUME NEW h \in Grants, NEW p \in Plugins PROVE GrantNamesBuild(h, p)'
    <2>1. CASE h = g
      <3>1. \A v \in Nat : <<p, v>> \in resources => v = inst[p].version
        BY Zenon DEF Ref
      <3> HIDE DEF resources
      <3>2. \A v \in Nat : <<p, v>> \in grants'[h].resources => v <= inst'[p].version
        BY <1>1, <1>4, <1>7, <2>1, <3>1
      <3>3. seen'[h][p] = inst'[p].digest
        BY <1>1, <1>8, <2>1, Zenon
      <3> QED
        BY <3>2, <3>3, Zenon DEF GrantNamesBuild
    <2>2. CASE h # g
      <3>1. GrantNamesBuild(h, p)
        BY Zenon DEF AuthorityInv
      <3>2. grants'[h] = grants[h] /\ seen'[h] = seen[h] /\ inst' = inst
        BY <1>1, <1>7, <1>8, <2>2, Zenon
      <3> QED
        BY <3>1, <3>2, Zenon DEF GrantNamesBuild, Ref
    <2> QED
      BY <2>1, <2>2, Zenon
  <1>10. \A h \in Grants : grants'[h].state = "NONE" => grants'[h].resources = {}
    BY <1>7, Zenon DEF AuthorityInv
  <1>11. AuthorityInv'
    BY <1>1, <1>8, <1>9, <1>10, Zenon DEF AuthorityInv
  <1> QED
    BY <1>6, <1>11, Zenon

(* The revocation of a grant keeps the invariants of authority.            *)
LEMMA RevokeInv ==
  ASSUME DelegationInv, AuthorityInv, NEW g \in Grants, Revoke(g)
  PROVE  DelegationInv' /\ AuthorityInv'
  <1>1. /\ RevokeGrant(g) /\ inst' = inst /\ seen' = seen /\ guest' = guest
        /\ guest.pc = "IDLE"
    BY Zenon DEF Revoke, registryVars, guestVars, Unlocked
  <1>2. DelegationInv'
    BY <1>1, RevokeGrantInv, Zenon
  <1>3. \A h \in Grants : /\ grants'[h].resources = grants[h].resources
                          /\ grants'[h].state = "NONE" <=> grants[h].state = "NONE"
    BY <1>1, RevokeGrantRows, Zenon DEF DelegationInv
  <1>4. \A h \in Grants, p \in Plugins : GrantNamesBuild(h, p)'
    BY <1>1, <1>3, Zenon DEF AuthorityInv, GrantNamesBuild, Ref
  <1>5. AuthorityInv'
    BY <1>1, <1>3, <1>4, Zenon DEF AuthorityInv
  <1> QED
    BY <1>2, <1>5, Zenon

(* A guest starts on the build that its grant names.                       *)
LEMMA StartGuestInv ==
  ASSUME AuthorityInv, NEW g \in Grants, NEW p \in Plugins, NEW actor \in Principals,
         StartGuest(g, p, actor)
  PROVE  AuthorityInv'
  <1>1. /\ guest' = [pc |-> "RUNNING", plugin |-> p, grant |-> g, actor |-> actor]
        /\ Ref(p) \in grants[g].resources /\ UNCHANGED <<grants, inst, seen>>
    BY Zenon DEF StartGuest, MayInvoke, delegationVars, registryVars
  <1>2. guest' \in GuestRow /\ guest'.plugin = p /\ guest'.grant = g
    BY <1>1, Zenon DEF GuestRow
  <1>3. ASSUME NEW h \in Grants, NEW q \in Plugins PROVE GrantNamesBuild(h, q)'
    <2>1. GrantNamesBuild(h, q)
      BY Zenon DEF AuthorityInv
    <2> QED
      BY <1>1, <2>1, Zenon DEF GrantNamesBuild, Ref
  <1> QED
    BY <1>1, <1>2, <1>3, Zenon DEF AuthorityInv, Ref

-----------------------------------------------------------------------------
(* Every step.                                                             *)

(* A step that leaves the grants alone keeps their invariant.              *)
LEMMA DelegationUnchanged ==
  ASSUME DelegationInv, UNCHANGED delegationVars
  PROVE  DelegationInv'
  BY DelegationStepInv, Zenon

(* The commands of the registry keep the invariant and leave grants alone. *)
LEMMA RegistryKeepsInv ==
  ASSUME PluginInv, Registry
  PROVE  PluginInv' /\ UNCHANGED delegationVars
  <1>0. DelegationInv /\ RegistryInv /\ AuthorityInv
    BY Zenon DEF PluginInv
  <1>1. ASSUME NEW p \in Plugins, InstallationMoves(p)
        PROVE  PluginInv' /\ UNCHANGED delegationVars
    <2>1. UNCHANGED delegationVars
      BY <1>1, Zenon DEF InstallationMoves, InstallationStep
    <2>2. RegistryInv' /\ AuthorityInv'
      BY <1>0, <1>1, InstallationMovesInv, InstallationMovesAuthority, Zenon
    <2> QED
      BY <1>0, <2>1, <2>2, DelegationUnchanged, Zenon DEF PluginInv
  <1>2. ASSUME RegistryInv', UNCHANGED <<delegationVars, inst, seen, guestVars>>
        PROVE  PluginInv' /\ UNCHANGED delegationVars
    <2>1. AuthorityInv'
      BY <1>0, <1>2, AuthorityStays, Zenon DEF delegationVars, guestVars
    <2> QED
      BY <1>0, <1>2, <2>1, DelegationUnchanged, Zenon DEF PluginInv
  <1>3. ASSUME NEW p \in Plugins, NEW d \in Digests,
               \/ InstallPlugin(p, d) \/ UpgradePlugin(p, d) \/ RevokePlugin(p, d)
        PROVE  PluginInv' /\ UNCHANGED delegationVars
    BY <1>0, <1>1, <1>3, InstallMoves, UpgradeMoves, RevokeMoves, Zenon
  <1>4. ASSUME NEW p \in Plugins, NEW caps \in SUBSET Capabilities, EnablePlugin(p, caps)
        PROVE  PluginInv' /\ UNCHANGED delegationVars
    BY <1>0, <1>1, <1>4, EnableMoves, Zenon
  <1>5. ASSUME NEW p \in Plugins, DisablePlugin(p) \/ UninstallPlugin(p)
        PROVE  PluginInv' /\ UNCHANGED delegationVars
    BY <1>0, <1>1, <1>5, DisableMoves, UninstallMoves, Zenon
  <1>6. ASSUME NEW p \in Plugins, NEW r \in Runs, StartRun(r, p)
        PROVE  PluginInv' /\ UNCHANGED delegationVars
    BY <1>0, <1>2, <1>6, StartRunInv, Zenon DEF StartRun, RegistryStep
  <1>7. ASSUME NEW r \in Runs, FinishRun(r)
        PROVE  PluginInv' /\ UNCHANGED delegationVars
    BY <1>0, <1>2, <1>7, FinishRunInv, Zenon DEF FinishRun, RegistryStep
  <1>8. ASSUME NEW p, SetKillSwitch(p) PROVE PluginInv' /\ UNCHANGED delegationVars
    <2>1. UNCHANGED <<delegationVars, inst, stored, revoked, runs, products, seen, guestVars>>
      BY <1>8, Zenon DEF SetKillSwitch, RegistryStep
    <2> QED
      BY <1>0, <1>2, <2>1, RegistryStays, Zenon
  <1>9. ASSUME NEW p, NEW d, WithdrawTrust(p, d)
        PROVE  PluginInv' /\ UNCHANGED delegationVars
    <2>1. UNCHANGED <<delegationVars, inst, stored, revoked, runs, products, seen, guestVars>>
      BY <1>9, Zenon DEF WithdrawTrust, RegistryStep
    <2> QED
      BY <1>0, <1>2, <2>1, RegistryStays, Zenon
  <1>10. ASSUME NEW q \in Products, NEW pinned \in SUBSET Plugins, ComposeProduct(q, pinned)
         PROVE  PluginInv' /\ UNCHANGED delegationVars
    BY <1>0, <1>2, <1>10, ComposeInv, Zenon DEF ComposeProduct
  <1> QED
    BY <1>3, <1>4, <1>5, <1>6, <1>7, <1>8, <1>9, <1>10, Zenon DEF Registry

(* The commands on grants keep the invariant and are steps of Delegations. *)
LEMMA DelegationKeepsInv ==
  ASSUME PluginInv, Delegation
  PROVE  PluginInv' /\ [DelegationNext]_delegationVars
  <1>0. DelegationInv /\ RegistryInv /\ AuthorityInv
    BY Zenon DEF PluginInv
  <1>1. ASSUME NEW g \in Grants, NEW o \in Offers, NEW expires \in 1..MaxTime,
               NEW parent \in Grants \cup {"NULL"},
               GrantOn(g, o.creator, o.delegate, o.actions, o.on, expires, parent)
        PROVE  PluginInv' /\ [DelegationNext]_delegationVars
    <2>1. DelegationInv' /\ AuthorityInv'
      BY <1>0, <1>1, GrantOnInv, Zenon
    <2>2. RegistryInv'
      BY <1>0, <1>1, RegistryStays, Zenon DEF GrantOn, registryVars
    <2>3. DelegationNext
      <3> DEFINE resources == {Ref(p) : p \in o.on}
      <3>1. /\ CreateGrant(g, o.creator, o.delegate, o.actions, resources, expires, parent)
            /\ \A p \in o.on : inst[p].state # "NONE"
        BY <1>1, Zenon DEF GrantOn
      <3>2. /\ o.creator \in Principals /\ o.delegate \in Principals
            /\ o.actions \in SUBSET Actions /\ o.on \subseteq Plugins
            /\ Plugins \X (1..MaxVersion) \subseteq Resources
        BY PluginAssumption, Zenon DEF PluginAssumption
      <3>3. \A p \in o.on : Ref(p) \in Resources
        BY <1>0, <3>1, <3>2, Zenon DEF RegistryInv, RegistryTypeOK, Ref
      <3>4. resources \in SUBSET Resources
        BY <3>3, Zenon
      <3> HIDE DEF resources
      <3> QED
        BY <3>1, <3>2, <3>4, Zenon DEF DelegationNext
    <2> QED
      BY <2>1, <2>2, <2>3, Zenon DEF PluginInv
  <1>2. ASSUME NEW g \in Grants, Revoke(g)
        PROVE  PluginInv' /\ [DelegationNext]_delegationVars
    <2>1. DelegationInv' /\ AuthorityInv'
      BY <1>0, <1>2, RevokeInv, Zenon
    <2>2. RegistryInv'
      BY <1>0, <1>2, RegistryStays, Zenon DEF Revoke, registryVars
    <2>3. DelegationNext
      BY <1>2, Zenon DEF Revoke, DelegationNext
    <2> QED
      BY <2>1, <2>2, <2>3, Zenon DEF PluginInv
  <1>3. ASSUME Clock PROVE PluginInv' /\ [DelegationNext]_delegationVars
    <2>1. Tick /\ UNCHANGED <<registryVars, guestVars, seen>>
      BY <1>3, Zenon DEF Clock
    <2>2. DelegationNext
      BY <2>1, Zenon DEF DelegationNext
    <2>3. DelegationInv'
      BY <1>0, <2>2, DelegationStepInv, Zenon
    <2>4. RegistryInv'
      BY <1>0, <2>1, RegistryStays, Zenon DEF registryVars
    <2>5. AuthorityInv'
      BY <1>0, <2>1, AuthorityStays, Zenon DEF registryVars, guestVars, Tick
    <2> QED
      BY <2>2, <2>3, <2>4, <2>5, Zenon DEF PluginInv
  <1> QED
    BY <1>1, <1>2, <1>3, Zenon DEF Delegation

(* The steps of a guest keep the invariant and leave grants alone.         *)
LEMMA InvocationKeepsInv ==
  ASSUME PluginInv, Invocation
  PROVE  PluginInv' /\ UNCHANGED delegationVars
  <1>0. DelegationInv /\ RegistryInv /\ AuthorityInv
    BY Zenon DEF PluginInv
  <1>1. UNCHANGED <<delegationVars, registryVars, seen>>
    BY Zenon DEF Invocation, StartGuest, GuestReturns, GuestAbandoned, JobEnds
  <1>2. RegistryInv' /\ DelegationInv'
    BY <1>0, <1>1, RegistryStays, DelegationUnchanged, Zenon DEF registryVars
  <1>3. AuthorityInv'
    <2>1. UNCHANGED <<grants, inst, seen>>
      BY <1>1, Zenon DEF delegationVars, registryVars
    <2>2. ASSUME NEW g \in Grants, NEW p \in Plugins, NEW actor \in Principals,
                 StartGuest(g, p, actor)
          PROVE  AuthorityInv'
      BY <1>0, <2>2, StartGuestInv, Zenon
    <2>3. ASSUME GuestReturns \/ GuestAbandoned \/ JobEnds PROVE AuthorityInv'
      <3>1. guest' = guest \/ guest' = NoGuest
        BY <2>3, Zenon DEF GuestReturns, GuestAbandoned, JobEnds
      <3> QED
        BY <1>0, <2>1, <3>1, AuthorityStays, Zenon
    <2> QED
      BY <2>2, <2>3, Zenon DEF Invocation
  <1> QED
    BY <1>1, <1>2, <1>3, Zenon DEF PluginInv

(* Every step keeps the invariant and is a step of Delegations or a        *)
(* stutter.                                                                *)
LEMMA PluginStepInv ==
  PluginInv /\ [PluginNext]_pluginVars => PluginInv' /\ [DelegationNext]_delegationVars
  <1> SUFFICES ASSUME PluginInv, [PluginNext]_pluginVars
               PROVE  PluginInv' /\ [DelegationNext]_delegationVars
    BY Zenon
  <1>1. CASE Registry
    BY <1>1, RegistryKeepsInv, Zenon
  <1>2. CASE Delegation
    BY <1>2, DelegationKeepsInv, Zenon
  <1>3. CASE Invocation
    BY <1>3, InvocationKeepsInv, Zenon
  <1>4. CASE UNCHANGED pluginVars
    <2>1. UNCHANGED <<delegationVars, registryVars, guestVars, seen>>
      BY <1>4, Zenon DEF pluginVars
    <2>2. RegistryInv' /\ DelegationInv'
      BY <2>1, RegistryStays, DelegationUnchanged, Zenon
         DEF registryVars, PluginInv
    <2>3. AuthorityInv'
      BY <2>1, AuthorityStays, Zenon
         DEF PluginInv, delegationVars, registryVars, guestVars
    <2> QED
      BY <2>1, <2>2, <2>3, Zenon DEF PluginInv
  <1> QED
    BY <1>1, <1>2, <1>3, <1>4, Zenon DEF PluginNext

-----------------------------------------------------------------------------
(* The theorems about the registry.                                        *)

(* The inductive invariant of registry, grants and guests holds in every   *)
(* reachable state, for all manifests.                                     *)
THEOREM PluginInvariant == PluginSpec => []PluginInv
  <1>1. PluginInit => PluginInv
    BY RegistryInvInit, AuthorityInit, Zenon DEF PluginInv
  <1>2. PluginInv /\ [PluginNext]_pluginVars => PluginInv'
    BY PluginStepInv, Zenon
  <1> QED
    BY <1>1, <1>2, PTL DEF PluginSpec

(* The registry uses delegations as Delegations says: a grant is made only *)
(* of resources, by and to principals, and nothing else touches the table  *)
(* (create_grant, revoke_grant, invoke_plugin).                            *)
THEOREM PluginsDelegate == PluginSpec => DelegationSpec
  <1>1. PluginInit => DelegationInit
    BY Zenon DEF PluginInit
  <1>2. PluginInv /\ [PluginNext]_pluginVars => [DelegationNext]_delegationVars
    BY PluginStepInv, Zenon
  <1> QED
    BY <1>1, <1>2, PluginInvariant, PTL DEF PluginSpec, DelegationSpec

(* Whatever the registry does, revocation leaves no grant behind, and      *)
(* authority narrows on its way down (create_grant, revoke_grant).         *)
THEOREM PluginAuthorityNarrows == PluginSpec => []AuthorityFlowsDown
  BY PluginsDelegate, AuthorityOnlyNarrows, PTL

(* Across installs, upgrades to builds that request less, and revocations  *)
(* of any build, an installation names a stored build, has none but its    *)
(* capabilities, and is REVOKED or UNINSTALLED if it was revoked           *)
(* (enable_plugin, upgrade_plugin, revoke_plugin).                         *)
THEOREM InstallationsKeepToTheirBuild == PluginSpec => []InstallationsFollowTheirBuild
  <1>1. PluginInv => InstallationsFollowTheirBuild
    BY Zenon DEF PluginInv, RegistryInv
  <1> QED
    BY <1>1, PluginInvariant, PTL

(* A plugin that is disabled or uninstalled has no unfinished run of any   *)
(* build (disable_plugin, uninstall_plugin, start_run).                    *)
THEOREM RestingPluginsAreIdle == PluginSpec => []DisabledPluginsAreIdle
  <1>1. PluginInv => DisabledPluginsAreIdle
    BY Zenon
       DEF PluginInv, RegistryInv, RestingAreIdle, DisabledPluginsAreIdle,
           Resting, HasActiveRuns
  <1> QED
    BY <1>1, PluginInvariant, PTL

(* For all manifests: the selected plugins resolve unless one of them      *)
(* requires a plugin that was revoked.  Revocation is the one command that *)
(* does not resolve what it leaves; it never closes a cycle or breaks a    *)
(* range (verify_installation, uninstall_plugin, revoke_plugin).           *)
THEOREM SelectionKeepsResolving == PluginSpec => []OnlyRevocationBreaksResolution
  <1>1. ASSUME PluginInv PROVE OnlyRevocationBreaksResolution
    <2>1. Coherent(Selected, Gone) /\ Choice(Selected)
      BY <1>1, SelectedIsAChoice, Zenon DEF PluginInv, RegistryInv
    <2>2. CASE \A p \in DOMAIN Selected : \A i \in DOMAIN Deps(Selected, p) :
                 Deps(Selected, p)[i].plugin \in Gone => Deps(Selected, p)[i].optional
      BY <2>1, <2>2, WhatIsCoherentResolves, Zenon
         DEF OnlyRevocationBreaksResolution
    <2>3. ASSUME NEW p \in DOMAIN Selected, NEW i \in DOMAIN Deps(Selected, p),
                 Deps(Selected, p)[i].plugin \in Gone, ~ Deps(Selected, p)[i].optional
          PROVE  OnlyRevocationBreaksResolution
      BY <2>3, Zenon DEF OnlyRevocationBreaksResolution, Deps, Gone
    <2> QED
      BY <2>2, <2>3, Zenon
  <1> QED
    BY <1>1, PluginInvariant, PTL

(* For all workflows and manifests: no stored workflow goes round outside  *)
(* of a bounded loop, and every composed product starts each plugin once   *)
(* and after what it requires (validate_workflow, compose_product,         *)
(* DependencyGraph::resolve).                                              *)
THEOREM ResolutionStaysSound == PluginSpec => []ResolutionIsSound
  <1>1. ASSUME PluginInv PROVE StoredLoopsAreBounded
    <2>1. ASSUME NEW p \in Plugins, NEW d \in Digests, <<p, d>> \in stored,
                 NEW w \in Manifest[p][d].workflows, NEW S \in SUBSET DOMAIN w.nodes,
                 S # {}, \A n \in S : w.nodes[n] # "BOUNDED_LOOP"
          PROVE  \E n \in S : \A i \in DOMAIN w.edges :
                   w.edges[i].from = n => w.edges[i].to \notin S
      <3>1. BuildOK(p, d)
        BY <1>1, <2>1, Zenon DEF PluginInv, RegistryInv, StoredOK
      <3>2. ValidWorkflow(w, Manifest[p][d]) /\ d \in DOMAIN Manifest[p]
        BY <3>1, Zenon DEF BuildOK
      <3>3. IsFiniteSet(DOMAIN w.nodes) /\ w.edges \in Seq(Range(w.edges))
        BY <3>2, PluginAssumption, Zenon DEF PluginAssumption
      <3> QED
        BY <2>1, <3>2, <3>3, ValidWorkflowsAreBounded, Zenon
    <2> QED
      BY <2>1, Zenon DEF StoredLoopsAreBounded
  <1>2. PluginInv => ResolutionIsSound
    BY <1>1, Zenon DEF PluginInv, RegistryInv, ResolutionIsSound
  <1> QED
    BY <1>2, PluginInvariant, PTL

(* A guest runs the build that was installed when its grant was made: each *)
(* command on the installation moves the version the grant names           *)
(* (invoke_plugin, upgrade_plugin, create_grant).                          *)
THEOREM GuestsRunTheGrantedBuild == PluginSpec => []InvocationsRunTheGrantedBuild
  <1>1. PluginInv => InvocationsRunTheGrantedBuild
    BY
       DEF PluginInv, AuthorityInv, GrantNamesBuild,
           InvocationsRunTheGrantedBuild
  <1> QED
    BY <1>1, PluginInvariant, PTL

(* No step commits the output of a guest unless its grant and all grants   *)
(* above it are live then (invoke_plugin's second require_active_grant).   *)
THEOREM OutputsAreCovered == PluginSpec => OutputsNeedLiveGrants
  <1> DEFINE Covered == ~ committed /\ committed' =>
                          \A h \in Ancestry(guest.grant) : Live(h)
  <1>1. ASSUME [PluginNext]_pluginVars PROVE [Covered]_pluginVars
    <2>1. CASE Registry
      <3>1. committed' = committed
        BY <2>1, Zenon
           DEF Registry, InstallPlugin, UpgradePlugin, RevokePlugin,
               EnablePlugin, DisablePlugin, UninstallPlugin, InstallationStep,
               StartRun, FinishRun, SetKillSwitch, WithdrawTrust, RegistryStep,
               ComposeProduct, guestVars
      <3> QED
        BY <3>1, Zenon
    <2>2. CASE Delegation
      BY <2>2, Zenon DEF Delegation, GrantOn, Revoke, Clock, guestVars
    <2>3. CASE Invocation
      <3>1. CASE GuestReturns
        BY <3>1, Zenon DEF GuestReturns, StillActive, ActiveFor
      <3>2. CASE GuestAbandoned \/ JobEnds
        BY <3>2, Zenon DEF GuestAbandoned, JobEnds
      <3>3. ASSUME NEW g, NEW p, NEW actor, StartGuest(g, p, actor) PROVE Covered
        BY <3>3, Zenon DEF StartGuest
      <3> QED
        BY <2>3, <3>1, <3>2, <3>3, Zenon DEF Invocation
    <2> QED
      BY <1>1, <2>1, <2>2, <2>3, Zenon DEF PluginNext
  <1> QED
    BY <1>1, PTL DEF PluginSpec, OutputsNeedLiveGrants

=============================================================================
