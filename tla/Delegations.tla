---------------------------- MODULE Delegations -----------------------------
(***************************************************************************)
(* Delegated authority (data-postgres/src/delegation.rs): a grant gives a  *)
(* principal some actions on some resources until a time, may be passed on *)
(* in part to a child grant, and is revoked together with everything below *)
(* it.  A resource is named with its version, so a grant stops matching a  *)
(* resource that has changed.                                              *)
(***************************************************************************)
EXTENDS Naturals

CONSTANTS
  Grants,
  Principals,
  Actions,
  Resources,    \* ResourceRef: a name with a version
  MaxTime       \* bound on the clock

ASSUME DelegationAssumption ==
  /\ MaxTime \in Nat \ {0}
  /\ "NULL" \notin Grants \cup Principals

VARIABLES
  grants,       \* delegations; version and fence move together
  now

delegationVars == <<grants, now>>

NoGrant == [state |-> "NONE", creator |-> "NULL", delegate |-> "NULL",
            actions |-> {}, resources |-> {}, expires |-> 0,
            parent |-> "NULL", fence |-> 0]

DelegationInit ==
  /\ grants = [g \in Grants |-> NoGrant]
  /\ now = 0

(* The recursive ancestry query: every set that holds g and the parents of *)
(* its members holds these.                                                *)
Ancestry(g) ==
  {h \in Grants : \A S \in SUBSET Grants :
     (g \in S /\ \A k \in S : grants[k].parent # "NULL"
                              => grants[k].parent \in S) => h \in S}

(* Fault: the children of a revoked grant are left alone.                  *)
OnlyItself(g) == {g}

Descendants(g) == {h \in Grants : g \in Ancestry(h)}

Live(g) == grants[g].state = "ACTIVE" /\ now < grants[g].expires

(* require_active_grant without an action or a resource.                   *)
ActiveFor(g, actor) ==
  /\ \A h \in Ancestry(g) : Live(h)
  /\ actor \in {grants[g].creator, grants[g].delegate}

Narrows(parent, actions, resources, expires) ==
  /\ expires <= grants[parent].expires
  /\ actions \subseteq grants[parent].actions
  /\ resources \subseteq grants[parent].resources

ParentAllows(parent, actor, actions, resources, expires) ==
  parent # "NULL" => /\ ActiveFor(parent, actor)
                     /\ Narrows(parent, actions, resources, expires)

CreateGrant(g, actor, delegate, actions, resources, expires, parent) ==
  /\ grants[g].state = "NONE"
  /\ now < expires
  /\ actions # {} /\ resources # {}
  /\ ParentAllows(parent, actor, actions, resources, expires)
  /\ grants' = [grants EXCEPT ![g] =
                  [state |-> "ACTIVE", creator |-> actor,
                   delegate |-> delegate, actions |-> actions,
                   resources |-> resources, expires |-> expires,
                   parent |-> parent, fence |-> 1]]
  /\ UNCHANGED now

RevokedGrant(row) == [row EXCEPT !.state = "REVOKED", !.fence = @ + 1]

RevokeGrant(g) ==
  LET below == Descendants(g)
  IN  /\ grants[g].state = "ACTIVE"
      /\ grants' = [h \in Grants |->
                      IF h \in below /\ grants[h].state = "ACTIVE"
                      THEN RevokedGrant(grants[h])
                      ELSE grants[h]]
      /\ UNCHANGED now

Tick ==
  /\ now < MaxTime
  /\ now' = now + 1
  /\ UNCHANGED grants

DelegationNext ==
  \/ \E g \in Grants, p, q \in Principals, actions \in SUBSET Actions,
        resources \in SUBSET Resources, expires \in 1..MaxTime,
        parent \in Grants \cup {"NULL"} :
       CreateGrant(g, p, q, actions, resources, expires, parent)
  \/ \E g \in Grants : RevokeGrant(g)
  \/ Tick

DelegationSpec == DelegationInit /\ [][DelegationNext]_delegationVars

-----------------------------------------------------------------------------
GrantRow ==
  [state : {"NONE", "ACTIVE", "REVOKED"},
   creator : Principals \cup {"NULL"}, delegate : Principals \cup {"NULL"},
   actions : SUBSET Actions, resources : SUBSET Resources, expires : Nat,
   parent : Grants \cup {"NULL"}, fence : Nat]

(* The shape of the rows; a parent is a grant that was made.               *)
GrantTypeOK ==
  /\ grants \in [Grants -> GrantRow]
  /\ now \in Nat
  /\ \A g \in Grants : grants[g].parent # "NULL" =>
                         /\ grants[g].state # "NONE"
                         /\ grants[grants[g].parent].state # "NONE"

(* Revocation leaves no grant behind: a grant that is still ACTIVE has an  *)
(* ACTIVE parent, whichever ancestor was revoked and whenever the child    *)
(* was made (revoke_grant, create_grant).                                  *)
NoOrphanedAuthority ==
  \A g \in Grants :
    grants[g].state = "ACTIVE" /\ grants[g].parent # "NULL" =>
      grants[grants[g].parent].state = "ACTIVE"

(* Authority only narrows on its way down: no grant permits an action, a   *)
(* resource or a time that one of its ancestors does not (create_grant).   *)
AuthorityNarrows ==
  \A g \in Grants : \A h \in Ancestry(g) :
    /\ grants[g].actions \subseteq grants[h].actions
    /\ grants[g].resources \subseteq grants[h].resources
    /\ grants[g].expires <= grants[h].expires

(* Authority lives on what it was taken from: a grant is ACTIVE and allows *)
(* something only as long and as far as every grant above it.              *)
AuthorityFlowsDown == NoOrphanedAuthority /\ AuthorityNarrows

(* A revoked grant never becomes ACTIVE again, keeps its scope, and every  *)
(* change of a grant moves its fence (revoke_grant; the relay compares it  *)
(* with the fence a run was admitted under, verify_and_claim_run).         *)
FenceMovesWithState ==
  [][\A g \in Grants : grants[g].state # "NONE" /\ grants'[g] # grants[g]
       => /\ grants[g].state = "ACTIVE"
          /\ grants'[g] = [grants[g] EXCEPT !.state = "REVOKED",
                                            !.fence = @ + 1]]_delegationVars

=============================================================================
