---------------------------- MODULE Memberships -----------------------------
(***************************************************************************)
(* Who may act in a tenant: memberships, roles and invitations             *)
(* (data-postgres/src/identity_commands.rs), and the boundary every        *)
(* command crosses before it may write (host-api/src/runtime.rs,           *)
(* data-postgres/src/store.rs).                                            *)
(*                                                                         *)
(* A command is admitted on a snapshot of the caller's membership and of   *)
(* the policy, its body is read afterwards, and only then it executes in   *)
(* one transaction under the tenant's exclusive lock, which compares the   *)
(* snapshot with the rows again.  Anything may commit in between.  The     *)
(* Cedar policy is text the tenant chooses: every command it might permit  *)
(* is a step here, and a refused command changes nothing.                  *)
(***************************************************************************)
EXTENDS Naturals, FiniteSets

CONSTANTS
  Principals,
  Founder,          \* external: the owner a tenant is provisioned with
  Roles,            \* ALLOWED_ROLES; "OWNER" is the one the code names
  Emails,
  EmailOf,          \* the verified address of each identity; may be shared
  Invites,
  Keys,             \* idempotency keys that callers use again
  RetriedOps,       \* the operations an instance sends again
  Slots,            \* requests in flight
  MaxVersion,       \* bound on the version of a membership
  MaxPolicies       \* bound on policy epochs and on policy proposals

ASSUME MembershipAssumption ==
  /\ IsFiniteSet(Principals)
  /\ Founder \in Principals
  /\ "OWNER" \in Roles
  /\ EmailOf \in [Principals -> Emails]
  /\ "NULL" \notin Principals \cup Emails \cup Keys \cup Invites
  /\ MaxVersion \in Nat \ {0}
  /\ MaxPolicies \in Nat \ {0}

VARIABLES
  members,      \* the memberships row and membership_roles of a principal
  invites,      \* membership_invites
  policy,       \* epoch of the current authorization policy
  proposals,    \* policy_proposals; the version of the configuration is
                \* one more than their number
  requests,     \* the snapshots of admitted requests
  receipts,     \* command_receipts that have not expired
  vouched       \* history: principals whose roles an OWNER has granted

identityVars ==
  <<members, invites, policy, proposals, requests, receipts, vouched>>

RoleSets == (SUBSET Roles) \ {{}}

(* membership_epoch and permission_epoch move together and are one epoch.  *)
NoMember == [status |-> "NONE", roles |-> {}, epoch |-> 0, version |-> 0]

NoInvite == [state |-> "NONE", email |-> "NULL", roles |-> {},
             created_by |-> "NULL", key |-> "NULL", vouched |-> FALSE,
             retrieved |-> FALSE, expired |-> FALSE, consumed_by |-> "NULL"]

NoRequest == [pc |-> "IDLE", actor |-> "NULL", epoch |-> 0, policy |-> 0,
              roles |-> {}]

IdentityInit ==
  /\ members = [p \in Principals |->
                  IF p = Founder
                  THEN [status |-> "ACTIVE", roles |-> {"OWNER"},
                        epoch |-> 1, version |-> 1]
                  ELSE NoMember]
  /\ invites = [i \in Invites |-> NoInvite]
  /\ policy = 1
  /\ proposals = {}
  /\ requests = [s \in Slots |-> NoRequest]
  /\ receipts = {}
  /\ vouched = {Founder}

Active(p) == members[p].status = "ACTIVE"

HasRole(p, role) == role \in members[p].roles

Owners == {p \in Principals : Active(p) /\ HasRole(p, "OWNER")}

-----------------------------------------------------------------------------
(* The command boundary.                                                   *)

(* The roles are the ones the epoch stands for; the host hands on only the *)
(* epochs.                                                                 *)
CurrentAuthority(p) ==
  [pc |-> "ADMITTED", actor |-> p, epoch |-> members[p].epoch,
   policy |-> policy, roles |-> members[p].roles]

(* command_inner up to body_after_admission, verify_for_tenant.            *)
Admit(s, p) ==
  /\ requests[s].pc = "IDLE"
  /\ Active(p)
  /\ requests' = [requests EXCEPT ![s] = CurrentAuthority(p)]
  /\ UNCHANGED <<members, invites, policy, proposals, receipts, vouched>>

(* The answer of a request that commits nothing: a refusal, the replay of  *)
(* a live receipt, or a body that never arrives.                           *)
Return(s) ==
  /\ requests[s].pc = "ADMITTED"
  /\ requests' = [requests EXCEPT ![s] = NoRequest]
  /\ UNCHANGED <<members, invites, policy, proposals, receipts, vouched>>

Begin(s) ==
  LET row == members[requests[s].actor]
  IN  /\ requests[s].pc = "ADMITTED"
      /\ row.status = "ACTIVE"
      /\ row.epoch = requests[s].epoch
      /\ policy = requests[s].policy

(* Fault: nothing is looked up before the handler runs.                    *)
NoLookup(p, key, op) == p \in Principals

(* A live receipt answers the same command again and refuses another one   *)
(* under its key; either way nothing is dispatched.  "NULL" is a key that  *)
(* its caller never uses again.                                            *)
NoLiveReceipt(p, key, op) ==
  [principal |-> p, key |-> key, op |-> op] \notin receipts

ReceiptsWith(p, key, op) ==
  IF key = "NULL" THEN receipts
  ELSE receipts \cup {[principal |-> p, key |-> key, op |-> op]}

(* execute around the dispatched handler: one receipt per commit.          *)
Execute(s, key, op) ==
  LET p == requests[s].actor
  IN  /\ Begin(s)
      /\ NoLiveReceipt(p, key, op)
      /\ receipts' = ReceiptsWith(p, key, op)
      /\ requests' = [requests EXCEPT ![s] = NoRequest]

-----------------------------------------------------------------------------
(* Handlers of the dispatcher.                                             *)

(* Fault: a member may assign any role.                                    *)
AssignableByAnyone(actor, roles) == Active(actor)

(* require_assignable_roles.                                               *)
Assignable(actor, roles) ==
  \/ HasRole(actor, "OWNER")
  \/ "OWNER" \notin roles /\ roles \subseteq members[actor].roles

(* require_actor_can_manage_owner.                                         *)
MayManage(actor, target) ==
  HasRole(target, "OWNER") => HasRole(actor, "OWNER")

(* Fault: revoked owners count.                                            *)
NotLastOwnerRow(target) ==
  Cardinality({p \in Principals : HasRole(p, "OWNER")}) > 1

(* ensure_not_last_owner.                                                  *)
NotLastOwner(target) == Cardinality(Owners) > 1

InviteMembership(s, key, i, email, roles) ==
  LET actor == requests[s].actor
  IN  /\ Execute(s, key, "membership.invite")
      /\ invites[i].state = "NONE"
      /\ Assignable(actor, roles)
      /\ invites' = [invites EXCEPT ![i] =
           [NoInvite EXCEPT !.state = "PENDING", !.email = email,
                            !.roles = roles, !.created_by = actor,
                            !.key = key,
                            !.vouched = HasRole(actor, "OWNER")]]
      /\ UNCHANGED <<members, policy, proposals, vouched>>

(* Fault: a change of roles leaves the epochs alone.                       *)
ChangedMemberSameEpoch(target, roles) ==
  [members[target] EXCEPT !.roles = roles, !.version = @ + 1]

ChangedMember(target, roles) ==
  [members[target] EXCEPT !.roles = roles, !.version = @ + 1,
                          !.epoch = @ + 1]

ChangeMembership(s, key, target, expected, roles) ==
  LET actor == requests[s].actor
  IN  /\ Execute(s, key, "membership.change")
      /\ Assignable(actor, roles)
      /\ Active(target)
      /\ members[target].version = expected
      /\ expected < MaxVersion
      /\ MayManage(actor, target)
      /\ HasRole(target, "OWNER") /\ "OWNER" \notin roles
           => NotLastOwner(target)
      /\ members' = [members EXCEPT ![target] = ChangedMember(target, roles)]
      /\ vouched' = IF HasRole(actor, "OWNER")
                    THEN vouched \cup {target} ELSE vouched \ {target}
      /\ UNCHANGED <<invites, policy, proposals>>

RevokeMembership(s, key, target, expected) ==
  LET actor == requests[s].actor
  IN  /\ Execute(s, key, "membership.revoke")
      /\ Active(target)
      /\ members[target].version = expected
      /\ expected < MaxVersion
      /\ MayManage(actor, target)
      /\ HasRole(target, "OWNER") => NotLastOwner(target)
      /\ members' = [members EXCEPT ![target].status = "REVOKED",
                                    ![target].version = @ + 1,
                                    ![target].epoch = @ + 1]
      /\ UNCHANGED <<invites, policy, proposals, vouched>>

(* propose_policy: the row takes its base from the current policy, the     *)
(* projection reports the base the caller was admitted under.              *)
ProposePolicy(s, key, expected) ==
  /\ Execute(s, key, "policy.propose")
  /\ expected = Cardinality(proposals) + 1
  /\ expected < MaxPolicies
  /\ proposals' = proposals \cup
       {[version |-> expected + 1, base |-> policy,
         reported |-> requests[s].policy]}
  /\ UNCHANGED <<members, invites, policy, vouched>>

-----------------------------------------------------------------------------
(* Steps outside the dispatcher.                                           *)

RetrieveInviteSecret(s, i) ==
  LET actor == requests[s].actor
  IN  /\ Begin(s)
      /\ invites[i].state = "PENDING"
      /\ ~ invites[i].expired
      /\ invites[i].consumed_by = "NULL"
      /\ ~ invites[i].retrieved
      /\ \/ HasRole(actor, "OWNER")
         \/ HasRole(actor, "EDITOR") /\ invites[i].created_by = actor
      /\ invites' = [invites EXCEPT ![i].retrieved = TRUE]
      /\ requests' = [requests EXCEPT ![s] = NoRequest]
      /\ UNCHANGED <<members, policy, proposals, receipts, vouched>>

(* Fault: only an ACTIVE membership stands in the way.                     *)
NoActiveMembership(p) == ~ Active(p)

NoMembership(p) == members[p].status = "NONE"

(* A token is the key's MAC over the invitation and verifies for no other; *)
(* it leaves the server once, with the secret.                             *)
TokenIssued(i) == invites[i].retrieved

(* Fault: an invitation stays good until it expires.                       *)
InviteUnexpired(i) ==
  /\ TokenIssued(i)
  /\ ~ invites[i].expired

InviteUsable(i) ==
  /\ TokenIssued(i)
  /\ ~ invites[i].expired
  /\ invites[i].consumed_by = "NULL"

NewMember(i) == [status |-> "ACTIVE", roles |-> invites[i].roles,
                 epoch |-> 1, version |-> 1]

FinalizeAccept(p, key) ==
  receipts' = ReceiptsWith(p, key, "membership.accept")

(* execute_membership_accept_bootstrap.  The caller has a session and no   *)
(* membership, so no snapshot is compared.                                 *)
AcceptInvite(p, key, i) ==
  /\ NoLiveReceipt(p, key, "membership.accept")
  /\ InviteUsable(i)
  /\ invites[i].email = EmailOf[p]
  /\ NoMembership(p)
  /\ members' = [members EXCEPT ![p] = NewMember(i)]
  /\ invites' = [invites EXCEPT ![i].consumed_by = p]
  /\ FinalizeAccept(p, key)
  /\ vouched' = IF invites[i].vouched
                THEN vouched \cup {p} ELSE vouched \ {p}
  /\ UNCHANGED <<policy, proposals, requests>>

(* The clock passes expires_at; nothing asks for it after the acceptance.  *)
InviteExpires(i) ==
  /\ invites[i].state = "PENDING"
  /\ invites[i].consumed_by = "NULL"
  /\ ~ invites[i].expired
  /\ invites' = [invites EXCEPT ![i].expired = TRUE]
  /\ UNCHANGED <<members, policy, proposals, requests, receipts, vouched>>

(* The 24 hours of a receipt pass; its key is then free, and the           *)
(* invitation made under it no longer counts against the key.              *)
ReceiptExpires(r) ==
  /\ receipts' = receipts \ {r}
  /\ invites' = [i \in Invites |->
       IF r.op = "membership.invite"
          /\ invites[i].created_by = r.principal /\ invites[i].key = r.key
       THEN [invites[i] EXCEPT !.key = "NULL"]
       ELSE invites[i]]
  /\ UNCHANGED <<members, policy, proposals, requests, vouched>>

(* External: an operator makes another policy version the current one.     *)
PublishPolicy ==
  /\ policy < MaxPolicies
  /\ policy' = policy + 1
  /\ UNCHANGED <<members, invites, proposals, requests, receipts, vouched>>

-----------------------------------------------------------------------------
KeysOf(op) == IF op \in RetriedOps THEN Keys ELSE {"NULL"}

Command(s) ==
  \/ \E key \in KeysOf("membership.invite"), i \in Invites,
        email \in Emails, roles \in RoleSets :
       InviteMembership(s, key, i, email, roles)
  \/ \E key \in KeysOf("membership.change"), target \in Principals,
        expected \in 1 .. MaxVersion, roles \in RoleSets :
       ChangeMembership(s, key, target, expected, roles)
  \/ \E key \in KeysOf("membership.revoke"), target \in Principals,
        expected \in 1 .. MaxVersion :
       RevokeMembership(s, key, target, expected)
  \/ \E key \in KeysOf("policy.propose"), expected \in 1 .. MaxPolicies :
       ProposePolicy(s, key, expected)

IdentityNext ==
  \/ \E s \in Slots, p \in Principals : Admit(s, p)
  \/ \E s \in Slots : Return(s)
  \/ \E s \in Slots : Command(s)
  \/ \E s \in Slots, i \in Invites : RetrieveInviteSecret(s, i)
  \/ \E p \in Principals, key \in KeysOf("membership.accept"),
        i \in Invites : AcceptInvite(p, key, i)
  \/ \E i \in Invites : InviteExpires(i)
  \/ \E r \in receipts : ReceiptExpires(r)
  \/ PublishPolicy

IdentitySpec == IdentityInit /\ [][IdentityNext]_identityVars

-----------------------------------------------------------------------------
(* Properties.                                                             *)

MemberRow ==
  [status : {"NONE", "ACTIVE", "REVOKED"}, roles : SUBSET Roles,
   epoch : 0 .. MaxVersion, version : 0 .. MaxVersion]

InviteRow ==
  [state : {"NONE", "PENDING"}, email : Emails \cup {"NULL"},
   roles : SUBSET Roles, created_by : Principals \cup {"NULL"},
   key : Keys \cup {"NULL"}, vouched : BOOLEAN, retrieved : BOOLEAN,
   expired : BOOLEAN, consumed_by : Principals \cup {"NULL"}]

Request ==
  [pc : {"IDLE", "ADMITTED"}, actor : Principals \cup {"NULL"},
   epoch : 0 .. MaxVersion, policy : 0 .. MaxPolicies,
   roles : SUBSET Roles]

(* The rows have the types of their columns, an ACTIVE member holds at     *)
(* least one role, and a request that was admitted names its caller.       *)
IdentityTypeOK ==
  /\ members \in [Principals -> MemberRow]
  /\ \A p \in Principals : Active(p) => members[p].roles # {}
  /\ invites \in [Invites -> InviteRow]
  /\ policy \in 1 .. MaxPolicies
  /\ requests \in [Slots -> Request]
  /\ \A s \in Slots :
       requests[s].pc = "ADMITTED" => requests[s].actor \in Principals
  /\ vouched \subseteq Principals

(* A tenant is never left without an active owner, whatever changes and    *)
(* revocations of owners by one another race (ensure_not_last_owner).      *)
AlwaysAnOwner == Owners # {}

(* A command commits only while its caller is active and still holds the   *)
(* very roles, under the very policy, it was admitted on: every change of  *)
(* authority between the admission and the transaction is noticed (begin). *)
CommitsUnderAdmittedAuthority ==
  [][\A s \in Slots :
       requests[s].pc = "ADMITTED"
         /\ <<members, invites, proposals, receipts>>'
              # <<members, invites, proposals, receipts>>
         /\ requests'[s].pc = "IDLE"
       => /\ Active(requests[s].actor)
          /\ members[requests[s].actor].roles = requests[s].roles
          /\ policy = requests[s].policy]_identityVars

(* A revoked membership is never active again, not even through an         *)
(* invitation its principal still holds.                                   *)
RevocationIsFinal ==
  [][\A p \in Principals :
       members[p].status = "REVOKED" => members'[p].status = "REVOKED"
     ]_identityVars

(* One invitation admits one principal, also when two identities share     *)
(* the address it was sent to: whoever joined by an invitation is the one  *)
(* the invitation records, and nobody else joined without one.             *)
InvitationAdmitsOne ==
  /\ \A p \in Principals \ {Founder} :
       members[p].status # "NONE"
         => \E i \in Invites : invites[i].consumed_by = p
  /\ \A i, j \in Invites :
       invites[i].consumed_by = invites[j].consumed_by
         => i = j \/ invites[i].consumed_by = "NULL"

(* Every active owner was made one by an owner: directly, or by an         *)
(* invitation that an owner wrote, however long ago.                       *)
OwnersAreVouchedFor == Owners \subseteq vouched

(* While the receipt of an invitation is live, its key has created exactly *)
(* one invitation, however often the command is sent again (execute).      *)
OneInvitePerLiveKey ==
  \A r \in receipts :
    r.op = "membership.invite"
      => Cardinality({i \in Invites : /\ invites[i].created_by = r.principal
                                      /\ invites[i].key = r.key}) = 1

(* The base that a policy proposal reports to its author is the base its   *)
(* row records, and no two proposals share a version (propose_policy).     *)
ProposalsReportTheirBase ==
  /\ \A q \in proposals : q.base = q.reported
  /\ \A q, r \in proposals : q.version = r.version => q = r

=============================================================================
