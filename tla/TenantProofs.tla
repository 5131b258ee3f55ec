---------------------------- MODULE TenantProofs ----------------------------
(***************************************************************************)
(* The members of a tenant and its files, for any number of principals,    *)
(* roles, invitations, requests in flight, uploads and derived files.      *)
(*                                                                         *)
(* Members: the invariant relates a request to the row of its caller (the  *)
(* epoch it carries is not ahead, and stands for the roles it was admitted *)
(* with) and an invitation to whom it admitted.                            *)
(*                                                                         *)
(* Files: the invariant adds to the properties of Artifacts what is known  *)
(* of an attempt in flight, of a file whose upload is done but not         *)
(* finalized, and of a download between its checks.                        *)
(***************************************************************************)
EXTENDS Memberships, Artifacts, FiniteSetTheorems, TLAPS

-----------------------------------------------------------------------------
(* Members: the inductive invariant.                                       *)

(* Each change of a membership moves version and epoch together.           *)
MemberOK(p) == members[p].epoch = members[p].version

(* What an invitation carries, and whom it has admitted.                   *)
InviteOK(i) ==
  /\ invites[i].state = "NONE" => /\ ~ invites[i].retrieved
                                  /\ invites[i].consumed_by = "NULL"
  /\ invites[i].state = "PENDING" => invites[i].roles # {}
  /\ "OWNER" \in invites[i].roles => invites[i].vouched
  /\ invites[i].consumed_by # "NULL" =>
       members[invites[i].consumed_by].status # "NONE"

(* A request in flight carries an epoch its caller has or had, and while   *)
(* the caller still has it, the caller's roles.                            *)
RequestOK(s) ==
  requests[s].pc = "ADMITTED" =>
    /\ members[requests[s].actor].status # "NONE"
    /\ requests[s].epoch <= members[requests[s].actor].epoch
    /\ requests[s].epoch = members[requests[s].actor].epoch =>
         requests[s].roles = members[requests[s].actor].roles

IdentityInv ==
  /\ IdentityTypeOK
  /\ AlwaysAnOwner
  /\ OwnersAreVouchedFor
  /\ InvitationAdmitsOne
  /\ \A p \in Principals : MemberOK(p)
  /\ \A i \in Invites : InviteOK(i)
  /\ \A s \in Slots : RequestOK(s)

(* A provisioned tenant.                                                   *)
LEMMA IdentityInitInv == IdentityInit => IdentityInv
  <1> SUFFICES ASSUME IdentityInit PROVE IdentityInv
    BY Zenon
  <1> USE MembershipAssumption DEF MembershipAssumption
  <1> DEFINE founder == [status |-> "ACTIVE", roles |-> {"OWNER"},
                         epoch |-> 1, version |-> 1]
  <1>1. /\ members = [p \in Principals |-> IF p = Founder THEN founder
                                           ELSE NoMember]
        /\ founder \in MemberRow /\ NoMember \in MemberRow
    BY DEF IdentityInit, MemberRow, NoMember
  <1>2. NoInvite \in InviteRow /\ NoRequest \in Request
    BY DEF NoInvite, InviteRow, NoRequest, Request
  <1>3. IdentityTypeOK
    BY <1>1, <1>2
       DEF IdentityInit, IdentityTypeOK, Active, NoMember, NoRequest
  <1>4. Owners = {Founder}
    BY <1>1, Zenon DEF Owners, Active, HasRole, NoMember
  <1>5. AlwaysAnOwner /\ OwnersAreVouchedFor
    BY <1>4, Zenon DEF IdentityInit, AlwaysAnOwner, OwnersAreVouchedFor
  <1>6. InvitationAdmitsOne
    BY <1>1 DEF IdentityInit, InvitationAdmitsOne, NoMember, NoInvite
  <1>7. \A p \in Principals : MemberOK(p)
    BY <1>1, Zenon DEF MemberOK, NoMember
  <1>8. \A i \in Invites : InviteOK(i)
    BY Zenon DEF IdentityInit, InviteOK, NoInvite
  <1>9. \A s \in Slots : RequestOK(s)
    BY Zenon DEF IdentityInit, RequestOK, NoRequest
  <1> QED
    BY <1>3, <1>5, <1>6, <1>7, <1>8, <1>9, Zenon DEF IdentityInv

-----------------------------------------------------------------------------
(* What a step keeps.                                                      *)

(* No request appears, and the rows only move forward.                     *)
LEMMA RequestsKept ==
  ASSUME IdentityInv, requests' \in [Slots -> Request],
         members' \in [Principals -> MemberRow],
         \A s \in Slots : requests'[s] = requests[s]
                          \/ requests'[s].pc = "IDLE",
         \A p \in Principals :
           /\ members[p].status # "NONE" => members'[p].status # "NONE"
           /\ members[p].status # "NONE" => members[p].epoch <= members'[p].epoch
           /\ members[p].status # "NONE" /\ members[p].epoch = members'[p].epoch =>
                members'[p].roles = members[p].roles
  PROVE  /\ \A s \in Slots : RequestOK(s)'
         /\ \A s \in Slots :
              requests'[s].pc = "ADMITTED" => requests'[s].actor \in Principals
  <1> SUFFICES ASSUME NEW s \in Slots, requests'[s].pc = "ADMITTED"
               PROVE  RequestOK(s)' /\ requests'[s].actor \in Principals
    BY Zenon DEF RequestOK
  <1>1. requests'[s] = requests[s]
    BY Zenon
  <1>2. requests[s].actor \in Principals /\ RequestOK(s)
    BY <1>1, Zenon DEF IdentityInv, IdentityTypeOK
  <1> DEFINE p == requests[s].actor
  <1>3. /\ requests[s].epoch \in Nat /\ members[p].epoch \in Nat
        /\ members'[p].epoch \in Nat
    BY <1>2 DEF IdentityInv, IdentityTypeOK, Request, MemberRow
  <1> QED
    BY <1>1, <1>2, <1>3 DEF RequestOK

(* A request ends.                                                         *)
LEMMA RequestEnds ==
  ASSUME IdentityTypeOK, NEW s \in Slots,
         requests' = [requests EXCEPT ![s] = NoRequest]
  PROVE  /\ requests' \in [Slots -> Request]
         /\ requests'[s].pc = "IDLE"
         /\ \A k \in Slots : requests'[k] = requests[k]
                             \/ requests'[k].pc = "IDLE"
  <1>1. NoRequest \in Request /\ NoRequest.pc = "IDLE"
    BY MembershipAssumption DEF MembershipAssumption, NoRequest, Request
  <1> QED
    BY <1>1, Zenon DEF IdentityTypeOK

(* Without a change of members, requests and vouchers stand as they are.   *)
LEMMA MembersKept ==
  ASSUME IdentityInv, UNCHANGED <<members, vouched>>
  PROVE  /\ AlwaysAnOwner' /\ OwnersAreVouchedFor'
         /\ \A p \in Principals : MemberOK(p)'
         /\ members' \in [Principals -> MemberRow]
         /\ \A p \in Principals : Active(p)' => members'[p].roles # {}
         /\ vouched' \subseteq Principals
  BY Zenon DEF IdentityInv, IdentityTypeOK, AlwaysAnOwner, OwnersAreVouchedFor,
         Owners, Active, HasRole, MemberOK

(* Without a change of rows or invitations, what was admitted stands.      *)
LEMMA InvitesKept ==
  ASSUME IdentityInv, UNCHANGED invites,
         members' \in [Principals -> MemberRow],
         \A p \in Principals :
           (members'[p].status = "NONE") = (members[p].status = "NONE")
  PROVE  /\ invites' \in [Invites -> InviteRow]
         /\ \A i \in Invites : InviteOK(i)'
         /\ InvitationAdmitsOne'
  <1>1. invites \in [Invites -> InviteRow]
    BY Zenon DEF IdentityInv, IdentityTypeOK
  <1>2. \A i \in Invites : invites[i].consumed_by # "NULL" =>
          invites[i].consumed_by \in Principals
    BY <1>1, Zenon DEF InviteRow
  <1>3. \A i \in Invites : InviteOK(i)'
    BY <1>1, <1>2, Zenon DEF IdentityInv, InviteOK
  <1>4. InvitationAdmitsOne'
    BY Zenon DEF IdentityInv, InvitationAdmitsOne
  <1> QED
    BY <1>1, <1>3, <1>4, Zenon

(* An invitation is written: its consumer stays, and so does everyone's    *)
(* membership.                                                             *)
LEMMA InviteWritten ==
  ASSUME IdentityInv, UNCHANGED members,
         NEW i \in Invites, NEW row \in InviteRow,
         invites' = [invites EXCEPT ![i] = row],
         row.consumed_by = invites[i].consumed_by,
         row.state = "NONE" => ~ row.retrieved /\ row.consumed_by = "NULL",
         row.state = "PENDING" => row.roles # {},
         "OWNER" \in row.roles => row.vouched
  PROVE  /\ invites' \in [Invites -> InviteRow]
         /\ \A j \in Invites : InviteOK(j)'
         /\ InvitationAdmitsOne'
  <1>1. invites \in [Invites -> InviteRow]
    BY Zenon DEF IdentityInv, IdentityTypeOK
  <1>2. invites' \in [Invites -> InviteRow] /\ invites'[i] = row
        /\ \A j \in Invites \ {i} : invites'[j] = invites[j]
    BY <1>1, Zenon
  <1>3. \A j \in Invites : invites'[j].consumed_by = invites[j].consumed_by
    BY <1>2, Zenon
  <1>4. InviteOK(i)'
    BY <1>2, Zenon DEF IdentityInv, InviteOK
  <1>5. \A j \in Invites \ {i} : InviteOK(j)'
    BY <1>2, Zenon DEF IdentityInv, InviteOK
  <1>6. InvitationAdmitsOne'
    BY <1>3 DEF IdentityInv, InvitationAdmitsOne
  <1> QED
    BY <1>2, <1>4, <1>5, <1>6, Zenon

(* The policy stands or moves to the next version.                         *)
LEMMA IdentityFrame ==
  ASSUME IdentityInv, UNCHANGED <<members, invites, vouched>>,
         policy' \in 1 .. MaxPolicies,
         requests' \in [Slots -> Request],
         \A s \in Slots : requests'[s] = requests[s]
                          \/ requests'[s].pc = "IDLE"
  PROVE  IdentityInv'
  <1>1. members \in [Principals -> MemberRow]
    BY Zenon DEF IdentityInv, IdentityTypeOK
  <1>2. \A p \in Principals : members[p].epoch \in Nat
    BY <1>1 DEF MemberRow
  <1>3. /\ \A s \in Slots : RequestOK(s)'
        /\ \A s \in Slots :
             requests'[s].pc = "ADMITTED" => requests'[s].actor \in Principals
    BY <1>1, <1>2, RequestsKept
  <1>4. /\ invites' \in [Invites -> InviteRow]
        /\ \A i \in Invites : InviteOK(i)'
        /\ InvitationAdmitsOne'
    BY <1>1, InvitesKept, Zenon
  <1> QED
    BY <1>3, <1>4, MembersKept, Zenon DEF IdentityInv, IdentityTypeOK

(* The same for a step that also writes an invitation.                     *)
LEMMA InviteFrame ==
  ASSUME IdentityInv, UNCHANGED <<members, policy, vouched>>,
         requests' \in [Slots -> Request],
         \A s \in Slots : requests'[s] = requests[s]
                          \/ requests'[s].pc = "IDLE",
         invites' \in [Invites -> InviteRow],
         \A i \in Invites : InviteOK(i)',
         InvitationAdmitsOne'
  PROVE  IdentityInv'
  <1>1. members \in [Principals -> MemberRow]
    BY Zenon DEF IdentityInv, IdentityTypeOK
  <1>2. \A p \in Principals : members[p].epoch \in Nat
    BY <1>1 DEF MemberRow
  <1>3. /\ \A s \in Slots : RequestOK(s)'
        /\ \A s \in Slots :
             requests'[s].pc = "ADMITTED" => requests'[s].actor \in Principals
    BY <1>1, <1>2, RequestsKept
  <1> QED
    BY <1>3, MembersKept, Zenon DEF IdentityInv, IdentityTypeOK

-----------------------------------------------------------------------------
(* The actions.                                                            *)

(* Admission keeps the invariant.                                          *)
LEMMA AdmitInv ==
  ASSUME IdentityInv, NEW s \in Slots, NEW p \in Principals, Admit(s, p)
  PROVE  IdentityInv'
  <1> DEFINE row == CurrentAuthority(p)
  <1>1. members \in [Principals -> MemberRow] /\ policy \in 1 .. MaxPolicies
        /\ requests \in [Slots -> Request]
    BY Zenon DEF IdentityInv, IdentityTypeOK
  <1>2. /\ row \in Request /\ row.pc = "ADMITTED" /\ row.actor = p
        /\ row.epoch = members[p].epoch /\ row.roles = members[p].roles
        /\ row.epoch \in Nat
    BY <1>1, MembershipAssumption
       DEF MembershipAssumption, CurrentAuthority, Request, MemberRow
  <1>3. requests' = [requests EXCEPT ![s] = row] /\ Active(p)
        /\ UNCHANGED <<members, invites, policy, vouched>>
    BY Zenon DEF Admit
  <1> HIDE DEF row
  <1>4. requests' \in [Slots -> Request] /\ requests'[s] = row
        /\ \A k \in Slots \ {s} : requests'[k] = requests[k]
    BY <1>1, <1>2, <1>3, Zenon
  <1>5. RequestOK(s)'
    BY <1>2, <1>3, <1>4 DEF RequestOK, Active
  <1>6. \A k \in Slots \ {s} : RequestOK(k)'
    BY <1>3, <1>4, Zenon DEF IdentityInv, RequestOK
  <1>7. \A k \in Slots : requests'[k].pc = "ADMITTED" =>
          requests'[k].actor \in Principals
    BY <1>2, <1>4, Zenon DEF IdentityInv, IdentityTypeOK
  <1>8. /\ invites' \in [Invites -> InviteRow]
        /\ \A i \in Invites : InviteOK(i)'
        /\ InvitationAdmitsOne'
    BY <1>1, <1>3, InvitesKept, Zenon
  <1>9. policy' \in 1 .. MaxPolicies
    BY <1>1, <1>3, Zenon
  <1> QED
    BY <1>3, <1>4, <1>5, <1>6, <1>7, <1>8, <1>9, MembersKept, Zenon
       DEF IdentityInv, IdentityTypeOK


(* What the comparison inside the transaction establishes of the caller.   *)
LEMMA BeginFacts ==
  ASSUME IdentityInv, NEW s \in Slots, Begin(s)
  PROVE  /\ requests[s].actor \in Principals
         /\ Active(requests[s].actor)
         /\ members[requests[s].actor].roles = requests[s].roles
         /\ policy = requests[s].policy
  BY Zenon DEF IdentityInv, IdentityTypeOK, RequestOK, Begin, Active

(* The end of a command keeps the invariant.                               *)
LEMMA ReturnInv ==
  ASSUME IdentityInv, NEW s \in Slots, Return(s)
  PROVE  IdentityInv'
  <1>1. UNCHANGED <<members, invites, vouched, policy>>
        /\ requests' = [requests EXCEPT ![s] = NoRequest]
    BY Zenon DEF Return
  <1>2. IdentityTypeOK /\ policy' \in 1 .. MaxPolicies
    BY <1>1, Zenon DEF IdentityInv, IdentityTypeOK
  <1> QED
    BY <1>1, <1>2, RequestEnds, IdentityFrame, Zenon

(* invite_membership keeps the invariant.                                  *)
LEMMA InviteMembershipInv ==
  ASSUME IdentityInv, NEW s \in Slots, NEW key \in Keys \cup {"NULL"},
         NEW i \in Invites, NEW email \in Emails, NEW roles \in RoleSets,
         InviteMembership(s, key, i, email, roles)
  PROVE  IdentityInv'
  <1> DEFINE actor == requests[s].actor
             row == [NoInvite EXCEPT !.state = "PENDING", !.email = email,
                                     !.roles = roles, !.created_by = actor,
                                     !.key = key,
                                     !.vouched = HasRole(actor, "OWNER")]
  <1>1. /\ invites' = [invites EXCEPT ![i] = row]
        /\ Begin(s) /\ Assignable(actor, roles)
        /\ invites[i].state = "NONE"
        /\ UNCHANGED <<members, policy, vouched>>
        /\ requests' = [requests EXCEPT ![s] = NoRequest]
    BY Zenon DEF InviteMembership, Execute
  <1>2. actor \in Principals
    BY <1>1, BeginFacts, Zenon
  <1>3. HasRole(actor, "OWNER") \in BOOLEAN
    BY DEF HasRole
  <1>4. row \in InviteRow
    BY <1>3, <1>2, Zenon DEF NoInvite, InviteRow, RoleSets
  <1>5. /\ row.state = "PENDING" /\ row.roles = roles
        /\ row.consumed_by = "NULL" /\ row.vouched = HasRole(actor, "OWNER")
    BY Zenon DEF NoInvite
  <1>6. "OWNER" \in roles => HasRole(actor, "OWNER")
    BY <1>1, Zenon DEF Assignable
  <1>7. roles # {}
    BY Zenon DEF RoleSets
  <1>8. invites[i].consumed_by = "NULL"
    BY <1>1, Zenon DEF IdentityInv, InviteOK
  <1> HIDE DEF row, actor
  <1>9. /\ invites' \in [Invites -> InviteRow]
        /\ \A j \in Invites : InviteOK(j)'
        /\ InvitationAdmitsOne'
    BY <1>1, <1>4, <1>5, <1>6, <1>8, <1>7, InviteWritten, Zenon
  <1>10. IdentityTypeOK
    BY Zenon DEF IdentityInv
  <1> QED
    BY <1>1, <1>9, <1>10, RequestEnds, InviteFrame, Zenon

(* retrieve_invite_secret keeps the invariant.                             *)
LEMMA RetrieveInviteSecretInv ==
  ASSUME IdentityInv, NEW s \in Slots, NEW i \in Invites,
         RetrieveInviteSecret(s, i)
  PROVE  IdentityInv'
  <1> DEFINE row == [invites[i] EXCEPT !.retrieved = TRUE]
  <1>1. invites[i] \in InviteRow /\ InviteOK(i) /\ IdentityTypeOK
    BY Zenon DEF IdentityInv, IdentityTypeOK
  <1>2. /\ row \in InviteRow
        /\ row.state = invites[i].state /\ row.roles = invites[i].roles
        /\ row.consumed_by = invites[i].consumed_by
        /\ row.vouched = invites[i].vouched
    BY <1>1, Zenon DEF InviteRow
  <1>3. /\ invites' = [invites EXCEPT ![i] = row]
        /\ invites[i].state = "PENDING"
        /\ UNCHANGED <<members, policy, vouched>>
        /\ requests' = [requests EXCEPT ![s] = NoRequest]
    BY <1>1, Zenon DEF RetrieveInviteSecret, IdentityTypeOK
  <1> HIDE DEF row
  <1>4. /\ invites' \in [Invites -> InviteRow]
        /\ \A j \in Invites : InviteOK(j)'
        /\ InvitationAdmitsOne'
    BY <1>1, <1>2, <1>3, InviteWritten, Zenon DEF InviteOK
  <1> QED
    BY <1>1, <1>3, <1>4, RequestEnds, InviteFrame, Zenon

(* The expiry of an invite keeps the invariant.                            *)
LEMMA InviteExpiresInv ==
  ASSUME IdentityInv, NEW i \in Invites, InviteExpires(i)
  PROVE  IdentityInv'
  <1> DEFINE row == [invites[i] EXCEPT !.expired = TRUE]
  <1>1. invites[i] \in InviteRow /\ InviteOK(i) /\ requests \in [Slots -> Request]
    BY Zenon DEF IdentityInv, IdentityTypeOK
  <1>2. /\ row \in InviteRow
        /\ row.state = invites[i].state /\ row.roles = invites[i].roles
        /\ row.consumed_by = invites[i].consumed_by
        /\ row.retrieved = invites[i].retrieved
        /\ row.vouched = invites[i].vouched
    BY <1>1, Zenon DEF InviteRow
  <1>3. /\ invites' = [invites EXCEPT ![i] = row]
        /\ UNCHANGED <<members, policy, vouched, requests>>
    BY <1>1, Zenon DEF InviteExpires
  <1> HIDE DEF row
  <1>4. /\ invites' \in [Invites -> InviteRow]
        /\ \A j \in Invites : InviteOK(j)'
        /\ InvitationAdmitsOne'
    BY <1>1, <1>2, <1>3, InviteWritten, Zenon DEF InviteOK
  <1> QED
    BY <1>1, <1>3, <1>4, InviteFrame, Zenon

(* The expiry of a receipt keeps the invariant.                            *)
LEMMA ReceiptExpiresInv ==
  ASSUME IdentityInv, NEW r, ReceiptExpires(r)
  PROVE  IdentityInv'
  <1>1. invites \in [Invites -> InviteRow] /\ requests \in [Slots -> Request]
    BY Zenon DEF IdentityInv, IdentityTypeOK
  <1>2. UNCHANGED <<members, policy, vouched, requests>>
    BY Zenon DEF ReceiptExpires
  <1>3. \A i \in Invites :
          /\ invites'[i] \in InviteRow
          /\ invites'[i].state = invites[i].state
          /\ invites'[i].roles = invites[i].roles
          /\ invites'[i].consumed_by = invites[i].consumed_by
          /\ invites'[i].retrieved = invites[i].retrieved
          /\ invites'[i].vouched = invites[i].vouched
    BY <1>1 DEF ReceiptExpires, InviteRow
  <1>4. invites' \in [Invites -> InviteRow]
    BY <1>3, Zenon DEF ReceiptExpires
  <1>5. \A i \in Invites : InviteOK(i)'
    BY <1>2, <1>3 DEF IdentityInv, InviteOK
  <1>6. InvitationAdmitsOne'
    BY <1>2, <1>3 DEF IdentityInv, InvitationAdmitsOne
  <1> QED
    BY <1>1, <1>2, <1>4, <1>5, <1>6, InviteFrame, Zenon


(* A member's row moves on: the new row keeps a role, raises the epoch,    *)
(* and leaves an owner.                                                    *)
LEMMA MemberWritten ==
  ASSUME IdentityInv, NEW s \in Slots, NEW t \in Principals,
         NEW row \in MemberRow,
         members[t].status # "NONE", row.status # "NONE",
         row.status = "ACTIVE" => row.roles # {},
         row.epoch = row.version, members[t].epoch < row.epoch,
         members' = [members EXCEPT ![t] = row],
         requests' = [requests EXCEPT ![s] = NoRequest],
         UNCHANGED <<invites, policy>>,
         vouched' \subseteq Principals,
         AlwaysAnOwner', OwnersAreVouchedFor'
  PROVE  IdentityInv'
  <1>1. members \in [Principals -> MemberRow] /\ IdentityTypeOK
    BY Zenon DEF IdentityInv, IdentityTypeOK
  <1>2. /\ members' \in [Principals -> MemberRow] /\ members'[t] = row
        /\ \A p \in Principals \ {t} : members'[p] = members[p]
    BY <1>1, Zenon
  <1>3. \A p \in Principals : members[p].epoch \in Nat /\ members'[p].epoch \in Nat
    BY <1>1, <1>2 DEF MemberRow
  <1>4. \A p \in Principals : members[p].epoch <= members'[p].epoch
    BY <1>2, <1>3
  <1>5. \A p \in Principals : members[p].epoch = members'[p].epoch =>
          members'[p].roles = members[p].roles
    BY <1>2, <1>3
  <1>6. \A p \in Principals :
          (members'[p].status = "NONE") = (members[p].status = "NONE")
    BY <1>2, Zenon
  <1>7. /\ requests' \in [Slots -> Request]
        /\ \A k \in Slots : requests'[k] = requests[k]
                            \/ requests'[k].pc = "IDLE"
    BY <1>1, RequestEnds, Zenon
  <1>8. /\ \A k \in Slots : RequestOK(k)'
        /\ \A k \in Slots :
             requests'[k].pc = "ADMITTED" => requests'[k].actor \in Principals
    BY <1>2, <1>4, <1>5, <1>6, <1>7, RequestsKept, Zenon
  <1>9. /\ invites' \in [Invites -> InviteRow]
        /\ \A i \in Invites : InviteOK(i)'
        /\ InvitationAdmitsOne'
    BY <1>2, <1>6, InvitesKept, Zenon
  <1>10. \A p \in Principals : MemberOK(p)'
    BY <1>2, Zenon DEF IdentityInv, MemberOK
  <1>11. \A p \in Principals : Active(p)' => members'[p].roles # {}
    BY <1>1, <1>2, Zenon DEF IdentityTypeOK, Active
  <1>12. policy' \in 1 .. MaxPolicies
    BY <1>1, Zenon DEF IdentityTypeOK
  <1> QED
    BY <1>2, <1>7, <1>8, <1>9, <1>10, <1>11, <1>12, Zenon
       DEF IdentityInv, IdentityTypeOK

(* More than one owner is more than this one.                              *)
LEMMA AnotherOwner ==
  ASSUME NEW t, NotLastOwner(t)
  PROVE  \E o \in Owners : o # t
  <1> SUFFICES ASSUME Owners \subseteq {t} PROVE FALSE
    BY Zenon
  <1>1. IsFiniteSet({t}) /\ Cardinality({t}) = 1
    BY FS_Singleton, Zenon
  <1>2. IsFiniteSet(Owners) /\ Cardinality(Owners) <= Cardinality({t})
    BY <1>1, FS_Subset, Zenon
  <1>3. Cardinality(Owners) \in Nat
    BY <1>2, FS_CardinalityType, Zenon
  <1> QED
    BY <1>1, <1>2, <1>3 DEF NotLastOwner

(* The owners after a row is written.                                      *)
LEMMA OwnersWritten ==
  ASSUME IdentityInv, NEW t \in Principals, NEW row,
         members' = [members EXCEPT ![t] = row],
         vouched \ {t} \subseteq vouched',
         row.status = "ACTIVE" /\ "OWNER" \in row.roles => t \in vouched',
         \/ row.status = "ACTIVE" /\ "OWNER" \in row.roles
         \/ t \notin Owners
         \/ NotLastOwner(t)
  PROVE  AlwaysAnOwner' /\ OwnersAreVouchedFor'
  <1>1. /\ members'[t] = row
        /\ \A p \in Principals \ {t} : members'[p] = members[p]
    BY Zenon DEF IdentityInv, IdentityTypeOK
  <1>2. Owners' \subseteq Owners \cup {t}
    BY <1>1, Zenon DEF Owners, Active, HasRole
  <1>3. t \in Owners' <=> row.status = "ACTIVE" /\ "OWNER" \in row.roles
    BY <1>1, Zenon DEF Owners, Active, HasRole
  <1>4. Owners \ {t} \subseteq Owners'
    BY <1>1, Zenon DEF Owners, Active, HasRole
  <1>5. Owners \subseteq vouched /\ Owners # {}
    BY Zenon DEF IdentityInv, OwnersAreVouchedFor, AlwaysAnOwner
  <1>6. Owners' \subseteq vouched'
    BY <1>2, <1>3, <1>5, Zenon
  <1>7. Owners' # {}
    <2>1. CASE row.status = "ACTIVE" /\ "OWNER" \in row.roles
      BY <2>1, <1>3, Zenon
    <2>2. CASE t \notin Owners
      BY <2>2, <1>4, <1>5, Zenon
    <2>3. CASE NotLastOwner(t)
      BY <2>3, <1>4, AnotherOwner
    <2> QED
      BY <2>1, <2>2, <2>3, Zenon
  <1> QED
    BY <1>6, <1>7, Zenon DEF AlwaysAnOwner, OwnersAreVouchedFor


(* change_membership keeps the invariant.                                  *)
LEMMA ChangeMembershipInv ==
  ASSUME IdentityInv, NEW s \in Slots, NEW key, NEW t \in Principals,
         NEW expected \in 1 .. MaxVersion, NEW roles \in RoleSets,
         ChangeMembership(s, key, t, expected, roles)
  PROVE  IdentityInv'
  <1> DEFINE row == ChangedMember(t, roles)
  <1>1. members[t] \in MemberRow /\ members[t].epoch = members[t].version
    BY Zenon DEF IdentityInv, IdentityTypeOK, MemberOK
  <1>2. /\ members[t].status = "ACTIVE" /\ members[t].version = expected
        /\ expected < MaxVersion
    BY Zenon DEF ChangeMembership, Active
  <1>3. MaxVersion \in Nat /\ expected \in Nat /\ expected + 1 \in 0 .. MaxVersion
    BY <1>2, MembershipAssumption DEF MembershipAssumption
  <1>4. roles \in SUBSET Roles /\ roles # {}
    BY Zenon DEF RoleSets
  <1>5. row = [members[t] EXCEPT !.roles = roles, !.version = expected + 1,
                                 !.epoch = expected + 1]
    BY <1>1, <1>2, Zenon DEF ChangedMember, MemberRow
  <1>6. /\ row \in MemberRow /\ row.status = "ACTIVE" /\ row.roles = roles
        /\ row.epoch = expected + 1 /\ row.version = expected + 1
    BY <1>1, <1>2, <1>3, <1>4, <1>5, Zenon DEF MemberRow
  <1>7. /\ members' = [members EXCEPT ![t] = row]
        /\ requests' = [requests EXCEPT ![s] = NoRequest]
        /\ UNCHANGED <<invites, policy>>
    BY Zenon DEF ChangeMembership, Execute
  <1> HIDE DEF row
  <1>8. \/ HasRole(requests[s].actor, "OWNER") /\ vouched' = vouched \cup {t}
        \/ "OWNER" \notin roles /\ vouched' = vouched \ {t}
    BY Zenon DEF ChangeMembership, Assignable
  <1>9. vouched' \subseteq Principals /\ vouched \ {t} \subseteq vouched'
    BY <1>8, Zenon DEF IdentityInv, IdentityTypeOK
  <1>10. "OWNER" \in roles => t \in vouched'
    BY <1>8, Zenon
  <1>11. "OWNER" \in roles \/ t \notin Owners \/ NotLastOwner(t)
    BY Zenon DEF ChangeMembership, Owners
  <1>12. AlwaysAnOwner' /\ OwnersAreVouchedFor'
    BY <1>6, <1>7, <1>9, <1>10, <1>11, OwnersWritten, Zenon
  <1>13. members[t].epoch < row.epoch
    BY <1>1, <1>2, <1>3, <1>6
  <1> QED
    BY <1>2, <1>4, <1>6, <1>7, <1>9, <1>12, <1>13, MemberWritten, Zenon

(* revoke_membership keeps the invariant.                                  *)
LEMMA RevokeMembershipInv ==
  ASSUME IdentityInv, NEW s \in Slots, NEW key, NEW t \in Principals,
         NEW expected \in 1 .. MaxVersion,
         RevokeMembership(s, key, t, expected)
  PROVE  IdentityInv'
  <1> DEFINE row == [members[t] EXCEPT !.status = "REVOKED",
                                       !.version = expected + 1,
                                       !.epoch = expected + 1]
  <1>1. members \in [Principals -> MemberRow] /\ members[t] \in MemberRow
        /\ members[t].epoch = members[t].version
    BY Zenon DEF IdentityInv, IdentityTypeOK, MemberOK
  <1>2. /\ members[t].status = "ACTIVE" /\ members[t].version = expected
        /\ expected < MaxVersion
    BY Zenon DEF RevokeMembership, Active
  <1>3. MaxVersion \in Nat /\ expected \in Nat /\ expected + 1 \in 0 .. MaxVersion
    BY <1>2, MembershipAssumption DEF MembershipAssumption
  <1>4. /\ row \in MemberRow /\ row.status = "REVOKED"
        /\ row.epoch = expected + 1 /\ row.version = expected + 1
    BY <1>1, <1>2, <1>3, Zenon DEF MemberRow
  <1>5. members' = [members EXCEPT ![t] = row]
    BY <1>1, <1>2, Zenon DEF RevokeMembership, MemberRow
  <1>6. /\ requests' = [requests EXCEPT ![s] = NoRequest]
        /\ UNCHANGED <<invites, policy, vouched>>
    BY Zenon DEF RevokeMembership, Execute
  <1> HIDE DEF row
  <1>7. t \notin Owners \/ NotLastOwner(t)
    BY Zenon DEF RevokeMembership, Owners
  <1>8. AlwaysAnOwner' /\ OwnersAreVouchedFor'
    BY <1>4, <1>5, <1>6, <1>7, OwnersWritten, Zenon
  <1>9. members[t].epoch < row.epoch
    BY <1>1, <1>2, <1>3, <1>4
  <1>10. vouched' \subseteq Principals
    BY <1>6, Zenon DEF IdentityInv, IdentityTypeOK
  <1> QED
    BY <1>2, <1>4, <1>5, <1>6, <1>8, <1>9, <1>10, MemberWritten, Zenon

(* propose_policy keeps the invariant.                                     *)
LEMMA ProposePolicyInv ==
  ASSUME IdentityInv, NEW s \in Slots, NEW key, NEW expected,
         ProposePolicy(s, key, expected)
  PROVE  IdentityInv'
  <1>1. UNCHANGED <<members, invites, vouched, policy>>
        /\ requests' = [requests EXCEPT ![s] = NoRequest]
    BY Zenon DEF ProposePolicy, Execute
  <1>2. IdentityTypeOK /\ policy' \in 1 .. MaxPolicies
    BY <1>1, Zenon DEF IdentityInv, IdentityTypeOK
  <1> QED
    BY <1>1, <1>2, RequestEnds, IdentityFrame, Zenon

(* The publication of a policy keeps the invariant.                        *)
LEMMA PublishPolicyInv ==
  ASSUME IdentityInv, PublishPolicy
  PROVE  IdentityInv'
  <1>1. UNCHANGED <<members, invites, vouched, requests>>
    BY Zenon DEF PublishPolicy
  <1>2. policy' \in 1 .. MaxPolicies /\ requests \in [Slots -> Request]
    BY MembershipAssumption
       DEF MembershipAssumption, PublishPolicy, IdentityInv, IdentityTypeOK
  <1> QED
    BY <1>1, <1>2, IdentityFrame, Zenon

(* accept_invite keeps the invariant.                                      *)
LEMMA AcceptInviteInv ==
  ASSUME IdentityInv, NEW p \in Principals, NEW key, NEW i \in Invites,
         AcceptInvite(p, key, i)
  PROVE  IdentityInv'
  <1> DEFINE row == NewMember(i)
  <1> DEFINE used == [invites[i] EXCEPT !.consumed_by = p]
  <1>1. /\ members \in [Principals -> MemberRow] /\ requests \in [Slots -> Request]
        /\ invites \in [Invites -> InviteRow] /\ invites[i] \in InviteRow
        /\ InviteOK(i) /\ IdentityTypeOK
    BY Zenon DEF IdentityInv, IdentityTypeOK
  <1>2. /\ members[p].status = "NONE" /\ invites[i].retrieved
        /\ invites[i].consumed_by = "NULL"
        /\ UNCHANGED <<policy, requests>>
        /\ members' = [members EXCEPT ![p] = row]
    BY Zenon DEF AcceptInvite, InviteUsable, TokenIssued, NoMembership
  <1>3. invites' = [invites EXCEPT ![i] = used]
    BY <1>1, Zenon DEF AcceptInvite
  <1>4. invites[i].state = "PENDING" /\ invites[i].roles # {}
        /\ invites[i].roles \in SUBSET Roles
    BY <1>1, <1>2, Zenon DEF InviteOK, InviteRow
  <1>5. /\ row \in MemberRow /\ row.status = "ACTIVE"
        /\ row.roles = invites[i].roles /\ row.epoch = 1 /\ row.version = 1
    BY <1>4, MembershipAssumption
       DEF MembershipAssumption, NewMember, MemberRow
  <1>6. /\ used \in InviteRow /\ used.consumed_by = p
        /\ used.state = "PENDING" /\ used.roles = invites[i].roles
        /\ used.vouched = invites[i].vouched
    BY <1>1, <1>4, Zenon DEF InviteRow
  <1> HIDE DEF row, used
  <1>7. /\ members' \in [Principals -> MemberRow] /\ members'[p] = row
        /\ \A q \in Principals \ {p} : members'[q] = members[q]
    BY <1>1, <1>2, <1>5, Zenon
  <1>8. /\ invites' \in [Invites -> InviteRow] /\ invites'[i] = used
        /\ \A j \in Invites \ {i} : invites'[j] = invites[j]
    BY <1>1, <1>3, <1>6, Zenon
  <1>9. p # "NULL"
    BY MembershipAssumption, Zenon DEF MembershipAssumption
  <1>10. \A j \in Invites : /\ invites[j].consumed_by # p
                            /\ invites[j].consumed_by # "NULL" =>
                                 invites[j].consumed_by \in Principals \ {p}
    BY <1>1, <1>2, <1>9 DEF IdentityInv, InviteOK, InviteRow
  <1>11. \A j \in Invites : InviteOK(j)'
    <2>1. InviteOK(i)'
      BY <1>1, <1>4, <1>5, <1>6, <1>7, <1>8, Zenon DEF InviteOK
    <2>2. \A j \in Invites \ {i} : InviteOK(j)'
      BY <1>7, <1>8, <1>10 DEF IdentityInv, InviteOK
    <2> QED
      BY <2>1, <2>2, Zenon
  <1>12. InvitationAdmitsOne'
    <2>1. \A q \in Principals \ {Founder} : members'[q].status # "NONE" =>
            \E j \in Invites : invites'[j].consumed_by = q
      <3> SUFFICES ASSUME NEW q \in Principals \ {Founder},
                          members'[q].status # "NONE"
                   PROVE  \E j \in Invites : invites'[j].consumed_by = q
        BY Zenon
      <3>1. CASE q = p
        BY <3>1, <1>6, <1>8, Zenon
      <3>2. CASE q # p
        <4>1. PICK j \in Invites : invites[j].consumed_by = q
          BY <3>2, <1>7, Zenon DEF IdentityInv, InvitationAdmitsOne
        <4>2. q # "NULL"
          BY MembershipAssumption, Zenon DEF MembershipAssumption
        <4> QED
          BY <4>1, <4>2, <1>2, <1>8, Zenon
      <3> QED
        BY <3>1, <3>2, Zenon
    <2>2. \A j, k \in Invites :
            invites'[j].consumed_by = invites'[k].consumed_by
              => j = k \/ invites'[j].consumed_by = "NULL"
      BY <1>6, <1>8, <1>10 DEF IdentityInv, InvitationAdmitsOne
    <2> QED
      BY <2>1, <2>2, Zenon DEF InvitationAdmitsOne
  <1>13. vouched' = IF invites[i].vouched THEN vouched \cup {p}
                    ELSE vouched \ {p}
    BY Zenon DEF AcceptInvite
  <1>14. /\ vouched' \subseteq Principals /\ vouched \ {p} \subseteq vouched'
         /\ "OWNER" \in row.roles => p \in vouched'
    BY <1>1, <1>5, <1>13, Zenon DEF InviteOK, IdentityTypeOK
  <1>15. p \notin Owners
    BY <1>2, Zenon DEF Owners, Active
  <1>16. AlwaysAnOwner' /\ OwnersAreVouchedFor'
    BY <1>2, <1>14, <1>15, OwnersWritten, Zenon
  <1>17. \A q \in Principals : members[q].epoch \in Nat
    BY <1>1 DEF MemberRow
  <1>18. \A q \in Principals : members[q].status # "NONE" =>
           members'[q] = members[q]
    BY <1>2, <1>7, Zenon
  <1>19. /\ \A k \in Slots : RequestOK(k)'
         /\ \A k \in Slots :
              requests'[k].pc = "ADMITTED" => requests'[k].actor \in Principals
    BY <1>1, <1>2, <1>7, <1>17, <1>18, RequestsKept
  <1>20. \A q \in Principals : MemberOK(q)'
    BY <1>5, <1>7, Zenon DEF IdentityInv, MemberOK
  <1>21. \A q \in Principals : Active(q)' => members'[q].roles # {}
    BY <1>1, <1>4, <1>5, <1>7, Zenon DEF IdentityTypeOK, Active
  <1> QED
    BY <1>1, <1>2, <1>7, <1>8, <1>11, <1>12, <1>14, <1>16, <1>19, <1>20, <1>21,
       Zenon DEF IdentityInv, IdentityTypeOK


(* The keys that a command takes.                                          *)
LEMMA KeysOfType ==
  ASSUME NEW op, NEW key \in KeysOf(op)
  PROVE  key \in Keys \cup {"NULL"}
  BY Zenon DEF KeysOf

(* Every command keeps the invariant.                                      *)
LEMMA CommandInv ==
  ASSUME IdentityInv, NEW s \in Slots, Command(s)
  PROVE  IdentityInv'
  <1>1. ASSUME NEW key \in KeysOf("membership.invite"), NEW i \in Invites,
               NEW email \in Emails, NEW roles \in RoleSets,
               InviteMembership(s, key, i, email, roles)
        PROVE  IdentityInv'
    BY <1>1, KeysOfType, InviteMembershipInv, Zenon
  <1>2. ASSUME NEW key, NEW t \in Principals, NEW e \in 1 .. MaxVersion,
               NEW roles \in RoleSets, ChangeMembership(s, key, t, e, roles)
        PROVE  IdentityInv'
    BY <1>2, ChangeMembershipInv, Zenon
  <1>3. ASSUME NEW key, NEW t \in Principals, NEW e \in 1 .. MaxVersion,
               RevokeMembership(s, key, t, e)
        PROVE  IdentityInv'
    BY <1>3, RevokeMembershipInv, Zenon
  <1>4. ASSUME NEW key, NEW e, ProposePolicy(s, key, e)
        PROVE  IdentityInv'
    BY <1>4, ProposePolicyInv, Zenon
  <1> QED
    BY <1>1, <1>2, <1>3, <1>4, Zenon DEF Command

(* Every step keeps the invariant.                                         *)
LEMMA IdentityNextInv ==
  IdentityInv /\ [IdentityNext]_identityVars => IdentityInv'
  <1> SUFFICES ASSUME IdentityInv, [IdentityNext]_identityVars
               PROVE  IdentityInv'
    BY Zenon
  <1>1. ASSUME NEW s \in Slots, NEW p \in Principals, Admit(s, p)
        PROVE  IdentityInv'
    BY <1>1, AdmitInv, Zenon
  <1>2. ASSUME NEW s \in Slots, Return(s) PROVE IdentityInv'
    BY <1>2, ReturnInv, Zenon
  <1>3. ASSUME NEW s \in Slots, Command(s) PROVE IdentityInv'
    BY <1>3, CommandInv, Zenon
  <1>4. ASSUME NEW s \in Slots, NEW i \in Invites, RetrieveInviteSecret(s, i)
        PROVE  IdentityInv'
    BY <1>4, RetrieveInviteSecretInv, Zenon
  <1>5. ASSUME NEW p \in Principals, NEW key, NEW i \in Invites,
               AcceptInvite(p, key, i)
        PROVE  IdentityInv'
    BY <1>5, AcceptInviteInv, Zenon
  <1>6. ASSUME NEW i \in Invites, InviteExpires(i) PROVE IdentityInv'
    BY <1>6, InviteExpiresInv, Zenon
  <1>7. ASSUME NEW r, ReceiptExpires(r) PROVE IdentityInv'
    BY <1>7, ReceiptExpiresInv, Zenon
  <1>8. CASE PublishPolicy
    BY <1>8, PublishPolicyInv, Zenon
  <1>9. CASE UNCHANGED identityVars
    <2>1. UNCHANGED <<members, invites, vouched, policy, requests>>
      BY <1>9, Zenon DEF identityVars
    <2>2. policy' \in 1 .. MaxPolicies /\ requests \in [Slots -> Request]
      BY <2>1, Zenon DEF IdentityInv, IdentityTypeOK
    <2> QED
      BY <2>1, <2>2, IdentityFrame, Zenon
  <1> QED
    BY <1>1, <1>2, <1>3, <1>4, <1>5, <1>6, <1>7, <1>8, <1>9, Zenon
       DEF IdentityNext

(* The invariant holds in every reachable state of a tenant's memberships. *)
THEOREM IdentityInvariant == IdentitySpec => []IdentityInv
  BY IdentityInitInv, IdentityNextInv, PTL DEF IdentitySpec

-----------------------------------------------------------------------------
(* Memberships: results.                                                   *)

(* Rows keep their types, and an ACTIVE member always holds a role.        *)
THEOREM MembershipsTypeCorrect == IdentitySpec => []IdentityTypeOK
  <1>1. IdentityInv => IdentityTypeOK
    BY Zenon DEF IdentityInv
  <1> QED
    BY <1>1, IdentityInvariant, PTL

(* However many owners demote and revoke one another, in whatever order,   *)
(* one stays (ensure_not_last_owner).                                      *)
THEOREM ATenantKeepsAnOwner == IdentitySpec => []AlwaysAnOwner
  <1>1. IdentityInv => AlwaysAnOwner
    BY Zenon DEF IdentityInv
  <1> QED
    BY <1>1, IdentityInvariant, PTL

(* No chain of invitations and changes makes an owner without an owner     *)
(* (require_assignable_roles, require_actor_can_manage_owner).             *)
THEOREM OwnersComeFromOwners == IdentitySpec => []OwnersAreVouchedFor
  <1>1. IdentityInv => OwnersAreVouchedFor
    BY Zenon DEF IdentityInv
  <1> QED
    BY <1>1, IdentityInvariant, PTL

(* An invitation admits one principal, and nobody joins without one        *)
(* (execute_membership_accept_bootstrap).                                  *)
THEOREM OneMemberPerInvitation == IdentitySpec => []InvitationAdmitsOne
  <1>1. IdentityInv => InvitationAdmitsOne
    BY Zenon DEF IdentityInv
  <1> QED
    BY <1>1, IdentityInvariant, PTL

(* A command that commits does so with the roles and the policy it was     *)
(* admitted on, whatever committed in between (begin): the epochs alone    *)
(* tell, because each change of the roles moves them.                      *)
THEOREM CommandsCommitAsAdmitted ==
  IdentitySpec => CommitsUnderAdmittedAuthority
  <1> DEFINE Same == UNCHANGED <<members, invites, proposals, receipts>>
             Held(s) == /\ Active(requests[s].actor)
                        /\ members[requests[s].actor].roles = requests[s].roles
                        /\ policy = requests[s].policy
             Body == \A s \in Slots :
                       requests[s].pc = "ADMITTED"
                         /\ <<members, invites, proposals, receipts>>'
                              # <<members, invites, proposals, receipts>>
                         /\ requests'[s].pc = "IDLE"
                       => /\ Active(requests[s].actor)
                          /\ members[requests[s].actor].roles = requests[s].roles
                          /\ policy = requests[s].policy
  <1>1. IdentityInv /\ [IdentityNext]_identityVars => [Body]_identityVars
    <2> SUFFICES ASSUME IdentityInv, IdentityNext, NEW s \in Slots,
                        requests[s].pc = "ADMITTED", ~ Same,
                        requests'[s].pc = "IDLE"
                 PROVE  Held(s)
      BY Zenon
    <2>1. requests \in [Slots -> Request]
      BY Zenon DEF IdentityInv, IdentityTypeOK
    <2>2. ASSUME NEW k \in Slots, Begin(k),
                 requests' = [requests EXCEPT ![k] = NoRequest]
          PROVE  Held(s)
      <3>1. k = s
        BY <2>1, <2>2, Zenon
      <3> QED
        BY <3>1, <2>2, BeginFacts, Zenon
    <2>3. ASSUME NEW k \in Slots, Command(k) PROVE Held(s)
      <3>1. Begin(k) /\ requests' = [requests EXCEPT ![k] = NoRequest]
        BY <2>3, Zenon DEF Command, InviteMembership, ChangeMembership,
                    RevokeMembership, ProposePolicy, Execute
      <3> QED
        BY <3>1, <2>2, Zenon
    <2>4. ASSUME NEW k \in Slots, NEW i \in Invites, RetrieveInviteSecret(k, i)
          PROVE  Held(s)
      BY <2>4, <2>2, Zenon DEF RetrieveInviteSecret
    <2>5. ASSUME NEW k \in Slots, NEW p \in Principals, Admit(k, p)
          PROVE  FALSE
      BY <2>5, Zenon DEF Admit
    <2>6. ASSUME NEW k \in Slots, Return(k) PROVE FALSE
      BY <2>6, Zenon DEF Return
    <2>7. requests' # requests
      BY Zenon
    <2>8. ASSUME NEW p \in Principals, NEW key, NEW i \in Invites,
                 AcceptInvite(p, key, i)
          PROVE  FALSE
      BY <2>7, <2>8, Zenon DEF AcceptInvite
    <2>9. ASSUME NEW i \in Invites, InviteExpires(i) PROVE FALSE
      BY <2>7, <2>9, Zenon DEF InviteExpires
    <2>10. ASSUME NEW r, ReceiptExpires(r) PROVE FALSE
      BY <2>7, <2>10, Zenon DEF ReceiptExpires
    <2>11. ~ PublishPolicy
      BY <2>7, Zenon DEF PublishPolicy
    <2> QED
      BY <2>3, <2>4, <2>5, <2>6, <2>8, <2>9, <2>10, <2>11, Zenon
         DEF IdentityNext
  <1> QED
    BY <1>1, IdentityInvariant, PTL
       DEF IdentitySpec, CommitsUnderAdmittedAuthority

(* Nothing makes a revoked member active again.                            *)
THEOREM RevokedStaysRevoked == IdentitySpec => RevocationIsFinal
  <1> DEFINE Body == \A p \in Principals :
               members[p].status = "REVOKED" => members'[p].status = "REVOKED"
  <1>1. IdentityInv /\ [IdentityNext]_identityVars => [Body]_identityVars
    <2> SUFFICES ASSUME IdentityInv, IdentityNext, NEW p \in Principals,
                        members[p].status = "REVOKED"
                 PROVE  members'[p].status = "REVOKED"
      BY Zenon
    <2>1. members \in [Principals -> MemberRow]
      BY Zenon DEF IdentityInv, IdentityTypeOK
    <2>2. ASSUME NEW t \in Principals, NEW row,
                 members[t].status \in {"ACTIVE", "NONE"},
                 members' = [members EXCEPT ![t] = row]
          PROVE  members'[p].status = "REVOKED"
      BY <2>1, <2>2, Zenon
    <2>3. ASSUME NEW s \in Slots, Command(s)
          PROVE  members'[p].status = "REVOKED"
      <3>1. ASSUME NEW key, NEW t \in Principals, NEW e, NEW roles,
                   ChangeMembership(s, key, t, e, roles)
            PROVE  members'[p].status = "REVOKED"
        BY <3>1, <2>2 DEF ChangeMembership, Active
      <3>2. ASSUME NEW key, NEW t \in Principals, NEW e,
                   RevokeMembership(s, key, t, e)
            PROVE  members'[p].status = "REVOKED"
        <4>1. Active(t) /\ t # p
          BY <3>2, Zenon DEF RevokeMembership, Active
        <4> QED
          BY <4>1, <3>2, <2>1, Zenon DEF RevokeMembership
      <3> QED
        BY <2>3, <3>1, <3>2, Zenon DEF Command, InviteMembership, ProposePolicy
    <2>4. ASSUME NEW q \in Principals, NEW key, NEW i \in Invites,
                 AcceptInvite(q, key, i)
          PROVE  members'[p].status = "REVOKED"
      BY <2>4, <2>2 DEF AcceptInvite, NoMembership
    <2> QED
      BY <2>3, <2>4, Zenon
         DEF IdentityNext, Admit, Return, RetrieveInviteSecret, InviteExpires,
             ReceiptExpires, PublishPolicy
  <1> QED
    BY <1>1, IdentityInvariant, PTL DEF IdentitySpec, RevocationIsFinal


-----------------------------------------------------------------------------
(* Policy proposals: versions are handed out one after the other, so the   *)
(* next one is above all that were.                                        *)
ProposalInv ==
  /\ ProposalsReportTheirBase
  /\ IsFiniteSet(proposals)
  /\ \A q \in proposals : q.version \in 2 .. Cardinality(proposals) + 1

(* A proposal keeps what is known of proposals.                            *)
LEMMA ProposalAdded ==
  ASSUME IdentityInv, ProposalInv, NEW s \in Slots, NEW key, NEW expected,
         ProposePolicy(s, key, expected)
  PROVE  ProposalInv'
  <1> DEFINE n == Cardinality(proposals)
             q == [version |-> expected + 1, base |-> policy,
                   reported |-> requests[s].policy]
  <1>1. /\ proposals' = proposals \cup {q} /\ expected = n + 1
        /\ policy = requests[s].policy
    BY Zenon DEF ProposePolicy, Execute, Begin
  <1>2. IsFiniteSet(proposals)
    BY Zenon DEF ProposalInv
  <1>3. n \in Nat
    BY <1>2, FS_CardinalityType, Zenon
  <1>4. q.version = n + 2 /\ q.base = q.reported
    BY <1>1, <1>3
  <1>5. \A r \in proposals : r.version \in 2 .. n + 1
    BY Zenon DEF ProposalInv
  <1> HIDE DEF q
  <1>6. q \notin proposals
    BY <1>3, <1>4, <1>5
  <1>7. IsFiniteSet(proposals \cup {q}) /\ Cardinality(proposals \cup {q}) = n + 1
    BY <1>2, <1>6, FS_AddElement, Zenon
  <1>8. IsFiniteSet(proposals') /\ Cardinality(proposals') = n + 1
    BY <1>1, <1>7, Zenon
  <1> HIDE DEF n
  <1>9. \A r \in proposals' : r.version \in 2 .. Cardinality(proposals') + 1
    BY <1>1, <1>3, <1>4, <1>5, <1>8
  <1>10. ProposalsReportTheirBase'
    BY <1>1, <1>3, <1>4, <1>5 DEF ProposalInv, ProposalsReportTheirBase
  <1> QED
    BY <1>8, <1>9, <1>10, Zenon DEF ProposalInv

(* Every proposal reports the base its row records, under a version of its *)
(* own (propose_policy).                                                   *)
THEOREM ProposalsAreHonest == IdentitySpec => []ProposalsReportTheirBase
  <1>1. IdentityInit => ProposalInv
    BY FS_EmptySet, Zenon
       DEF IdentityInit, ProposalInv, ProposalsReportTheirBase
  <1>2. IdentityInv /\ ProposalInv /\ [IdentityNext]_identityVars => ProposalInv'
    <2> SUFFICES ASSUME IdentityInv, ProposalInv, [IdentityNext]_identityVars
                 PROVE  ProposalInv'
      BY Zenon
    <2>1. CASE UNCHANGED proposals
      BY <2>1, Zenon DEF ProposalInv, ProposalsReportTheirBase
    <2>2. ASSUME NEW s \in Slots, Command(s) PROVE ProposalInv'
      BY <2>1, <2>2, ProposalAdded, Zenon
         DEF Command, InviteMembership, ChangeMembership, RevokeMembership
    <2> QED
      BY <2>1, <2>2, Zenon
         DEF IdentityNext, Admit, Return, RetrieveInviteSecret, AcceptInvite,
             InviteExpires, ReceiptExpires, PublishPolicy, identityVars
  <1>3. ProposalInv => ProposalsReportTheirBase
    BY Zenon DEF ProposalInv
  <1> QED
    BY <1>1, <1>2, <1>3, IdentityInvariant, PTL DEF IdentitySpec

-----------------------------------------------------------------------------
(* Idempotency keys.  An invitation that still counts against a key has    *)
(* the live receipt of its command, and a live receipt of an invitation    *)
(* has the one it made.                                                    *)
MadeUnder(i, r) ==
  invites[i].created_by = r.principal /\ invites[i].key = r.key

ReceiptOf(i) ==
  [principal |-> invites[i].created_by, key |-> invites[i].key,
   op |-> "membership.invite"]

IsReceipt(r) == r = [principal |-> r.principal, key |-> r.key, op |-> r.op]

KeyInv ==
  /\ \A r \in receipts : IsReceipt(r)
  /\ \A r \in receipts :
       r.op = "membership.invite"
         => r.key # "NULL" /\ \E i \in Invites : MadeUnder(i, r)
  /\ \A i \in Invites :
       invites[i].key # "NULL"
         => invites[i].state # "NONE" /\ ReceiptOf(i) \in receipts
  /\ \A i, j \in Invites :
       invites[i].key # "NULL" /\ invites[i].key = invites[j].key
         /\ invites[i].created_by = invites[j].created_by
       => i = j

(* Without receipts every key is free.                                     *)
LEMMA KeyInitInv == IdentityInit => KeyInv
  BY DEF IdentityInit, KeyInv, NoInvite

OthersAdded ==
  /\ receipts \subseteq receipts'
  /\ \A r \in receipts' \ receipts :
       IsReceipt(r) /\ r.op # "membership.invite"

(* No step but an invitation and the end of a receipt concerns the keys.   *)
LEMMA KeyFrame ==
  ASSUME KeyInv, OthersAdded,
         \A i \in Invites : /\ invites'[i].key = invites[i].key
                            /\ invites'[i].state = invites[i].state
                            /\ invites'[i].created_by = invites[i].created_by
  PROVE  KeyInv'
  <1>1. \A i \in Invites : ReceiptOf(i)' = ReceiptOf(i)
    BY Zenon DEF ReceiptOf
  <1>2. \A r : \A i \in Invites : MadeUnder(i, r)' <=> MadeUnder(i, r)
    BY Zenon DEF MadeUnder
  <1>3. ASSUME NEW r \in receipts', r.op = "membership.invite"
        PROVE  r.key # "NULL" /\ \E i \in Invites : MadeUnder(i, r)'
    <2>1. r \in receipts
      BY <1>3, Zenon DEF OthersAdded
    <2> QED
      BY <2>1, <1>2, <1>3, Zenon DEF KeyInv
  <1>4. \A r \in receipts' : IsReceipt(r)
    BY Zenon DEF KeyInv, OthersAdded
  <1>5. \A i \in Invites :
          invites'[i].key # "NULL"
            => invites'[i].state # "NONE" /\ ReceiptOf(i)' \in receipts'
    BY <1>1, Zenon DEF KeyInv, OthersAdded
  <1> QED
    BY <1>3, <1>4, <1>5 DEF KeyInv

(* The receipt of another operation leaves those of invites alone.         *)
LEMMA ReceiptsWithAdds ==
  ASSUME NEW p, NEW key, NEW op, op # "membership.invite",
         receipts' = ReceiptsWith(p, key, op)
  PROVE  OthersAdded
  BY DEF ReceiptsWith, OthersAdded, IsReceipt

(* The handlers that only write a receipt of their own.                    *)
LEMMA OtherCommandKeeps ==
  ASSUME KeyInv, NEW s, NEW key, NEW op, op # "membership.invite",
         Execute(s, key, op), UNCHANGED invites
  PROVE  KeyInv'
  <1>1. receipts' = ReceiptsWith(requests[s].actor, key, op)
    BY Zenon DEF Execute
  <1>2. OthersAdded
    BY <1>1, ReceiptsWithAdds, Zenon
  <1> QED
    BY <1>2, KeyFrame, Zenon

(* An invite takes a key that no live receipt holds.                       *)
LEMMA InviteKeepsKeys ==
  ASSUME IdentityInv, KeyInv, NEW s \in Slots,
         NEW key \in Keys \cup {"NULL"}, NEW i \in Invites, NEW email,
         NEW roles, InviteMembership(s, key, i, email, roles)
  PROVE  KeyInv'
  <1> DEFINE actor == requests[s].actor
             mine == [principal |-> actor, key |-> key,
                      op |-> "membership.invite"]
             row == [NoInvite EXCEPT !.state = "PENDING", !.email = email,
                                     !.roles = roles, !.created_by = actor,
                                     !.key = key,
                                     !.vouched = HasRole(actor, "OWNER")]
  <1>1. /\ invites' = [invites EXCEPT ![i] = row]
        /\ invites[i].state = "NONE"
        /\ mine \notin receipts
        /\ receipts' = ReceiptsWith(actor, key, "membership.invite")
    BY Zenon DEF InviteMembership, Execute, NoLiveReceipt
  <1>2. row.state = "PENDING" /\ row.created_by = actor /\ row.key = key
    BY Zenon DEF NoInvite
  <1>3. invites \in [Invites -> InviteRow]
    BY Zenon DEF IdentityInv, IdentityTypeOK
  <1>4. /\ mine.op = "membership.invite" /\ mine.principal = actor
        /\ mine.key = key /\ IsReceipt(mine)
    BY Zenon DEF IsReceipt
  <1>5. receipts' = IF key = "NULL" THEN receipts ELSE receipts \cup {mine}
    BY <1>1, Zenon DEF ReceiptsWith
  <1>6. \A j \in Invites : invites[j].created_by = actor /\ invites[j].key = key
                             => ReceiptOf(j) = mine
    BY Zenon DEF ReceiptOf
  <1>7. invites[i].key = "NULL"
    BY <1>1, Zenon DEF KeyInv
  <1>8. invites'[i] = row /\ \A j \in Invites \ {i} : invites'[j] = invites[j]
    BY <1>1, <1>3, Zenon
  <1>9. ReceiptOf(i)' = mine
    BY <1>8, <1>2, Zenon DEF ReceiptOf
  <1>10. \A j \in Invites \ {i} : ReceiptOf(j)' = ReceiptOf(j)
    BY <1>8, Zenon DEF ReceiptOf
  <1> HIDE DEF row, mine, actor
  <1>11. ASSUME NEW r \in receipts', r.op = "membership.invite"
         PROVE  r.key # "NULL" /\ \E j \in Invites : MadeUnder(j, r)'
    <2>1. CASE r \in receipts
      <3>1. r.key # "NULL"
        BY <2>1, <1>11, Zenon DEF KeyInv
      <3>2. PICK j \in Invites : MadeUnder(j, r)
        BY <2>1, <1>11, Zenon DEF KeyInv
      <3>3. j # i
        BY <3>1, <3>2, <1>7, Zenon DEF MadeUnder
      <3>4. invites'[j] = invites[j]
        BY <3>3, <1>8, Zenon
      <3> QED
        BY <3>1, <3>2, <3>4, Zenon DEF MadeUnder
    <2>2. CASE r \notin receipts
      <3>1. r = mine /\ key # "NULL"
        BY <2>2, <1>5, <1>11, Zenon
      <3>2. MadeUnder(i, r)'
        BY <3>1, <1>2, <1>4, <1>8, Zenon DEF MadeUnder
      <3> QED
        BY <3>1, <3>2, <1>4, Zenon
    <2> QED
      BY <2>1, <2>2, Zenon
  <1>12. ASSUME NEW j \in Invites, invites'[j].key # "NULL"
         PROVE  invites'[j].state # "NONE" /\ ReceiptOf(j)' \in receipts'
    <2>1. CASE j = i
      BY <2>1, <1>2, <1>5, <1>8, <1>9, <1>12, Zenon
    <2>2. CASE j # i
      BY <2>2, <1>5, <1>8, <1>10, <1>12, Zenon DEF KeyInv
    <2> QED
      BY <2>1, <2>2, Zenon
  <1>13. ASSUME NEW j \in Invites, NEW k \in Invites,
                invites'[j].key # "NULL", invites'[j].key = invites'[k].key,
                invites'[j].created_by = invites'[k].created_by
         PROVE  j = k
    <2>1. \A n \in Invites \ {i} :
            ~ (key # "NULL" /\ invites[n].created_by = actor
                 /\ invites[n].key = key)
      BY <1>1, <1>6, Zenon DEF KeyInv
    <2> QED
      BY <2>1, <1>2, <1>8, <1>13 DEF KeyInv
  <1> QED
    BY <1>4, <1>5, <1>11, <1>12, <1>13, Zenon DEF KeyInv

(* A receipt that expires frees its key.                                   *)
LEMMA ReceiptExpiresKeepsKeys ==
  ASSUME IdentityInv, KeyInv, NEW r \in receipts, ReceiptExpires(r)
  PROVE  KeyInv'
  <1> DEFINE freed(i) == r.op = "membership.invite" /\ MadeUnder(i, r)
  <1>1. invites \in [Invites -> InviteRow]
    BY Zenon DEF IdentityInv, IdentityTypeOK
  <1>2. \A i \in Invites :
          /\ invites'[i].key = IF freed(i) THEN "NULL" ELSE invites[i].key
          /\ invites'[i].state = invites[i].state
          /\ invites'[i].created_by = invites[i].created_by
    BY <1>1 DEF ReceiptExpires, MadeUnder, InviteRow
  <1>3. receipts' = receipts \ {r}
    BY Zenon DEF ReceiptExpires
  <1>4. \A i \in Invites : ~ freed(i) => ReceiptOf(i)' = ReceiptOf(i)
    BY <1>2, Zenon DEF ReceiptOf
  <1>5. \A i \in Invites : ReceiptOf(i) = r => freed(i)
    BY DEF ReceiptOf, MadeUnder
  <1>6. ASSUME NEW q \in receipts', q.op = "membership.invite"
        PROVE  q.key # "NULL" /\ \E i \in Invites : MadeUnder(i, q)'
    <2>1. q \in receipts /\ q # r
      BY <1>3, <1>6, Zenon
    <2>2. q.key # "NULL"
      BY <2>1, <1>6, Zenon DEF KeyInv
    <2>3. PICK i \in Invites : MadeUnder(i, q)
      BY <2>1, <1>6, Zenon DEF KeyInv
    <2>4. ReceiptOf(i) \in receipts
      BY <2>2, <2>3, Zenon DEF KeyInv, MadeUnder
    <2>5. ~ freed(i)
      <3>1. IsReceipt(q) /\ IsReceipt(r)
        BY <2>1, Zenon DEF KeyInv
      <3> QED
        BY <3>1, <2>1, <2>3, <1>6, Zenon DEF MadeUnder, IsReceipt
    <2> QED
      BY <2>2, <2>3, <2>5, <1>2, Zenon DEF MadeUnder
  <1> QED
    BY <1>2, <1>3, <1>4, <1>5, <1>6 DEF KeyInv

(* Every step keeps what is known of keys.                                 *)
LEMMA KeyNextInv ==
  IdentityInv /\ KeyInv /\ [IdentityNext]_identityVars => KeyInv'
  <1> SUFFICES ASSUME IdentityInv, KeyInv, [IdentityNext]_identityVars
               PROVE  KeyInv'
    BY Zenon
  <1>1. invites \in [Invites -> InviteRow]
    BY Zenon DEF IdentityInv, IdentityTypeOK
  <1>2. CASE UNCHANGED receipts
               /\ \A i \in Invites :
                    /\ invites'[i].key = invites[i].key
                    /\ invites'[i].state = invites[i].state
                    /\ invites'[i].created_by = invites[i].created_by
    <2>1. OthersAdded
      BY <1>2, Zenon DEF OthersAdded
    <2> QED
      BY <1>2, <2>1, KeyFrame, Zenon
  <1>3. CASE UNCHANGED <<receipts, invites>>
    BY <1>2, <1>3, Zenon
  <1>4. ASSUME NEW s \in Slots, Command(s) PROVE KeyInv'
    <2>1. ASSUME NEW key \in KeysOf("membership.invite"), NEW i \in Invites,
                 NEW email \in Emails, NEW roles \in RoleSets,
                 InviteMembership(s, key, i, email, roles)
          PROVE  KeyInv'
      BY <2>1, KeysOfType, InviteKeepsKeys, Zenon
    <2>2. ASSUME NEW key, NEW t, NEW e, NEW roles,
                 ChangeMembership(s, key, t, e, roles)
          PROVE  KeyInv'
      BY <2>2, OtherCommandKeeps, Zenon DEF ChangeMembership
    <2>3. ASSUME NEW key, NEW t, NEW e, RevokeMembership(s, key, t, e)
          PROVE  KeyInv'
      BY <2>3, OtherCommandKeeps, Zenon DEF RevokeMembership
    <2>4. ASSUME NEW key, NEW e, ProposePolicy(s, key, e)
          PROVE  KeyInv'
      BY <2>4, OtherCommandKeeps, Zenon DEF ProposePolicy
    <2> QED
      BY <1>4, <2>1, <2>2, <2>3, <2>4, Zenon DEF Command
  <1>5. ASSUME NEW s \in Slots, NEW i \in Invites, RetrieveInviteSecret(s, i)
        PROVE  KeyInv'
    BY <1>1, <1>2, <1>5 DEF RetrieveInviteSecret, InviteRow
  <1>6. ASSUME NEW p \in Principals, NEW key, NEW i \in Invites,
               AcceptInvite(p, key, i)
        PROVE  KeyInv'
    <2>1. \A j \in Invites : /\ invites'[j].key = invites[j].key
                              /\ invites'[j].state = invites[j].state
                              /\ invites'[j].created_by = invites[j].created_by
      BY <1>1, <1>6 DEF AcceptInvite, InviteRow
    <2>2. receipts' = ReceiptsWith(p, key, "membership.accept")
      BY <1>6, Zenon DEF AcceptInvite, FinalizeAccept
    <2>3. OthersAdded
      BY <2>2, ReceiptsWithAdds, Zenon
    <2> QED
      BY <2>1, <2>3, KeyFrame, Zenon
  <1>7. ASSUME NEW i \in Invites, InviteExpires(i) PROVE KeyInv'
    BY <1>1, <1>2, <1>7 DEF InviteExpires, InviteRow
  <1>8. ASSUME NEW r \in receipts, ReceiptExpires(r) PROVE KeyInv'
    BY <1>8, ReceiptExpiresKeepsKeys, Zenon
  <1> QED
    BY <1>3, <1>4, <1>5, <1>6, <1>7, <1>8, Zenon
       DEF IdentityNext, Admit, Return, PublishPolicy, identityVars

(* However often an invitation is sent again, and whatever else commits in *)
(* between, a live receipt stands for one invitation (execute).            *)
THEOREM ALiveKeyInvitesOnce == IdentitySpec => []OneInvitePerLiveKey
  <1>1. KeyInv => OneInvitePerLiveKey
    <2> SUFFICES ASSUME KeyInv, NEW r \in receipts,
                        r.op = "membership.invite"
                 PROVE  Cardinality({i \in Invites :
                                       /\ invites[i].created_by = r.principal
                                       /\ invites[i].key = r.key}) = 1
      BY Zenon DEF OneInvitePerLiveKey
    <2>1. PICK i \in Invites : MadeUnder(i, r) /\ r.key # "NULL"
      BY Zenon DEF KeyInv
    <2>2. {j \in Invites : invites[j].created_by = r.principal
                             /\ invites[j].key = r.key} = {i}
      BY <2>1, Zenon DEF KeyInv, MadeUnder
    <2>3. Cardinality({i}) = 1
      BY FS_Singleton, Zenon
    <2> QED
      BY <2>2, <2>3, Zenon
  <1> QED
    BY <1>1, KeyInitInv, KeyNextInv, IdentityInvariant, PTL DEF IdentitySpec

-----------------------------------------------------------------------------
(* Files: the inductive invariant.                                         *)

(* An attempt in flight belongs to an upload, and a clean verdict is about *)
(* the bytes that are stored under its key.                                *)
AttemptOK(t) ==
  /\ attempts[t].pc \in {"LEASED", "MOVED"} => attempts[t].upload \in Uploads
  /\ attempts[t].pc = "MOVED" /\ attempts[t].outcome = "CLEAN" =>
       objects[t] = CleanBytes

(* The key of a file is that of a finished attempt for it that was clean.  *)
Backed(u) ==
  LET k == artifacts[u].key
  IN  /\ k \in Attempts
      /\ attempts[k].pc = "DONE"
      /\ attempts[k].upload = u
      /\ objects[k] = CleanBytes

UploadOK(u) ==
  \/ artifacts[u].state = "ACTIVE"
  \/ artifacts[u].state = "PENDING" /\ uploads[u].state = "UPLOADED"
  => Backed(u)

(* Between its checks a download holds the key of a file whose key is      *)
(* settled.                                                                *)
DownloadOK(d) ==
  /\ downloads[d].pc # "IDLE" => downloads[d].file \in Files
  /\ downloads[d].pc \in {"KEYED", "SPOOLED"} =>
       /\ artifacts[downloads[d].file].state \notin {"NONE", "PENDING"}
       /\ downloads[d].key = artifacts[downloads[d].file].key

ArtifactInv ==
  /\ ArtifactTypeOK
  /\ DeletionSticks
  /\ DerivedFollowDeletion
  /\ \A t \in Attempts : AttemptOK(t)
  /\ \A u \in Uploads : UploadOK(u)
  /\ \A d \in Downloads : DownloadOK(d)

(* The invariant gives the property of uploaded files.                     *)
LEMMA BackedIsVerified == ArtifactInv => ActiveBytesVerified
  BY Zenon DEF ArtifactInv, UploadOK, Backed, ActiveBytesVerified

(* The empty store.                                                        *)
LEMMA ArtifactInitInv == ArtifactInit => ArtifactInv
  <1> SUFFICES ASSUME ArtifactInit PROVE ArtifactInv
    BY Zenon
  <1>1. Uploads \subseteq Files
    BY Zenon DEF Files
  <1>2. ArtifactTypeOK
    <2>1. NoFile \in FileRow
      BY Zenon DEF NoFile, FileRow
    <2>2. NoUpload \in UploadRow
      BY Zenon DEF NoUpload, UploadRow
    <2>3. NoAttempt \in AttemptRow
      BY Zenon DEF NoAttempt, AttemptRow
    <2>4. NoDownload \in DownloadRow
      BY Zenon DEF NoDownload, DownloadRow
    <2>5. \A u \in Uploads : uploads[u].state = "NONE" /\ artifacts[u].state = "NONE"
      BY <1>1, Zenon DEF ArtifactInit, NoUpload, NoFile
    <2> QED
      BY <2>1, <2>2, <2>3, <2>4, <2>5, Zenon DEF ArtifactInit, ArtifactTypeOK
  <1>3. DeletionSticks /\ DerivedFollowDeletion
    BY Zenon DEF ArtifactInit, DeletionSticks, DerivedFollowDeletion
  <1>4. \A t \in Attempts : AttemptOK(t)
    BY Zenon DEF ArtifactInit, NoAttempt, AttemptOK
  <1>5. \A u \in Uploads : UploadOK(u)
    BY <1>1, Zenon DEF ArtifactInit, NoFile, UploadOK
  <1>6. \A d \in Downloads : DownloadOK(d)
    BY Zenon DEF ArtifactInit, NoDownload, DownloadOK
  <1> QED
    BY <1>2, <1>3, <1>4, <1>5, <1>6, Zenon DEF ArtifactInv

-----------------------------------------------------------------------------
(* What a step keeps by leaving things alone.                              *)

(* Attempts and their bytes are untouched.                                 *)
LEMMA AttemptsKept ==
  ASSUME ArtifactInv, UNCHANGED <<attempts, objects>>
  PROVE  \A t \in Attempts : AttemptOK(t)'
  BY Zenon DEF ArtifactInv, AttemptOK

(* No settled key moves.                                                   *)
LEMMA DownloadsKept ==
  ASSUME ArtifactInv, UNCHANGED downloads,
         \A f \in Files : artifacts[f].state \notin {"NONE", "PENDING"} =>
           /\ artifacts'[f].state \notin {"NONE", "PENDING"}
           /\ artifacts'[f].key = artifacts[f].key
  PROVE  \A d \in Downloads : DownloadOK(d)'
  BY Zenon DEF ArtifactInv, DownloadOK

(* Finished attempts and their bytes are untouched.                        *)
LEMMA BackingKept ==
  ASSUME NEW u \in Uploads, Backed(u), artifacts'[u].key = artifacts[u].key,
         \A k \in Attempts : attempts[k].pc = "DONE" =>
           /\ attempts'[k].pc = "DONE"
           /\ attempts'[k].upload = attempts[k].upload
           /\ objects'[k] = objects[k]
  PROVE  Backed(u)'
  BY DEF Backed

(* A file gets another row.                                                *)
LEMMA FileWritten ==
  ASSUME ArtifactTypeOK, NEW f \in Files, NEW row,
         artifacts' = [artifacts EXCEPT ![f] = row]
  PROVE  /\ artifacts'[f] = row
         /\ \A g \in Files \ {f} : artifacts'[g] = artifacts[g]
         /\ row \in FileRow => artifacts' \in [Files -> FileRow]
  BY Zenon DEF ArtifactTypeOK

(* An upload gets another row.                                             *)
LEMMA UploadWritten ==
  ASSUME ArtifactTypeOK, NEW u \in Uploads, NEW row,
         uploads' = [uploads EXCEPT ![u] = row]
  PROVE  /\ uploads'[u] = row
         /\ \A v \in Uploads \ {u} : uploads'[v] = uploads[v]
         /\ row \in UploadRow => uploads' \in [Uploads -> UploadRow]
  BY Zenon DEF ArtifactTypeOK

(* An attempt gets another row.                                            *)
LEMMA AttemptWritten ==
  ASSUME ArtifactTypeOK, NEW t \in Attempts, NEW row,
         attempts' = [attempts EXCEPT ![t] = row]
  PROVE  /\ attempts'[t] = row
         /\ \A k \in Attempts \ {t} : attempts'[k] = attempts[k]
         /\ row \in AttemptRow => attempts' \in [Attempts -> AttemptRow]
  BY Zenon DEF ArtifactTypeOK

(* The projection of a file is written.                                    *)
LEMMA ProjectionWritten ==
  ASSUME ArtifactTypeOK, NEW f \in Files, WriteProjection(f)
  PROVE  projection' \in [Files -> {"NONE", "ACTIVE", "TOMBSTONED"}]
  BY Zenon DEF ArtifactTypeOK, WriteProjection

(* The deletions are as they were, and no deleted file gets a row back.    *)
LEMMA DeletionKept ==
  ASSUME ArtifactInv, UNCHANGED <<tombstones, lineage>>,
         \A f \in tombstones :
           /\ artifacts'[f].state \in {"TOMBSTONED", "QUARANTINED"}
           /\ artifacts'[f].rights # "ACTIVE"
  PROVE  DeletionSticks' /\ DerivedFollowDeletion'
  BY Zenon DEF ArtifactInv, DeletionSticks, DerivedFollowDeletion

-----------------------------------------------------------------------------
(* Uploads.                                                                *)

(* begin_artifact: the file is new, so it is not deleted and no download   *)
(* has its key.                                                            *)
LEMMA BeginArtifactInv ==
  ASSUME ArtifactInv, NEW u \in Uploads, BeginArtifact(u)
  PROVE  ArtifactInv'
  <1> DEFINE file == [artifacts[u] EXCEPT !.state = "PENDING", !.key = "NONE"]
  <1> DEFINE upload == [uploads[u] EXCEPT !.state = "OPEN"]
  <1>1. /\ ArtifactTypeOK /\ u \in Files
        /\ artifacts' = [artifacts EXCEPT ![u] = file]
        /\ uploads' = [uploads EXCEPT ![u] = upload]
        /\ artifacts[u].state = "NONE"
        /\ WriteProjection(u)
        /\ UNCHANGED <<tombstones, lineage, attempts, objects, corrupt,
                       downloads>>
    BY Zenon DEF ArtifactInv, BeginArtifact, Files
  <1>2. file \in FileRow /\ file.state = "PENDING"
    BY <1>1, Zenon DEF ArtifactTypeOK, FileRow
  <1>3. upload \in UploadRow /\ upload.state = "OPEN"
    BY <1>1, Zenon DEF ArtifactTypeOK, UploadRow
  <1> HIDE DEF file, upload
  <1>4. /\ artifacts'[u] = file
        /\ \A g \in Files \ {u} : artifacts'[g] = artifacts[g]
        /\ artifacts' \in [Files -> FileRow]
    BY <1>1, <1>2, FileWritten, Zenon
  <1>5. /\ uploads'[u] = upload
        /\ \A v \in Uploads \ {u} : uploads'[v] = uploads[v]
        /\ uploads' \in [Uploads -> UploadRow]
    BY <1>1, <1>3, UploadWritten, Zenon
  <1>6. projection' \in [Files -> {"NONE", "ACTIVE", "TOMBSTONED"}]
    BY <1>1, ProjectionWritten, Zenon
  <1>7. ArtifactTypeOK'
    <2>1. \A v \in Uploads : uploads'[v].state = "NONE" <=>
                             artifacts'[v].state = "NONE"
      BY <1>1, <1>2, <1>3, <1>4, <1>5, Zenon DEF ArtifactTypeOK, Files
    <2> QED
      BY <1>1, <1>4, <1>5, <1>6, <2>1, Zenon DEF ArtifactTypeOK
  <1>8. DeletionSticks' /\ DerivedFollowDeletion'
    <2>1. u \notin tombstones
      BY <1>1, Zenon DEF ArtifactInv, DeletionSticks
    <2>2. \A f \in tombstones : artifacts'[f] = artifacts[f]
      BY <1>1, <1>4, <2>1, Zenon DEF ArtifactTypeOK
    <2>3. \A f \in tombstones :
            /\ artifacts'[f].state \in {"TOMBSTONED", "QUARANTINED"}
            /\ artifacts'[f].rights # "ACTIVE"
      BY <2>2, Zenon DEF ArtifactInv, DeletionSticks
    <2> QED
      BY <1>1, <2>3, DeletionKept, Zenon
  <1>9. \A t \in Attempts : AttemptOK(t)'
    BY <1>1, AttemptsKept, Zenon
  <1>10. \A v \in Uploads : UploadOK(v)'
    <2>1. UploadOK(u)'
      BY <1>2, <1>3, <1>4, <1>5, Zenon DEF UploadOK
    <2>2. ASSUME NEW v \in Uploads \ {u} PROVE UploadOK(v)'
      <3>1. artifacts'[v] = artifacts[v] /\ uploads'[v] = uploads[v]
        BY <1>4, <1>5, Zenon DEF Files
      <3> QED
        BY <1>1, <3>1 DEF ArtifactInv, UploadOK, Backed
    <2> QED
      BY <2>1, <2>2, Zenon
  <1>11. \A d \in Downloads : DownloadOK(d)'
    BY <1>1, <1>4, DownloadsKept, Zenon
  <1> QED
    BY <1>7, <1>8, <1>9, <1>10, <1>11, Zenon DEF ArtifactInv


(* finalize_artifact: the file was pending, so it is not deleted, and its  *)
(* upload was done, so its key is backed.                                  *)
LEMMA FinalizeArtifactInv ==
  ASSUME ArtifactInv, NEW u \in Uploads, FinalizeArtifact(u)
  PROVE  ArtifactInv'
  <1> DEFINE file == [artifacts[u] EXCEPT !.state = "ACTIVE",
                                          !.rights = "ACTIVE"]
  <1> DEFINE upload == [uploads[u] EXCEPT !.state = "FINALIZED"]
  <1>1. /\ ArtifactTypeOK /\ u \in Files
        /\ artifacts' = [artifacts EXCEPT ![u] = file]
        /\ uploads' = [uploads EXCEPT ![u] = upload]
        /\ artifacts[u].state = "PENDING" /\ uploads[u].state = "UPLOADED"
        /\ WriteProjection(u)
        /\ UNCHANGED <<tombstones, lineage, attempts, objects, corrupt,
                       downloads>>
    BY Zenon DEF ArtifactInv, FinalizeArtifact, Verified, Files
  <1>2. /\ file \in FileRow /\ file.state = "ACTIVE"
        /\ file.key = artifacts[u].key
    BY <1>1, Zenon DEF ArtifactTypeOK, FileRow
  <1>3. upload \in UploadRow /\ upload.state = "FINALIZED"
    BY <1>1, Zenon DEF ArtifactTypeOK, UploadRow
  <1> HIDE DEF file, upload
  <1>4. /\ artifacts'[u] = file
        /\ \A g \in Files \ {u} : artifacts'[g] = artifacts[g]
        /\ artifacts' \in [Files -> FileRow]
    BY <1>1, <1>2, FileWritten, Zenon
  <1>5. /\ uploads'[u] = upload
        /\ \A v \in Uploads \ {u} : uploads'[v] = uploads[v]
        /\ uploads' \in [Uploads -> UploadRow]
    BY <1>1, <1>3, UploadWritten, Zenon
  <1>6. projection' \in [Files -> {"NONE", "ACTIVE", "TOMBSTONED"}]
    BY <1>1, ProjectionWritten, Zenon
  <1>7. ArtifactTypeOK'
    <2>1. \A v \in Uploads : uploads'[v].state = "NONE" <=>
                             artifacts'[v].state = "NONE"
      BY <1>1, <1>2, <1>3, <1>4, <1>5, Zenon DEF ArtifactTypeOK, Files
    <2> QED
      BY <1>1, <1>4, <1>5, <1>6, <2>1, Zenon DEF ArtifactTypeOK
  <1>8. DeletionSticks' /\ DerivedFollowDeletion'
    <2>1. u \notin tombstones
      BY <1>1, Zenon DEF ArtifactInv, DeletionSticks
    <2>2. \A f \in tombstones : artifacts'[f] = artifacts[f]
      BY <1>1, <1>4, <2>1, Zenon DEF ArtifactTypeOK
    <2>3. \A f \in tombstones :
            /\ artifacts'[f].state \in {"TOMBSTONED", "QUARANTINED"}
            /\ artifacts'[f].rights # "ACTIVE"
      BY <2>2, Zenon DEF ArtifactInv, DeletionSticks
    <2> QED
      BY <1>1, <2>3, DeletionKept, Zenon
  <1>9. \A t \in Attempts : AttemptOK(t)'
    BY <1>1, AttemptsKept, Zenon
  <1>10. \A v \in Uploads : UploadOK(v)'
    <2>1. UploadOK(u)'
      <3>1. Backed(u)
        BY <1>1, Zenon DEF ArtifactInv, UploadOK
      <3>2. Backed(u)'
        BY <1>1, <1>2, <1>4, <3>1, BackingKept, Zenon
      <3> QED
        BY <3>2, Zenon DEF UploadOK
    <2>2. ASSUME NEW v \in Uploads \ {u} PROVE UploadOK(v)'
      <3>1. artifacts'[v] = artifacts[v] /\ uploads'[v] = uploads[v]
        BY <1>4, <1>5, Zenon DEF Files
      <3> QED
        BY <1>1, <3>1 DEF ArtifactInv, UploadOK, Backed
    <2> QED
      BY <2>1, <2>2, Zenon
  <1>11. \A d \in Downloads : DownloadOK(d)'
    BY <1>1, <1>4, DownloadsKept, Zenon
  <1> QED
    BY <1>7, <1>8, <1>9, <1>10, <1>11, Zenon DEF ArtifactInv

(* Steps that write only the lease or the clock of uploads.                *)
LEMMA UploadOnlyInv ==
  ASSUME ArtifactInv, NEW u \in Uploads, NEW row \in UploadRow,
         row.state = uploads[u].state,
         uploads' = [uploads EXCEPT ![u] = row],
         UNCHANGED <<artifacts, tombstones, lineage, projection, attempts,
                     objects, corrupt, downloads>>
  PROVE  ArtifactInv'
  <1>1. /\ uploads' \in [Uploads -> UploadRow]
        /\ \A v \in Uploads : uploads'[v].state = uploads[v].state
    BY UploadWritten, Zenon DEF ArtifactInv
  <1>2. ArtifactTypeOK'
    BY <1>1, Zenon DEF ArtifactInv, ArtifactTypeOK
  <1>3. DeletionSticks' /\ DerivedFollowDeletion'
    BY Zenon DEF ArtifactInv, DeletionSticks, DerivedFollowDeletion
  <1>4. \A t \in Attempts : AttemptOK(t)'
    BY AttemptsKept, Zenon
  <1>5. \A v \in Uploads : UploadOK(v)'
    BY <1>1 DEF ArtifactInv, UploadOK, Backed
  <1>6. \A d \in Downloads : DownloadOK(d)'
    BY DownloadsKept, Zenon
  <1> QED
    BY <1>2, <1>3, <1>4, <1>5, <1>6, Zenon DEF ArtifactInv

(* A lease runs out.                                                       *)
LEMMA LeaseExpiresInv ==
  ASSUME ArtifactInv, NEW u \in Uploads, LeaseExpires(u)
  PROVE  ArtifactInv'
  <1> DEFINE row == [uploads[u] EXCEPT !.lease_expired = TRUE]
  <1>1. row \in UploadRow /\ row.state = uploads[u].state
    BY Zenon DEF ArtifactInv, ArtifactTypeOK, UploadRow
  <1>2. /\ uploads' = [uploads EXCEPT ![u] = row]
        /\ UNCHANGED <<artifacts, tombstones, lineage, projection, attempts,
                       objects, corrupt, downloads>>
    BY Zenon DEF LeaseExpires
  <1> HIDE DEF row
  <1> QED
    BY <1>1, <1>2, UploadOnlyInv, Zenon

(* An upload runs out.                                                     *)
LEMMA UploadExpiresInv ==
  ASSUME ArtifactInv, NEW u \in Uploads, UploadExpires(u)
  PROVE  ArtifactInv'
  <1> DEFINE row == [uploads[u] EXCEPT !.expired = TRUE]
  <1>1. row \in UploadRow /\ row.state = uploads[u].state
    BY Zenon DEF ArtifactInv, ArtifactTypeOK, UploadRow
  <1>2. /\ uploads' = [uploads EXCEPT ![u] = row]
        /\ UNCHANGED <<artifacts, tombstones, lineage, projection, attempts,
                       objects, corrupt, downloads>>
    BY Zenon DEF UploadExpires
  <1> HIDE DEF row
  <1> QED
    BY <1>1, <1>2, UploadOnlyInv, Zenon

-----------------------------------------------------------------------------
(* Attempts.                                                               *)

(* Steps that move an attempt which is not finished and leave the files    *)
(* alone.                                                                  *)
LEMMA AttemptOnlyInv ==
  ASSUME ArtifactInv, NEW t \in Attempts, NEW row \in AttemptRow,
         attempts[t].pc # "DONE",
         attempts' = [attempts EXCEPT ![t] = row],
         objects' \in [Attempts -> Bodies \cup {NoBytes}],
         \A k \in Attempts \ {t} : objects'[k] = objects[k],
         row.pc \in {"LEASED", "MOVED"} => row.upload \in Uploads,
         row.pc = "MOVED" /\ row.outcome = "CLEAN" => objects'[t] = CleanBytes,
         uploads' \in [Uploads -> UploadRow],
         \A v \in Uploads : uploads'[v].state = uploads[v].state,
         UNCHANGED <<artifacts, tombstones, lineage, projection, corrupt,
                     downloads>>
  PROVE  ArtifactInv'
  <1>1. /\ attempts'[t] = row
        /\ \A k \in Attempts \ {t} : attempts'[k] = attempts[k]
        /\ attempts' \in [Attempts -> AttemptRow]
    BY AttemptWritten, Zenon DEF ArtifactInv
  <1>2. ArtifactTypeOK'
    BY <1>1, Zenon DEF ArtifactInv, ArtifactTypeOK
  <1>3. DeletionSticks' /\ DerivedFollowDeletion'
    BY Zenon DEF ArtifactInv, DeletionSticks, DerivedFollowDeletion
  <1>4. \A k \in Attempts : AttemptOK(k)'
    <2>1. AttemptOK(t)'
      BY <1>1, Zenon DEF AttemptOK
    <2>2. ASSUME NEW k \in Attempts \ {t} PROVE AttemptOK(k)'
      BY <1>1, Zenon DEF ArtifactInv, AttemptOK
    <2> QED
      BY <2>1, <2>2, Zenon
  <1>5. ASSUME NEW v \in Uploads PROVE UploadOK(v)'
    <2>1. UploadOK(v)
      BY Zenon DEF ArtifactInv
    <2>2. Backed(v) => Backed(v)'
      BY <1>1, BackingKept, Zenon
    <2> QED
      BY <2>1, <2>2, Zenon DEF UploadOK
  <1>6. \A d \in Downloads : DownloadOK(d)'
    BY DownloadsKept, Zenon
  <1> QED
    BY <1>2, <1>3, <1>4, <1>5, <1>6, Zenon DEF ArtifactInv


(* put_upload takes a lease: only the upload's lease and the attempt move. *)
LEMMA TakeLeaseInv ==
  ASSUME ArtifactInv, NEW t \in Attempts, NEW u \in Uploads, TakeLease(t, u)
  PROVE  ArtifactInv'
  <1> DEFINE row == [attempts[t] EXCEPT !.pc = "LEASED", !.upload = u]
  <1> DEFINE upload == [uploads[u] EXCEPT !.lease = t, !.lease_expired = FALSE]
  <1>1. /\ attempts' = [attempts EXCEPT ![t] = row]
        /\ uploads' = [uploads EXCEPT ![u] = upload]
        /\ attempts[t].pc = "IDLE"
        /\ UNCHANGED <<artifacts, tombstones, lineage, projection, objects,
                       corrupt, downloads>>
    BY Zenon DEF TakeLease
  <1>2. row \in AttemptRow /\ row.pc = "LEASED" /\ row.upload = u
    BY Zenon DEF ArtifactInv, ArtifactTypeOK, AttemptRow
  <1>3. upload \in UploadRow /\ upload.state = uploads[u].state
    BY Zenon DEF ArtifactInv, ArtifactTypeOK, UploadRow
  <1> HIDE DEF row, upload
  <1>4. /\ uploads' \in [Uploads -> UploadRow]
        /\ \A v \in Uploads : uploads'[v].state = uploads[v].state
    BY <1>1, <1>3, UploadWritten, Zenon DEF ArtifactInv
  <1>5. objects' \in [Attempts -> Bodies \cup {NoBytes}]
    BY <1>1, Zenon DEF ArtifactInv, ArtifactTypeOK
  <1> QED
    BY <1>1, <1>2, <1>4, <1>5, AttemptOnlyInv, Zenon

(* A clean verdict is only given to clean bytes.                           *)
LEMMA CleanMeansClean ==
  ASSUME NEW b \in Bodies, NEW reply \in ScanReplies(b), Passed(b, reply)
  PROVE  b = CleanBytes
  <1>1. ~ b.infected
    BY Zenon DEF Passed, ScanReplies
  <1>2. /\ b.length = "EXACT" /\ b.digest = "DECLARED"
        /\ b.type_valid = TRUE /\ b.infected = FALSE
    BY <1>1, Zenon DEF Passed, Spooled, ContentAgrees, Bodies
  <1> QED
    BY <1>2, Zenon DEF Bodies, CleanBytes

(* The transfer.                                                           *)
LEMMA TransferInv ==
  ASSUME ArtifactInv, NEW t \in Attempts, NEW b \in Bodies, NEW reply,
         NEW answer, Transfer(t, b, reply, answer)
  PROVE  ArtifactInv'
  <1> DEFINE outcome == TransferOutcome(b, reply, answer)
  <1> DEFINE row == [attempts[t] EXCEPT !.pc = "MOVED", !.outcome = outcome]
  <1>1. /\ attempts' = [attempts EXCEPT ![t] = row]
        /\ objects' = IF Passed(b, reply) /\ answer # "FAILED"
                      THEN [objects EXCEPT ![t] = b] ELSE objects
        /\ attempts[t].pc = "LEASED"
        /\ reply \in ScanReplies(b)
        /\ UNCHANGED <<artifacts, tombstones, lineage, projection, uploads,
                       corrupt, downloads>>
    BY Zenon DEF Transfer
  <1>2. outcome \in {"CLEAN", "BAD", "FAILED"}
    BY Zenon DEF TransferOutcome
  <1>3. outcome = "CLEAN" => Passed(b, reply) /\ answer = "CREATED"
    BY Zenon DEF TransferOutcome
  <1> HIDE DEF outcome
  <1>4. /\ row \in AttemptRow /\ row.pc = "MOVED" /\ row.outcome = outcome
        /\ row.upload = attempts[t].upload
    BY <1>2, Zenon DEF ArtifactInv, ArtifactTypeOK, AttemptRow
  <1> HIDE DEF row
  <1>5. attempts[t].upload \in Uploads
    BY <1>1, Zenon DEF ArtifactInv, AttemptOK
  <1>6. /\ objects' \in [Attempts -> Bodies \cup {NoBytes}]
        /\ \A k \in Attempts \ {t} : objects'[k] = objects[k]
    BY <1>1, Zenon DEF ArtifactInv, ArtifactTypeOK
  <1>7. outcome = "CLEAN" => objects'[t] = CleanBytes
    <2>1. SUFFICES ASSUME outcome = "CLEAN" PROVE objects'[t] = CleanBytes
      BY Zenon
    <2>2. b = CleanBytes
      BY <1>1, <1>3, <2>1, CleanMeansClean, Zenon
    <2> QED
      BY <1>1, <1>3, <2>1, <2>2, Zenon DEF ArtifactInv, ArtifactTypeOK
  <1>8. /\ uploads' \in [Uploads -> UploadRow]
        /\ \A v \in Uploads : uploads'[v].state = uploads[v].state
    BY <1>1, Zenon DEF ArtifactInv, ArtifactTypeOK
  <1> QED
    BY <1>1, <1>4, <1>5, <1>6, <1>7, <1>8, AttemptOnlyInv, Zenon

(* An attempt ends without a word.                                         *)
LEMMA AbandonAttemptInv ==
  ASSUME ArtifactInv, NEW t \in Attempts, AbandonAttempt(t)
  PROVE  ArtifactInv'
  <1> DEFINE row == [attempts[t] EXCEPT !.pc = "DONE"]
  <1>1. /\ attempts' = [attempts EXCEPT ![t] = row]
        /\ attempts[t].pc # "DONE"
        /\ UNCHANGED <<artifacts, tombstones, lineage, projection, uploads,
                       objects, corrupt, downloads>>
    BY Zenon DEF AbandonAttempt
  <1>2. row \in AttemptRow /\ row.pc = "DONE"
    BY Zenon DEF ArtifactInv, ArtifactTypeOK, AttemptRow
  <1> HIDE DEF row
  <1>3. /\ objects' \in [Attempts -> Bodies \cup {NoBytes}]
        /\ \A k \in Attempts \ {t} : objects'[k] = objects[k]
        /\ uploads' \in [Uploads -> UploadRow]
        /\ \A v \in Uploads : uploads'[v].state = uploads[v].state
    BY <1>1, Zenon DEF ArtifactInv, ArtifactTypeOK
  <1> QED
    BY <1>1, <1>2, <1>3, AttemptOnlyInv, Zenon

(* What the second transaction of put_upload does to the file: it moves    *)
(* the key of a pending file, or quarantines it.                           *)
LEMMA RecordedFileRow ==
  ASSUME ArtifactTypeOK, NEW t \in Attempts, NEW u \in Uploads, NEW result,
         artifacts' = RecordedFile(t, u, result)
  PROVE  /\ artifacts' \in [Files -> FileRow]
         /\ \A g \in Files \ {u} : artifacts'[g] = artifacts[g]
         /\ artifacts'[u].rights = artifacts[u].rights
         /\ result = "FAILED" => /\ artifacts'[u].state = "QUARANTINED"
                                 /\ artifacts'[u].key = artifacts[u].key
         /\ result # "FAILED" => artifacts'[u].state = artifacts[u].state
         /\ result = "UPLOADED" /\ artifacts[u].state = "PENDING" =>
              artifacts'[u].key = t
         /\ ~ (result = "UPLOADED" /\ artifacts[u].state = "PENDING") =>
              artifacts'[u].key = artifacts[u].key
  <1>1. u \in Files /\ artifacts[u] \in FileRow
    BY Zenon DEF ArtifactTypeOK, Files
  <1>2. CASE result = "UPLOADED" /\ artifacts[u].state = "PENDING"
    <2> DEFINE row == [artifacts[u] EXCEPT !.key = t]
    <2>1. artifacts' = [artifacts EXCEPT ![u] = row]
      BY <1>2, Zenon DEF RecordedFile
    <2>2. /\ row \in FileRow /\ row.key = t
          /\ row.state = artifacts[u].state /\ row.rights = artifacts[u].rights
      BY <1>1, Zenon DEF FileRow
    <2> HIDE DEF row
    <2> QED
      BY <1>1, <1>2, <2>1, <2>2, FileWritten, Zenon
  <1>3. CASE result = "FAILED"
    <2> DEFINE row == [artifacts[u] EXCEPT !.state = "QUARANTINED"]
    <2>1. artifacts' = [artifacts EXCEPT ![u] = row]
      BY <1>3, Zenon DEF RecordedFile
    <2>2. /\ row \in FileRow /\ row.key = artifacts[u].key
          /\ row.state = "QUARANTINED" /\ row.rights = artifacts[u].rights
      BY <1>1, Zenon DEF FileRow
    <2> HIDE DEF row
    <2> QED
      BY <1>1, <1>3, <2>1, <2>2, FileWritten, Zenon
  <1>4. CASE /\ ~ (result = "UPLOADED" /\ artifacts[u].state = "PENDING")
             /\ result # "FAILED"
    BY <1>1, <1>4, Zenon DEF RecordedFile, ArtifactTypeOK
  <1> QED
    BY <1>2, <1>3, <1>4, Zenon

(* The second transaction of put_upload, for the upload of the attempt.    *)
LEMMA RecordOutcomeFor ==
  ASSUME ArtifactInv, NEW t \in Attempts, RecordOutcome(t),
         NEW u \in Uploads, attempts[t].upload = u
  PROVE  ArtifactInv'
  <1> DEFINE result == UploadOutcome(u, attempts[t].outcome)
  <1> DEFINE row == [attempts[t] EXCEPT !.pc = "DONE"]
  <1> DEFINE upload == [uploads[u] EXCEPT !.state = result, !.lease = "NULL",
                                          !.lease_expired = FALSE]
  <1>1. /\ attempts[t].pc = "MOVED"
        /\ LeaseHeld(t, u)
        /\ artifacts' = RecordedFile(t, u, result)
        /\ uploads' = [uploads EXCEPT ![u] = upload]
        /\ WriteProjection(u)
        /\ attempts' = [attempts EXCEPT ![t] = row]
        /\ UNCHANGED <<tombstones, lineage, objects, corrupt, downloads>>
    BY Zenon DEF RecordOutcome
  <1>2. ArtifactTypeOK /\ u \in Files
    BY Zenon DEF ArtifactInv, Files
  <1>3. /\ result \in {"EXPIRED", "UPLOADED", "FAILED", "OPEN"}
        /\ result = "UPLOADED" => attempts[t].outcome = "CLEAN"
    BY Zenon DEF UploadOutcome
  <1>4. /\ row \in AttemptRow /\ row.pc = "DONE"
        /\ row.upload = attempts[t].upload
    BY <1>2, Zenon DEF ArtifactTypeOK, AttemptRow
  <1>5. artifacts[u].state # "NONE"
    BY <1>1, <1>2, Zenon DEF ArtifactTypeOK, LeaseHeld
  <1>6. attempts[t].outcome = "CLEAN" => objects[t] = CleanBytes
    BY <1>1, Zenon DEF ArtifactInv, AttemptOK
  <1> HIDE DEF result, row
  <1>7. upload \in UploadRow /\ upload.state = result
    <2>1. uploads[u] \in UploadRow
      BY <1>2, Zenon DEF ArtifactTypeOK
    <2> QED
      BY <1>3, <2>1, Zenon DEF UploadRow
  <1> HIDE DEF upload
  <1>8. ArtifactTypeOK /\ artifacts' = RecordedFile(t, u, result)
    BY <1>1, <1>2, Zenon
  <1>9. /\ artifacts' \in [Files -> FileRow]
        /\ \A g \in Files \ {u} : artifacts'[g] = artifacts[g]
        /\ artifacts'[u].rights = artifacts[u].rights
        /\ result = "FAILED" => /\ artifacts'[u].state = "QUARANTINED"
                                /\ artifacts'[u].key = artifacts[u].key
        /\ result # "FAILED" => artifacts'[u].state = artifacts[u].state
        /\ result = "UPLOADED" /\ artifacts[u].state = "PENDING" =>
             artifacts'[u].key = t
        /\ ~ (result = "UPLOADED" /\ artifacts[u].state = "PENDING") =>
             artifacts'[u].key = artifacts[u].key
    BY <1>8, RecordedFileRow
  <1>10. /\ uploads'[u] = upload
         /\ \A v \in Uploads \ {u} : uploads'[v] = uploads[v]
         /\ uploads' \in [Uploads -> UploadRow]
    BY <1>1, <1>2, <1>7, UploadWritten, Zenon
  <1>11. /\ attempts'[t] = row
         /\ \A k \in Attempts \ {t} : attempts'[k] = attempts[k]
         /\ attempts' \in [Attempts -> AttemptRow]
    BY <1>1, <1>2, <1>4, AttemptWritten, Zenon
  <1>12. ArtifactTypeOK'
    <2>1. projection' \in [Files -> {"NONE", "ACTIVE", "TOMBSTONED"}]
      BY <1>1, <1>2, ProjectionWritten, Zenon
    <2>2. \A v \in Uploads : uploads'[v].state = "NONE" <=>
                             artifacts'[v].state = "NONE"
      BY <1>2, <1>3, <1>5, <1>7, <1>9, <1>10 DEF ArtifactTypeOK, Files
    <2> QED
      BY <1>1, <1>2, <1>9, <1>10, <1>11, <2>1, <2>2, Zenon DEF ArtifactTypeOK
  <1>13. DeletionSticks' /\ DerivedFollowDeletion'
    <2>1. ASSUME NEW f \in tombstones
          PROVE  /\ artifacts'[f].state \in {"TOMBSTONED", "QUARANTINED"}
                 /\ artifacts'[f].rights # "ACTIVE"
      <3>1. /\ f \in Files
            /\ artifacts[f].state \in {"TOMBSTONED", "QUARANTINED"}
            /\ artifacts[f].rights # "ACTIVE"
        BY <1>2, Zenon DEF ArtifactInv, ArtifactTypeOK, DeletionSticks
      <3> QED
        BY <1>9, <3>1, Zenon
    <2> QED
      BY <1>1, <2>1, DeletionKept, Zenon
  <1>14. \A k \in Attempts : AttemptOK(k)'
    <2>1. AttemptOK(t)'
      BY <1>4, <1>11, Zenon DEF AttemptOK
    <2>2. ASSUME NEW k \in Attempts \ {t} PROVE AttemptOK(k)'
      BY <1>1, <1>11, Zenon DEF ArtifactInv, AttemptOK
    <2> QED
      BY <2>1, <2>2, Zenon
  <1>15. \A k \in Attempts : attempts[k].pc = "DONE" =>
           /\ attempts'[k].pc = "DONE"
           /\ attempts'[k].upload = attempts[k].upload
           /\ objects'[k] = objects[k]
    BY <1>1, <1>11, Zenon
  <1>16. \A v \in Uploads : UploadOK(v)'
    <2>1. ASSUME NEW v \in Uploads \ {u} PROVE UploadOK(v)'
      <3>1. artifacts'[v] = artifacts[v] /\ uploads'[v] = uploads[v]
        BY <1>9, <1>10, Zenon DEF Files
      <3>2. UploadOK(v)
        BY Zenon DEF ArtifactInv
      <3>3. Backed(v) => Backed(v)'
        BY <1>15, <3>1, BackingKept, Zenon
      <3> QED
        BY <3>1, <3>2, <3>3, Zenon DEF UploadOK
    <2>2. CASE artifacts'[u].state = "ACTIVE"
      <3>1. artifacts[u].state = "ACTIVE" /\ artifacts'[u].key = artifacts[u].key
        BY <1>9, <2>2, Zenon
      <3>2. Backed(u)
        BY <1>2, <3>1, Zenon DEF ArtifactInv, UploadOK
      <3>3. Backed(u)'
        BY <1>2, <1>15, <3>1, <3>2, BackingKept, Zenon
      <3> QED
        BY <2>1, <3>3, Zenon DEF UploadOK
    <2>3. CASE artifacts'[u].state = "PENDING" /\ uploads'[u].state = "UPLOADED"
      <3>1. result = "UPLOADED" /\ artifacts[u].state = "PENDING"
        BY <1>7, <1>9, <1>10, <2>3, Zenon
      <3>2. artifacts'[u].key = t /\ objects'[t] = CleanBytes
        BY <1>1, <1>3, <1>6, <1>9, <3>1, Zenon
      <3>3. Backed(u)'
        BY <1>4, <1>11, <3>2, Zenon DEF Backed
      <3> QED
        BY <2>1, <3>3, Zenon DEF UploadOK
    <2>4. CASE /\ artifacts'[u].state # "ACTIVE"
               /\ ~ (/\ artifacts'[u].state = "PENDING"
                     /\ uploads'[u].state = "UPLOADED")
      BY <2>1, <2>4, Zenon DEF UploadOK
    <2> QED
      BY <2>2, <2>3, <2>4, Zenon
  <1>17. \A d \in Downloads : DownloadOK(d)'
    <2>1. \A f \in Files : artifacts[f].state \notin {"NONE", "PENDING"} =>
            /\ artifacts'[f].state \notin {"NONE", "PENDING"}
            /\ artifacts'[f].key = artifacts[f].key
      BY <1>9, Zenon
    <2> QED
      BY <1>1, <2>1, DownloadsKept, Zenon
  <1> QED
    BY <1>12, <1>13, <1>14, <1>16, <1>17, Zenon DEF ArtifactInv


(* The second transaction of put_upload.                                   *)
LEMMA RecordOutcomeInv ==
  ASSUME ArtifactInv, NEW t \in Attempts, RecordOutcome(t)
  PROVE  ArtifactInv'
  <1>1. attempts[t].pc = "MOVED"
    BY Zenon DEF RecordOutcome
  <1>2. attempts[t].upload \in Uploads
    BY <1>1, Zenon DEF ArtifactInv, AttemptOK
  <1>3. PICK u \in Uploads : attempts[t].upload = u
    BY <1>2, Zenon
  <1> QED
    BY <1>3, RecordOutcomeFor, Zenon

-----------------------------------------------------------------------------
(* Derived files, deletion and containment.                                *)

(* Steps that write one file and leave the uploads and attempts alone: its *)
(* key is not moved once it is settled, it does not become active without  *)
(* being so before if it is an upload, and no deleted file comes back.     *)
LEMMA FileOnlyInv ==
  ASSUME ArtifactInv, NEW f \in Files, NEW row \in FileRow,
         artifacts' = [artifacts EXCEPT ![f] = row],
         row.state # "NONE",
         artifacts[f].state = "NONE" => f \notin Uploads,
         f \in Uploads => row.state \in {artifacts[f].state, "QUARANTINED"},
         artifacts[f].state # "NONE" => /\ row.key = artifacts[f].key
                                        /\ row.rights = artifacts[f].rights,
         artifacts[f].state \notin {"NONE", "PENDING"} =>
           row.state \in {artifacts[f].state, "QUARANTINED"},
         UNCHANGED <<tombstones, uploads, attempts, objects, corrupt,
                     downloads>>,
         projection' \in [Files -> {"NONE", "ACTIVE", "TOMBSTONED"}],
         lineage' \subseteq Files \X Outputs,
         DerivedFollowDeletion'
  PROVE  ArtifactInv'
  <1>1. /\ ArtifactTypeOK
        /\ artifacts'[f] = row
        /\ \A g \in Files \ {f} : artifacts'[g] = artifacts[g]
        /\ artifacts' \in [Files -> FileRow]
    BY FileWritten, Zenon DEF ArtifactInv
  <1>2. ArtifactTypeOK'
    <2>1. \A v \in Uploads : uploads'[v].state = "NONE" <=>
                             artifacts'[v].state = "NONE"
      BY <1>1, Zenon DEF ArtifactTypeOK, Files
    <2> QED
      BY <1>1, <2>1, Zenon DEF ArtifactTypeOK
  <1>3. DeletionSticks'
    <2>1. ASSUME NEW g \in tombstones
          PROVE  /\ artifacts'[g].state \in {"TOMBSTONED", "QUARANTINED"}
                 /\ artifacts'[g].rights # "ACTIVE"
      <3>1. /\ g \in Files
            /\ artifacts[g].state \in {"TOMBSTONED", "QUARANTINED"}
            /\ artifacts[g].rights # "ACTIVE"
        BY <1>1, Zenon DEF ArtifactInv, ArtifactTypeOK, DeletionSticks
      <3> QED
        BY <1>1, <3>1, Zenon
    <2> QED
      BY <2>1, Zenon DEF DeletionSticks
  <1>4. \A t \in Attempts : AttemptOK(t)'
    BY AttemptsKept, Zenon
  <1>5. ASSUME NEW v \in Uploads PROVE UploadOK(v)'
    <2>1. UploadOK(v) /\ v \in Files
      BY Zenon DEF ArtifactInv, Files
    <2>2. /\ artifacts'[v].key = artifacts[v].key
          /\ artifacts'[v].state \in {artifacts[v].state, "QUARANTINED"}
      BY <1>1, <2>1, Zenon
    <2>3. Backed(v) => Backed(v)'
      BY <2>2, BackingKept, Zenon
    <2> QED
      BY <2>1, <2>2, <2>3, Zenon DEF UploadOK
  <1>6. \A d \in Downloads : DownloadOK(d)'
    <2>1. \A g \in Files : artifacts[g].state \notin {"NONE", "PENDING"} =>
            /\ artifacts'[g].state \notin {"NONE", "PENDING"}
            /\ artifacts'[g].key = artifacts[g].key
      BY <1>1, Zenon
    <2> QED
      BY <2>1, DownloadsKept, Zenon
  <1> QED
    BY <1>2, <1>3, <1>4, <1>5, <1>6, Zenon DEF ArtifactInv

(* invoke_plugin derives from a file that is readable, so not from a       *)
(* deleted one.                                                            *)
LEMMA DeriveOutputInv ==
  ASSUME ArtifactInv, NEW f \in Files, NEW o \in Outputs, DeriveOutput(f, o)
  PROVE  ArtifactInv'
  <1> DEFINE row == [state |-> "ACTIVE", key |-> "OWN",
                     rights |-> artifacts[f].rights, legal_hold |-> FALSE]
  <1>1. /\ ArtifactTypeOK /\ o \in Files \ Uploads
        /\ artifacts' = [artifacts EXCEPT ![o] = row]
        /\ artifacts[o].state = "NONE"
        /\ f \notin tombstones
        /\ lineage' = lineage \cup {<<f, o>>}
        /\ WriteProjection(o)
        /\ UNCHANGED <<tombstones, uploads, attempts, objects, corrupt,
                       downloads>>
    BY ArtifactAssumption, Zenon
       DEF ArtifactAssumption, ArtifactInv, DeriveOutput, Transformable,
           Readable, Files
  <1>2. row \in FileRow /\ row.state = "ACTIVE"
    BY <1>1, Zenon DEF ArtifactTypeOK, FileRow
  <1> HIDE DEF row
  <1>3. projection' \in [Files -> {"NONE", "ACTIVE", "TOMBSTONED"}]
    BY <1>1, ProjectionWritten, Zenon
  <1>4. lineage' \subseteq Files \X Outputs
    BY <1>1 DEF ArtifactTypeOK
  <1>5. DerivedFollowDeletion'
    BY <1>1 DEF ArtifactInv, DerivedFollowDeletion
  <1> QED
    BY <1>1, <1>2, <1>3, <1>4, <1>5, FileOnlyInv, Zenon

(* quarantine_corrupt_artifact.                                            *)
LEMMA QuarantineInv ==
  ASSUME ArtifactInv, NEW f \in Files, QuarantineCorruptArtifact(f)
  PROVE  ArtifactInv'
  <1> DEFINE row == [artifacts[f] EXCEPT !.state = "QUARANTINED"]
  <1>1. /\ ArtifactTypeOK
        /\ artifacts' = [artifacts EXCEPT ![f] = row]
        /\ artifacts[f].state = "ACTIVE"
        /\ UNCHANGED <<tombstones, lineage, projection, uploads, attempts,
                       objects, corrupt, downloads>>
    BY Zenon DEF ArtifactInv, QuarantineCorruptArtifact
  <1>2. /\ row \in FileRow /\ row.state = "QUARANTINED"
        /\ row.key = artifacts[f].key /\ row.rights = artifacts[f].rights
    BY <1>1, Zenon DEF ArtifactTypeOK, FileRow
  <1> HIDE DEF row
  <1>3. /\ projection' \in [Files -> {"NONE", "ACTIVE", "TOMBSTONED"}]
        /\ lineage' \subseteq Files \X Outputs
    BY <1>1, Zenon DEF ArtifactTypeOK
  <1>4. DerivedFollowDeletion'
    BY <1>1, Zenon DEF ArtifactInv, DerivedFollowDeletion
  <1> QED
    BY <1>1, <1>2, <1>3, <1>4, FileOnlyInv, Zenon

(* A legal hold is placed or lifted.                                       *)
LEMMA PlaceHoldInv ==
  ASSUME ArtifactInv, NEW f \in Files, PlaceHold(f)
  PROVE  ArtifactInv'
  <1> DEFINE row == [artifacts[f] EXCEPT !.legal_hold = ~ @]
  <1>1. /\ ArtifactTypeOK
        /\ artifacts' = [artifacts EXCEPT ![f] = row]
        /\ artifacts[f].state # "NONE"
        /\ UNCHANGED <<tombstones, lineage, projection, uploads, attempts,
                       objects, corrupt, downloads>>
    BY Zenon DEF ArtifactInv, PlaceHold
  <1>2. (~ artifacts[f].legal_hold) \in BOOLEAN
    BY Zenon
  <1>3. /\ row \in FileRow /\ row.state = artifacts[f].state
        /\ row.key = artifacts[f].key /\ row.rights = artifacts[f].rights
    BY <1>1, <1>2, Zenon DEF ArtifactTypeOK, FileRow
  <1> HIDE DEF row
  <1>4. /\ projection' \in [Files -> {"NONE", "ACTIVE", "TOMBSTONED"}]
        /\ lineage' \subseteq Files \X Outputs
    BY <1>1, Zenon DEF ArtifactTypeOK
  <1>5. DerivedFollowDeletion'
    BY <1>1, Zenon DEF ArtifactInv, DerivedFollowDeletion
  <1> QED
    BY <1>1, <1>3, <1>4, <1>5, FileOnlyInv, Zenon


(* What is affected by a deletion holds the file and whatever is derived   *)
(* from its members.                                                       *)
LEMMA AffectedIsClosed ==
  ASSUME ArtifactTypeOK, NEW f \in Files
  PROVE  /\ f \in Affected(f)
         /\ Affected(f) \subseteq Files
         /\ \A e \in lineage : e[1] \in Affected(f) => e[2] \in Affected(f)
  <1>1. \A e \in lineage : e[2] \in Files
    BY Zenon DEF ArtifactTypeOK, Files
  <1> QED
    BY <1>1, Zenon DEF Affected

(* A deletion reaches only outputs beside the file it names.               *)
LEMMA AffectedOutputs ==
  ASSUME ArtifactTypeOK, NEW f \in Files
  PROVE  Affected(f) \subseteq Outputs \cup {f}
  <1> DEFINE S == Outputs \cup {f}
  <1>1. S \in SUBSET Files /\ f \in S
    BY Zenon DEF Files
  <1>2. \A e \in lineage : e[2] \in S
    BY Zenon DEF ArtifactTypeOK
  <1> QED
    BY <1>1, <1>2, Zenon DEF Affected

(* The row of a deleted file.                                              *)
LEMMA DeletedRow ==
  ASSUME NEW row \in FileRow
  PROVE  /\ DeletedFile(row) \in FileRow
         /\ DeletedFile(row).state = "TOMBSTONED"
         /\ DeletedFile(row).rights # "ACTIVE"
         /\ DeletedFile(row).key = row.key
  <1> DEFINE rights == IF row.rights = "ACTIVE" THEN "REVOKED" ELSE row.rights
  <1>1. rights \in {"NONE", "REVOKED"}
    BY Zenon DEF FileRow
  <1>2. DeletedFile(row) = [row EXCEPT !.state = "TOMBSTONED",
                                       !.rights = rights]
    BY Zenon DEF DeletedFile
  <1> HIDE DEF rights
  <1> QED
    BY <1>1, <1>2, Zenon DEF FileRow

(* request_deletion over everything derived from the file.                 *)
LEMMA RequestDeletionInv ==
  ASSUME ArtifactInv, NEW f \in Files, RequestDeletion(f)
  PROVE  ArtifactInv'
  <1> DEFINE affected == Affected(f)
  <1>1. /\ ArtifactTypeOK
        /\ tombstones' = tombstones \cup affected
        /\ artifacts' = [g \in Files |-> IF g \in affected
                                         THEN DeletedFile(artifacts[g])
                                         ELSE artifacts[g]]
        /\ projection' = [g \in Files |-> IF g \in affected THEN "TOMBSTONED"
                                          ELSE projection[g]]
        /\ artifacts[f].state # "NONE"
        /\ UNCHANGED <<lineage, uploads, attempts, objects, corrupt,
                       downloads>>
    BY Zenon DEF ArtifactInv, RequestDeletion
  <1>2. /\ affected \subseteq Files
        /\ \A e \in lineage : e[1] \in affected => e[2] \in affected
        /\ \A v \in Uploads : v \in affected => v = f
    BY <1>1, AffectedIsClosed, AffectedOutputs, ArtifactAssumption, Zenon
       DEF ArtifactAssumption
  <1> HIDE DEF affected
  <1>3. ASSUME NEW g \in Files
        PROVE  /\ artifacts'[g] \in FileRow
               /\ artifacts'[g].key = artifacts[g].key
               /\ g \in affected => /\ artifacts'[g].state = "TOMBSTONED"
                                    /\ artifacts'[g].rights # "ACTIVE"
               /\ g \notin affected => artifacts'[g] = artifacts[g]
    <2>1. artifacts[g] \in FileRow
      BY <1>1, Zenon DEF ArtifactTypeOK
    <2>2. CASE g \in affected
      BY <1>1, <2>1, <2>2, DeletedRow, Zenon
    <2>3. CASE g \notin affected
      BY <1>1, <2>1, <2>3, Zenon
    <2> QED
      BY <2>2, <2>3, Zenon
  <1>4. ArtifactTypeOK'
    <2>1. artifacts' \in [Files -> FileRow]
      BY <1>1, <1>3, Zenon
    <2>2. projection' \in [Files -> {"NONE", "ACTIVE", "TOMBSTONED"}]
      BY <1>1, Zenon DEF ArtifactTypeOK
    <2>3. \A v \in Uploads : uploads'[v].state = "NONE" <=>
                             artifacts'[v].state = "NONE"
      <3> SUFFICES ASSUME NEW v \in Uploads
                   PROVE  uploads'[v].state = "NONE" <=>
                          artifacts'[v].state = "NONE"
        BY Zenon
      <3>1. /\ v \in Files /\ uploads'[v] = uploads[v]
            /\ uploads[v].state = "NONE" <=> artifacts[v].state = "NONE"
        BY <1>1, Zenon DEF ArtifactTypeOK, Files
      <3>2. CASE v \in affected
        <4>1. v = f /\ artifacts[v].state # "NONE"
          BY <1>1, <1>2, <3>2, Zenon
        <4>2. artifacts'[v].state = "TOMBSTONED"
          BY <1>3, <3>1, <3>2, Zenon
        <4> QED
          BY <3>1, <4>1, <4>2, Zenon
      <3>3. CASE v \notin affected
        <4>1. artifacts'[v] = artifacts[v]
          BY <1>3, <3>1, <3>3, Zenon
        <4> QED
          BY <3>1, <4>1, Zenon
      <3> QED
        BY <3>2, <3>3, Zenon
    <2> QED
      BY <1>1, <1>2, <2>1, <2>2, <2>3, Zenon DEF ArtifactTypeOK
  <1>5. DeletionSticks'
    <2>1. ASSUME NEW g \in tombstones'
          PROVE  /\ artifacts'[g].state \in {"TOMBSTONED", "QUARANTINED"}
                 /\ artifacts'[g].rights # "ACTIVE"
      <3>1. CASE g \in affected
        BY <1>2, <1>3, <3>1, Zenon
      <3>2. CASE g \in tombstones /\ g \notin affected
        BY <1>1, <1>3, <3>2, Zenon
           DEF ArtifactInv, ArtifactTypeOK, DeletionSticks
      <3> QED
        BY <1>1, <3>1, <3>2, Zenon
    <2> QED
      BY <2>1, Zenon DEF DeletionSticks
  <1>6. DerivedFollowDeletion'
    BY <1>1, <1>2, Zenon DEF ArtifactInv, DerivedFollowDeletion
  <1>7. \A t \in Attempts : AttemptOK(t)'
    BY <1>1, AttemptsKept, Zenon
  <1>8. ASSUME NEW v \in Uploads PROVE UploadOK(v)'
    <2>1. UploadOK(v) /\ v \in Files
      BY Zenon DEF ArtifactInv, Files
    <2>2. Backed(v) => Backed(v)'
      BY <1>1, <1>3, <2>1, BackingKept, Zenon
    <2>3. artifacts'[v].state \in {artifacts[v].state, "TOMBSTONED"}
      BY <1>3, <2>1, Zenon
    <2> QED
      BY <1>1, <2>1, <2>2, <2>3, Zenon DEF UploadOK
  <1>9. \A d \in Downloads : DownloadOK(d)'
    <2>1. \A g \in Files : artifacts[g].state \notin {"NONE", "PENDING"} =>
            /\ artifacts'[g].state \notin {"NONE", "PENDING"}
            /\ artifacts'[g].key = artifacts[g].key
      BY <1>3, Zenon
    <2> QED
      BY <1>1, <2>1, DownloadsKept, Zenon
  <1> QED
    BY <1>4, <1>5, <1>6, <1>7, <1>8, <1>9, Zenon DEF ArtifactInv


(* Stored bytes go bad.                                                    *)
LEMMA CorruptInv ==
  ASSUME ArtifactInv, NEW f \in Files, Corrupt(f)
  PROVE  ArtifactInv'
  <1>1. /\ corrupt' = corrupt \cup {f}
        /\ UNCHANGED <<artifacts, tombstones, lineage, projection, uploads,
                       attempts, objects, downloads>>
    BY Zenon DEF Corrupt
  <1>2. ArtifactTypeOK'
    BY <1>1, Zenon DEF ArtifactInv, ArtifactTypeOK
  <1>3. DeletionSticks' /\ DerivedFollowDeletion'
    BY <1>1, Zenon DEF ArtifactInv, DeletionSticks, DerivedFollowDeletion
  <1>4. \A u \in Uploads : UploadOK(u)'
    BY <1>1, Zenon DEF ArtifactInv, UploadOK, Backed
  <1> QED
    BY <1>1, <1>2, <1>3, <1>4, AttemptsKept, DownloadsKept, Zenon
       DEF ArtifactInv

-----------------------------------------------------------------------------
(* Downloads.                                                              *)

(* A download gets another row, and nothing else moves.                    *)
LEMMA DownloadOnlyInv ==
  ASSUME ArtifactInv, NEW d \in Downloads, NEW row \in DownloadRow,
         DownloadVars(d, row),
         row.pc # "IDLE" => row.file \in Files,
         row.pc \in {"KEYED", "SPOOLED"} =>
           /\ artifacts[row.file].state \notin {"NONE", "PENDING"}
           /\ row.key = artifacts[row.file].key
  PROVE  ArtifactInv'
  <1>1. /\ downloads' = [downloads EXCEPT ![d] = row]
        /\ UNCHANGED <<artifacts, tombstones, lineage, projection, uploads,
                       attempts, objects, corrupt>>
    BY Zenon DEF DownloadVars
  <1>2. /\ downloads' \in [Downloads -> DownloadRow]
        /\ downloads'[d] = row
        /\ \A e \in Downloads \ {d} : downloads'[e] = downloads[e]
    BY <1>1, Zenon DEF ArtifactInv, ArtifactTypeOK
  <1>3. ArtifactTypeOK'
    BY <1>1, <1>2, Zenon DEF ArtifactInv, ArtifactTypeOK
  <1>4. DeletionSticks' /\ DerivedFollowDeletion'
    BY <1>1, Zenon DEF ArtifactInv, DeletionSticks, DerivedFollowDeletion
  <1>5. \A u \in Uploads : UploadOK(u)'
    BY <1>1, Zenon DEF ArtifactInv, UploadOK, Backed
  <1>6. \A t \in Attempts : AttemptOK(t)'
    BY <1>1, AttemptsKept, Zenon
  <1>7. DownloadOK(d)'
    BY <1>1, <1>2, Zenon DEF DownloadOK
  <1>8. ASSUME NEW e \in Downloads \ {d} PROVE DownloadOK(e)'
    BY <1>1, <1>2, Zenon DEF ArtifactInv, DownloadOK
  <1> QED
    BY <1>3, <1>4, <1>5, <1>6, <1>7, <1>8, Zenon DEF ArtifactInv

(* verified_artifact_download, step by step.                               *)
LEMMA DownloadStepInv ==
  ASSUME ArtifactInv, NEW d \in Downloads,
         \/ \E f \in Files : OpenDownload(d, f)
         \/ ReadKey(d) \/ Spool(d) \/ Deliver(d) \/ EndDownload(d)
  PROVE  ArtifactInv'
  <1> DEFINE file == downloads[d].file
  <1>1. downloads[d] \in DownloadRow /\ DownloadOK(d)
    BY Zenon DEF ArtifactInv, ArtifactTypeOK
  <1>2. ASSUME NEW f \in Files, OpenDownload(d, f) PROVE ArtifactInv'
    <2> DEFINE row == [pc |-> "CHECKED", file |-> f, key |-> "NULL"]
    <2>1. /\ row \in DownloadRow /\ row.pc = "CHECKED" /\ row.file = f
          /\ DownloadVars(d, row)
      BY <1>2, Zenon DEF OpenDownload, DownloadRow
    <2> HIDE DEF row
    <2> QED
      BY <2>1, DownloadOnlyInv, Zenon
  <1>3. CASE ReadKey(d)
    <2> DEFINE row == [downloads[d] EXCEPT !.pc = "KEYED",
                                           !.key = artifacts[file].key]
    <2>1. /\ downloads[d].pc = "CHECKED" /\ artifacts[file].state = "ACTIVE"
          /\ DownloadVars(d, row)
      BY <1>3, Zenon DEF ReadKey
    <2>2. file \in Files
      BY <1>1, <2>1, Zenon DEF DownloadOK
    <2>3. artifacts[file].key \in {"NULL", "NONE", "OWN"} \cup Attempts
      BY <2>2, Zenon DEF ArtifactInv, ArtifactTypeOK, FileRow
    <2>4. /\ row \in DownloadRow /\ row.file = file
          /\ row.key = artifacts[file].key
      BY <1>1, <2>3, Zenon DEF DownloadRow
    <2> HIDE DEF row, file
    <2> QED
      BY <2>1, <2>2, <2>4, DownloadOnlyInv, Zenon
  <1>4. CASE Spool(d)
    <2> DEFINE row == [downloads[d] EXCEPT !.pc = "SPOOLED"]
    <2>1. downloads[d].pc = "KEYED" /\ DownloadVars(d, row)
      BY <1>4, Zenon DEF Spool
    <2>2. /\ row \in DownloadRow /\ row.file = downloads[d].file
          /\ row.key = downloads[d].key
      BY <1>1, Zenon DEF DownloadRow
    <2> HIDE DEF row
    <2> QED
      BY <1>1, <2>1, <2>2, DownloadOnlyInv, Zenon DEF DownloadOK
  <1>5. CASE Deliver(d)
    <2> DEFINE row == [downloads[d] EXCEPT !.pc = "STREAMING"]
    <2>1. downloads[d].pc = "SPOOLED" /\ DownloadVars(d, row)
      BY <1>5, Zenon DEF Deliver
    <2>2. /\ row \in DownloadRow /\ row.file = downloads[d].file
          /\ row.pc = "STREAMING"
      BY <1>1, Zenon DEF DownloadRow
    <2> HIDE DEF row
    <2> QED
      BY <1>1, <2>1, <2>2, DownloadOnlyInv, Zenon DEF DownloadOK
  <1>6. CASE EndDownload(d)
    <2>1. NoDownload \in DownloadRow /\ NoDownload.pc = "IDLE"
      BY Zenon DEF NoDownload, DownloadRow
    <2> QED
      BY <1>6, <2>1, DownloadOnlyInv, Zenon DEF EndDownload
  <1> QED
    BY <1>2, <1>3, <1>4, <1>5, <1>6, Zenon

-----------------------------------------------------------------------------
(* The theorems.                                                           *)

(* Every step keeps the invariant.                                         *)
LEMMA ArtifactStepInv ==
  ArtifactInv /\ [ArtifactNext]_artifactVars => ArtifactInv'
  <1> SUFFICES ASSUME ArtifactInv, [ArtifactNext]_artifactVars
               PROVE  ArtifactInv'
    BY Zenon
  <1>1. ASSUME NEW u \in Uploads,
               \/ BeginArtifact(u) \/ FinalizeArtifact(u)
               \/ LeaseExpires(u) \/ UploadExpires(u)
        PROVE  ArtifactInv'
    BY <1>1, BeginArtifactInv, FinalizeArtifactInv, LeaseExpiresInv,
       UploadExpiresInv, Zenon
  <1>2. ASSUME NEW t \in Attempts, NEW u \in Uploads, TakeLease(t, u)
        PROVE  ArtifactInv'
    BY <1>2, TakeLeaseInv, Zenon
  <1>3. ASSUME NEW t \in Attempts, NEW b \in Bodies, NEW reply, NEW answer,
               Transfer(t, b, reply, answer)
        PROVE  ArtifactInv'
    BY <1>3, TransferInv, Zenon
  <1>4. ASSUME NEW t \in Attempts, RecordOutcome(t) \/ AbandonAttempt(t)
        PROVE  ArtifactInv'
    BY <1>4, RecordOutcomeInv, AbandonAttemptInv, Zenon
  <1>5. ASSUME NEW f \in Files,
               \/ \E o \in Outputs : DeriveOutput(f, o)
               \/ RequestDeletion(f) \/ QuarantineCorruptArtifact(f)
        PROVE  ArtifactInv'
    BY <1>5, DeriveOutputInv, RequestDeletionInv, QuarantineInv, Zenon
  <1>6. ASSUME NEW f \in Marked, PlaceHold(f) \/ Corrupt(f)
        PROVE  ArtifactInv'
    <2>1. f \in Files
      BY ArtifactAssumption, Zenon DEF ArtifactAssumption, Files
    <2> QED
      BY <1>6, <2>1, PlaceHoldInv, CorruptInv, Zenon
  <1>7. ASSUME NEW d \in Downloads,
               \/ \E f \in Files : OpenDownload(d, f)
               \/ ReadKey(d) \/ Spool(d) \/ Deliver(d) \/ EndDownload(d)
        PROVE  ArtifactInv'
    BY <1>7, DownloadStepInv, Zenon
  <1>8. CASE UNCHANGED artifactVars
    BY <1>8, Zenon
       DEF artifactVars, ArtifactInv, ArtifactTypeOK, DeletionSticks,
           DerivedFollowDeletion, AttemptOK, UploadOK, Backed, DownloadOK
  <1> QED
    BY <1>1, <1>2, <1>3, <1>4, <1>5, <1>6, <1>7, <1>8, Zenon DEF ArtifactNext

(* The inductive invariant holds in every reachable state.                 *)
THEOREM ArtifactInvariant == ArtifactSpec => []ArtifactInv
  <1> QED
    BY ArtifactInitInv, ArtifactStepInv, PTL DEF ArtifactSpec

(* The rows of artifacts, uploads and attempts keep their shape.           *)
THEOREM ArtifactsTypeCorrect == ArtifactSpec => []ArtifactTypeOK
  <1>1. ArtifactInv => ArtifactTypeOK
    BY Zenon DEF ArtifactInv
  <1> QED
    BY <1>1, ArtifactInvariant, PTL

(* Whatever attempts race and whatever they send, an ACTIVE upload names   *)
(* verified bytes (put_upload, finalize_artifact).                         *)
THEOREM ActiveFilesAreVerified == ArtifactSpec => []ActiveBytesVerified
  <1> QED
    BY BackedIsVerified, ArtifactInvariant, PTL

(* No step that was under way brings a deleted file back, and however long *)
(* the lineage, what was derived from it is deleted (request_deletion and  *)
(* its recursive query, put_upload, finalize_artifact, invoke_plugin).     *)
THEOREM DeletionIsFinal == ArtifactSpec => []DeletedStaysDeleted
  <1>1. ArtifactInv => DeletedStaysDeleted
    BY Zenon DEF ArtifactInv, DeletedStaysDeleted
  <1> QED
    BY <1>1, ArtifactInvariant, PTL

(* No file under legal hold is deleted, however a deletion reaches it      *)
(* (request_deletion).                                                     *)
THEOREM HeldFilesStay == ArtifactSpec => HeldFilesAreKept
  <1> DEFINE Kept == \A f \in Files :
                       artifacts[f].legal_hold /\ f \notin tombstones
                       => f \notin tombstones'
  <1>1. ASSUME [ArtifactNext]_artifactVars PROVE Kept
    <2>1. ASSUME NEW f \in Files, RequestDeletion(f) PROVE Kept
      BY <2>1, Zenon DEF RequestDeletion, NoHold
    <2>2. UNCHANGED tombstones => Kept
      BY Zenon
    <2> HIDE DEF Kept
    <2> QED
      BY <1>1, <2>1, <2>2, Zenon
         DEF ArtifactNext, artifactVars, BeginArtifact, FinalizeArtifact,
             LeaseExpires, UploadExpires, TakeLease, Transfer, RecordOutcome,
             AbandonAttempt, DeriveOutput, QuarantineCorruptArtifact,
             PlaceHold, Corrupt, OpenDownload, ReadKey, Spool, Deliver,
             EndDownload, DownloadVars
  <1>2. [ArtifactNext]_artifactVars => [Kept]_artifactVars
    BY <1>1, Zenon
  <1> QED
    BY <1>2, PTL DEF ArtifactSpec, HeldFilesAreKept

(* Steps that leave the downloads alone, and those of another download.    *)
LEMMA OnlyDeliverStreams ==
  ASSUME ArtifactInv, [ArtifactNext]_artifactVars, NEW d \in Downloads,
         downloads[d].pc # "STREAMING", downloads'[d].pc = "STREAMING"
  PROVE  Deliver(d)
  <1>1. downloads \in [Downloads -> DownloadRow]
    BY Zenon DEF ArtifactInv, ArtifactTypeOK
  <1>2. downloads' # downloads
    BY Zenon
  <1>3. PICK e \in Downloads :
          \/ \E f \in Files : OpenDownload(e, f)
          \/ ReadKey(e) \/ Spool(e) \/ Deliver(e) \/ EndDownload(e)
    BY <1>2, Zenon
       DEF ArtifactNext, artifactVars, BeginArtifact, FinalizeArtifact,
           LeaseExpires, UploadExpires, TakeLease, Transfer, RecordOutcome,
           AbandonAttempt, DeriveOutput, RequestDeletion,
           QuarantineCorruptArtifact, PlaceHold, Corrupt
  <1>4. PICK row : DownloadVars(e, row)
    BY <1>3, Zenon DEF OpenDownload, ReadKey, Spool, Deliver, EndDownload
  <1>5. e = d
    BY <1>1, <1>4, Zenon DEF DownloadVars
  <1>6. ~ \E f \in Files : OpenDownload(d, f)
    BY <1>1 DEF OpenDownload, DownloadVars
  <1>7. ~ ReadKey(d)
    BY <1>1, Zenon DEF ReadKey, DownloadVars, DownloadRow
  <1>8. ~ Spool(d)
    BY <1>1, Zenon DEF Spool, DownloadVars, DownloadRow
  <1>9. ~ EndDownload(d)
    BY <1>1 DEF EndDownload, DownloadVars, NoDownload
  <1> QED
    BY <1>3, <1>5, <1>6, <1>7, <1>8, <1>9, Zenon

(* A download streams only a file that is readable then, from the key it   *)
(* has then (verified_artifact_download).                                  *)
THEOREM StreamsAreReadable == ArtifactSpec => StreamsServeReadableFiles
  <1> DEFINE Served == \A d \in Downloads :
        downloads[d].pc # "STREAMING" /\ downloads'[d].pc = "STREAMING"
        => /\ Readable(downloads[d].file)
           /\ downloads[d].key = artifacts[downloads[d].file].key
  <1>1. ASSUME ArtifactInv, [ArtifactNext]_artifactVars PROVE Served
    <2>1. ASSUME NEW d \in Downloads, downloads[d].pc # "STREAMING",
                 downloads'[d].pc = "STREAMING"
          PROVE  /\ Readable(downloads[d].file)
                 /\ downloads[d].key = artifacts[downloads[d].file].key
      <3>1. Deliver(d)
        BY <1>1, <2>1, OnlyDeliverStreams, Zenon
      <3>2. downloads[d].pc = "SPOOLED" /\ Readable(downloads[d].file)
        BY <3>1, Zenon DEF Deliver, StillReadable
      <3>3. DownloadOK(d)
        BY <1>1, Zenon DEF ArtifactInv
      <3> QED
        BY <3>2, <3>3, Zenon DEF DownloadOK
    <2> QED
      BY <2>1, Zenon
  <1>2. ArtifactInv /\ [ArtifactNext]_artifactVars => [Served]_artifactVars
    BY <1>1, Zenon
  <1> QED
    BY <1>2, ArtifactInvariant, PTL
       DEF ArtifactSpec, StreamsServeReadableFiles

(* An attempt without the lease of its upload records nothing              *)
(* (put_upload).                                                           *)
THEOREM StaleAttemptsAreMute == ArtifactSpec => StaleAttemptRecordsNothing
  <1> DEFINE Mute == \A t \in Attempts :
        /\ attempts[t].pc = "MOVED"
        /\ attempts'[t].pc = "DONE"
        /\ uploads[attempts[t].upload].lease # t
        => UNCHANGED <<artifacts, uploads, projection>>
  <1>1. ASSUME ArtifactInv, [ArtifactNext]_artifactVars PROVE Mute
    <2>1. ASSUME NEW t \in Attempts, attempts[t].pc = "MOVED",
                 attempts'[t].pc = "DONE",
                 uploads[attempts[t].upload].lease # t
          PROVE  UNCHANGED <<artifacts, uploads, projection>>
      <3>1. attempts \in [Attempts -> AttemptRow]
        BY <1>1, Zenon DEF ArtifactInv, ArtifactTypeOK
      <3>2. attempts' # attempts
        BY <2>1, Zenon
      <3>3. \/ \E k \in Attempts, u \in Uploads : TakeLease(k, u)
            \/ \E k \in Attempts, b \in Bodies :
                 \E reply \in {"OK", "FOUND", "UNAVAILABLE"},
                    answer \in {"CREATED", "LOST", "FAILED"} :
                   Transfer(k, b, reply, answer)
            \/ \E k \in Attempts : RecordOutcome(k)
            \/ \E k \in Attempts : AbandonAttempt(k)
        BY <1>1, <3>2, Zenon
           DEF ArtifactNext, artifactVars, BeginArtifact, FinalizeArtifact,
               LeaseExpires, UploadExpires, DeriveOutput, RequestDeletion,
               QuarantineCorruptArtifact, PlaceHold, Corrupt, OpenDownload,
               ReadKey, Spool, Deliver, EndDownload, DownloadVars
      <3>4. ASSUME NEW k \in Attempts, NEW u \in Uploads, TakeLease(k, u)
            PROVE  FALSE
        BY <2>1, <3>1, <3>4, Zenon DEF TakeLease, AttemptRow
      <3>5. ASSUME NEW k \in Attempts, NEW b, NEW reply, NEW answer,
                   Transfer(k, b, reply, answer)
            PROVE  FALSE
        BY <2>1, <3>1, <3>5, Zenon DEF Transfer, AttemptRow
      <3>6. ASSUME NEW k \in Attempts, RecordOutcome(k)
            PROVE  FALSE
        BY <2>1, <3>1, <3>6, Zenon DEF RecordOutcome, LeaseHeld, AttemptRow
      <3>7. ASSUME NEW k \in Attempts, AbandonAttempt(k)
            PROVE  UNCHANGED <<artifacts, uploads, projection>>
        BY <3>7, Zenon DEF AbandonAttempt
      <3> QED
        BY <3>3, <3>4, <3>5, <3>6, <3>7, Zenon
    <2> QED
      BY <2>1, Zenon
  <1>2. ArtifactInv /\ [ArtifactNext]_artifactVars => [Mute]_artifactVars
    BY <1>1, Zenon
  <1> QED
    BY <1>2, ArtifactInvariant, PTL
       DEF ArtifactSpec, StaleAttemptRecordsNothing

-----------------------------------------------------------------------------
(* The limit on open uploads.                                              *)

(* Only begin_artifact opens an upload.                                    *)
LEMMA OnlyBeginOpens ==
  ASSUME ArtifactInv, [ArtifactNext]_artifactVars,
         ~ \E u \in Uploads : BeginArtifact(u)
  PROVE  OpenUploads' \subseteq OpenUploads
  <1>1. uploads \in [Uploads -> UploadRow]
    BY Zenon DEF ArtifactInv, ArtifactTypeOK
  <1>2. ASSUME NEW u \in Uploads, FinalizeArtifact(u)
        PROVE  OpenUploads' \subseteq OpenUploads
    BY <1>1, <1>2, Zenon DEF FinalizeArtifact, OpenUploads, UploadRow
  <1>3. ASSUME NEW u \in Uploads, LeaseExpires(u)
        PROVE  OpenUploads' \subseteq OpenUploads
    BY <1>1, <1>3, Zenon DEF LeaseExpires, OpenUploads, UploadRow
  <1>4. ASSUME NEW u \in Uploads, UploadExpires(u)
        PROVE  OpenUploads' \subseteq OpenUploads
    BY <1>1, <1>4, Zenon DEF UploadExpires, OpenUploads, UploadRow
  <1>5. ASSUME NEW t \in Attempts, NEW u \in Uploads, TakeLease(t, u)
        PROVE  OpenUploads' \subseteq OpenUploads
    BY <1>1, <1>5, Zenon DEF TakeLease, OpenUploads, UploadRow
  <1>6. ASSUME NEW t \in Attempts, RecordOutcome(t)
        PROVE  OpenUploads' \subseteq OpenUploads
    <2> DEFINE u == attempts[t].upload
    <2> DEFINE result == UploadOutcome(u, attempts[t].outcome)
    <2>1. /\ uploads' = [uploads EXCEPT ![u].state = result,
                                        ![u].lease = "NULL",
                                        ![u].lease_expired = FALSE]
          /\ uploads[u].state = "OPEN"
      BY <1>6, Zenon DEF RecordOutcome, LeaseHeld
    <2> HIDE DEF u, result
    <2> QED
      BY <1>1, <2>1, Zenon DEF OpenUploads, UploadRow
  <1>7. UNCHANGED uploads => OpenUploads' \subseteq OpenUploads
    BY Zenon DEF OpenUploads
  <1> QED
    BY <1>2, <1>3, <1>4, <1>5, <1>6, <1>7, Zenon
       DEF ArtifactNext, artifactVars, Transfer, AbandonAttempt, DeriveOutput,
           RequestDeletion, QuarantineCorruptArtifact, PlaceHold, Corrupt,
           OpenDownload, ReadKey, Spool, Deliver, EndDownload, DownloadVars

(* No principal has more open uploads than the limit, whatever becomes of  *)
(* the attempts (begin_artifact).                                          *)
THEOREM UploadsAreLimited == ArtifactSpec => []OpenUploadsBounded
  <1>1. ArtifactInit => OpenUploadsBounded
    <2> SUFFICES ASSUME ArtifactInit PROVE OpenUploadsBounded
      BY Zenon
    <2>1. OpenUploads = {}
      BY Zenon DEF ArtifactInit, NoUpload, OpenUploads
    <2>2. Cardinality(OpenUploads) = 0
      BY <2>1, FS_EmptySet, Zenon
    <2> QED
      BY <2>2, ArtifactAssumption DEF ArtifactAssumption, OpenUploadsBounded
  <1>2. ArtifactInv /\ OpenUploadsBounded /\ [ArtifactNext]_artifactVars
        => OpenUploadsBounded'
    <2> SUFFICES ASSUME ArtifactInv, OpenUploadsBounded,
                        [ArtifactNext]_artifactVars
                 PROVE  OpenUploadsBounded'
      BY Zenon
    <2>1. MaxOpen \in Nat /\ IsFiniteSet(Uploads)
      BY ArtifactAssumption, Zenon DEF ArtifactAssumption
    <2>2. IsFiniteSet(OpenUploads)
      BY <2>1, FS_Subset, Zenon DEF OpenUploads
    <2>3. Cardinality(OpenUploads) \in Nat
      BY <2>2, FS_CardinalityType, Zenon
    <2>4. CASE \E u \in Uploads : BeginArtifact(u)
      <3>1. PICK u \in Uploads : BeginArtifact(u)
        BY <2>4, Zenon
      <3>2. OpenUploads' \subseteq OpenUploads \cup {u}
        <4>1. uploads \in [Uploads -> UploadRow]
          BY Zenon DEF ArtifactInv, ArtifactTypeOK
        <4> QED
          BY <3>1, <4>1, Zenon DEF BeginArtifact, OpenUploads
      <3>3. Cardinality(OpenUploads) < MaxOpen
        BY <2>1, <2>3, <3>1 DEF BeginArtifact, QueueFull
      <3>4. /\ IsFiniteSet(OpenUploads \cup {u})
            /\ Cardinality(OpenUploads \cup {u}) <= Cardinality(OpenUploads) + 1
            /\ Cardinality(OpenUploads \cup {u}) \in Nat
        <4>1. /\ IsFiniteSet(OpenUploads \cup {u})
              /\ Cardinality(OpenUploads \cup {u}) =
                   IF u \in OpenUploads THEN Cardinality(OpenUploads)
                                        ELSE Cardinality(OpenUploads) + 1
          BY <2>2, FS_AddElement, Zenon
        <4> QED
          BY <2>3, <4>1
      <3>5. /\ Cardinality(OpenUploads') <= Cardinality(OpenUploads \cup {u})
            /\ Cardinality(OpenUploads') \in Nat
        BY <3>2, <3>4, FS_Subset, FS_CardinalityType, Zenon
      <3> QED
        BY <2>1, <2>3, <3>3, <3>4, <3>5 DEF OpenUploadsBounded
    <2>5. CASE ~ \E u \in Uploads : BeginArtifact(u)
      <3>1. OpenUploads' \subseteq OpenUploads
        BY <2>5, OnlyBeginOpens, Zenon
      <3>2. /\ Cardinality(OpenUploads') <= Cardinality(OpenUploads)
            /\ Cardinality(OpenUploads') \in Nat
        BY <2>2, <3>1, FS_Subset, FS_CardinalityType, Zenon
      <3> QED
        BY <2>1, <2>3, <3>2 DEF OpenUploadsBounded
    <2> QED
      BY <2>4, <2>5, Zenon
  <1> QED
    BY <1>1, <1>2, ArtifactInvariant, PTL DEF ArtifactSpec

=============================================================================
