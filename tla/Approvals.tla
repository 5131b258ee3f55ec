----------------------------- MODULE Approvals ------------------------------
(***************************************************************************)
(* Approval proposals (table approvals, migration 0004) and decide_approval*)
(* (data-postgres/src/approval_commands.rs).  No code of the repository    *)
(* inserts a proposal or moves one to EXPIRED or INVALIDATED: proposals are*)
(* requested from outside (docs/durable-execution-implementation.md), and  *)
(* expiry is the clock passing expires_at, which each reader compares.     *)
(***************************************************************************)
EXTENDS Integers

CONSTANTS
  ApprovalIds,
  Principals,   \* reviewers and authors
  Digests       \* digests of reviewed or transmitted content

VARIABLE approvals

NoApproval ==
  [state |-> "NONE", created_by |-> "NULL", decided_by |-> "NULL",
   content_digest |-> "NULL", expired |-> FALSE, version |-> 0]

ApprovalRow ==
  [state: {"NONE", "REQUESTED", "APPROVED", "REJECTED", "CANCELLED"},
   created_by: Principals \cup {"NULL"},
   decided_by: Principals \cup {"NULL"},
   content_digest: Digests \cup {"NULL"},
   expired: BOOLEAN,
   version: Nat]

ApprovalInit == approvals = [a \in ApprovalIds |-> NoApproval]

(* External: a waiting run requests a decision over exact content.         *)
RequestApproval(a, author, digest) ==
  /\ approvals[a].state = "NONE"
  /\ approvals' = [approvals EXCEPT ![a] =
                     [state |-> "REQUESTED", created_by |-> author,
                      decided_by |-> "NULL", content_digest |-> digest,
                      expired |-> FALSE, version |-> 1]]

(* decision_state.                                                         *)
DecisionState(decision) ==
  CASE decision = "APPROVE" -> "APPROVED"
    [] decision = "REJECT" -> "REJECTED"
    [] decision = "CANCEL" -> "CANCELLED"

(* Fault: authors may decide on their own proposals.                       *)
DecideOwnApproval(a, principal, decision, digest, expected) ==
  /\ approvals[a].state = "REQUESTED"
  /\ ~ approvals[a].expired
  /\ approvals[a].content_digest = digest
  /\ approvals[a].version = expected
  /\ approvals' = [approvals EXCEPT ![a].state = DecisionState(decision),
                                    ![a].decided_by = principal,
                                    ![a].version = expected + 1]

(* decide_approval: one decision, by someone else than the author, before  *)
(* the expiry, over the digest that was reviewed.                          *)
DecideApproval(a, principal, decision, digest, expected) ==
  /\ approvals[a].state = "REQUESTED"              \* DECISION_CONFLICT
  /\ approvals[a].created_by # principal           \* FOUR_EYES_REQUIRED
  /\ ~ approvals[a].expired                        \* APPROVAL_EXPIRED
  /\ approvals[a].content_digest = digest          \* REVIEW_CONFLICT
  /\ approvals[a].version = expected
  /\ approvals' = [approvals EXCEPT ![a].state = DecisionState(decision),
                                    ![a].decided_by = principal,
                                    ![a].version = expected + 1]

(* External: the clock passes expires_at.                                  *)
ApprovalExpires(a) ==
  /\ approvals[a].state # "NONE"
  /\ ~ approvals[a].expired
  /\ approvals' = [approvals EXCEPT ![a].expired = TRUE]

ApprovalTypeOK == approvals \in [ApprovalIds -> ApprovalRow]

=============================================================================
