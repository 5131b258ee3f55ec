-------------------------- MODULE ExternalMutation --------------------------
(***************************************************************************)
(* What the effect broker promises for each external mutation: its intent  *)
(* is on record before it can happen; it happens at most once; success is  *)
(* reported only after it happened; and once failure is reported it never  *)
(* happens.                                                                *)
(***************************************************************************)
CONSTANT Mutations

VARIABLES intent, applied

mutationVars == <<intent, applied>>

MutationInit ==
  /\ intent = [m \in Mutations |-> "NONE"]
  /\ applied = [m \in Mutations |-> FALSE]

Intend(m) ==
  /\ intent[m] = "NONE"
  /\ intent' = [intent EXCEPT ![m] = "INTENDED"]
  /\ UNCHANGED applied

Apply(m) ==
  /\ intent[m] = "INTENDED"
  /\ ~ applied[m]
  /\ applied' = [applied EXCEPT ![m] = TRUE]
  /\ UNCHANGED intent

ReportSuccess(m) ==
  /\ intent[m] = "INTENDED"
  /\ applied[m]
  /\ intent' = [intent EXCEPT ![m] = "SUCCEEDED"]
  /\ UNCHANGED applied

ReportFailure(m) ==
  /\ intent[m] = "INTENDED"
  /\ ~ applied[m]
  /\ intent' = [intent EXCEPT ![m] = "FAILED"]
  /\ UNCHANGED applied

MutationNext ==
  \E m \in Mutations :
    Intend(m) \/ Apply(m) \/ ReportSuccess(m) \/ ReportFailure(m)

MutationSpec == MutationInit /\ [][MutationNext]_mutationVars

=============================================================================
