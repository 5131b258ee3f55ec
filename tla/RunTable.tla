------------------------------ MODULE RunTable ------------------------------
(***************************************************************************)
(* The runs table (migration 0003) of one tenant and the transactions that *)
(* write it: start_run, cancel_run, mark_run_started and                   *)
(* mark_run_completed (data-postgres/src/run_commands.rs),                 *)
(* fence_run_blocked (data-postgres/src/relay.rs) and the part of          *)
(* revoke_plugin that fences runs (data-postgres/src/registry.rs).  Every  *)
(* one of them holds the tenant's exclusive advisory lock, so each is one  *)
(* atomic step; a refusal rolls back and is no step.                       *)
(*                                                                         *)
(* The actions here say only what happens to runs.  The modules that       *)
(* extend this one add who calls them and what else changes with them.     *)
(***************************************************************************)
EXTENDS Integers, KernelStates

CONSTANTS
  Runs,     \* run ids
  Grants    \* delegation grants a run can be started under

VARIABLES
  runs,           \* the table; state "NONE" where there is no row
  plugin_revoked  \* plugin_revocations names the build the runs are pinned to

runVars == <<runs, plugin_revoked>>

NoGrant == "NULL"

NoRun == [state |-> "NONE", dispatch_state |-> "PENDING", fence |-> 1,
          version |-> 0, grant |-> NoGrant]

DispatchStates == {"PENDING", "STARTED", "BLOCKED"}

RunRow == [state: RunStates \cup {"NONE"}, dispatch_state: DispatchStates,
           fence: Nat, version: Nat, grant: Grants \cup {NoGrant}]

RunInit ==
  /\ runs = [r \in Runs |-> NoRun]
  /\ plugin_revoked = FALSE

Exists(r) == runs[r].state # "NONE"

ActiveRun(r) == Exists(r) /\ runs[r].state \notin TerminalRunStates

(* The states in which a worker may record progress or completion.         *)
ExecutingStates == {"RUNNING", "WAITING_APPROVAL", "WAITING_RETRY"}

(* start_run, once its admission checks passed.                            *)
StartRun(r, g) ==
  /\ ~ Exists(r)
  /\ ~ plugin_revoked                               \* PLUGIN_REVOKED
  /\ runs' = [runs EXCEPT ![r] =
                [state |-> "QUEUED", dispatch_state |-> "PENDING",
                 fence |-> 1, version |-> 1, grant |-> g]]
  /\ UNCHANGED plugin_revoked

(* cancellation_state: the state a cancel leads to, or "REFUSED".          *)
CancellationState(state, unresolved) ==
  CASE state = "RUNNING" -> "CANCEL_REQUESTED"
    [] state \in {"QUEUED", "WAITING_APPROVAL", "WAITING_RETRY", "BLOCKED"}
         -> IF unresolved THEN "REFUSED" ELSE "CANCELLED"
    [] OTHER -> "REFUSED"

(* cancel_run: unresolved says whether the run owns an effect whose        *)
(* outcome is not known.                                                   *)
CancelRun(r, expected, unresolved) ==
  LET next == CancellationState(runs[r].state, unresolved)
  IN  /\ Exists(r)
      /\ expected = runs[r].version
      /\ next # "REFUSED"
      /\ runs' = [runs EXCEPT ![r].state = next,
                              ![r].version = expected + 1,
                              ![r].fence = @ + 1,
                              ![r].dispatch_state = "BLOCKED"]
      /\ UNCHANGED plugin_revoked

(* fence_run_blocked, under the fence verify_and_claim_run has just read.  *)
FenceRunBlocked(r, fence) ==
  /\ runs[r].fence = fence
  /\ runs' = [runs EXCEPT ![r].state = "BLOCKED",
                          ![r].dispatch_state = "BLOCKED",
                          ![r].fence = fence + 1,
                          ![r].version = @ + 1]
  /\ UNCHANGED plugin_revoked

(* Fault: the update is not conditional on the run still waiting for it.   *)
MarkRunStartedUnconditional(r, fence) ==
  /\ Exists(r)
  /\ runs' = [runs EXCEPT ![r].state = "RUNNING",
                          ![r].dispatch_state = "STARTED",
                          ![r].version = @ + 1]
  /\ UNCHANGED plugin_revoked

(* mark_run_started: refused with STALE_FENCE or ILLEGAL_TRANSITION unless *)
(* the run is as verify_and_claim_run saw it.                              *)
MarkRunStarted(r, fence) ==
  /\ runs[r].fence = fence
  /\ runs[r].state = "QUEUED"
  /\ runs[r].dispatch_state = "PENDING"
  /\ runs' = [runs EXCEPT ![r].state = "RUNNING",
                          ![r].dispatch_state = "STARTED",
                          ![r].version = @ + 1]
  /\ UNCHANGED plugin_revoked

(* mark_run_completed.                                                     *)
MarkRunCompleted(r, fence) ==
  /\ runs[r].fence = fence
  /\ runs[r].state \in ExecutingStates
  /\ runs' = [runs EXCEPT ![r].state = "SUCCEEDED",
                          ![r].version = @ + 1]
  /\ UNCHANGED plugin_revoked

(* revoke_plugin.  The primary key of plugin_revocations lets a build be   *)
(* revoked once; every run of the build that is not terminal is fenced,    *)
(* but only a RUNNING one changes its state.                               *)
RevokePlugin ==
  /\ ~ plugin_revoked
  /\ plugin_revoked' = TRUE
  /\ runs' = [r \in Runs |->
                IF ActiveRun(r)
                THEN [runs[r] EXCEPT
                        !.state = IF @ = "RUNNING" THEN "BLOCKED" ELSE @,
                        !.dispatch_state = "BLOCKED",
                        !.fence = @ + 1,
                        !.version = @ + 1]
                ELSE runs[r]]

RunTypeOK ==
  /\ runs \in [Runs -> RunRow]
  /\ plugin_revoked \in BOOLEAN

=============================================================================
