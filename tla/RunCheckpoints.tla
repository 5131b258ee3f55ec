--------------------------- MODULE RunCheckpoints ---------------------------
(***************************************************************************)
(* Durable execution of runs: workers that read the checkpoint history of  *)
(* a run, let RunInterpreter name the next step, execute it and record the *)
(* outcome (record_run_checkpoint, read_run_checkpoints and                *)
(* mark_run_completed of data-postgres/src/run_commands.rs, and            *)
(* crates/worker/src/run_resume.rs).                                       *)
(*                                                                         *)
(* The read, the execution and the write are separate steps: another       *)
(* worker, a cancellation or a plugin revocation may come between them,    *)
(* and a worker may die between any two.  The loop that strings them       *)
(* together is the one of crates/worker/tests/crash_resume_postgres.rs.    *)
(***************************************************************************)
EXTENDS RunTable, RunInterpreter

CONSTANTS
  Workers,      \* execution workers
  Definitions,  \* the workflow definitions a run may be pinned to
  MaxCrashes    \* bound on worker deaths

ASSUME WorkerAssumption == MaxCrashes \in Nat

ASSUME DefinitionAssumption ==
  \A def \in Definitions :
    def.max_total_steps \in Nat /\ def.max_model_turns \in Nat

VARIABLES
  definition,   \* the definition each run is pinned to
  checkpoints,  \* run_checkpoints: for each run, a function of logical step ids
  workers,      \* what each worker holds in memory
  executed,     \* the steps executed so far: <<run, seq, node>>
  crashes

checkpointVars ==
  <<runs, plugin_revoked, definition, checkpoints, workers, executed, crashes>>

CheckpointStates == {"RUNNING", "SUCCEEDED", "FAILED", "BLOCKED", "INCOMPLETE"}

NoView == [pc |-> "IDLE", run |-> "NULL", fence |-> 0,
           decision |-> [kind |-> "NONE", seq |-> 0, node |-> "NULL"]]

CheckpointInit ==
  /\ RunInit
  /\ definition \in [Runs -> Definitions]
  /\ checkpoints = [r \in Runs |-> << >>]
  /\ workers = [w \in Workers |-> NoView]
  /\ executed = {}
  /\ crashes = 0

-----------------------------------------------------------------------------

Key(d) == <<d.seq, d.node>>

(* read_run_checkpoints and next_step.  The fence comes with the rows of   *)
(* the history; a run without history is read a second time for it         *)
(* (checkpoint_fence returns None).                                        *)
ReadRunCheckpoints(w, r) ==
  /\ workers[w].pc = "IDLE"
  /\ Exists(r)
  /\ workers' =
       [workers EXCEPT ![w] =
          [pc |-> IF DOMAIN checkpoints[r] = {} THEN "FENCE" ELSE "DECIDED",
           run |-> r, fence |-> runs[r].fence,
           decision |-> NextStep(definition[r], checkpoints[r])]]
  /\ UNCHANGED <<runVars, definition, checkpoints, executed, crashes>>

(* The caller's own read of the fence of a run without history.            *)
ReadFence(w) ==
  /\ workers[w].pc = "FENCE"
  /\ workers' = [workers EXCEPT ![w].pc = "DECIDED",
                                ![w].fence = runs[workers[w].run].fence]
  /\ UNCHANGED <<runVars, definition, checkpoints, executed, crashes>>

(* dispatches(decision): the worker executes the step it was told to.      *)
ExecuteStep(w) ==
  /\ workers[w].pc = "DECIDED"
  /\ workers[w].decision.kind = "EXECUTE"
  /\ executed' = executed \cup
       {<<workers[w].run, workers[w].decision.seq, workers[w].decision.node>>}
  /\ workers' = [workers EXCEPT ![w].pc = "RECORD"]
  /\ UNCHANGED <<runVars, definition, checkpoints, crashes>>

(* An approval wait whose approval was granted resumes as a completed step.*)
ApprovalGranted(w) ==
  /\ workers[w].pc = "DECIDED"
  /\ workers[w].decision.kind = "WAITING_APPROVAL"
  /\ workers' = [workers EXCEPT ![w].pc = "RECORD"]
  /\ UNCHANGED <<runVars, definition, checkpoints, executed, crashes>>

(* The write is admitted under the fence the worker read, while the run    *)
(* executes; otherwise STALE_FENCE or ILLEGAL_TRANSITION.                  *)
CheckpointAdmitted(r, fence) ==
  /\ runs[r].fence = fence
  /\ runs[r].state \in ExecutingStates

(* Fault: the latest write wins, over a completed step as well.            *)
UpsertLatest(history, key, state) ==
  [k \in DOMAIN history \cup {key} |-> IF k = key THEN state ELSE history[k]]

(* The upsert of record_run_checkpoint: a SUCCEEDED row is never rewritten.*)
UpsertCheckpoint(history, key, state) ==
  [k \in DOMAIN history \cup {key} |->
     IF k = key /\ Recorded(history, key) # "SUCCEEDED"
     THEN state
     ELSE history[k]]

(* record_run_checkpoint: the outcome, or the refusal, ends the worker's   *)
(* turn.                                                                   *)
RecordRunCheckpoint(w, state) ==
  LET r == workers[w].run
  IN  /\ workers[w].pc = "RECORD"
      /\ checkpoints' =
           IF CheckpointAdmitted(r, workers[w].fence)
           THEN [checkpoints EXCEPT ![r] =
                   UpsertCheckpoint(@, Key(workers[w].decision), state)]
           ELSE checkpoints
      /\ workers' = [workers EXCEPT ![w] = NoView]
      /\ UNCHANGED <<runVars, definition, executed, crashes>>

(* A traversal that is complete reports it: mark_run_completed, or its     *)
(* refusal.                                                                *)
ReportCompleted(w) ==
  LET r == workers[w].run
  IN  /\ workers[w].pc = "DECIDED"
      /\ workers[w].decision.kind = "COMPLETED"
      /\ \/ MarkRunCompleted(r, workers[w].fence)
         \/ /\ ~ CheckpointAdmitted(r, workers[w].fence)
            /\ UNCHANGED runVars
      /\ workers' = [workers EXCEPT ![w] = NoView]
      /\ UNCHANGED <<definition, checkpoints, executed, crashes>>

(* LIMIT_REACHED, BLOCKED, UNSUPPORTED and a pending approval wait hold no *)
(* worker.                                                                 *)
Park(w) ==
  /\ workers[w].pc = "DECIDED"
  /\ workers[w].decision.kind \notin {"EXECUTE", "COMPLETED"}
  /\ workers' = [workers EXCEPT ![w] = NoView]
  /\ UNCHANGED <<runVars, definition, checkpoints, executed, crashes>>

(* A worker dies with everything it holds in memory.                       *)
WorkerDies(w) ==
  /\ workers[w].pc # "IDLE"
  /\ crashes < MaxCrashes
  /\ crashes' = crashes + 1
  /\ workers' = [workers EXCEPT ![w] = NoView]
  /\ UNCHANGED <<runVars, definition, checkpoints, executed>>

-----------------------------------------------------------------------------

Start(r) ==
  /\ \E g \in Grants : StartRun(r, g)
  /\ UNCHANGED <<definition, checkpoints, workers, executed, crashes>>

(* The dispatch relay starts the run (RunDispatch models it in detail).    *)
Dispatch(r) ==
  /\ MarkRunStarted(r, runs[r].fence)
  /\ UNCHANGED <<definition, checkpoints, workers, executed, crashes>>

Cancel(r) ==
  /\ \E unresolved \in BOOLEAN : CancelRun(r, runs[r].version, unresolved)
  /\ UNCHANGED <<definition, checkpoints, workers, executed, crashes>>

RevokeBuild ==
  /\ RevokePlugin
  /\ UNCHANGED <<definition, checkpoints, workers, executed, crashes>>

WorkerStep(w) ==
  \/ \E r \in Runs : ReadRunCheckpoints(w, r)
  \/ ReadFence(w)
  \/ ExecuteStep(w)
  \/ ApprovalGranted(w)
  \/ \E state \in CheckpointStates : RecordRunCheckpoint(w, state)
  \/ ReportCompleted(w)
  \/ Park(w)

CheckpointNext ==
  \/ \E r \in Runs : Start(r) \/ Dispatch(r) \/ Cancel(r)
  \/ RevokeBuild
  \/ \E w \in Workers : WorkerStep(w) \/ WorkerDies(w)

CheckpointSpec == CheckpointInit /\ [][CheckpointNext]_checkpointVars

-----------------------------------------------------------------------------

(* However stale the workers' reads are, the recorded history of a run is  *)
(* an initial part of the one traversal its definition allows: a step is   *)
(* recorded only under the node the traversal visits there, and only after *)
(* every earlier step SUCCEEDED.  It is all of it when the run SUCCEEDED,  *)
(* though mark_run_completed does not look at the history.  A SUCCEEDED    *)
(* row that a late worker could overwrite would break both.                *)
HistoryIsTraversalPrefix ==
  \A r \in Runs :
    /\ \A k \in DOMAIN checkpoints[r] :
         /\ NodeAt(definition[r], k[1]) = AtNode(k[2])
         /\ \A seq \in 1..(k[1] - 1) :
              StepDone(definition[r], checkpoints[r], seq)
    /\ runs[r].state = "SUCCEEDED" =>
         NextStep(definition[r], checkpoints[r]).kind = "COMPLETED"

(* REQ-072: no worker, whatever crashed or raced, executes a step past the *)
(* step budget, or more model turns than the definition allows.            *)
BudgetsBoundExecution ==
  \A r \in Runs :
    LET steps == {s \in executed : s[1] = r}
    IN  /\ \A s \in steps : s[2] \in 1..definition[r].max_total_steps
        /\ Cardinality({s \in steps : definition[r].nodes[s[3]] = "MODEL"})
             <= definition[r].max_model_turns

(* REQ-070: a worker that reads the history, first or after a crash, never *)
(* decides to execute a step that is durably SUCCEEDED by then.  (Two      *)
(* workers that read before it was recorded may both execute it.)          *)
CompletedStepNotRedispatched ==
  [][\A w \in Workers :
       /\ workers[w].pc = "IDLE"
       /\ workers'[w].decision.kind = "EXECUTE"
       => Recorded(checkpoints[workers'[w].run], Key(workers'[w].decision))
            # "SUCCEEDED"]_checkpointVars

=============================================================================
