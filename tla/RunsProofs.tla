----------------------------- MODULE RunsProofs -----------------------------
(***************************************************************************)
(* The dispatch of runs and their execution from checkpoints, for any      *)
(* number of runs, workers, attempts and crashes, any size of a batch and  *)
(* any workflow definitions.                                               *)
(*                                                                         *)
(* Dispatch: the steps are first reduced to what they do to one row of the *)
(* runs table and to one worker; the invariants and the results only look  *)
(* at these moves.                                                         *)
(*                                                                         *)
(* Checkpoints: the proofs start from what next_step promises of its       *)
(* decision, and from the fact that a decision stays right as long as no   *)
(* completed step is lost.                                                 *)
(***************************************************************************)
EXTENDS RunDispatch, RunCheckpoints, SharedLemmas

-----------------------------------------------------------------------------
(* The runs table.                                                         *)

(* The empty table is well typed.                                          *)
LEMMA RunInitTyped == RunInit => RunTypeOK
  <1>1. NoRun \in RunRow
    BY Zenon DEF NoRun, RunRow, DispatchStates
  <1> QED
    BY <1>1, Zenon DEF RunInit, RunTypeOK

(* start_run inserts a well typed row.                                     *)
LEMMA StartRunTyped ==
  ASSUME RunTypeOK, NEW r \in Runs, NEW g \in Grants, StartRun(r, g)
  PROVE  RunTypeOK'
  BY Zenon DEF RunTypeOK, RunRow, StartRun, DispatchStates, RunStates

(* cancel_run writes a state of the table, or refuses.                     *)
LEMMA CancelRunTyped ==
  ASSUME RunTypeOK, NEW r \in Runs, NEW unresolved \in BOOLEAN,
         CancelRun(r, runs[r].version, unresolved)
  PROVE  RunTypeOK'
  <1> DEFINE next == CancellationState(runs[r].state, unresolved)
  <1>1. next \in {"CANCEL_REQUESTED", "CANCELLED", "REFUSED"}
    BY Zenon DEF CancellationState
  <1>2. next \in RunStates
    BY <1>1, Zenon DEF CancelRun, RunStates
  <1>3. runs' = [runs EXCEPT ![r].state = next,
                             ![r].version = runs[r].version + 1,
                             ![r].fence = @ + 1,
                             ![r].dispatch_state = "BLOCKED"]
    BY Zenon DEF CancelRun
  <1> HIDE DEF next
  <1> QED
    BY <1>2, <1>3 DEF RunTypeOK, RunRow, CancelRun, DispatchStates

(* fence_run_blocked.                                                      *)
LEMMA FenceRunBlockedTyped ==
  ASSUME RunTypeOK, NEW r \in Runs, FenceRunBlocked(r, runs[r].fence)
  PROVE  RunTypeOK'
  BY DEF RunTypeOK, RunRow, FenceRunBlocked, DispatchStates, RunStates

(* mark_run_started, under whatever fence the worker carries.              *)
LEMMA MarkRunStartedTyped ==
  ASSUME RunTypeOK, NEW r \in Runs, NEW fence, MarkRunStarted(r, fence)
  PROVE  RunTypeOK'
  BY DEF RunTypeOK, RunRow, MarkRunStarted, DispatchStates, RunStates

(* mark_run_completed.                                                     *)
LEMMA MarkRunCompletedTyped ==
  ASSUME RunTypeOK, NEW r \in Runs, NEW fence, MarkRunCompleted(r, fence)
  PROVE  RunTypeOK'
  BY DEF RunTypeOK, RunRow, MarkRunCompleted, RunStates

(* revoke_plugin fences every run of the build in one statement.           *)
LEMMA RevokePluginTyped ==
  ASSUME RunTypeOK, RevokePlugin
  PROVE  RunTypeOK'
  <1>1. ASSUME NEW r \in Runs
        PROVE  runs'[r] \in RunRow
    <2>1. runs[r] \in RunRow
      BY Zenon DEF RunTypeOK
    <2>2. CASE ActiveRun(r)
      <3>1. PICK state \in RunStates \cup {"NONE"} :
              runs'[r] = [state |-> state, dispatch_state |-> "BLOCKED",
                          fence |-> runs[r].fence + 1,
                          version |-> runs[r].version + 1,
                          grant |-> runs[r].grant]
        <4>1. CASE runs[r].state = "RUNNING"
          BY <2>1, <2>2, <4>1, Zenon DEF RevokePlugin, RunRow, RunStates
        <4>2. CASE runs[r].state # "RUNNING"
          BY <2>1, <2>2, <4>2, Zenon DEF RevokePlugin, RunRow
        <4> QED
          BY <4>1, <4>2, Zenon
      <3> QED
        BY <2>1, <3>1 DEF RunRow, DispatchStates
    <2>3. CASE ~ ActiveRun(r)
      BY <2>1, <2>3, Zenon DEF RevokePlugin
    <2> QED
      BY <2>2, <2>3, Zenon
  <1> QED
    BY <1>1, Zenon DEF RevokePlugin, RunTypeOK

-----------------------------------------------------------------------------
(* Dispatch: the inductive invariant.                                      *)

(* A worker is a record; what its batch holds does not matter here.        *)
WorkerOK(w) ==
  /\ relays[w] = [pc |-> relays[w].pc, batch |-> relays[w].batch,
                  fence |-> relays[w].fence]
  /\ relays[w].pc = "MARK" =>
       \A r \in Runs : r = Head(relays[w].batch) => engine[r]

(* A run that is fenced is not running, and a revoked build has no run     *)
(* that could still be started.  No handler of the dispatch lets a run     *)
(* wait, so that only a RUNNING one completes.                             *)
DispatchRowOK(r) ==
  /\ runs[r].state \notin {"WAITING_APPROVAL", "WAITING_RETRY"}
  /\ runs[r].state = "NONE" => runs[r].dispatch_state = "PENDING"
  /\ runs[r].dispatch_state = "BLOCKED" => runs[r].state # "RUNNING"
  /\ runs[r].dispatch_state = "STARTED" => engine[r]
  /\ plugin_revoked => ~ AwaitsDispatch(r)

DispatchInv ==
  /\ RunTypeOK
  /\ relays = [w \in RelayWorkers |-> relays[w]]
  /\ engine \in [Runs -> BOOLEAN]
  /\ \A w \in RelayWorkers : WorkerOK(w)
  /\ \A r \in Runs : DispatchRowOK(r)

(* The empty tables satisfy the invariant.                                 *)
LEMMA DispatchInitInv == DispatchInit => DispatchInv
  <1> SUFFICES ASSUME DispatchInit PROVE DispatchInv
    BY Zenon
  <1>1. RunTypeOK
    BY RunInitTyped, Zenon DEF DispatchInit
  <1>2. \A r \in Runs : DispatchRowOK(r)
    BY Zenon DEF DispatchInit, RunInit, NoRun, DispatchRowOK, AwaitsDispatch
  <1>3. \A w \in RelayWorkers : WorkerOK(w)
    BY Zenon DEF DispatchInit, WorkerOK, Idle
  <1> QED
    BY <1>1, <1>2, <1>3, Zenon DEF DispatchInit, DispatchInv

-----------------------------------------------------------------------------
(* Moves of a row.                                                         *)

RowAdmitted(r) ==
  /\ ~ plugin_revoked /\ ~ plugin_revoked'
  /\ runs[r].state = "NONE"
  /\ runs'[r].state = "QUEUED" /\ runs'[r].dispatch_state = "PENDING"

RowCancelled(r) ==
  /\ <<runs[r].state, runs'[r].state>> \in RunEdges
  /\ runs[r].state # "NONE"
  /\ runs'[r].state \in {"CANCEL_REQUESTED", "CANCELLED"}
  /\ runs'[r].dispatch_state = "BLOCKED"

RowBlocked(r) ==
  /\ AwaitsDispatch(r)
  /\ runs'[r].state = "BLOCKED" /\ runs'[r].dispatch_state = "BLOCKED"

RowStarted(r) ==
  /\ AwaitsDispatch(r)
  /\ \E w \in RelayWorkers :
       relays[w].pc = "MARK" /\ r = Head(relays[w].batch)
  /\ runs'[r].state = "RUNNING" /\ runs'[r].dispatch_state = "STARTED"

RowCompleted(r) ==
  /\ runs[r].state \in ExecutingStates
  /\ runs'[r].state = "SUCCEEDED"
  /\ runs'[r].dispatch_state = runs[r].dispatch_state

RowRevoked(r) ==
  /\ ActiveRun(r)
  /\ runs'[r].state = IF runs[r].state = "RUNNING" THEN "BLOCKED"
                                                   ELSE runs[r].state
  /\ runs'[r].dispatch_state = "BLOCKED"

RowMove(r) ==
  \/ RowAdmitted(r) \/ RowCancelled(r) \/ RowBlocked(r)
  \/ RowStarted(r) \/ RowCompleted(r) \/ RowRevoked(r)

(* What a step does to the runs: every row stays or moves, and a row that  *)
(* could be started does not outlive a revocation.                         *)
TableMove ==
  /\ RunTypeOK'
  /\ plugin_revoked => plugin_revoked'
  /\ \A r \in Runs : runs'[r] = runs[r] \/ RowMove(r)
  /\ plugin_revoked' => plugin_revoked \/ \A r \in Runs : ~ AwaitsDispatch(r)'

(* A step that leaves the runs alone is a move of the table.               *)
LEMMA NoTableMove ==
  ASSUME RunTypeOK, UNCHANGED runVars
  PROVE  TableMove
  BY Zenon DEF RunTypeOK, TableMove, runVars

(* One row moves, the revocations stay.                                    *)
LEMMA OneRowMoves ==
  ASSUME RunTypeOK', UNCHANGED plugin_revoked, NEW r,
         \A q \in Runs : q # r => runs'[q] = runs[q],
         r \in Runs => RowMove(r)
  PROVE  TableMove
  BY Zenon DEF TableMove

(* start_run is a move of the table.                                       *)
LEMMA StartRunMoves ==
  ASSUME RunTypeOK, NEW r \in Runs, NEW g \in Grants, StartRun(r, g)
  PROVE  TableMove
  <1>1. RunTypeOK'
    BY StartRunTyped, Zenon
  <1>2. \A q \in Runs : q # r => runs'[q] = runs[q]
    BY Zenon DEF RunTypeOK, StartRun
  <1>3. RowAdmitted(r)
    BY Zenon DEF RunTypeOK, StartRun, RowAdmitted, Exists
  <1>4. UNCHANGED plugin_revoked
    BY Zenon DEF StartRun
  <1> QED
    BY <1>1, <1>2, <1>3, <1>4, OneRowMoves, Zenon DEF RowMove

(* cancel_run is a move of the table.                                      *)
LEMMA CancelRunMoves ==
  ASSUME RunTypeOK, NEW r \in Runs, NEW unresolved \in BOOLEAN,
         CancelRun(r, runs[r].version, unresolved)
  PROVE  TableMove
  <1> DEFINE next == CancellationState(runs[r].state, unresolved)
  <1>1. RunTypeOK' /\ UNCHANGED plugin_revoked
    BY CancelRunTyped, Zenon DEF CancelRun
  <1>2. \A q \in Runs : q # r => runs'[q] = runs[q]
    BY Zenon DEF RunTypeOK, CancelRun
  <1>3. /\ next \in {"CANCEL_REQUESTED", "CANCELLED"}
        /\ <<runs[r].state, next>> \in RunEdges
    BY Zenon DEF CancelRun, CancellationState, RunEdges
  <1>4. runs'[r].state = next /\ runs'[r].dispatch_state = "BLOCKED"
    BY Zenon DEF RunTypeOK, RunRow, CancelRun
  <1>5. runs[r].state # "NONE"
    BY Zenon DEF CancelRun, Exists
  <1> HIDE DEF next
  <1>6. RowCancelled(r)
    BY <1>3, <1>4, <1>5, Zenon DEF RowCancelled
  <1> QED
    BY <1>1, <1>2, <1>6, OneRowMoves, Zenon DEF RowMove

(* Blocking a run that awaits dispatch is a move of the table.             *)
LEMMA FenceRunBlockedMoves ==
  ASSUME RunTypeOK, NEW r \in Runs, AwaitsDispatch(r),
         FenceRunBlocked(r, runs[r].fence)
  PROVE  TableMove
  <1>1. RunTypeOK' /\ UNCHANGED plugin_revoked
    BY FenceRunBlockedTyped, Zenon DEF FenceRunBlocked
  <1>2. \A q \in Runs : q # r => runs'[q] = runs[q]
    BY Zenon DEF RunTypeOK, FenceRunBlocked
  <1>3. RowBlocked(r)
    BY Zenon DEF RunTypeOK, RunRow, FenceRunBlocked, RowBlocked
  <1> QED
    BY <1>1, <1>2, <1>3, OneRowMoves, Zenon DEF RowMove

(* The relay's report of a started run is a move of the table.             *)
LEMMA MarkRunStartedMoves ==
  ASSUME RunTypeOK, NEW w \in RelayWorkers, relays[w].pc = "MARK",
         NEW fence, MarkRunStarted(Head(relays[w].batch), fence)
  PROVE  TableMove
  <1> DEFINE r == Head(relays[w].batch)
  <1>1. CASE r \in Runs
    <2>1. RunTypeOK' /\ UNCHANGED plugin_revoked
      BY <1>1, MarkRunStartedTyped, Zenon DEF MarkRunStarted
    <2>2. \A q \in Runs : q # r => runs'[q] = runs[q]
      BY Zenon DEF RunTypeOK, MarkRunStarted
    <2>3. RowStarted(r)
      BY <1>1, Zenon
         DEF RunTypeOK, RunRow, MarkRunStarted, RowStarted, AwaitsDispatch
    <2> HIDE DEF r
    <2> QED
      BY <2>1, <2>2, <2>3, OneRowMoves, Zenon DEF RowMove
  <1>2. CASE r \notin Runs
    <2>1. UNCHANGED runVars
      BY <1>2, Zenon DEF RunTypeOK, MarkRunStarted, runVars
    <2> QED
      BY <2>1, NoTableMove, Zenon
  <1> QED
    BY <1>1, <1>2, Zenon

(* The report of a completed run is a move of the table.                   *)
LEMMA MarkRunCompletedMoves ==
  ASSUME RunTypeOK, NEW r \in Runs, MarkRunCompleted(r, runs[r].fence)
  PROVE  TableMove
  <1>1. RunTypeOK' /\ UNCHANGED plugin_revoked
    BY MarkRunCompletedTyped, Zenon DEF MarkRunCompleted
  <1>2. \A q \in Runs : q # r => runs'[q] = runs[q]
    BY Zenon DEF RunTypeOK, MarkRunCompleted
  <1>3. RowCompleted(r)
    BY Zenon DEF RunTypeOK, RunRow, MarkRunCompleted, RowCompleted
  <1> QED
    BY <1>1, <1>2, <1>3, OneRowMoves, Zenon DEF RowMove

(* The revocation of a plugin is a move of the table.                      *)
LEMMA RevokePluginMoves ==
  ASSUME RunTypeOK, RevokePlugin
  PROVE  TableMove
  <1>1. RunTypeOK'
    BY RevokePluginTyped, Zenon
  <1>2. ASSUME NEW r \in Runs
        PROVE  /\ runs'[r] = runs[r] \/ RowMove(r)
               /\ ~ AwaitsDispatch(r)'
    <2>1. runs[r] \in RunRow
      BY Zenon DEF RunTypeOK
    <2>2. CASE ActiveRun(r)
      <3>1. runs'[r] = [runs[r] EXCEPT
                          !.state = IF @ = "RUNNING" THEN "BLOCKED" ELSE @,
                          !.dispatch_state = "BLOCKED",
                          !.fence = @ + 1, !.version = @ + 1]
        BY <2>2, Zenon DEF RevokePlugin
      <3>2. /\ runs'[r].dispatch_state = "BLOCKED"
            /\ runs'[r].state = IF runs[r].state = "RUNNING" THEN "BLOCKED"
                                ELSE runs[r].state
        BY <2>1, <3>1, Zenon DEF RunRow
      <3> QED
        BY <2>2, <3>2, Zenon DEF RowMove, RowRevoked, AwaitsDispatch
    <2>3. CASE ~ ActiveRun(r)
      <3>1. runs'[r] = runs[r]
        BY <2>3, Zenon DEF RevokePlugin
      <3>2. runs[r].state # "QUEUED"
        BY <2>3, Zenon DEF ActiveRun, Exists, TerminalRunStates
      <3> QED
        BY <3>1, <3>2, Zenon DEF AwaitsDispatch
    <2> QED
      BY <2>2, <2>3, Zenon
  <1>3. plugin_revoked'
    BY Zenon DEF RevokePlugin
  <1> QED
    BY <1>1, <1>2, <1>3, Zenon DEF TableMove

-----------------------------------------------------------------------------
(* Moves of a worker.                                                      *)

RelaysOK ==
  /\ relays = [w \in RelayWorkers |-> relays[w]]
  /\ engine \in [Runs -> BOOLEAN]
  /\ \A w \in RelayWorkers : WorkerOK(w)

(* What a step does to workers and workflows: no workflow disappears.      *)
RelayMove ==
  /\ RelaysOK'
  /\ \A r \in Runs : engine[r] => engine'[r]

(* A step that leaves the relay and the engine alone is a move of theirs.  *)
LEMMA NoRelayMove ==
  ASSUME RelaysOK, UNCHANGED <<engine, relays>>
  PROVE  RelayMove
  BY Zenon DEF RelaysOK, RelayMove, WorkerOK

(* A step that writes one worker's row, and reports a start only of what   *)
(* the engine has, is a move of the relay.                                 *)
LEMMA WorkerWritten ==
  ASSUME RelaysOK, NEW w \in RelayWorkers, NEW row,
         relays' = [relays EXCEPT ![w] = row],
         row = [pc |-> row.pc, batch |-> row.batch, fence |-> row.fence],
         engine' \in [Runs -> BOOLEAN],
         \A r \in Runs : engine[r] => engine'[r],
         row.pc = "MARK" => \A r \in Runs : r = Head(row.batch) => engine'[r]
  PROVE  RelayMove
  <1>1. relays' = [v \in RelayWorkers |-> relays'[v]]
        /\ relays'[w] = row
        /\ \A v \in RelayWorkers \ {w} : relays'[v] = relays[v]
    BY Zenon DEF RelaysOK
  <1>2. WorkerOK(w)'
    BY <1>1, Zenon DEF WorkerOK
  <1>3. \A v \in RelayWorkers \ {w} : WorkerOK(v)'
    BY <1>1, Zenon DEF RelaysOK, WorkerOK
  <1> QED
    BY <1>1, <1>2, <1>3, Zenon DEF RelaysOK, RelayMove

(* A worker that changes its place in the program, and nothing else.       *)
LEMMA WorkerGoesTo ==
  ASSUME RelaysOK, NEW w \in RelayWorkers, NEW pc, pc # "MARK",
         relays' = [relays EXCEPT ![w].pc = pc],
         engine' \in [Runs -> BOOLEAN],
         \A r \in Runs : engine[r] => engine'[r]
  PROVE  RelayMove
  <1> DEFINE row == [relays[w] EXCEPT !.pc = pc]
  <1>1. row = [pc |-> pc, batch |-> relays[w].batch, fence |-> relays[w].fence]
    BY DEF RelaysOK, WorkerOK
  <1>2. relays' = [relays EXCEPT ![w] = row]
    BY Zenon DEF RelaysOK
  <1> HIDE DEF row
  <1> QED
    BY <1>1, <1>2, WorkerWritten, Zenon

(* A worker that goes on with its batch, or is done with it.               *)
LEMMA WorkerGoesOn ==
  ASSUME RelaysOK, NEW w \in RelayWorkers,
         relays' = [relays EXCEPT ![w] = NextEvent(w)], UNCHANGED engine
  PROVE  RelayMove
  <1>1. engine' \in [Runs -> BOOLEAN]
    BY Zenon DEF RelaysOK
  <1>2. CASE NextEvent(w) = Idle
    BY <1>1, <1>2, WorkerWritten, Zenon DEF Idle
  <1>3. CASE NextEvent(w) # Idle
    <2> DEFINE rest == Tail(relays[w].batch)
               row == [relays[w] EXCEPT !.pc = "VERIFY", !.batch = rest]
    <2>0. rest # <<>>
      BY <1>3, Zenon DEF NextEvent
    <2>1. NextEvent(w) = row
      BY <2>0, Zenon DEF NextEvent
    <2>2. row = [pc |-> "VERIFY", batch |-> rest, fence |-> relays[w].fence]
      <3> HIDE DEF rest
      <3>1. row = [[relays[w] EXCEPT !.pc = "VERIFY"] EXCEPT !.batch = rest]
        BY Zenon DEF RelaysOK, WorkerOK
      <3>2. [relays[w] EXCEPT !.pc = "VERIFY"]
              = [pc |-> "VERIFY", batch |-> relays[w].batch,
                 fence |-> relays[w].fence]
        BY DEF RelaysOK, WorkerOK
      <3>3. [[pc |-> "VERIFY", batch |-> relays[w].batch,
              fence |-> relays[w].fence] EXCEPT !.batch = rest]
              = [pc |-> "VERIFY", batch |-> rest, fence |-> relays[w].fence]
        OBVIOUS
      <3> HIDE DEF row
      <3> QED
        BY <3>1, <3>2, <3>3, Zenon
    <2>3. relays' = [relays EXCEPT ![w] = row]
      BY <2>1, Zenon
    <2> HIDE DEF row
    <2> QED
      BY <1>1, <2>2, <2>3, WorkerWritten, Zenon
  <1> QED
    BY <1>2, <1>3, Zenon

(* Claiming a batch is a move of the relay.                                *)
LEMMA ClaimMoves ==
  ASSUME RelaysOK, NEW w \in RelayWorkers, ClaimPendingOutbox(w)
  PROVE  RelayMove
  <1>1. PICK work : relays' = [relays EXCEPT ![w] =
                      IF work = <<>>
                      THEN Idle
                      ELSE [pc |-> "VERIFY", batch |-> work, fence |-> 0]]
    BY Zenon DEF ClaimPendingOutbox
  <1>2. UNCHANGED engine /\ engine' \in [Runs -> BOOLEAN]
    BY Zenon DEF ClaimPendingOutbox, RelaysOK
  <1>3. CASE work = <<>>
    <2>1. relays' = [relays EXCEPT ![w] = Idle]
      BY <1>1, <1>3, Zenon
    <2> QED
      BY <1>2, <2>1, WorkerWritten, Zenon DEF Idle
  <1>4. CASE work # <<>>
    <2> DEFINE row == [pc |-> "VERIFY", batch |-> work, fence |-> 0]
    <2>1. relays' = [relays EXCEPT ![w] = row]
      BY <1>1, <1>4, Zenon
    <2>2. row = [pc |-> row.pc, batch |-> row.batch, fence |-> row.fence]
          /\ row.pc # "MARK"
      BY Zenon
    <2> HIDE DEF row
    <2> QED
      BY <1>2, <2>1, <2>2, WorkerWritten, Zenon
  <1> QED
    BY <1>3, <1>4, Zenon

(* Verifying and claiming a run is a move of both.                         *)
LEMMA VerifyMoves ==
  ASSUME DispatchInv, NEW w \in RelayWorkers, VerifyAndClaimRun(w)
  PROVE  TableMove /\ RelayMove
  <1> DEFINE r == Head(relays[w].batch)
  <1>1. /\ RunTypeOK /\ RelaysOK /\ UNCHANGED engine
        /\ engine' \in [Runs -> BOOLEAN]
    BY Zenon DEF DispatchInv, RelaysOK, VerifyAndClaimRun
  <1>2. CASE /\ relays' = [relays EXCEPT ![w].pc = "START",
                                         ![w].fence = runs[r].fence]
             /\ UNCHANGED runVars
    <2> DEFINE row == [relays[w] EXCEPT !.pc = "START",
                                        !.fence = runs[r].fence]
    <2>1. row = [pc |-> "START", batch |-> relays[w].batch,
                 fence |-> runs[r].fence]
      <3>1. row = [[relays[w] EXCEPT !.pc = "START"] EXCEPT
                     !.fence = runs[r].fence]
        BY <1>1, Zenon DEF RelaysOK, WorkerOK
      <3>2. [relays[w] EXCEPT !.pc = "START"]
              = [pc |-> "START", batch |-> relays[w].batch,
                 fence |-> relays[w].fence]
        BY <1>1 DEF RelaysOK, WorkerOK
      <3>3. [[pc |-> "START", batch |-> relays[w].batch,
              fence |-> relays[w].fence] EXCEPT !.fence = runs[r].fence]
              = [pc |-> "START", batch |-> relays[w].batch, fence |-> runs[r].fence]
        OBVIOUS
      <3> HIDE DEF row
      <3> QED
        BY <3>1, <3>2, <3>3, Zenon
    <2>2. relays' = [relays EXCEPT ![w] = row]
      BY <1>1, <1>2, Zenon DEF RelaysOK
    <2> HIDE DEF row
    <2> QED
      BY <1>1, <1>2, <2>1, <2>2, WorkerWritten, NoTableMove, Zenon
  <1>3. CASE /\ AwaitsDispatch(r)
             /\ FenceRunBlocked(r, runs[r].fence)
             /\ relays' = [relays EXCEPT ![w].pc = "DELIVERED"]
    <2>1. RelayMove
      BY <1>1, <1>3, WorkerGoesTo, Zenon
    <2>2. CASE r \in Runs
      BY <1>1, <1>3, <2>1, <2>2, FenceRunBlockedMoves, Zenon
    <2>3. CASE r \notin Runs
      <3>1. UNCHANGED runVars
        BY <1>1, <1>3, <2>3, Zenon DEF RunTypeOK, FenceRunBlocked, runVars
      <3> QED
        BY <1>1, <2>1, <3>1, NoTableMove, Zenon
    <2> QED
      BY <2>2, <2>3, Zenon
  <1>4. CASE /\ relays' = [relays EXCEPT ![w].pc = "DELIVERED"]
             /\ UNCHANGED runVars
    BY <1>1, <1>4, WorkerGoesTo, NoTableMove, Zenon
  <1> QED
    BY <1>2, <1>3, <1>4, Zenon DEF VerifyAndClaimRun

(* Starting the durable run is a move of the relay.                        *)
LEMMA StartDurableRunMoves ==
  ASSUME RelaysOK, NEW w \in RelayWorkers, StartDurableRun(w)
  PROVE  RelayMove
  <1> DEFINE r == Head(relays[w].batch)
  <1>1. /\ engine' \in [Runs -> BOOLEAN]
        /\ \A q \in Runs : engine[q] => engine'[q]
    BY Zenon DEF StartDurableRun, RelaysOK
  <1>2. CASE relays' = [relays EXCEPT ![w].pc = "FAILED"]
    BY <1>1, <1>2, WorkerGoesTo, Zenon
  <1>3. CASE /\ engine' = [engine EXCEPT ![r] = TRUE]
             /\ relays' = [relays EXCEPT ![w].pc = "MARK"]
    <2> DEFINE row == [relays[w] EXCEPT !.pc = "MARK"]
    <2>1. row = [pc |-> "MARK", batch |-> relays[w].batch,
                 fence |-> relays[w].fence]
      BY DEF RelaysOK, WorkerOK
    <2>2. relays' = [relays EXCEPT ![w] = row]
      BY <1>3, Zenon DEF RelaysOK
    <2>3. \A q \in Runs : q = Head(row.batch) => engine'[q]
      BY <1>3, <2>1, Zenon DEF RelaysOK
    <2> HIDE DEF row
    <2> QED
      BY <1>1, <2>1, <2>2, <2>3, WorkerWritten, Zenon
  <1> QED
    BY <1>2, <1>3, Zenon DEF StartDurableRun



(* Reporting the start is a move of both.                                  *)
LEMMA MarkStartedMoves ==
  ASSUME DispatchInv, NEW w \in RelayWorkers, MarkStarted(w)
  PROVE  TableMove /\ RelayMove
  <1>1. /\ RunTypeOK /\ RelaysOK
        /\ engine' \in [Runs -> BOOLEAN]
        /\ \A r \in Runs : engine[r] => engine'[r]
    BY Zenon DEF DispatchInv, RelaysOK, MarkStarted
  <1>2. CASE /\ relays[w].pc = "MARK"
             /\ MarkRunStarted(Head(relays[w].batch), relays[w].fence)
             /\ relays' = [relays EXCEPT ![w].pc = "DELIVERED"]
    <2>1. TableMove
      BY <1>1, <1>2, MarkRunStartedMoves, Zenon
    <2>2. RelayMove
      BY <1>1, <1>2, WorkerGoesTo, Zenon
    <2> QED
      BY <2>1, <2>2, Zenon
  <1>3. CASE /\ relays' = [relays EXCEPT ![w].pc = "FAILED"]
             /\ UNCHANGED runVars
    BY <1>1, <1>3, WorkerGoesTo, NoTableMove, Zenon
  <1> QED
    BY <1>2, <1>3, Zenon DEF MarkStarted

(* Every step of the relay is a move of both.                              *)
LEMMA RelayStepMoves ==
  ASSUME DispatchInv, NEW w \in RelayWorkers, RelayStep(w)
  PROVE  TableMove /\ RelayMove
  <1>1. RunTypeOK /\ RelaysOK
    BY Zenon DEF DispatchInv, RelaysOK
  <1>2. CASE ClaimPendingOutbox(w)
    <2>1. UNCHANGED runVars
      BY <1>2, Zenon DEF ClaimPendingOutbox
    <2> QED
      BY <1>1, <1>2, <2>1, ClaimMoves, NoTableMove, Zenon
  <1>3. CASE VerifyAndClaimRun(w)
    BY <1>3, VerifyMoves, Zenon
  <1>4. CASE StartDurableRun(w)
    <2>1. UNCHANGED runVars
      BY <1>4, Zenon DEF StartDurableRun
    <2> QED
      BY <1>1, <1>4, <2>1, StartDurableRunMoves, NoTableMove, Zenon
  <1>5. CASE MarkStarted(w)
    BY <1>5, MarkStartedMoves, Zenon
  <1>6. CASE MarkOutboxDelivered(w)
    <2>1. /\ UNCHANGED runVars /\ UNCHANGED engine
          /\ relays' = [relays EXCEPT ![w] = NextEvent(w)]
      BY <1>6, Zenon DEF MarkOutboxDelivered
    <2> QED
      BY <1>1, <2>1, WorkerGoesOn, NoTableMove, Zenon
  <1>7. CASE MarkOutboxFailed(w)
    <2>1. /\ UNCHANGED runVars /\ UNCHANGED engine
          /\ relays' = [relays EXCEPT ![w] = NextEvent(w)]
      BY <1>7, Zenon DEF MarkOutboxFailed
    <2> QED
      BY <1>1, <2>1, WorkerGoesOn, NoTableMove, Zenon
  <1> QED
    BY <1>2, <1>3, <1>4, <1>5, <1>6, <1>7, Zenon DEF RelayStep

(* Crashes and lost answers are moves of both.                             *)
LEMMA DisturbanceMoves ==
  ASSUME DispatchInv, NEW w \in RelayWorkers, Disturbance(w)
  PROVE  TableMove /\ RelayMove
  <1>1. /\ RunTypeOK /\ RelaysOK /\ UNCHANGED engine
        /\ engine' \in [Runs -> BOOLEAN]
        /\ \A r \in Runs : engine[r] => engine'[r]
    BY Zenon DEF DispatchInv, RelaysOK, Disturbance, Crash, DatabaseError,
           LostCommitAnswer
  <1>2. CASE Crash(w)
    <2>1. UNCHANGED runVars /\ relays' = [relays EXCEPT ![w] = Idle]
      BY <1>2, Zenon DEF Crash
    <2>2. RelayMove
      BY <1>1, <2>1, WorkerWritten, Zenon DEF Idle
    <2> QED
      BY <1>1, <2>1, <2>2, NoTableMove, Zenon
  <1>3. CASE DatabaseError(w)
    <2>1. UNCHANGED runVars
      BY <1>3, Zenon DEF DatabaseError
    <2>2. CASE relays' = [relays EXCEPT ![w].pc = "FAILED"]
      BY <1>1, <2>1, <2>2, WorkerGoesTo, NoTableMove, Zenon
    <2>3. CASE relays' = [relays EXCEPT ![w] = NextEvent(w)]
      BY <1>1, <2>1, <2>3, WorkerGoesOn, NoTableMove, Zenon
    <2> QED
      BY <1>3, <2>2, <2>3, Zenon DEF DatabaseError
  <1>4. CASE LostCommitAnswer(w)
    <2>1. /\ relays[w].pc = "MARK"
          /\ MarkRunStarted(Head(relays[w].batch), relays[w].fence)
          /\ relays' = [relays EXCEPT ![w].pc = "FAILED"]
      BY <1>4, Zenon DEF LostCommitAnswer
    <2>2. TableMove
      BY <1>1, <2>1, MarkRunStartedMoves, Zenon
    <2>3. RelayMove
      BY <1>1, <2>1, WorkerGoesTo, Zenon
    <2> QED
      BY <2>2, <2>3, Zenon
  <1> QED
    BY <1>2, <1>3, <1>4, Zenon DEF Disturbance

(* Every command and timer on a run is a move of both.                     *)
LEMMA RunStepMoves ==
  ASSUME DispatchInv, NEW r \in Runs,
         \/ \E g \in Grants : Submit(r, g)
         \/ RunCommand(r)
         \/ ReplayDeadletter(r) \/ LeaseExpires(r) \/ BackoffEnds(r)
  PROVE  TableMove /\ RelayMove
  <1>1. RunTypeOK /\ RelaysOK
    BY Zenon DEF DispatchInv, RelaysOK
  <1>2. UNCHANGED <<engine, relays>>
    BY Zenon
       DEF Submit, RunCommand, ReplayDeadletter, LeaseExpires, BackoffEnds
  <1>3. RelayMove
    BY <1>1, <1>2, NoRelayMove, Zenon
  <1>4. ASSUME NEW g \in Grants, Submit(r, g)
        PROVE  TableMove
    <2>1. StartRun(r, g)
      BY <1>4, Zenon DEF Submit
    <2> QED
      BY <1>1, <2>1, StartRunMoves, Zenon
  <1>5. ASSUME NEW unresolved \in BOOLEAN,
               CancelRun(r, runs[r].version, unresolved)
        PROVE  TableMove
    BY <1>1, <1>5, CancelRunMoves, Zenon
  <1>6. ASSUME MarkRunCompleted(r, runs[r].fence)
        PROVE  TableMove
    BY <1>1, <1>6, MarkRunCompletedMoves, Zenon
  <1>7. CASE RunCommand(r)
    BY <1>3, <1>5, <1>6, <1>7, Zenon DEF RunCommand
  <1>8. CASE ReplayDeadletter(r) \/ LeaseExpires(r) \/ BackoffEnds(r)
    <2>1. UNCHANGED runVars
      BY <1>8, Zenon DEF ReplayDeadletter, LeaseExpires, BackoffEnds
    <2> QED
      BY <1>1, <1>3, <2>1, NoTableMove, Zenon
  <1> QED
    BY <1>3, <1>4, <1>7, <1>8, Zenon


(* Every step is a move of both.                                           *)
LEMMA DispatchMoves ==
  ASSUME DispatchInv, [DispatchNext]_dispatchVars
  PROVE  TableMove /\ RelayMove
  <1>1. RunTypeOK /\ RelaysOK
    BY Zenon DEF DispatchInv, RelaysOK
  <1>2. ASSUME NEW w \in RelayWorkers, RelayStep(w) \/ Disturbance(w)
        PROVE  TableMove /\ RelayMove
    BY <1>2, RelayStepMoves, DisturbanceMoves, Zenon
  <1>3. ASSUME NEW r \in Runs,
               \/ \E g \in Grants : Submit(r, g)
               \/ RunCommand(r)
               \/ ReplayDeadletter(r) \/ LeaseExpires(r) \/ BackoffEnds(r)
        PROVE  TableMove /\ RelayMove
    BY <1>3, RunStepMoves, Zenon
  <1>4. CASE Revoke
    <2>1. RevokePlugin /\ UNCHANGED <<engine, relays>>
      BY <1>4, Zenon DEF Revoke
    <2> QED
      BY <1>1, <2>1, RevokePluginMoves, NoRelayMove, Zenon
  <1>5. ASSUME NEW authority, Withdraw(authority) \/ Restore(authority)
        PROVE  TableMove /\ RelayMove
    <2>1. UNCHANGED runVars /\ UNCHANGED <<engine, relays>>
      BY <1>5, Zenon DEF Withdraw, Restore
    <2> QED
      BY <1>1, <2>1, NoTableMove, NoRelayMove, Zenon
  <1>6. CASE UNCHANGED dispatchVars
    <2>1. UNCHANGED runVars /\ UNCHANGED <<engine, relays>>
      BY <1>6, Zenon DEF dispatchVars, runVars
    <2> QED
      BY <1>1, <2>1, NoTableMove, NoRelayMove, Zenon
  <1> QED
    BY <1>2, <1>3, <1>4, <1>5, <1>6, Zenon DEF DispatchNext

-----------------------------------------------------------------------------
(* The invariant is preserved.                                             *)

(* Such moves keep what the invariant says of a run.                       *)
LEMMA RowStaysOK ==
  ASSUME DispatchInv, TableMove, RelayMove, NEW r \in Runs
  PROVE  DispatchRowOK(r)'
  <1>1. DispatchRowOK(r) /\ (engine[r] => engine'[r])
    BY Zenon DEF DispatchInv, RelayMove
  <1>2. runs'[r] = runs[r] \/ RowMove(r)
    BY Zenon DEF TableMove
  <1>3. plugin_revoked' => ~ AwaitsDispatch(r)'
    <2>1. CASE plugin_revoked
      BY <1>1, <1>2, <2>1, Zenon
         DEF DispatchRowOK, AwaitsDispatch, RowMove, RowAdmitted,
             RowCancelled, RowBlocked, RowStarted, RowCompleted, RowRevoked
    <2>2. CASE ~ plugin_revoked
      BY <2>2, Zenon DEF TableMove
    <2> QED
      BY <2>1, <2>2, Zenon
  <1>4. CASE runs'[r] = runs[r]
    BY <1>1, <1>3, <1>4, Zenon DEF DispatchRowOK
  <1>5. CASE RowAdmitted(r) \/ RowCancelled(r) \/ RowBlocked(r)
    BY <1>1, <1>3, <1>5, Zenon
       DEF DispatchRowOK, RowAdmitted, RowCancelled, RowBlocked
  <1>6. CASE RowStarted(r)
    <2>1. engine[r]
      BY <1>6, Zenon DEF RowStarted, DispatchInv, WorkerOK
    <2> QED
      BY <1>1, <1>3, <1>6, <2>1, Zenon DEF DispatchRowOK, RowStarted
  <1>7. CASE RowCompleted(r)
    BY <1>1, <1>3, <1>7, Zenon DEF DispatchRowOK, RowCompleted
  <1>8. CASE RowRevoked(r)
    <2>1. runs[r].state # "NONE"
      BY <1>8, Zenon DEF RowRevoked, ActiveRun, Exists
    <2> QED
      BY <1>1, <1>3, <1>8, <2>1, Zenon DEF DispatchRowOK, RowRevoked
  <1> QED
    BY <1>2, <1>4, <1>5, <1>6, <1>7, <1>8, Zenon DEF RowMove

(* Every step keeps the invariant.                                         *)
LEMMA DispatchNextInv ==
  DispatchInv /\ [DispatchNext]_dispatchVars => DispatchInv'
  <1> SUFFICES ASSUME DispatchInv, [DispatchNext]_dispatchVars
               PROVE  DispatchInv'
    BY Zenon
  <1>1. TableMove /\ RelayMove
    BY DispatchMoves, Zenon
  <1>2. \A r \in Runs : DispatchRowOK(r)'
    BY <1>1, RowStaysOK, Zenon
  <1>3. RunTypeOK' /\ RelaysOK'
    BY <1>1, Zenon DEF TableMove, RelayMove
  <1> QED
    BY <1>2, <1>3, Zenon DEF DispatchInv, RelaysOK

-----------------------------------------------------------------------------
(* The events of the runs.                                                 *)

(* A run whose event has nothing left to do.                               *)
Settled(r) == Exists(r) /\ ~ AwaitsDispatch(r)

Admitted == {r \in Runs : Exists(r)}

EventRow == [status: {"NONE", "PENDING", "DELIVERED", "DEAD_LETTER"},
             attempts: Nat, lease: {"NULL", "HELD", "EXPIRED"},
             available: BOOLEAN, replayed: BOOLEAN]

(* A worker is busy with events of admitted runs, and acknowledges an      *)
(* event only once its run is settled.                                     *)
BatchOK(w) ==
  relays[w].pc # "IDLE" =>
    /\ relays[w].batch \in Seq(Admitted) /\ relays[w].batch # <<>>
    /\ relays[w].pc = "DELIVERED" => Settled(Head(relays[w].batch))

EventOK(r) ==
  /\ outbox[r].status = "DELIVERED" => Settled(r)
  /\ Exists(r) => outbox[r].status # "NONE"

EventsInv ==
  /\ stream \in Seq(Admitted)
  /\ outbox \in [Runs -> EventRow]
  /\ \A w \in RelayWorkers : BatchOK(w)
  /\ \A r \in Runs : EventOK(r) /\ (r \in inbox => Settled(r))

(* An admitted run stays one, and no settled run waits for its dispatch    *)
(* again.                                                                  *)
LEMMA SettledStaysSettled ==
  ASSUME TableMove, NEW r \in Runs
  PROVE  (Exists(r) => Exists(r)') /\ (Settled(r) => Settled(r)')
  <1>1. runs'[r] = runs[r] \/ RowMove(r)
    BY Zenon DEF TableMove
  <1>2. CASE runs'[r] = runs[r]
    BY <1>2, Zenon DEF Exists, Settled, AwaitsDispatch
  <1>3. CASE RowAdmitted(r) \/ RowBlocked(r) \/ RowStarted(r) \/ RowCompleted(r)
    BY <1>3, Zenon
       DEF Exists, Settled, AwaitsDispatch, RowAdmitted, RowBlocked,
           RowStarted, RowCompleted
  <1>4. CASE RowCancelled(r) \/ RowRevoked(r)
    BY <1>4, Zenon
       DEF Exists, Settled, AwaitsDispatch, RowCancelled, RowRevoked, ActiveRun
  <1> QED
    BY <1>1, <1>2, <1>3, <1>4, Zenon DEF RowMove

(* A run that was admitted stays admitted.                                 *)
LEMMA AdmittedGrows ==
  ASSUME TableMove
  PROVE  Admitted \subseteq Admitted'
  BY SettledStaysSettled, Zenon DEF Admitted

(* A batch in hand stays one of admitted runs.                             *)
LEMMA BatchStaysOK ==
  ASSUME TableMove, NEW w \in RelayWorkers, BatchOK(w), relays'[w] = relays[w]
  PROVE  BatchOK(w)'
  <1> SUFFICES ASSUME relays[w].pc # "IDLE"
               PROVE  /\ relays[w].batch \in Seq(Admitted') /\ relays[w].batch # <<>>
                      /\ relays[w].pc = "DELIVERED"
                           => Settled(Head(relays[w].batch))'
    BY Zenon DEF BatchOK
  <1>1. relays[w].batch \in Seq(Admitted) /\ relays[w].batch # <<>>
    BY Zenon DEF BatchOK
  <1>2. Head(relays[w].batch) \in Runs
    BY <1>1 DEF Admitted
  <1>3. relays[w].batch \in Seq(Admitted')
    BY <1>1, AdmittedGrows
  <1> QED
    BY <1>1, <1>2, <1>3, SettledStaysSettled, Zenon DEF BatchOK

(* One worker is written.                                                  *)
LEMMA BatchWritten ==
  ASSUME RelaysOK, EventsInv, TableMove, NEW w \in RelayWorkers, NEW row,
         relays' = [relays EXCEPT ![w] = row],
         row.pc # "IDLE" =>
           /\ row.batch \in Seq(Admitted) /\ row.batch # <<>>
           /\ row.pc = "DELIVERED" =>
                \E r \in Runs : r = Head(row.batch) /\ Settled(r)'
  PROVE  \A v \in RelayWorkers : BatchOK(v)'
  <1>1. relays'[w] = row /\ \A v \in RelayWorkers \ {w} : relays'[v] = relays[v]
    BY Zenon DEF RelaysOK
  <1>2. row.batch \in Seq(Admitted) => row.batch \in Seq(Admitted')
    BY AdmittedGrows
  <1>3. BatchOK(w)'
    BY <1>1, <1>2, Zenon DEF BatchOK
  <1>4. \A v \in RelayWorkers \ {w} : BatchOK(v)'
    BY <1>1, BatchStaysOK, Zenon DEF EventsInv
  <1> QED
    BY <1>3, <1>4, Zenon

(* A busy worker changes its place in the program.                         *)
LEMMA BatchGoesTo ==
  ASSUME RelaysOK, EventsInv, TableMove, NEW w \in RelayWorkers, NEW pc,
         NEW r \in Runs, r = Head(relays[w].batch), relays[w].pc # "IDLE",
         relays' = [relays EXCEPT ![w].pc = pc],
         pc = "DELIVERED" => Settled(r)'
  PROVE  \A v \in RelayWorkers : BatchOK(v)'
  <1> DEFINE row == [relays[w] EXCEPT !.pc = pc]
  <1>1. row.pc = pc /\ row.batch = relays[w].batch
    BY DEF RelaysOK, WorkerOK
  <1>2. relays' = [relays EXCEPT ![w] = row]
    BY Zenon DEF RelaysOK
  <1>3. relays[w].batch \in Seq(Admitted) /\ relays[w].batch # <<>>
    BY Zenon DEF EventsInv, BatchOK
  <1> HIDE DEF row
  <1> QED
    BY <1>1, <1>2, <1>3, BatchWritten, Zenon

(* A busy worker goes on with the rest of its batch.                       *)
LEMMA BatchGoesOn ==
  ASSUME RelaysOK, EventsInv, TableMove, NEW w \in RelayWorkers,
         relays[w].pc # "IDLE",
         relays' = [relays EXCEPT ![w] = NextEvent(w)]
  PROVE  \A v \in RelayWorkers : BatchOK(v)'
  <1> DEFINE rest == Tail(relays[w].batch)
             row == [relays[w] EXCEPT !.pc = "VERIFY", !.batch = rest]
  <1>1. rest \in Seq(Admitted)
    BY DEF EventsInv, BatchOK
  <1>2. CASE rest = <<>>
    <2>1. relays' = [relays EXCEPT ![w] = Idle]
      BY <1>2, Zenon DEF NextEvent
    <2> QED
      BY <2>1, BatchWritten, Zenon DEF Idle
  <1>3. CASE rest # <<>>
    <2>1. NextEvent(w) = row
      BY <1>3, Zenon DEF NextEvent
    <2>2. row.pc = "VERIFY" /\ row.batch = rest
      <3> HIDE DEF rest
      <3> QED
        BY DEF RelaysOK, WorkerOK
    <2>3. relays' = [relays EXCEPT ![w] = row]
      BY <2>1, Zenon
    <2> HIDE DEF row, rest
    <2> QED
      BY <1>1, <1>3, <2>2, <2>3, BatchWritten, Zenon
  <1> QED
    BY <1>2, <1>3, Zenon

(* A step that leaves the workers alone keeps their batches.               *)
LEMMA BatchesStay ==
  ASSUME EventsInv, TableMove, UNCHANGED relays
  PROVE  \A v \in RelayWorkers : BatchOK(v)'
  BY BatchStaysOK, Zenon DEF EventsInv

(* What a step does to the event of one run when it admits no run.         *)
EventMove(r) ==
  /\ Exists(r)' => Exists(r)
  /\ \/ outbox'[r].status = outbox[r].status
     \/ outbox'[r].status \in {"PENDING", "DEAD_LETTER"}
     \/ outbox'[r].status = "DELIVERED" /\ Settled(r)

(* What a step must do for the invariant of the events to survive it.      *)
LEMMA EventsFollow ==
  ASSUME EventsInv, TableMove, UNCHANGED stream,
         outbox' \in [Runs -> EventRow],
         \A w \in RelayWorkers : BatchOK(w)',
         \A r \in Runs : EventMove(r),
         \A r \in Runs : r \in inbox' => r \in inbox \/ Settled(r)
  PROVE  EventsInv'
  <1>1. stream' \in Seq(Admitted')
    BY AdmittedGrows DEF EventsInv
  <1>2. ASSUME NEW r \in Runs
        PROVE  EventOK(r)' /\ (r \in inbox' => Settled(r)')
    <2>1. (Exists(r) => Exists(r)') /\ (Settled(r) => Settled(r)')
      BY SettledStaysSettled, Zenon
    <2>2. EventOK(r) /\ (r \in inbox => Settled(r))
      BY Zenon DEF EventsInv
    <2>3. EventMove(r)
      BY Zenon
    <2>4. EventOK(r)'
      BY <2>1, <2>2, <2>3, Zenon DEF EventMove, EventOK
    <2> QED
      BY <2>1, <2>2, <2>4, Zenon
  <1> QED
    BY <1>1, <1>2, Zenon DEF EventsInv

(* Nothing happens to the events.                                          *)
LEMMA EventsStay ==
  ASSUME EventsInv, TableMove, UNCHANGED eventVars,
         \A r \in Runs : Exists(r)' => Exists(r),
         \A w \in RelayWorkers : BatchOK(w)'
  PROVE  EventsInv'
  <1>1. outbox' \in [Runs -> EventRow] /\ UNCHANGED <<stream, inbox, outbox>>
    BY Zenon DEF EventsInv, eventVars
  <1>2. \A r \in Runs : EventMove(r)
    BY <1>1, Zenon DEF EventMove
  <1> QED
    BY <1>1, <1>2, EventsFollow, Zenon

(* Only start_run admits a run.                                            *)
LEMMA FenceAdmitsNone ==
  ASSUME RunTypeOK, NEW r \in Runs, AwaitsDispatch(r),
         FenceRunBlocked(r, runs[r].fence)
  PROVE  /\ \A q \in Runs : Exists(q)' => Exists(q)
         /\ Settled(r)'
  BY Zenon
     DEF RunTypeOK, RunRow, FenceRunBlocked, Exists, Settled, AwaitsDispatch

(* Reporting a start admits no run and settles the one reported.           *)
LEMMA MarkRunStartedAdmitsNone ==
  ASSUME RunTypeOK, NEW r \in Runs, NEW fence, MarkRunStarted(r, fence)
  PROVE  /\ \A q \in Runs : Exists(q)' => Exists(q)
         /\ Settled(r)'
  BY Zenon
     DEF RunTypeOK, RunRow, MarkRunStarted, Exists, Settled, AwaitsDispatch

(* Commands on a run admit no other.                                       *)
LEMMA RunCommandAdmitsNone ==
  ASSUME RunTypeOK, NEW r \in Runs, RunCommand(r)
  PROVE  \A q \in Runs : Exists(q)' => Exists(q)
  <1>1. CASE MarkRunCompleted(r, runs[r].fence)
    BY <1>1, Zenon
       DEF RunTypeOK, RunRow, MarkRunCompleted, Exists, ExecutingStates
  <1>2. ASSUME NEW unresolved \in BOOLEAN,
               CancelRun(r, runs[r].version, unresolved)
        PROVE  \A q \in Runs : Exists(q)' => Exists(q)
    <2>1. Exists(r) /\ \A q \in Runs \ {r} : runs'[q] = runs[q]
      BY <1>2, Zenon DEF RunTypeOK, CancelRun
    <2> QED
      BY <2>1, Zenon DEF Exists
  <1> QED
    BY <1>1, <1>2, Zenon DEF RunCommand

(* Revoking a plugin admits no run.                                        *)
LEMMA RevokeAdmitsNone ==
  ASSUME RunTypeOK, RevokePlugin
  PROVE  \A q \in Runs : Exists(q)' => Exists(q)
  <1> SUFFICES ASSUME NEW q \in Runs, ~ Exists(q) PROVE ~ Exists(q)'
    BY Zenon
  <1>1. runs'[q] = runs[q]
    BY Zenon DEF RevokePlugin, ActiveRun
  <1> QED
    BY <1>1, Zenon DEF Exists

(* The run a busy worker is at.                                            *)
LEMMA HeadIsAdmitted ==
  ASSUME EventsInv, NEW w \in RelayWorkers, relays[w].pc # "IDLE"
  PROVE  Head(relays[w].batch) \in Runs /\ Exists(Head(relays[w].batch))
  <1>1. relays[w].batch \in Seq(Admitted) /\ relays[w].batch # <<>>
    BY Zenon DEF EventsInv, BatchOK
  <1>2. Head(relays[w].batch) \in Admitted
    BY <1>1
  <1> QED
    BY <1>2, Zenon DEF Admitted

(* The submission of a run keeps the invariant of the events.              *)
LEMMA SubmitEvents ==
  ASSUME DispatchInv, EventsInv, TableMove,
         NEW r \in Runs, NEW g \in Grants, Submit(r, g)
  PROVE  EventsInv'
  <1>1. /\ ~ Exists(r) /\ Exists(r)'
        /\ \A q \in Runs \ {r} : runs'[q] = runs[q]
    BY Zenon DEF Submit, StartRun, Exists, DispatchInv, RunTypeOK
  <1>2. stream' \in Seq(Admitted')
    <2>1. stream \in Seq(Admitted') /\ r \in Admitted'
      BY <1>1, AdmittedGrows DEF EventsInv, Admitted
    <2> QED
      BY <2>1 DEF Submit
  <1>3. /\ outbox' \in [Runs -> EventRow]
        /\ outbox'[r].status = "PENDING"
        /\ \A q \in Runs \ {r} : outbox'[q] = outbox[q]
    BY Zenon DEF Submit, EventsInv, EventRow
  <1>4. \A v \in RelayWorkers : BatchOK(v)'
    BY BatchesStay, Zenon DEF Submit
  <1>5. ASSUME NEW q \in Runs
        PROVE  EventOK(q)' /\ (q \in inbox' => Settled(q)')
    <2>1. q \in inbox => Settled(q)'
      BY SettledStaysSettled, Zenon DEF EventsInv
    <2>2. CASE q = r
      BY <1>3, <2>1, <2>2, Zenon DEF EventOK, Submit
    <2>3. CASE q # r
      <3>1. EventOK(q) /\ runs'[q] = runs[q] /\ outbox'[q] = outbox[q]
        BY <1>1, <1>3, <2>3, Zenon DEF EventsInv
      <3> QED
        BY <2>1, <3>1, Zenon
           DEF EventOK, Exists, Settled, AwaitsDispatch, Submit
    <2> QED
      BY <2>2, <2>3, Zenon
  <1> QED
    BY <1>2, <1>3, <1>4, <1>5, Zenon DEF EventsInv

(* The relay claims the events of admitted runs only.                      *)
LEMMA BatchIsAdmitted ==
  ASSUME EventsInv
  PROVE  Batch \in Seq(Admitted)
  <1> DEFINE pending == InOrder(stream, {r \in Runs : Claimable(r)})
             size == IF Len(pending) < BatchSize THEN Len(pending) ELSE BatchSize
  <1>1. pending \in Seq(Admitted)
    <2>1. stream \in Seq(Admitted)
      BY Zenon DEF EventsInv
    <2> DEFINE claimable == {r \in Runs : Claimable(r)}
    <2> HIDE DEF claimable
    <2>2. InOrder(stream, claimable) \in Seq(Admitted \cap claimable)
      BY <2>1, InOrderFinds, Zenon
    <2>3. InOrder(stream, claimable) \in Seq(Admitted)
      BY <2>2
    <2> QED
      BY <2>3, Zenon DEF claimable
  <1> HIDE DEF pending
  <1>2. size \in 0..Len(pending)
    BY <1>1, DispatchAssumption
  <1>3. SubSeq(pending, 1, size) \in Seq(Admitted)
    <2> HIDE DEF size
    <2> QED
      BY <1>1, <1>2
  <1> QED
    BY <1>3, Zenon DEF Batch, pending

(* Claiming a batch keeps the invariant of the events.                     *)
LEMMA ClaimEvents ==
  ASSUME DispatchInv, EventsInv, TableMove,
         NEW w \in RelayWorkers, ClaimPendingOutbox(w)
  PROVE  EventsInv'
  <1> DEFINE claimed == Range(Batch)
             work == InOrder(Batch, Runs \ inbox)
             row == [pc |-> "VERIFY", batch |-> work, fence |-> 0]
  <1>1. RelaysOK /\ UNCHANGED <<runs, stream, inbox>>
    BY Zenon
       DEF DispatchInv, RelaysOK, ClaimPendingOutbox, InboxAfterClaim, runVars
  <1>2. work \in Seq(Admitted)
    <2>1. Batch \in Seq(Admitted)
      BY BatchIsAdmitted, Zenon
    <2> DEFINE fresh == Runs \ inbox
    <2> HIDE DEF fresh
    <2>2. InOrder(Batch, fresh) \in Seq(Admitted \cap fresh)
      BY <2>1, InOrderFinds, Zenon
    <2>3. InOrder(Batch, fresh) \in Seq(Admitted)
      BY <2>2
    <2> QED
      BY <2>3, Zenon DEF fresh
  <1>3. \A v \in RelayWorkers : BatchOK(v)'
    <2>1. relays' = [relays EXCEPT ![w] = IF work = <<>> THEN Idle ELSE row]
      BY Zenon DEF ClaimPendingOutbox
    <2> HIDE DEF work
    <2>2. CASE work = <<>>
      <3>1. relays' = [relays EXCEPT ![w] = Idle] /\ Idle.pc = "IDLE"
        BY <2>1, <2>2, Zenon DEF Idle
      <3> QED
        BY <1>1, <3>1, BatchWritten, Zenon
    <2>3. CASE work # <<>>
      <3>1. relays' = [relays EXCEPT ![w] = row]
        BY <2>1, <2>3, Zenon
      <3>2. row.pc = "VERIFY" /\ row.batch = work
        BY Zenon
      <3> HIDE DEF row
      <3> QED
        BY <1>1, <1>2, <2>3, <3>1, <3>2, BatchWritten, Zenon
    <2> QED
      BY <2>2, <2>3, Zenon
  <1>4. ASSUME NEW r \in Runs
        PROVE  outbox'[r] \in EventRow /\ EventMove(r)
    <2>1. outbox'[r] = IF r \in claimed THEN ClaimedEvent(r) ELSE outbox[r]
      BY Zenon DEF ClaimPendingOutbox
    <2> HIDE DEF claimed
    <2>2. outbox[r] \in EventRow /\ (r \in inbox => Settled(r))
      BY Zenon DEF EventsInv
    <2>3. /\ ClaimedEvent(r) \in EventRow
          /\ ClaimedEvent(r).status = IF r \in inbox THEN "DELIVERED"
                                                     ELSE outbox[r].status
      <3>1. CASE r \in inbox
        BY <2>2, <3>1, Zenon DEF ClaimedEvent, EventRow
      <3>2. CASE r \notin inbox
        <4> DEFINE attempts == IF outbox[r].attempts < MaxAttempts
                               THEN outbox[r].attempts + 1
                               ELSE outbox[r].attempts
        <4>1. attempts \in Nat
          BY <2>2 DEF EventRow
        <4>2. ClaimedEvent(r) = [outbox[r] EXCEPT !.lease = "HELD",
                                                  !.attempts = attempts]
          BY <3>2, Zenon DEF ClaimedEvent
        <4> HIDE DEF attempts
        <4> QED
          BY <2>2, <3>2, <4>1, <4>2, Zenon DEF EventRow
      <3> QED
        BY <3>1, <3>2, Zenon
    <2> QED
      BY <1>1, <2>1, <2>2, <2>3, Zenon DEF EventMove, Exists
  <1>5. outbox' \in [Runs -> EventRow]
    <2>1. outbox' = [r \in Runs |-> outbox'[r]]
      BY Zenon DEF ClaimPendingOutbox
    <2> QED
      BY <1>4, <2>1, Zenon
  <1> QED
    BY <1>1, <1>3, <1>4, <1>5, EventsFollow, Zenon

(* Verifying a run keeps the invariant of the events.                      *)
LEMMA VerifyEvents ==
  ASSUME DispatchInv, EventsInv, TableMove,
         NEW w \in RelayWorkers, VerifyAndClaimRun(w)
  PROVE  EventsInv'
  <1>0. PICK r : r = Head(relays[w].batch)
    BY Zenon
  <1>1. /\ RelaysOK /\ RunTypeOK /\ relays[w].pc # "IDLE"
        /\ UNCHANGED eventVars
    BY Zenon DEF DispatchInv, RelaysOK, VerifyAndClaimRun
  <1>2. r \in Runs /\ Exists(r)
    BY <1>0, <1>1, HeadIsAdmitted, Zenon
  <1>3. CASE /\ relays' = [relays EXCEPT ![w].pc = "START",
                                         ![w].fence = runs[r].fence]
             /\ UNCHANGED runVars
    <2> DEFINE row == [relays[w] EXCEPT !.pc = "START",
                                        !.fence = runs[r].fence]
    <2>1. relays' = [relays EXCEPT ![w] = row]
      BY <1>1, <1>3, Zenon DEF RelaysOK
    <2>2. row.pc = "START" /\ row.batch = relays[w].batch
      BY <1>1 DEF RelaysOK, WorkerOK
    <2>3. relays[w].batch \in Seq(Admitted) /\ relays[w].batch # <<>>
      BY <1>1, Zenon DEF EventsInv, BatchOK
    <2> HIDE DEF row
    <2>4. \A v \in RelayWorkers : BatchOK(v)'
      BY <1>1, <2>1, <2>2, <2>3, BatchWritten, Zenon
    <2>5. \A q \in Runs : Exists(q)' => Exists(q)
      BY <1>3, Zenon DEF runVars, Exists
    <2> QED
      BY <1>1, <2>4, <2>5, EventsStay, Zenon
  <1>4. CASE /\ AwaitsDispatch(r)
             /\ FenceRunBlocked(r, runs[r].fence)
             /\ relays' = [relays EXCEPT ![w].pc = "DELIVERED"]
    <2>1. Settled(r)' /\ \A q \in Runs : Exists(q)' => Exists(q)
      BY <1>0, <1>1, <1>2, <1>4, FenceAdmitsNone, Zenon
    <2>2. \A v \in RelayWorkers : BatchOK(v)'
      BY <1>0, <1>1, <1>2, <1>4, <2>1, BatchGoesTo, Zenon
    <2> QED
      BY <1>1, <2>1, <2>2, EventsStay, Zenon
  <1>5. CASE /\ ~ AwaitsDispatch(r)
             /\ relays' = [relays EXCEPT ![w].pc = "DELIVERED"]
             /\ UNCHANGED runVars
    <2>1. Settled(r)' /\ \A q \in Runs : Exists(q)' => Exists(q)
      BY <1>2, <1>5, Zenon DEF Settled, Exists, AwaitsDispatch, runVars
    <2>2. \A v \in RelayWorkers : BatchOK(v)'
      BY <1>0, <1>1, <1>2, <1>5, <2>1, BatchGoesTo, Zenon
    <2> QED
      BY <1>1, <2>1, <2>2, EventsStay, Zenon
  <1> QED
    BY <1>0, <1>3, <1>4, <1>5, Zenon DEF VerifyAndClaimRun

(* mark_run_started, whatever the worker learns of it, and its refusal.    *)
LEMMA MarkStartedEvents ==
  ASSUME DispatchInv, EventsInv, TableMove, NEW w \in RelayWorkers,
         relays[w].pc = "MARK", UNCHANGED eventVars,
         \/ /\ MarkRunStarted(Head(relays[w].batch), relays[w].fence)
            /\ relays' = [relays EXCEPT ![w].pc = "DELIVERED"]
         \/ /\ \/ MarkRunStarted(Head(relays[w].batch), relays[w].fence)
               \/ UNCHANGED runVars
            /\ relays' = [relays EXCEPT ![w].pc = "FAILED"]
  PROVE  EventsInv'
  <1>0. PICK r : r = Head(relays[w].batch)
    BY Zenon
  <1>1. RelaysOK /\ RunTypeOK /\ relays[w].pc # "IDLE"
    BY Zenon DEF DispatchInv, RelaysOK
  <1>2. r \in Runs /\ Exists(r)
    BY <1>0, <1>1, HeadIsAdmitted, Zenon
  <1>4. MarkRunStarted(r, relays[w].fence)
          => Settled(r)' /\ \A q \in Runs : Exists(q)' => Exists(q)
    BY <1>1, <1>2, MarkRunStartedAdmitsNone, Zenon
  <1>5. UNCHANGED runVars => \A q \in Runs : Exists(q)' => Exists(q)
    BY Zenon DEF runVars, Exists
  <1>6. \A v \in RelayWorkers : BatchOK(v)'
    <2>1. CASE /\ MarkRunStarted(r, relays[w].fence)
               /\ relays' = [relays EXCEPT ![w].pc = "DELIVERED"]
      BY <1>1, <1>2, <1>0, <1>4, <2>1, BatchGoesTo, Zenon
    <2>2. CASE relays' = [relays EXCEPT ![w].pc = "FAILED"]
      <3>1. "FAILED" # "DELIVERED"
        BY Zenon
      <3> QED
        BY <1>1, <1>2, <1>0, <2>2, <3>1, BatchGoesTo, Zenon
    <2> QED
      BY <1>0, <2>1, <2>2, Zenon
  <1> QED
    BY <1>0, <1>4, <1>5, <1>6, EventsStay, Zenon

(* The relay's acknowledgements keep the invariant of the events.          *)
LEMMA AcknowledgeEvents ==
  ASSUME DispatchInv, EventsInv, TableMove, NEW w \in RelayWorkers,
         MarkOutboxDelivered(w) \/ MarkOutboxFailed(w)
  PROVE  EventsInv'
  <1> DEFINE r == Head(relays[w].batch)
  <1>1. /\ RelaysOK /\ relays[w].pc # "IDLE"
        /\ UNCHANGED <<runs, stream>>
        /\ relays' = [relays EXCEPT ![w] = NextEvent(w)]
    BY Zenon DEF DispatchInv, RelaysOK, MarkOutboxDelivered, MarkOutboxFailed,
           runVars
  <1>2. r \in Runs
    BY <1>1, HeadIsAdmitted, Zenon
  <1>3. \A v \in RelayWorkers : BatchOK(v)'
    BY <1>1, BatchGoesOn, Zenon
  <1>4. \A q \in Runs : Exists(q)' => Exists(q)
    BY <1>1, Zenon DEF Exists
  <1>5. CASE MarkOutboxDelivered(w)
    <2>1. Settled(r)
      BY <1>5, Zenon DEF MarkOutboxDelivered, EventsInv, BatchOK
    <2>2. /\ outbox' = [outbox EXCEPT ![r].status = "DELIVERED",
                                      ![r].lease = "NULL"]
          /\ inbox' = inbox \cup {r}
      BY <1>5, Zenon DEF MarkOutboxDelivered
    <2> HIDE DEF r
    <2>3. /\ outbox' \in [Runs -> EventRow]
          /\ outbox'[r].status = "DELIVERED"
          /\ \A q \in Runs \ {r} : outbox'[q] = outbox[q]
      BY <1>2, <2>2, Zenon DEF EventsInv, EventRow
    <2>4. \A q \in Runs : EventMove(q)
      BY <1>4, <2>1, <2>3, Zenon DEF EventMove
    <2> QED
      BY <1>1, <1>3, <2>1, <2>2, <2>3, <2>4, EventsFollow, Zenon
  <1>6. CASE MarkOutboxFailed(w)
    <2>1. /\ outbox' = [outbox EXCEPT ![r] =
                          IF outbox[r].attempts >= MaxAttempts
                          THEN [outbox[r] EXCEPT !.status = "DEAD_LETTER",
                                                 !.lease = "NULL"]
                          ELSE [outbox[r] EXCEPT !.lease = "NULL",
                                                 !.available = FALSE]]
          /\ UNCHANGED inbox
      BY <1>6, Zenon DEF MarkOutboxFailed
    <2> HIDE DEF r
    <2>2. outbox[r] \in EventRow
      BY <1>2, Zenon DEF EventsInv
    <2>3. /\ [outbox[r] EXCEPT !.status = "DEAD_LETTER", !.lease = "NULL"]
               \in EventRow
          /\ [outbox[r] EXCEPT !.lease = "NULL", !.available = FALSE]
               \in EventRow
          /\ [outbox[r] EXCEPT !.status = "DEAD_LETTER", !.lease = "NULL"].status
               = "DEAD_LETTER"
          /\ [outbox[r] EXCEPT !.lease = "NULL", !.available = FALSE].status
               = outbox[r].status
      BY <2>2, Zenon DEF EventRow
    <2>4. /\ outbox' \in [Runs -> EventRow]
          /\ outbox'[r].status \in {"DEAD_LETTER", outbox[r].status}
          /\ \A q \in Runs \ {r} : outbox'[q] = outbox[q]
      <3> DEFINE dead == [outbox[r] EXCEPT !.status = "DEAD_LETTER",
                                           !.lease = "NULL"]
                 back == [outbox[r] EXCEPT !.lease = "NULL",
                                           !.available = FALSE]
      <3>1. /\ outbox' = [outbox EXCEPT ![r] = dead]
               \/ outbox' = [outbox EXCEPT ![r] = back]
        BY <2>1, Zenon
      <3> HIDE DEF dead, back
      <3>2. /\ dead \in EventRow /\ back \in EventRow
            /\ dead.status = "DEAD_LETTER" /\ back.status = outbox[r].status
        BY <2>3, Zenon DEF dead, back
      <3> QED
        BY <1>2, <3>1, <3>2, Zenon DEF EventsInv
    <2>5. \A q \in Runs : EventMove(q)
      BY <1>4, <2>4, Zenon DEF EventMove
    <2> QED
      BY <1>1, <1>3, <2>1, <2>4, <2>5, EventsFollow, Zenon
  <1> QED
    BY <1>5, <1>6, Zenon

(* Every step and disturbance of the relay keeps the invariant of the      *)
(* events.                                                                 *)
LEMMA RelayStepEvents ==
  ASSUME DispatchInv, EventsInv, TableMove, NEW w \in RelayWorkers,
         RelayStep(w) \/ Disturbance(w)
  PROVE  EventsInv'
  <1>1. RelaysOK /\ RunTypeOK
    BY Zenon DEF DispatchInv, RelaysOK
  <1>2. ASSUME UNCHANGED runVars
        PROVE  \A q \in Runs : Exists(q)' => Exists(q)
    BY <1>2, Zenon DEF runVars, Exists
  <1>3. CASE ClaimPendingOutbox(w)
    BY <1>3, ClaimEvents, Zenon
  <1>4. CASE VerifyAndClaimRun(w)
    BY <1>4, VerifyEvents, Zenon
  <1>5. ASSUME NEW pc, pc # "DELIVERED", relays[w].pc # "IDLE",
               relays' = [relays EXCEPT ![w].pc = pc],
               UNCHANGED <<runVars, eventVars>>
        PROVE  EventsInv'
    <2>1. Head(relays[w].batch) \in Runs
      BY <1>5, HeadIsAdmitted, Zenon
    <2>2. \A v \in RelayWorkers : BatchOK(v)'
      BY <1>1, <1>5, <2>1, BatchGoesTo, Zenon
    <2> QED
      BY <1>2, <1>5, <2>2, EventsStay, Zenon
  <1>6. CASE StartDurableRun(w)
    BY <1>5, <1>6, Zenon DEF StartDurableRun
  <1>7. CASE MarkStarted(w)
    <2>1. relays[w].pc = "MARK" /\ UNCHANGED eventVars
      BY <1>7, Zenon DEF MarkStarted
    <2> QED
      BY <1>7, <2>1, MarkStartedEvents, Zenon DEF MarkStarted
  <1>8. CASE MarkOutboxDelivered(w) \/ MarkOutboxFailed(w)
    BY <1>8, AcknowledgeEvents, Zenon
  <1>9. CASE Crash(w)
    <2>1. /\ relays' = [relays EXCEPT ![w] = Idle] /\ Idle.pc = "IDLE"
          /\ UNCHANGED <<runVars, eventVars>>
      BY <1>9, Zenon DEF Crash, Idle
    <2>2. \A v \in RelayWorkers : BatchOK(v)'
      BY <1>1, <2>1, BatchWritten, Zenon
    <2> QED
      BY <1>2, <2>1, <2>2, EventsStay, Zenon
  <1>10. CASE DatabaseError(w)
    <2>1. UNCHANGED <<runVars, eventVars>> /\ relays[w].pc # "IDLE"
      BY <1>10, Zenon DEF DatabaseError
    <2>2. CASE relays' = [relays EXCEPT ![w].pc = "FAILED"]
      BY <1>5, <2>1, <2>2, Zenon
    <2>3. CASE relays' = [relays EXCEPT ![w] = NextEvent(w)]
      <3>1. \A v \in RelayWorkers : BatchOK(v)'
        BY <1>1, <2>1, <2>3, BatchGoesOn, Zenon
      <3> QED
        BY <1>2, <2>1, <3>1, EventsStay, Zenon
    <2> QED
      BY <1>10, <2>2, <2>3, Zenon DEF DatabaseError
  <1>11. CASE LostCommitAnswer(w)
    <2>1. relays[w].pc = "MARK" /\ UNCHANGED eventVars
      BY <1>11, Zenon DEF LostCommitAnswer
    <2> QED
      BY <1>11, <2>1, MarkStartedEvents, Zenon DEF LostCommitAnswer
  <1> QED
    BY <1>3, <1>4, <1>6, <1>7, <1>8, <1>9, <1>10, <1>11, Zenon
       DEF RelayStep, Disturbance

(* The outbox row of one run is written without its being acknowledged.    *)
LEMMA ClockEvents ==
  ASSUME EventsInv, TableMove, NEW r \in Runs,
         ReplayDeadletter(r) \/ LeaseExpires(r) \/ BackoffEnds(r)
  PROVE  EventsInv'
  <1>1. UNCHANGED <<runs, stream, inbox, relays>>
    BY Zenon DEF ReplayDeadletter, LeaseExpires, BackoffEnds, runVars
  <1>2. \A v \in RelayWorkers : BatchOK(v)'
    BY <1>1, BatchesStay, Zenon
  <1>3. /\ outbox' \in [Runs -> EventRow]
        /\ outbox'[r].status \in {"PENDING", outbox[r].status}
        /\ \A q \in Runs \ {r} : outbox'[q] = outbox[q]
    <2>1. outbox \in [Runs -> EventRow]
      BY Zenon DEF EventsInv
    <2>2. CASE ReplayDeadletter(r)
      BY <2>1, <2>2 DEF ReplayDeadletter, EventRow
    <2>3. CASE LeaseExpires(r)
      BY <2>1, <2>3, Zenon DEF LeaseExpires, EventRow
    <2>4. CASE BackoffEnds(r)
      BY <2>1, <2>4, Zenon DEF BackoffEnds, EventRow
    <2> QED
      BY <2>2, <2>3, <2>4, Zenon
  <1>4. \A q \in Runs : EventMove(q)
    BY <1>1, <1>3, Zenon DEF EventMove, Exists
  <1> QED
    BY <1>1, <1>2, <1>3, <1>4, EventsFollow, Zenon

(* Every step keeps the invariant of the events.                           *)
LEMMA EventsNext ==
  DispatchInv /\ EventsInv /\ [DispatchNext]_dispatchVars => EventsInv'
  <1> SUFFICES ASSUME DispatchInv, EventsInv, [DispatchNext]_dispatchVars
               PROVE  EventsInv'
    BY Zenon
  <1>1. TableMove /\ RunTypeOK
    BY DispatchMoves, Zenon DEF DispatchInv
  <1>2. ASSUME NEW w \in RelayWorkers, RelayStep(w) \/ Disturbance(w)
        PROVE  EventsInv'
    BY <1>1, <1>2, RelayStepEvents, Zenon
  <1>3. ASSUME NEW r \in Runs, NEW g \in Grants, Submit(r, g)
        PROVE  EventsInv'
    BY <1>1, <1>3, SubmitEvents, Zenon
  <1>4. ASSUME NEW r \in Runs, RunCommand(r)
        PROVE  EventsInv'
    <2>1. UNCHANGED eventVars /\ UNCHANGED relays
      BY <1>4, Zenon DEF RunCommand
    <2> QED
      BY <1>1, <1>4, <2>1, RunCommandAdmitsNone, BatchesStay, EventsStay, Zenon
  <1>5. ASSUME NEW r \in Runs,
               ReplayDeadletter(r) \/ LeaseExpires(r) \/ BackoffEnds(r)
        PROVE  EventsInv'
    BY <1>1, <1>5, ClockEvents, Zenon
  <1>6. CASE Revoke
    <2>1. UNCHANGED eventVars /\ UNCHANGED relays /\ RevokePlugin
      BY <1>6, Zenon DEF Revoke
    <2> QED
      BY <1>1, <2>1, RevokeAdmitsNone, BatchesStay, EventsStay, Zenon
  <1>7. ASSUME UNCHANGED <<runVars, eventVars, relays>>
        PROVE  EventsInv'
    <2>1. \A q \in Runs : Exists(q)' => Exists(q)
      BY <1>7, Zenon DEF runVars, Exists
    <2> QED
      BY <1>1, <1>7, <2>1, BatchesStay, EventsStay, Zenon
  <1>8. ASSUME NEW authority, Withdraw(authority) \/ Restore(authority)
        PROVE  EventsInv'
    <2>1. UNCHANGED <<runVars, eventVars, relays>>
      BY <1>8, Zenon DEF Withdraw, Restore
    <2> QED
      BY <1>7, <2>1, Zenon
  <1>9. CASE UNCHANGED dispatchVars
    <2>1. UNCHANGED <<runVars, eventVars, relays>>
      BY <1>9, Zenon DEF dispatchVars, runVars, eventVars
    <2> QED
      BY <1>7, <2>1, Zenon
  <1> QED
    BY <1>2, <1>3, <1>4, <1>5, <1>6, <1>8, <1>9, Zenon DEF DispatchNext

-----------------------------------------------------------------------------
(* Results.                                                                *)

(* The invariant holds in every state of the dispatch, whatever workers    *)
(* overlap, crash or lose an answer (worker/src/relay.rs).                 *)
THEOREM DispatchInvariant == DispatchSpec => []DispatchInv
  <1>1. DispatchInit => DispatchInv
    BY DispatchInitInv, Zenon
  <1>2. DispatchInv /\ [DispatchNext]_dispatchVars => DispatchInv'
    BY DispatchNextInv, Zenon
  <1> QED
    BY <1>1, <1>2, PTL DEF DispatchSpec

(* mark_run_started is only ever reached with a workflow that the engine   *)
(* has confirmed, and no step takes a workflow back.                       *)
THEOREM StartedRunsHaveWorkflows ==
  DispatchSpec => []StartedHasEngineEvidence
  <1>1. DispatchInv => StartedHasEngineEvidence
    BY Zenon DEF DispatchInv, DispatchRowOK, StartedHasEngineEvidence
  <1> QED
    BY <1>1, DispatchInvariant, PTL

(* The relay acknowledges an event, or keeps it as processed, only when    *)
(* the run behind it no longer waits (mark_outbox_delivered and            *)
(* claim_pending_outbox, data-postgres/src/relay.rs): a run that waits for *)
(* its dispatch has an event that is claimed again or a dead letter.       *)
THEOREM NoRunForgotten == DispatchSpec => []QueuedRunNotForgotten
  <1>1. DispatchInit => EventsInv
    <2> SUFFICES ASSUME DispatchInit PROVE EventsInv
      BY Zenon
    <2>1. stream \in Seq(Admitted) /\ inbox = {}
      BY DEF DispatchInit
    <2>2. outbox \in [Runs -> EventRow]
      BY Zenon DEF DispatchInit, NoEvent, EventRow
    <2>3. \A w \in RelayWorkers : BatchOK(w)
      BY Zenon DEF DispatchInit, Idle, BatchOK
    <2>4. \A r \in Runs : EventOK(r)
      BY Zenon DEF DispatchInit, RunInit, NoRun, NoEvent, EventOK, Exists
    <2> QED
      BY <2>1, <2>2, <2>3, <2>4, Zenon DEF EventsInv
  <1>2. EventsInv => QueuedRunNotForgotten
    <2> SUFFICES ASSUME EventsInv, NEW r \in Runs, AwaitsDispatch(r)
                 PROVE  /\ r \notin inbox
                        /\ outbox[r].status \in {"PENDING", "DEAD_LETTER"}
      BY Zenon DEF QueuedRunNotForgotten
    <2>1. Exists(r) /\ ~ Settled(r)
      BY Zenon DEF AwaitsDispatch, Exists, Settled
    <2>2. outbox[r].status \in {"NONE", "PENDING", "DELIVERED", "DEAD_LETTER"}
      BY Zenon DEF EventsInv, EventRow
    <2> QED
      BY <2>1, <2>2, Zenon DEF EventsInv, EventOK
  <1> QED
    BY <1>1, <1>2, EventsNext, DispatchInvariant, PTL DEF DispatchSpec

(* A run fenced by cancel_run, fence_run_blocked or a revocation stays     *)
(* fenced: the guard of mark_run_started refuses the late start.           *)
LEMMA FencedStaysFenced == DispatchSpec => FencedRunStaysFenced
  <1> DEFINE Body ==
        \A r \in Runs :
          runs[r].dispatch_state = "BLOCKED" =>
            /\ runs'[r].dispatch_state = "BLOCKED"
            /\ runs'[r].state # "RUNNING"
  <1>1. DispatchInv /\ [DispatchNext]_dispatchVars => [Body]_dispatchVars
    <2> SUFFICES ASSUME DispatchInv, [DispatchNext]_dispatchVars,
                        NEW r \in Runs, runs[r].dispatch_state = "BLOCKED"
                 PROVE  /\ runs'[r].dispatch_state = "BLOCKED"
                        /\ runs'[r].state # "RUNNING"
      BY Zenon
    <2>1. runs'[r] = runs[r] \/ RowMove(r)
      BY DispatchMoves, Zenon DEF TableMove
    <2>2. DispatchRowOK(r)
      BY Zenon DEF DispatchInv
    <2> QED
      BY <2>1, <2>2, Zenon
         DEF DispatchRowOK, AwaitsDispatch, RowMove, RowAdmitted,
             RowCancelled, RowBlocked, RowStarted, RowCompleted, RowRevoked
  <1>2. DispatchSpec => [][Body]_dispatchVars
    BY <1>1, DispatchInvariant, PTL DEF DispatchSpec
  <1> QED
    BY <1>2, Zenon DEF FencedRunStaysFenced

(* No run of a revoked build begins to run, however far a worker had come  *)
(* with it when revoke_plugin committed.                                   *)
LEMMA RevokedNeverStarts == DispatchSpec => RevokedBuildNeverStarts
  <1> DEFINE Body ==
        \A r \in Runs :
          plugin_revoked /\ runs[r].state # "RUNNING"
            => runs'[r].state # "RUNNING"
  <1>1. DispatchInv /\ [DispatchNext]_dispatchVars => [Body]_dispatchVars
    <2> SUFFICES ASSUME DispatchInv, [DispatchNext]_dispatchVars,
                        NEW r \in Runs, plugin_revoked,
                        runs[r].state # "RUNNING"
                 PROVE  runs'[r].state # "RUNNING"
      BY Zenon
    <2>1. runs'[r] = runs[r] \/ RowMove(r)
      BY DispatchMoves, Zenon DEF TableMove
    <2>2. ~ AwaitsDispatch(r)
      BY Zenon DEF DispatchInv, DispatchRowOK
    <2> QED
      BY <2>1, <2>2, Zenon
         DEF RowMove, RowAdmitted, RowCancelled, RowBlocked, RowStarted,
             RowCompleted, RowRevoked
  <1>2. DispatchSpec => [][Body]_dispatchVars
    BY <1>1, DispatchInvariant, PTL DEF DispatchSpec
  <1> QED
    BY <1>2, Zenon DEF RevokedBuildNeverStarts

(* Whatever stopped a run before it began (cancel_run, fence_run_blocked,  *)
(* revoke_plugin), no late mark_run_started undoes it.                     *)
THEOREM StoppedStayStopped == DispatchSpec => StoppedRunsStayStopped
  BY FencedStaysFenced, RevokedNeverStarts, Zenon DEF StoppedRunsStayStopped

(* The handlers that do not ask the kernel's table of run states keep to   *)
(* it all the same, but for fence_run_blocked.                             *)
THEOREM RunsFollowEdges == DispatchSpec => RunsFollowKernelEdges
  <1> DEFINE Body ==
        \A r \in Runs :
          Exists(r) /\ runs'[r].state # runs[r].state
            => <<runs[r].state, runs'[r].state>>
                 \in RunEdges \cup {<<"QUEUED", "BLOCKED">>}
  <1>1. DispatchInv /\ [DispatchNext]_dispatchVars => [Body]_dispatchVars
    <2> SUFFICES ASSUME DispatchInv, [DispatchNext]_dispatchVars,
                        NEW r \in Runs, Exists(r),
                        runs'[r].state # runs[r].state
                 PROVE  <<runs[r].state, runs'[r].state>>
                          \in RunEdges \cup {<<"QUEUED", "BLOCKED">>}
      BY Zenon
    <2>1. RowMove(r)
      BY DispatchMoves, Zenon DEF TableMove
    <2>2. CASE RowAdmitted(r)
      BY <2>2, Zenon DEF RowAdmitted, Exists
    <2>3. CASE RowCancelled(r)
      BY <2>3, Zenon DEF RowCancelled
    <2>4. CASE RowBlocked(r) \/ RowStarted(r) \/ RowRevoked(r)
      BY <2>4, Zenon
         DEF RowBlocked, RowStarted, RowRevoked, AwaitsDispatch, RunEdges
    <2>5. CASE RowCompleted(r)
      <3>1. runs[r].state \notin {"WAITING_APPROVAL", "WAITING_RETRY"}
        BY Zenon DEF DispatchInv, DispatchRowOK
      <3> QED
        BY <2>5, <3>1, Zenon DEF RowCompleted, ExecutingStates, RunEdges
    <2> QED
      BY <2>1, <2>2, <2>3, <2>4, <2>5, Zenon DEF RowMove
  <1>2. DispatchSpec => [][Body]_dispatchVars
    BY <1>1, DispatchInvariant, PTL DEF DispatchSpec
  <1> QED
    BY <1>2, Zenon DEF RunsFollowKernelEdges

-----------------------------------------------------------------------------
(* The traversal of a definition (crates/worker/src/run_interpreter.rs).   *)

IsPosition(pos) ==
  /\ pos = [kind |-> pos.kind, node |-> pos.node]
  /\ pos.kind \in {"NODE", "LEAF", "ERROR"}

(* Advancing from a position gives a position.                             *)
LEMMA AdvanceGivesPosition ==
  ASSUME NEW def, NEW pos, IsPosition(pos)
  PROVE  IsPosition(Advance(def, pos))
  BY Zenon DEF IsPosition, Advance, AtNode, PastLeaf, InError

(* What node_at walks through in its first steps.                          *)
Walk(def, walk, last) ==
  walk = [n \in 1..last |-> IF n = 1 THEN AtNode(def.entry_node)
                                     ELSE Advance(def, walk[n - 1])]

(* The walk of node_at exists for every number of steps.                   *)
LEMMA WalkExists ==
  ASSUME NEW def, NEW seq \in Nat
  PROVE  \E walk : Walk(def, walk, seq)
  <1> DEFINE S == {m \in Nat : \E f : Walk(def, f, m)}
  <1>1. 0 \in S
    <2> DEFINE f == [n \in {} |-> 0]
    <2>1. 1..0 = {}
      OBVIOUS
    <2>2. Walk(def, f, 0)
      BY <2>1, Zenon DEF Walk
    <2> QED
      BY <2>2, Zenon
  <1>2. ASSUME NEW m \in Nat, m \in S PROVE m + 1 \in S
    <2>1. PICK f : Walk(def, f, m)
      BY <1>2, Zenon
    <2> DEFINE g == [n \in 1..(m + 1) |->
                       IF n = 1 THEN AtNode(def.entry_node)
                                ELSE Advance(def, f[n - 1])]
    <2>2. ASSUME NEW n \in 1..(m + 1), n # 1
          PROVE  g[n - 1] = f[n - 1]
      <3>1. n - 1 \in 1..m /\ n - 1 \in 1..(m + 1)
        BY <2>2
      <3> QED
        BY <2>1, <3>1, Zenon DEF Walk
    <2>3. Walk(def, g, m + 1)
      BY <2>2, Zenon DEF Walk
    <2> HIDE DEF g
    <2> QED
      BY <2>3
  <1> HIDE DEF S
  <1>3. seq \in S
    BY <1>1, <1>2, NumbersByInduction, Zenon
  <1> QED
    BY <1>3, Zenon DEF S

(* The traversal is at a position at every step.                           *)
LEMMA NodeAtIsPosition ==
  ASSUME NEW def, NEW seq \in Nat \ {0}
  PROVE  IsPosition(NodeAt(def, seq))
  <1> DEFINE walk == CHOOSE f : Walk(def, f, seq)
             end == walk[seq]
  <1>1. \E f : Walk(def, f, seq)
    BY WalkExists, Zenon
  <1>2. Walk(def, walk, seq)
    BY <1>1, Zenon
  <1>3. NodeAt(def, seq) = IF end.kind = "NODE" /\ ~ Declared(def, end.node)
                           THEN InError(end.node) ELSE end
    BY Zenon DEF NodeAt, Walk
  <1> HIDE DEF walk
  <1> DEFINE S == {n \in Nat : n \in 1..seq => IsPosition(walk[n])}
  <1>4. 0 \in S
    OBVIOUS
  <1>5. ASSUME NEW n \in Nat, n \in S PROVE n + 1 \in S
    <2> SUFFICES ASSUME n + 1 \in 1..seq PROVE IsPosition(walk[n + 1])
      OBVIOUS
    <2>1. CASE n = 0
      BY <1>2, <2>1 DEF Walk, IsPosition, AtNode
    <2>2. CASE n # 0
      <3>1. IsPosition(walk[n])
        BY <1>5, <2>2
      <3>2. walk[n + 1] = Advance(def, walk[n])
        BY <1>2, <2>2 DEF Walk
      <3> QED
        BY <3>1, <3>2, AdvanceGivesPosition, Zenon
    <2> QED
      BY <2>1, <2>2, Zenon
  <1>6. IsPosition(end)
    <2> HIDE DEF S
    <2>1. Nat \subseteq S
      BY <1>4, <1>5, NumbersByInduction, Zenon
    <2> QED
      BY <2>1 DEF S
  <1> HIDE DEF end
  <1> QED
    BY <1>3, <1>6 DEF IsPosition, InError

-----------------------------------------------------------------------------
(* What next_step promises about its decision.                             *)

Earlier(def, history, seq) ==
  \A s \in 1..(seq - 1) : StepDone(def, history, s)

(* The traversal has come to a step of the budget, at this node.           *)
Visits(def, history, seq, node) ==
  /\ seq \in 1..def.max_total_steps
  /\ NodeAt(def, seq) = AtNode(node)
  /\ Earlier(def, history, seq)

(* The traversal has run out of nodes within the budget.                   *)
WalkOver(def, history) ==
  \E seq \in 1..def.max_total_steps :
    NodeAt(def, seq).kind = "LEAF" /\ Earlier(def, history, seq)

WithinTurns(def, seq, node) ==
  def.nodes[node] = "MODEL" =>
    ~ (ModelTurnsUsed(def, seq) >= def.max_model_turns)

DecisionOK(def, history, d) ==
  /\ d = [kind |-> d.kind, seq |-> d.seq, node |-> d.node]
  /\ d.kind \in {"EXECUTE", "WAITING_APPROVAL"}
       => Visits(def, history, d.seq, d.node)
  /\ d.kind = "EXECUTE" => WithinTurns(def, d.seq, d.node)
  /\ d.kind = "COMPLETED" => WalkOver(def, history)

(* The step that next_step stops at.                                       *)
Undone(def, history) ==
  {seq \in 1..def.max_total_steps : ~ StepDone(def, history, seq)}

FirstUndone(def, history) ==
  CHOOSE seq \in Undone(def, history) :
    \A other \in Undone(def, history) : seq <= other

(* next_step decides on the first step of the traversal that is not done.  *)
LEMMA FirstUndoneIsFirst ==
  ASSUME NEW def, def.max_total_steps \in Nat, NEW history,
         Undone(def, history) # {}
  PROVE  /\ FirstUndone(def, history) \in 1..def.max_total_steps
         /\ ~ StepDone(def, history, FirstUndone(def, history))
         /\ Earlier(def, history, FirstUndone(def, history))
         /\ NextStep(def, history)
              = DecisionAt(def, history, FirstUndone(def, history))
  <1> DEFINE undone == Undone(def, history)
             first == FirstUndone(def, history)
  <1>1. undone \in SUBSET Nat /\ undone # {}
    BY DEF Undone
  <1>2. \E seq \in undone : \A other \in undone : seq <= other
    <2> HIDE DEF undone
    <2> QED
      BY <1>1, LeastNumber, Zenon
  <1>3. first \in undone /\ \A other \in undone : first <= other
    <2> HIDE DEF undone
    <2>1. first = CHOOSE seq \in undone : \A other \in undone : seq <= other
      BY Zenon DEF FirstUndone, undone
    <2> QED
      BY <1>2, <2>1, Zenon
  <1>4. first \in 1..def.max_total_steps /\ ~ StepDone(def, history, first)
    <2> HIDE DEF first
    <2> QED
      BY <1>3, Zenon DEF Undone
  <1>5. ASSUME NEW s \in 1..(first - 1)
        PROVE  StepDone(def, history, s)
    <2> HIDE DEF first
    <2>1. s \in 1..def.max_total_steps /\ ~ (first <= s)
      BY <1>4
    <2>2. s \notin undone
      <3> HIDE DEF undone
      <3> QED
        BY <1>3, <2>1, Zenon
    <2> QED
      BY <2>1, <2>2, Zenon DEF Undone
  <1>6. NextStep(def, history) = DecisionAt(def, history, first)
    BY Zenon DEF NextStep, Undone, FirstUndone
  <1> QED
    BY <1>4, <1>5, <1>6, Zenon DEF Earlier

(* What next_step decides is right for the history it read, and it         *)
(* executes no step that has succeeded.                                    *)
LEMMA NextStepIsSound ==
  ASSUME NEW def, def.max_total_steps \in Nat, NEW history
  PROVE  LET d == NextStep(def, history)
         IN  /\ DecisionOK(def, history, d)
             /\ d.kind = "EXECUTE" => Recorded(history, Key(d)) # "SUCCEEDED"
  <1> DEFINE d == NextStep(def, history)
             first == FirstUndone(def, history)
             pos == NodeAt(def, first)
             state == Recorded(history, <<first, pos.node>>)
  <1> SUFFICES /\ DecisionOK(def, history, d)
               /\ d.kind = "EXECUTE" => Recorded(history, Key(d)) # "SUCCEEDED"
    BY Zenon
  <1>1. CASE Undone(def, history) = {}
    <2>1. d = Decision("LIMIT_REACHED", def.max_total_steps, def.entry_node)
      BY <1>1, Zenon DEF NextStep, Undone
    <2> HIDE DEF d
    <2> QED
      BY <2>1, Zenon DEF Decision, DecisionOK
  <1>2. CASE Undone(def, history) # {}
    <2>1. /\ first \in 1..def.max_total_steps
          /\ ~ StepDone(def, history, first)
          /\ Earlier(def, history, first)
          /\ d = DecisionAt(def, history, first)
      BY <1>2, FirstUndoneIsFirst, Zenon
    <2> HIDE DEF d, first
    <2>2. IsPosition(pos)
      BY <2>1, NodeAtIsPosition
    <2>3. CASE pos.kind = "LEAF"
      <3>1. d = Decision("COMPLETED", first, pos.node)
        BY <2>1, <2>3, Zenon DEF DecisionAt
      <3>2. WalkOver(def, history)
        BY <2>1, <2>3, Zenon DEF WalkOver
      <3> HIDE DEF pos
      <3> QED
        BY <3>1, <3>2, Zenon DEF Decision, DecisionOK
    <2>4. CASE pos.kind = "ERROR"
      <3>1. d = Decision("UNSUPPORTED", first, pos.node)
        BY <2>1, <2>4, Zenon DEF DecisionAt
      <3> HIDE DEF pos
      <3> QED
        BY <3>1, Zenon DEF Decision, DecisionOK
    <2>5. CASE pos.kind = "NODE" /\ state \in {"FAILED", "BLOCKED"}
      <3>1. d = Decision("BLOCKED", first, pos.node)
        BY <2>1, <2>5, Zenon DEF DecisionAt
      <3> HIDE DEF pos
      <3> QED
        BY <3>1, Zenon DEF Decision, DecisionOK
    <2>6. CASE pos.kind = "NODE" /\ state \notin {"FAILED", "BLOCKED"}
      <3>1. d = BudgetGate(def, first, pos.node)
        BY <2>1, <2>6, Zenon DEF DecisionAt
      <3>2. pos = AtNode(pos.node) /\ state # "SUCCEEDED"
        BY <2>1, <2>2, <2>6, Zenon DEF IsPosition, AtNode, StepDone
      <3>3. Visits(def, history, first, pos.node)
        BY <2>1, <3>2, Zenon DEF Visits
      <3> DEFINE node == pos.node
      <3>4. Recorded(history, <<first, node>>) # "SUCCEEDED"
        BY <3>2, Zenon
      <3> HIDE DEF pos, node
      <3>5. d = BudgetGate(def, first, node) /\ Visits(def, history, first, node)
        BY <3>1, <3>3, Zenon DEF node
      <3>6. CASE d = Decision("LIMIT_REACHED", first, node)
        BY <3>6, Zenon DEF Decision, DecisionOK
      <3>7. CASE d = Decision("WAITING_APPROVAL", first, node)
        BY <3>5, <3>7 DEF Decision, DecisionOK
      <3>8. CASE d = Decision("EXECUTE", first, node) /\ WithinTurns(def, first, node)
        BY <3>4, <3>5, <3>8 DEF Decision, DecisionOK, Key
      <3> QED
        BY <3>5, <3>6, <3>7, <3>8, Zenon DEF BudgetGate, WithinTurns
    <2> QED
      BY <2>2, <2>3, <2>4, <2>5, <2>6, Zenon DEF IsPosition
  <1> QED
    BY <1>1, <1>2, Zenon

(* A traversal that has run out of nodes is COMPLETED for next_step.       *)
LEMMA FinishedIsCompleted ==
  ASSUME NEW def, def.max_total_steps \in Nat, NEW history,
         WalkOver(def, history)
  PROVE  NextStep(def, history).kind = "COMPLETED"
  <1>1. PICK leaf \in 1..def.max_total_steps :
          NodeAt(def, leaf).kind = "LEAF" /\ Earlier(def, history, leaf)
    BY Zenon DEF WalkOver
  <1>2. ~ StepDone(def, history, leaf)
    BY <1>1, Zenon DEF StepDone
  <1> DEFINE first == FirstUndone(def, history)
  <1>3. Undone(def, history) # {}
    BY <1>2, Zenon DEF Undone
  <1>4. /\ first \in 1..def.max_total_steps
        /\ ~ StepDone(def, history, first)
        /\ Earlier(def, history, first)
        /\ NextStep(def, history) = DecisionAt(def, history, first)
    BY <1>3, FirstUndoneIsFirst, Zenon
  <1> HIDE DEF first
  <1>5. first = leaf
    <2>1. ~ (first < leaf)
      BY <1>1, <1>4 DEF Earlier
    <2>2. ~ (leaf < first)
      BY <1>2, <1>4 DEF Earlier
    <2> QED
      BY <1>4, <2>1, <2>2
  <1> QED
    BY <1>1, <1>4, <1>5 DEF DecisionAt, Decision

-----------------------------------------------------------------------------
(* The inductive invariant of the checkpoints.                             *)

(* What a worker holds in memory was decided on a history that the one in  *)
(* the database extends, so the decision can still be relied on.           *)
ViewOK(v) ==
  \/ v = NoView
  \/ /\ v = [pc |-> v.pc, run |-> v.run, fence |-> v.fence,
             decision |-> v.decision]
     /\ v.pc \in {"FENCE", "DECIDED", "RECORD"}
     /\ v.run \in Runs
     /\ DecisionOK(definition[v.run], checkpoints[v.run], v.decision)
     /\ v.pc = "RECORD" => v.decision.kind \in {"EXECUTE", "WAITING_APPROVAL"}

VisitRecorded(r, k) ==
  /\ k = <<k[1], k[2]>>
  /\ Visits(definition[r], checkpoints[r], k[1], k[2])

HistoryOK(r) ==
  /\ \A k \in DOMAIN checkpoints[r] : VisitRecorded(r, k)
  /\ runs[r].state = "SUCCEEDED" => WalkOver(definition[r], checkpoints[r])

ExecutedOK(s) ==
  /\ s = <<s[1], s[2], s[3]>>
  /\ s[1] \in Runs
  /\ s[2] \in 1..definition[s[1]].max_total_steps
  /\ NodeAt(definition[s[1]], s[2]) = AtNode(s[3])
  /\ WithinTurns(definition[s[1]], s[2], s[3])

CheckpointInv ==
  /\ RunTypeOK
  /\ definition \in [Runs -> Definitions]
  /\ checkpoints = [r \in Runs |-> checkpoints[r]]
  /\ workers = [w \in Workers |-> workers[w]]
  /\ \A w \in Workers : ViewOK(workers[w])
  /\ \A r \in Runs : HistoryOK(r)
  /\ \A s \in executed : ExecutedOK(s)

(* No completed step is lost.                                              *)
Keeps(history, later) ==
  \A k \in DOMAIN history :
    history[k] = "SUCCEEDED" => k \in DOMAIN later /\ later[k] = "SUCCEEDED"

(* Steps that were done stay done in a longer history.                     *)
LEMMA EarlierStays ==
  ASSUME NEW def, NEW history, NEW later, Keeps(history, later), NEW seq,
         Earlier(def, history, seq)
  PROVE  Earlier(def, later, seq)
  <1> SUFFICES ASSUME NEW s \in 1..(seq - 1) PROVE StepDone(def, later, s)
    BY Zenon DEF Earlier
  <1>1. StepDone(def, history, s)
    BY Zenon DEF Earlier
  <1> QED
    BY <1>1, Zenon DEF StepDone, Recorded, Keeps

(* A decision stays right in every history that keeps what it was made on. *)
LEMMA DecisionStays ==
  ASSUME NEW def, NEW history, NEW later, Keeps(history, later)
  PROVE  /\ WalkOver(def, history) => WalkOver(def, later)
         /\ \A seq, node : Visits(def, history, seq, node)
                             => Visits(def, later, seq, node)
         /\ \A d : DecisionOK(def, history, d) => DecisionOK(def, later, d)
  <1>1. WalkOver(def, history) => WalkOver(def, later)
    BY EarlierStays, Zenon DEF WalkOver
  <1>2. \A seq, node : Visits(def, history, seq, node)
                         => Visits(def, later, seq, node)
    BY EarlierStays, Zenon DEF Visits
  <1> QED
    BY <1>1, <1>2, Zenon DEF DecisionOK

(* A step that keeps the completed steps keeps the invariant, as far as    *)
(* what it adds was decided on the present history.                        *)
LEMMA CheckpointMove ==
  ASSUME CheckpointInv, RunTypeOK', UNCHANGED definition,
         checkpoints' = [r \in Runs |-> checkpoints'[r]],
         \A r \in Runs : Keeps(checkpoints[r], checkpoints'[r]),
         \A r \in Runs : \A k \in DOMAIN checkpoints'[r] :
           k \in DOMAIN checkpoints[r] \/ VisitRecorded(r, k),
         \A r \in Runs : runs'[r].state = "SUCCEEDED" =>
           \/ runs[r].state = "SUCCEEDED"
           \/ WalkOver(definition[r], checkpoints[r]),
         workers' = [w \in Workers |-> workers'[w]],
         \A w \in Workers : ViewOK(workers[w]) =>
           \E v : v = workers'[w] /\ ViewOK(v),
         \A s \in executed' : s \in executed \/ ExecutedOK(s)
  PROVE  CheckpointInv'
  <1>1. ASSUME NEW w \in Workers PROVE ViewOK(workers[w])'
    <2>1. PICK v : v = workers'[w] /\ ViewOK(v)
      BY Zenon DEF CheckpointInv
    <2>2. CASE v = NoView
      BY <2>1, <2>2, Zenon DEF ViewOK
    <2>3. CASE v # NoView
      <3>1. /\ v.run \in Runs
            /\ DecisionOK(definition[v.run], checkpoints[v.run], v.decision)
        BY <2>1, <2>3, Zenon DEF ViewOK
      <3>2. DecisionOK(definition[v.run], checkpoints'[v.run], v.decision)
        BY <3>1, DecisionStays, Zenon
      <3>3. /\ v = [pc |-> v.pc, run |-> v.run, fence |-> v.fence,
                    decision |-> v.decision]
            /\ v.pc \in {"FENCE", "DECIDED", "RECORD"}
            /\ v.pc = "RECORD"
                 => v.decision.kind \in {"EXECUTE", "WAITING_APPROVAL"}
        BY <2>1, <2>3, Zenon DEF ViewOK
      <3> QED
        BY <2>1, <3>1, <3>2, <3>3, Zenon DEF ViewOK
    <2> QED
      BY <2>2, <2>3, Zenon
  <1>2. ASSUME NEW r \in Runs PROVE HistoryOK(r)'
    <2>1. HistoryOK(r) /\ Keeps(checkpoints[r], checkpoints'[r])
      BY Zenon DEF CheckpointInv
    <2>2. ASSUME NEW k, VisitRecorded(r, k) PROVE VisitRecorded(r, k)'
      <3>1. /\ k = <<k[1], k[2]>>
            /\ Visits(definition[r], checkpoints[r], k[1], k[2])
        BY <2>2, Zenon DEF VisitRecorded
      <3>2. Visits(definition[r], checkpoints'[r], k[1], k[2])
        <4>1. \A seq, node :
                Visits(definition[r], checkpoints[r], seq, node)
                  => Visits(definition[r], checkpoints'[r], seq, node)
          BY <2>1, DecisionStays, Zenon
        <4> QED
          BY <3>1, <4>1, Zenon
      <3> QED
        BY <3>1, <3>2, Zenon DEF VisitRecorded
    <2>3. WalkOver(definition[r], checkpoints[r])
            => WalkOver(definition[r], checkpoints'[r])
      BY <2>1, DecisionStays, Zenon
    <2> QED
      BY <2>1, <2>2, <2>3, Zenon DEF HistoryOK
  <1>3. ASSUME NEW s \in executed' PROVE ExecutedOK(s)'
    BY Zenon DEF CheckpointInv, ExecutedOK
  <1> QED
    BY <1>1, <1>2, <1>3, Zenon DEF CheckpointInv

(* Nothing but one worker's memory changes.                                *)
LEMMA WorkerMove ==
  ASSUME CheckpointInv, UNCHANGED <<runVars, definition, checkpoints>>,
         NEW w \in Workers, NEW view, ViewOK(view),
         workers' = [workers EXCEPT ![w] = view],
         \A s \in executed' : s \in executed \/ ExecutedOK(s)
  PROVE  CheckpointInv'
  <1>1. /\ RunTypeOK' /\ UNCHANGED runs
        /\ checkpoints' = [r \in Runs |-> checkpoints'[r]]
        /\ workers' = [v \in Workers |-> workers'[v]]
    BY Zenon DEF CheckpointInv, runVars, RunTypeOK
  <1>2. ASSUME NEW v \in Workers, ViewOK(workers[v])
        PROVE  \E u : u = workers'[v] /\ ViewOK(u)
    BY <1>2, Zenon DEF CheckpointInv
  <1>3. \A r \in Runs : Keeps(checkpoints[r], checkpoints'[r])
    BY Zenon DEF Keeps
  <1> QED
    BY <1>1, <1>2, <1>3, CheckpointMove, Zenon

(* Reading the checkpoints keeps the invariant.                            *)
LEMMA ReadMoves ==
  ASSUME CheckpointInv, NEW w \in Workers, NEW r \in Runs,
         ReadRunCheckpoints(w, r)
  PROVE  CheckpointInv'
  <1> DEFINE d == NextStep(definition[r], checkpoints[r])
             pc == IF DOMAIN checkpoints[r] = {} THEN "FENCE" ELSE "DECIDED"
             view == [pc |-> pc, run |-> r, fence |-> runs[r].fence,
                      decision |-> d]
  <1>1. /\ workers' = [workers EXCEPT ![w] = view]
        /\ UNCHANGED <<runVars, definition, checkpoints, executed>>
    BY Zenon DEF ReadRunCheckpoints
  <1>2. definition[r].max_total_steps \in Nat
    BY DefinitionAssumption, Zenon DEF CheckpointInv
  <1>3. DecisionOK(definition[r], checkpoints[r], d)
    BY <1>2, NextStepIsSound, Zenon
  <1>4. pc \in {"FENCE", "DECIDED"}
    BY Zenon
  <1> HIDE DEF d, pc
  <1>5. /\ view.pc = pc /\ view.run = r /\ view.decision = d
        /\ view = [pc |-> view.pc, run |-> view.run, fence |-> view.fence,
                   decision |-> view.decision]
    BY Zenon
  <1> HIDE DEF view
  <1>6. ViewOK(view)
    BY <1>3, <1>4, <1>5, Zenon DEF ViewOK
  <1> QED
    BY <1>1, <1>6, WorkerMove, Zenon

(* A worker that goes on with what it holds, under a fence it may have     *)
(* read again.                                                             *)
LEMMA ViewGoesTo ==
  ASSUME NEW view, ViewOK(view), view # NoView,
         NEW later, NEW pc \in {"DECIDED", "RECORD"}, NEW fence,
         later = [pc |-> pc, run |-> view.run, fence |-> fence,
                  decision |-> view.decision],
         pc = "RECORD"
           => view.decision.kind \in {"EXECUTE", "WAITING_APPROVAL"}
  PROVE  ViewOK(later)
  <1>1. /\ later.pc = pc /\ later.run = view.run
        /\ later.decision = view.decision
        /\ later = [pc |-> later.pc, run |-> later.run, fence |-> later.fence,
                    decision |-> later.decision]
    BY Zenon
  <1>2. /\ view.run \in Runs
        /\ DecisionOK(definition[view.run], checkpoints[view.run],
                      view.decision)
    BY Zenon DEF ViewOK
  <1> QED
    BY <1>1, <1>2, Zenon DEF ViewOK

(* What a worker that is not idle holds in its hands.                      *)
LEMMA BusyView ==
  ASSUME CheckpointInv, NEW w \in Workers, workers[w].pc # "IDLE"
  PROVE  /\ ViewOK(workers[w]) /\ workers[w] # NoView
         /\ workers[w].run \in Runs
         /\ workers[w] = [pc |-> workers[w].pc, run |-> workers[w].run,
                          fence |-> workers[w].fence,
                          decision |-> workers[w].decision]
         /\ DecisionOK(definition[workers[w].run], checkpoints[workers[w].run],
                       workers[w].decision)
  <1>1. workers[w] # NoView
    BY DEF NoView
  <1>2. ViewOK(workers[w])
    BY Zenon DEF CheckpointInv
  <1> QED
    BY <1>1, <1>2, Zenon DEF ViewOK

(* The steps of a worker between its read and its record keep the          *)
(* invariant.                                                              *)
LEMMA GoOnMoves ==
  ASSUME CheckpointInv, NEW w \in Workers,
         ReadFence(w) \/ ExecuteStep(w) \/ ApprovalGranted(w)
  PROVE  CheckpointInv'
  <1>1. /\ workers[w].pc # "IDLE"
        /\ UNCHANGED <<runVars, definition, checkpoints>>
    BY Zenon DEF ReadFence, ExecuteStep, ApprovalGranted
  <1> DEFINE old == workers[w]
  <1>2. /\ ViewOK(old) /\ old # NoView /\ old.run \in Runs
        /\ old = [pc |-> old.pc, run |-> old.run, fence |-> old.fence,
                  decision |-> old.decision]
        /\ DecisionOK(definition[old.run], checkpoints[old.run], old.decision)
    BY <1>1, BusyView, Zenon
  <1>3. CASE ReadFence(w)
    <2> DEFINE fence == runs[old.run].fence
               view == [old EXCEPT !.pc = "DECIDED", !.fence = fence]
    <2>1. workers' = [workers EXCEPT ![w] = view]
      BY <1>3, Zenon DEF ReadFence, CheckpointInv
    <2> HIDE DEF old, fence
    <2>2. view = [pc |-> "DECIDED", run |-> old.run, fence |-> fence,
                  decision |-> old.decision]
      <3>1. [old EXCEPT !.pc = "DECIDED"]
              = [pc |-> "DECIDED", run |-> old.run, fence |-> old.fence,
                 decision |-> old.decision]
        BY <1>2
      <3>2. view = [[old EXCEPT !.pc = "DECIDED"] EXCEPT !.fence = fence]
        BY <1>2, Zenon
      <3>3. [[pc |-> "DECIDED", run |-> old.run, fence |-> old.fence,
              decision |-> old.decision] EXCEPT !.fence = fence]
              = [pc |-> "DECIDED", run |-> old.run, fence |-> fence,
                 decision |-> old.decision]
        OBVIOUS
      <3> HIDE DEF view
      <3> QED
        BY <3>1, <3>2, <3>3, Zenon
    <2> HIDE DEF view
    <2>3. ViewOK(view)
      BY <1>2, <2>2, ViewGoesTo, Zenon
    <2> QED
      BY <1>1, <1>3, <2>1, <2>3, WorkerMove, Zenon DEF ReadFence
  <1> DEFINE view == [old EXCEPT !.pc = "RECORD"]
  <1>4. ASSUME old.decision.kind \in {"EXECUTE", "WAITING_APPROVAL"}
        PROVE  ViewOK(view)
    <2> HIDE DEF old
    <2>1. view = [pc |-> "RECORD", run |-> old.run, fence |-> old.fence,
                  decision |-> old.decision]
      BY <1>2
    <2> HIDE DEF view
    <2> QED
      BY <1>2, <1>4, <2>1, ViewGoesTo, Zenon
  <1>5. CASE ExecuteStep(w)
    <2> DEFINE step == <<old.run, old.decision.seq, old.decision.node>>
    <2>1. /\ old.decision.kind = "EXECUTE"
          /\ workers' = [workers EXCEPT ![w] = view]
          /\ executed' = executed \cup {step}
      BY <1>5, Zenon DEF ExecuteStep, CheckpointInv
    <2>2. ExecutedOK(step)
      <3>1. /\ old.decision.seq \in 1..definition[old.run].max_total_steps
            /\ NodeAt(definition[old.run], old.decision.seq)
                 = AtNode(old.decision.node)
            /\ WithinTurns(definition[old.run], old.decision.seq,
                           old.decision.node)
        BY <1>2, <2>1, Zenon DEF DecisionOK, Visits
      <3> HIDE DEF old
      <3> QED
        BY <1>2, <3>1, Zenon DEF ExecutedOK
    <2> HIDE DEF view, step
    <2> QED
      BY <1>1, <1>4, <2>1, <2>2, WorkerMove, Zenon
  <1>6. CASE ApprovalGranted(w)
    <2>1. /\ old.decision.kind = "WAITING_APPROVAL"
          /\ workers' = [workers EXCEPT ![w] = view]
          /\ UNCHANGED executed
      BY <1>6, Zenon DEF ApprovalGranted, CheckpointInv
    <2> HIDE DEF view
    <2> QED
      BY <1>1, <1>4, <2>1, WorkerMove, Zenon
  <1> QED
    BY <1>3, <1>5, <1>6, Zenon

(* A worker that lets its run go keeps the invariant.                      *)
LEMMA LetGoMoves ==
  ASSUME CheckpointInv, NEW w \in Workers,
         workers' = [workers EXCEPT ![w] = NoView],
         UNCHANGED <<runVars, definition, checkpoints, executed>>
  PROVE  CheckpointInv'
  <1>1. ViewOK(NoView)
    BY Zenon DEF ViewOK
  <1> QED
    BY <1>1, WorkerMove, Zenon

(* record_run_checkpoint keeps the invariant.                              *)
LEMMA RecordMoves ==
  ASSUME CheckpointInv, NEW w \in Workers, NEW state,
         RecordRunCheckpoint(w, state)
  PROVE  CheckpointInv'
  <1> DEFINE r == workers[w].run
             d == workers[w].decision
             h == checkpoints[r]
             g == UpsertCheckpoint(h, Key(d), state)
  <1>1. /\ workers[w].pc = "RECORD"
        /\ workers' = [workers EXCEPT ![w] = NoView]
        /\ UNCHANGED <<runVars, definition, executed>>
    BY Zenon DEF RecordRunCheckpoint
  <1>2. CASE ~ CheckpointAdmitted(r, workers[w].fence)
    <2>1. UNCHANGED checkpoints
      BY <1>2, Zenon DEF RecordRunCheckpoint
    <2> QED
      BY <1>1, <2>1, LetGoMoves, Zenon
  <1>3. CASE CheckpointAdmitted(r, workers[w].fence)
    <2>1. checkpoints' = [checkpoints EXCEPT ![r] = g]
      BY <1>3, Zenon DEF RecordRunCheckpoint
    <2>2. r \in Runs /\ DecisionOK(definition[r], h, d)
      BY <1>1, BusyView, Zenon
    <2>3. Visits(definition[r], h, d.seq, d.node)
      <3>1. d.kind \in {"EXECUTE", "WAITING_APPROVAL"}
        BY <1>1, BusyView, Zenon DEF ViewOK
      <3> QED
        BY <2>2, <3>1, Zenon DEF DecisionOK
    <2>4. VisitRecorded(r, Key(d))
      BY <2>3, Zenon DEF VisitRecorded, Key
    <2>5. Keeps(h, g) /\ DOMAIN g = DOMAIN h \cup {Key(d)}
      BY Zenon DEF Keeps, UpsertCheckpoint, Recorded
    <2> HIDE DEF r, d, g
    <2>6. /\ checkpoints'[r] = g
          /\ \A q \in Runs \ {r} : checkpoints'[q] = checkpoints[q]
          /\ checkpoints' = [q \in Runs |-> checkpoints'[q]]
      BY <2>1, <2>2, Zenon DEF CheckpointInv
    <2>7. \A q \in Runs : Keeps(checkpoints[q], checkpoints'[q])
      BY <2>5, <2>6, Zenon DEF Keeps
    <2>8. \A q \in Runs : \A k \in DOMAIN checkpoints'[q] :
            k \in DOMAIN checkpoints[q] \/ VisitRecorded(q, k)
      BY <2>4, <2>5, <2>6, Zenon
    <2>9. RunTypeOK' /\ UNCHANGED runs
      BY <1>1, Zenon DEF CheckpointInv, RunTypeOK, runVars
    <2>10. workers' = [v \in Workers |-> workers'[v]]
      BY <1>1, Zenon DEF CheckpointInv
    <2>11. ASSUME NEW v \in Workers, ViewOK(workers[v])
           PROVE  \E u : u = workers'[v] /\ ViewOK(u)
      <3>1. workers'[v] = NoView \/ workers'[v] = workers[v]
        BY <1>1, Zenon DEF CheckpointInv
      <3> QED
        BY <2>11, <3>1, Zenon DEF ViewOK
    <2> QED
      BY <1>1, <2>6, <2>7, <2>8, <2>9, <2>10, <2>11, CheckpointMove, Zenon
  <1> QED
    BY <1>2, <1>3, Zenon

(* The runs table changes, and no run becomes SUCCEEDED that is not done.  *)
LEMMA RunMove ==
  ASSUME CheckpointInv, RunTypeOK',
         UNCHANGED <<definition, checkpoints, executed>>,
         \A r \in Runs : runs'[r].state = "SUCCEEDED" =>
           \/ runs[r].state = "SUCCEEDED"
           \/ WalkOver(definition[r], checkpoints[r]),
         UNCHANGED workers
           \/ \E w \in Workers : workers' = [workers EXCEPT ![w] = NoView]
  PROVE  CheckpointInv'
  <1>1. workers' = [v \in Workers |-> workers'[v]]
    BY Zenon DEF CheckpointInv
  <1>2. ASSUME NEW v \in Workers, ViewOK(workers[v])
        PROVE  \E u : u = workers'[v] /\ ViewOK(u)
    <2>1. workers'[v] = NoView \/ workers'[v] = workers[v]
      BY Zenon DEF CheckpointInv
    <2> QED
      BY <1>2, <2>1, Zenon DEF ViewOK
  <1>3. \A r \in Runs : Keeps(checkpoints[r], checkpoints'[r])
    BY Zenon DEF Keeps
  <1>4. checkpoints' = [r \in Runs |-> checkpoints'[r]]
    BY Zenon DEF CheckpointInv
  <1> QED
    BY <1>1, <1>2, <1>3, <1>4, CheckpointMove, Zenon

(* The commands that start, dispatch and cancel a run keep the invariant.  *)
LEMMA CommandMoves ==
  ASSUME CheckpointInv, NEW r \in Runs, Start(r) \/ Dispatch(r) \/ Cancel(r)
  PROVE  CheckpointInv'
  <1>1. RunTypeOK /\ UNCHANGED <<definition, checkpoints, executed, workers>>
    BY Zenon DEF CheckpointInv, Start, Dispatch, Cancel
  <1>2. ASSUME NEW g \in Grants, StartRun(r, g)
        PROVE  CheckpointInv'
    <2>1. RunTypeOK'
      BY <1>1, <1>2, StartRunTyped, Zenon
    <2>2. \A q \in Runs : runs'[q].state = "SUCCEEDED"
                            => runs[q].state = "SUCCEEDED"
      BY <1>1, <1>2, Zenon DEF StartRun, RunTypeOK
    <2> QED
      BY <1>1, <2>1, <2>2, RunMove, Zenon
  <1>3. ASSUME MarkRunStarted(r, runs[r].fence)
        PROVE  CheckpointInv'
    <2>1. RunTypeOK'
      BY <1>1, <1>3, MarkRunStartedTyped, Zenon
    <2>2. \A q \in Runs : runs'[q].state = "SUCCEEDED"
                            => runs[q].state = "SUCCEEDED"
      BY <1>1, <1>3, Zenon DEF MarkRunStarted, RunTypeOK, RunRow
    <2> QED
      BY <1>1, <2>1, <2>2, RunMove, Zenon
  <1>4. ASSUME NEW unresolved \in BOOLEAN,
               CancelRun(r, runs[r].version, unresolved)
        PROVE  CheckpointInv'
    <2> DEFINE next == CancellationState(runs[r].state, unresolved)
    <2>1. RunTypeOK'
      BY <1>1, <1>4, CancelRunTyped, Zenon
    <2>2. next # "SUCCEEDED"
      BY Zenon DEF CancellationState
    <2>3. /\ runs'[r].state = next
          /\ \A q \in Runs \ {r} : runs'[q] = runs[q]
      BY <1>1, <1>4, Zenon DEF CancelRun, RunTypeOK, RunRow
    <2> HIDE DEF next
    <2>4. \A q \in Runs : runs'[q].state = "SUCCEEDED"
                            => runs[q].state = "SUCCEEDED"
      BY <2>2, <2>3, Zenon
    <2> QED
      BY <1>1, <2>1, <2>4, RunMove, Zenon
  <1> QED
    BY <1>2, <1>3, <1>4, Zenon DEF Start, Dispatch, Cancel

(* The withdrawal of a build keeps the invariant.                          *)
LEMMA RevokeBuildMoves ==
  ASSUME CheckpointInv, RevokeBuild
  PROVE  CheckpointInv'
  <1>1. /\ RunTypeOK /\ RevokePlugin
        /\ UNCHANGED <<definition, checkpoints, executed, workers>>
    BY Zenon DEF CheckpointInv, RevokeBuild
  <1>2. RunTypeOK'
    BY <1>1, RevokePluginTyped, Zenon
  <1>3. ASSUME NEW q \in Runs, runs'[q].state = "SUCCEEDED"
        PROVE  runs[q].state = "SUCCEEDED"
    <2>1. CASE ActiveRun(q)
      <3>1. runs'[q] = [runs[q] EXCEPT
                          !.state = IF @ = "RUNNING" THEN "BLOCKED" ELSE @,
                          !.dispatch_state = "BLOCKED",
                          !.fence = @ + 1, !.version = @ + 1]
        BY <1>1, <2>1, Zenon DEF RevokePlugin
      <3>2. runs'[q].state = IF runs[q].state = "RUNNING" THEN "BLOCKED"
                                                          ELSE runs[q].state
        BY <1>1, <3>1 DEF RunTypeOK, RunRow
      <3> QED
        BY <1>3, <3>2, Zenon
    <2>2. CASE ~ ActiveRun(q)
      BY <1>1, <1>3, <2>2, Zenon DEF RevokePlugin
    <2> QED
      BY <2>1, <2>2, Zenon
  <1> QED
    BY <1>1, <1>2, <1>3, RunMove, Zenon

(* The report of a completed run keeps the invariant.                      *)
LEMMA ReportMoves ==
  ASSUME CheckpointInv, NEW w \in Workers, ReportCompleted(w)
  PROVE  CheckpointInv'
  <1> DEFINE r == workers[w].run
  <1>1. /\ RunTypeOK /\ workers[w].pc = "DECIDED"
        /\ workers[w].decision.kind = "COMPLETED"
        /\ workers' = [workers EXCEPT ![w] = NoView]
        /\ UNCHANGED <<definition, checkpoints, executed>>
    BY Zenon DEF CheckpointInv, ReportCompleted
  <1>2. CASE UNCHANGED runVars
    BY <1>1, <1>2, LetGoMoves, Zenon
  <1>3. CASE MarkRunCompleted(r, workers[w].fence)
    <2>1. r \in Runs /\ WalkOver(definition[r], checkpoints[r])
      BY <1>1, BusyView, Zenon DEF DecisionOK
    <2> HIDE DEF r
    <2>2. RunTypeOK'
      BY <1>1, <1>3, <2>1, MarkRunCompletedTyped, Zenon
    <2>3. \A q \in Runs \ {r} : runs'[q] = runs[q]
      BY <1>1, <1>3, Zenon DEF MarkRunCompleted, RunTypeOK
    <2> QED
      BY <1>1, <2>1, <2>2, <2>3, RunMove, Zenon
  <1> QED
    BY <1>2, <1>3, Zenon DEF ReportCompleted

(* The history of a run only ever grows along its traversal, whatever the  *)
(* workers hold in memory.                                                 *)
THEOREM CheckpointInvariant == CheckpointSpec => []CheckpointInv
  <1>1. CheckpointInit => CheckpointInv
    <2> SUFFICES ASSUME CheckpointInit PROVE CheckpointInv
      BY Zenon
    <2>1. RunTypeOK
      BY RunInitTyped, Zenon DEF CheckpointInit
    <2>2. \A r \in Runs : HistoryOK(r)
      BY DEF CheckpointInit, RunInit, NoRun, HistoryOK
    <2>3. \A w \in Workers : ViewOK(workers[w])
      BY Zenon DEF CheckpointInit, ViewOK
    <2> QED
      BY <2>1, <2>2, <2>3, Zenon DEF CheckpointInit, CheckpointInv
  <1>2. CheckpointInv /\ [CheckpointNext]_checkpointVars => CheckpointInv'
    <2> SUFFICES ASSUME CheckpointInv, [CheckpointNext]_checkpointVars
                 PROVE  CheckpointInv'
      BY Zenon
    <2>1. ASSUME NEW r \in Runs, Start(r) \/ Dispatch(r) \/ Cancel(r)
          PROVE  CheckpointInv'
      BY <2>1, CommandMoves, Zenon
    <2>2. CASE RevokeBuild
      BY <2>2, RevokeBuildMoves, Zenon
    <2>3. ASSUME NEW w \in Workers, WorkerStep(w)
          PROVE  CheckpointInv'
      <3>1. CASE \E r \in Runs : ReadRunCheckpoints(w, r)
        BY <3>1, ReadMoves, Zenon
      <3>2. CASE ReadFence(w) \/ ExecuteStep(w) \/ ApprovalGranted(w)
        BY <3>2, GoOnMoves, Zenon
      <3>3. CASE \E state \in CheckpointStates : RecordRunCheckpoint(w, state)
        BY <3>3, RecordMoves, Zenon
      <3>4. CASE ReportCompleted(w)
        BY <3>4, ReportMoves, Zenon
      <3>5. CASE Park(w)
        BY <3>5, LetGoMoves, Zenon DEF Park
      <3> QED
        BY <2>3, <3>1, <3>2, <3>3, <3>4, <3>5, Zenon DEF WorkerStep
    <2>4. ASSUME NEW w \in Workers, WorkerDies(w)
          PROVE  CheckpointInv'
      BY <2>4, LetGoMoves, Zenon DEF WorkerDies
    <2>5. CASE UNCHANGED checkpointVars
      <3>1. /\ UNCHANGED <<definition, checkpoints, executed, workers, runs>>
            /\ RunTypeOK'
        BY <2>5, Zenon DEF checkpointVars, CheckpointInv, RunTypeOK
      <3> QED
        BY <3>1, RunMove, Zenon
    <2> QED
      BY <2>1, <2>2, <2>3, <2>4, <2>5, Zenon DEF CheckpointNext
  <1> QED
    BY <1>1, <1>2, PTL DEF CheckpointSpec

(* HistoryIsTraversalPrefix: record_run_checkpoint never rewrites a        *)
(* SUCCEEDED row, so a decision taken on an old history is still right     *)
(* when its outcome is recorded, and mark_run_completed is only called for *)
(* a traversal that is done.                                               *)
THEOREM HistoryFollowsTraversal == CheckpointSpec => []HistoryIsTraversalPrefix
  <1>1. CheckpointInv => HistoryIsTraversalPrefix
    <2> SUFFICES ASSUME CheckpointInv, NEW r \in Runs
                 PROVE  /\ \A k \in DOMAIN checkpoints[r] :
                             /\ NodeAt(definition[r], k[1]) = AtNode(k[2])
                             /\ \A seq \in 1..(k[1] - 1) :
                                  StepDone(definition[r], checkpoints[r], seq)
                        /\ runs[r].state = "SUCCEEDED" =>
                             NextStep(definition[r], checkpoints[r]).kind
                               = "COMPLETED"
      BY Zenon DEF HistoryIsTraversalPrefix
    <2>1. HistoryOK(r) /\ definition[r].max_total_steps \in Nat
      BY DefinitionAssumption, Zenon DEF CheckpointInv
    <2> QED
      BY <2>1, FinishedIsCompleted, Zenon
         DEF HistoryOK, VisitRecorded, Visits, Earlier
  <1> QED
    BY <1>1, CheckpointInvariant, PTL

(* The model turns of a definition that its budget admits are no more than *)
(* max_model_turns: the last of them has fewer before it.                  *)
LEMMA TurnsAreBounded ==
  ASSUME NEW def, def.max_total_steps \in Nat, def.max_model_turns \in Nat,
         NEW M, M = {n \in 1..def.max_total_steps :
                       /\ NodeAt(def, n).kind = "NODE"
                       /\ def.nodes[NodeAt(def, n).node] = "MODEL"
                       /\ WithinTurns(def, n, NodeAt(def, n).node)}
  PROVE  IsFiniteSet(M) /\ Cardinality(M) <= def.max_model_turns
  <1>1. M \in SUBSET (0..def.max_total_steps) /\ IsFiniteSet(M)
    <2> DEFINE total == def.max_total_steps
    <2>1. M \in SUBSET (1..total) /\ total \in Int /\ 1 \in Int
      OBVIOUS
    <2>2. M \in SUBSET (0..total)
      BY <2>1
    <2> HIDE DEF total
    <2>3. IsFiniteSet(1..total)
      BY <2>1, FS_Interval, Zenon
    <2>4. IsFiniteSet(M)
      BY <2>1, <2>3, FS_Subset, Zenon
    <2> QED
      BY <2>2, <2>4, Zenon DEF total
  <1>2. CASE M = {}
    BY <1>2, FS_EmptySet
  <1>3. CASE M # {}
    <2>1. PICK last \in M : \A n \in M : n <= last
      BY <1>1, <1>3, GreatestNumber, Zenon
    <2> DEFINE before == {n \in 1..(last - 1) :
                            /\ NodeAt(def, n).kind = "NODE"
                            /\ def.nodes[NodeAt(def, n).node] = "MODEL"}
               rest == M \ {last}
    <2>2. last \in 1..def.max_total_steps
          /\ ~ (Cardinality(before) >= def.max_model_turns)
      BY <2>1, Zenon DEF WithinTurns, ModelTurnsUsed
    <2>3. IsFiniteSet(before) /\ Cardinality(before) \in Nat
      <3> DEFINE most == last - 1
      <3>1. before \in SUBSET (1..most) /\ most \in Int /\ 1 \in Int
        BY <2>2
      <3> HIDE DEF before, most
      <3>2. IsFiniteSet(1..most)
        BY <3>1, FS_Interval, Zenon
      <3> QED
        BY <3>1, <3>2, FS_Subset, FS_CardinalityType, Zenon
    <2>4. rest \in SUBSET before
      BY <2>1, <2>2
    <2>5. /\ IsFiniteSet(rest) /\ Cardinality(rest) \in Nat
          /\ Cardinality(rest) <= Cardinality(before)
      <3> HIDE DEF rest, before
      <3> QED
        BY <2>3, <2>4, FS_Subset, FS_CardinalityType, Zenon
    <2>6. Cardinality(rest) = Cardinality(M) - 1 /\ Cardinality(M) \in Nat
      <3>1. Cardinality(M) \in Nat
        BY <1>1, FS_CardinalityType, Zenon
      <3> QED
        BY <1>1, <2>1, <3>1, FS_RemoveElement, Zenon
    <2> HIDE DEF rest, before
    <2> QED
      BY <1>1, <2>2, <2>3, <2>5, <2>6
  <1> QED
    BY <1>2, <1>3, Zenon

(* BudgetsBoundExecution: next_step is the only gate, and it is enough,    *)
(* for any number of workers and crashes.                                  *)
THEOREM ExecutionStaysInBudget == CheckpointSpec => []BudgetsBoundExecution
  <1>1. CheckpointInv => BudgetsBoundExecution
    <2> SUFFICES ASSUME CheckpointInv, NEW r \in Runs
                 PROVE  LET steps == {s \in executed : s[1] = r}
                        IN  /\ \A s \in steps :
                                 s[2] \in 1..definition[r].max_total_steps
                            /\ Cardinality({s \in steps :
                                 definition[r].nodes[s[3]] = "MODEL"})
                                   <= definition[r].max_model_turns
      BY Zenon DEF BudgetsBoundExecution
    <2> DEFINE def == definition[r]
               steps == {s \in executed : s[1] = r}
               turns == {s \in steps : def.nodes[s[3]] = "MODEL"}
               M == {n \in 1..def.max_total_steps :
                       /\ NodeAt(def, n).kind = "NODE"
                       /\ def.nodes[NodeAt(def, n).node] = "MODEL"
                       /\ WithinTurns(def, n, NodeAt(def, n).node)}
               place == [s \in turns |-> s[2]]
    <2>1. def.max_total_steps \in Nat /\ def.max_model_turns \in Nat
      BY DefinitionAssumption, Zenon DEF CheckpointInv
    <2>2. ASSUME NEW s \in steps
          PROVE  /\ s = <<r, s[2], s[3]>>
                 /\ s[2] \in 1..def.max_total_steps
                 /\ NodeAt(def, s[2]) = AtNode(s[3])
                 /\ WithinTurns(def, s[2], s[3])
      <3>1. ExecutedOK(s) /\ s[1] = r
        BY Zenon DEF CheckpointInv
      <3> QED
        BY <3>1, Zenon DEF ExecutedOK
    <2>3. ASSUME NEW s \in turns
          PROVE  /\ s = <<r, s[2], s[3]>> /\ s[2] \in M
                 /\ s[3] = NodeAt(def, s[2]).node
      <3>1. s \in steps /\ def.nodes[s[3]] = "MODEL"
        BY Zenon
      <3>2. /\ s = <<r, s[2], s[3]>>
            /\ s[2] \in 1..def.max_total_steps
            /\ NodeAt(def, s[2]) = AtNode(s[3])
            /\ WithinTurns(def, s[2], s[3])
        BY <2>2, <3>1, Zenon
      <3>3. NodeAt(def, s[2]).kind = "NODE" /\ NodeAt(def, s[2]).node = s[3]
        BY <3>2 DEF AtNode
      <3> QED
        BY <3>1, <3>2, <3>3, Zenon
    <2> HIDE DEF M, turns
    <2>4. place \in Injection(turns, M)
      <3>1. place \in [turns -> M]
        BY <2>3, Zenon
      <3>2. ASSUME NEW s \in turns, NEW t \in turns, place[s] = place[t]
            PROVE  s = t
        <4>1. s[2] = t[2]
          BY <3>2, Zenon
        <4>2. s[3] = t[3]
          BY <2>3, <4>1, Zenon
        <4>3. s = <<r, s[2], s[3]>> /\ t = <<r, t[2], t[3]>>
          BY <2>3, Zenon
        <4> QED
          BY <4>1, <4>2, <4>3, Zenon
      <3> HIDE DEF place
      <3> QED
        BY <3>1, <3>2, Zenon DEF Injection, IsInjective
    <2>5. IsFiniteSet(M) /\ Cardinality(M) <= def.max_model_turns
      BY <2>1, TurnsAreBounded, Zenon DEF M
    <2>6. /\ Cardinality(turns) <= Cardinality(M)
          /\ Cardinality(turns) \in Nat /\ Cardinality(M) \in Nat
      <3> HIDE DEF place
      <3> QED
        BY <2>4, <2>5, FS_Injection, FS_CardinalityType, Zenon
    <2>7. Cardinality(turns) <= def.max_model_turns
      BY <2>1, <2>5, <2>6
    <2> QED
      BY <2>2, <2>7, Zenon DEF turns
  <1> QED
    BY <1>1, CheckpointInvariant, PTL

(* CompletedStepNotRedispatched: next_step never names a step that the     *)
(* history it read holds as SUCCEEDED.                                     *)
THEOREM CompletedStepsAreNotRedispatched ==
  CheckpointSpec => CompletedStepNotRedispatched
  <1> DEFINE Body ==
        \A w \in Workers :
          /\ workers[w].pc = "IDLE"
          /\ workers'[w].decision.kind = "EXECUTE"
          => Recorded(checkpoints[workers'[w].run], Key(workers'[w].decision))
               # "SUCCEEDED"
  <1>1. CheckpointInv /\ [CheckpointNext]_checkpointVars
          => [Body]_checkpointVars
    <2> SUFFICES ASSUME CheckpointInv, CheckpointNext,
                        NEW w \in Workers, workers[w].pc = "IDLE",
                        workers'[w].decision.kind = "EXECUTE"
                 PROVE  Recorded(checkpoints[workers'[w].run],
                                 Key(workers'[w].decision)) # "SUCCEEDED"
      BY Zenon
    <2>1. workers[w].decision.kind # "EXECUTE"
      <3>1. workers[w] = NoView
        BY Zenon DEF CheckpointInv, ViewOK
      <3> QED
        BY <3>1 DEF NoView
    <2>2. PICK r \in Runs : ReadRunCheckpoints(w, r)
      <3>1. workers'[w] # workers[w]
        BY <2>1, Zenon
      <3>2. ASSUME NEW v \in Workers, NEW view,
                   workers' = [workers EXCEPT ![v] = view]
            PROVE  v = w
        BY <3>1, <3>2, Zenon DEF CheckpointInv
      <3>3. ~ (UNCHANGED workers)
        BY <3>1, Zenon
      <3>4. ASSUME NEW v \in Workers, WorkerStep(v) \/ WorkerDies(v),
                   ~ \E r \in Runs : ReadRunCheckpoints(v, r)
            PROVE  workers[v].pc # "IDLE" /\ v = w
        <4>1. workers[v].pc # "IDLE"
          BY <3>4, Zenon
             DEF WorkerStep, ReadFence, ExecuteStep, ApprovalGranted,
                 RecordRunCheckpoint, ReportCompleted, Park, WorkerDies
        <4>2. \E view : workers' = [workers EXCEPT ![v] = view]
          BY <3>4, Zenon
             DEF WorkerStep, ReadFence, ExecuteStep, ApprovalGranted,
                 RecordRunCheckpoint, ReportCompleted, Park, WorkerDies
        <4> QED
          BY <3>2, <4>1, <4>2, Zenon
      <3>5. PICK v \in Workers : \E r \in Runs : ReadRunCheckpoints(v, r)
        BY <3>3, <3>4, Zenon
           DEF CheckpointNext, Start, Dispatch, Cancel, RevokeBuild
      <3>6. v = w
        BY <3>2, <3>5, Zenon DEF ReadRunCheckpoints
      <3> QED
        BY <3>5, <3>6, Zenon
    <2>3. /\ workers'[w].run = r
          /\ workers'[w].decision = NextStep(definition[r], checkpoints[r])
      BY <2>2, Zenon DEF ReadRunCheckpoints, CheckpointInv
    <2>4. definition[r].max_total_steps \in Nat
      BY DefinitionAssumption, Zenon DEF CheckpointInv
    <2> QED
      BY <2>3, <2>4, NextStepIsSound, Zenon
  <1>2. CheckpointSpec => [][Body]_checkpointVars
    BY <1>1, CheckpointInvariant, PTL DEF CheckpointSpec
  <1> QED
    BY <1>2, Zenon DEF CompletedStepNotRedispatched

=============================================================================
