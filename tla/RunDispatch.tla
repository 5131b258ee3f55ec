---------------------------- MODULE RunDispatch -----------------------------
(***************************************************************************)
(* From an admitted run to a started one: start_run commits a run.start    *)
(* event with the run; relay workers (crates/worker/src/relay.rs) lease    *)
(* the event, verify the authority behind the run again, start the durable *)
(* workflow and mark the run STARTED, acknowledge the event, or give it    *)
(* back with a backoff and finally dead-letter it                          *)
(* (data-postgres/src/relay.rs).                                           *)
(*                                                                         *)
(* Each database transaction holds the tenant's exclusive lock and is one  *)
(* step; everything between two transactions of a worker interleaves, the  *)
(* call of the durable engine included.  A worker may crash anywhere, a    *)
(* lease may run out while its holder still works, a transaction may fail  *)
(* or commit without the worker learning of it.  A run has one run.start   *)
(* event, so the event is identified with the run.                         *)
(***************************************************************************)
EXTENDS RunTable, Selections, Functions

CONSTANTS
  RelayWorkers,
  Withdrawable,     \* the authorities that operators of an instance withdraw
  BatchSize,        \* RelayConfig.batch_size
  MaxAttempts,      \* RelayConfig.max_attempts
  MaxDisturbances   \* bound on crashes, lost answers and dead-letter replays

ASSUME DispatchAssumption ==
  /\ BatchSize \in Nat \ {0}
  /\ MaxAttempts \in Nat \ {0}
  /\ MaxDisturbances \in Nat

VARIABLES
  stream,       \* the runs in the order of stream_sequence
  outbox,       \* the outbox_events row of each run
  inbox,        \* inbox_events of consumer worker-relay
  withdrawn,    \* authorities that do not hold now
  engine,       \* external: the durable workflow of the run exists
  relays,       \* what each relay worker is doing
  disturbances

eventVars == <<stream, outbox, inbox>>
dispatchVars ==
  <<runs, plugin_revoked, stream, outbox, inbox, withdrawn, engine, relays,
    disturbances>>

NoEvent == [status |-> "NONE", attempts |-> 0, lease |-> "NULL",
            available |-> TRUE, replayed |-> FALSE]

Idle == [pc |-> "IDLE", batch |-> <<>>, fence |-> 0]

DispatchInit ==
  /\ RunInit
  /\ stream = <<>>
  /\ outbox = [r \in Runs |-> NoEvent]
  /\ inbox = {}
  /\ withdrawn = {}
  /\ engine = [r \in Runs |-> FALSE]
  /\ relays = [w \in RelayWorkers |-> Idle]
  /\ disturbances = 0

AwaitsDispatch(r) ==
  runs[r].state = "QUEUED" /\ runs[r].dispatch_state = "PENDING"

(* The authorities behind a run: kill switches, the enabled plugin build,  *)
(* the requester's membership and policy, and the grant of the run.        *)
TenantAuthorities == {"KILL_SWITCH", "PLUGIN", "MEMBERSHIP", "POLICY"}

AuthorityHolds(g) ==
  /\ withdrawn \cap (TenantAuthorities \cup {g}) = {}
  /\ ~ plugin_revoked

-----------------------------------------------------------------------------
(* Commands of the tenant.                                                 *)

(* start_run, and record_change and write_projection for its event.        *)
Submit(r, g) ==
  /\ AuthorityHolds(g)
  /\ StartRun(r, g)
  /\ stream' = Append(stream, r)
  /\ outbox' = [outbox EXCEPT ![r].status = "PENDING"]
  /\ UNCHANGED <<inbox, withdrawn, engine, relays, disturbances>>

RunCommand(r) ==
  /\ \/ \E unresolved \in BOOLEAN : CancelRun(r, runs[r].version, unresolved)
     \/ MarkRunCompleted(r, runs[r].fence)
  /\ UNCHANGED <<eventVars, withdrawn, engine, relays, disturbances>>

Revoke ==
  /\ "PLUGIN" \in Withdrawable
  /\ RevokePlugin
  /\ UNCHANGED <<eventVars, withdrawn, engine, relays, disturbances>>

(* A kill switch, a disabled plugin, a revoked membership, a stricter      *)
(* policy, a revoked or expired grant; all but the grant may come back.    *)
Withdraw(authority) ==
  /\ authority \in Withdrawable
  /\ withdrawn' = withdrawn \cup {authority}
  /\ UNCHANGED <<runVars, eventVars, engine, relays, disturbances>>

Restore(authority) ==
  /\ authority \in withdrawn \ Grants
  /\ withdrawn' = withdrawn \ {authority}
  /\ UNCHANGED <<runVars, eventVars, engine, relays, disturbances>>

(* replay_deadletter: the attempts made so far stay counted.  Its          *)
(* projection always has version 1, so an event is replayed only once.     *)
ReplayDeadletter(r) ==
  /\ outbox[r].status = "DEAD_LETTER"
  /\ ~ outbox[r].replayed
  /\ disturbances < MaxDisturbances
  /\ outbox' = [outbox EXCEPT ![r].status = "PENDING", ![r].lease = "NULL",
                              ![r].replayed = TRUE]
  /\ disturbances' = disturbances + 1
  /\ UNCHANGED <<runVars, stream, inbox, withdrawn, engine, relays>>

-----------------------------------------------------------------------------
(* The relay worker: relay_once and process_run_event.                     *)

(* Fault: an event whose lease ran out is not claimed again.               *)
ClaimableUnleased(r) ==
  /\ outbox[r].status = "PENDING"
  /\ outbox[r].available
  /\ outbox[r].lease = "NULL"

Claimable(r) ==
  /\ outbox[r].status = "PENDING"
  /\ outbox[r].available
  /\ outbox[r].lease # "HELD"

Batch ==
  LET pending == InOrder(stream, {r \in Runs : Claimable(r)})
  IN  SubSeq(pending, 1, IF Len(pending) < BatchSize THEN Len(pending)
                                                     ELSE BatchSize)

(* The event after claim_pending_outbox: one in the inbox was processed    *)
(* before and is closed, the others are leased.  Attempts are only ever    *)
(* compared with max_attempts and saturate there.                          *)
ClaimedEvent(r) ==
  IF r \in inbox
  THEN [outbox[r] EXCEPT !.status = "DELIVERED", !.lease = "NULL"]
  ELSE [outbox[r] EXCEPT
          !.lease = "HELD",
          !.attempts = IF @ < MaxAttempts THEN @ + 1 ELSE @]

(* Fault: the inbox records an event when it is claimed.                   *)
InboxOnClaim(claimed) == inbox \cup claimed

InboxAfterClaim(claimed) == inbox

ClaimPendingOutbox(w) ==
  LET claimed == Range(Batch)
      work == InOrder(Batch, Runs \ inbox)
  IN  /\ relays[w].pc = "IDLE"
      /\ claimed # {}
      /\ outbox' = [r \in Runs |-> IF r \in claimed THEN ClaimedEvent(r)
                                                    ELSE outbox[r]]
      /\ inbox' = InboxAfterClaim(claimed)
      /\ relays' = [relays EXCEPT ![w] =
                      IF work = <<>>
                      THEN Idle
                      ELSE [pc |-> "VERIFY", batch |-> work, fence |-> 0]]
      /\ UNCHANGED <<runVars, stream, withdrawn, engine, disturbances>>

(* verify_and_claim_run: start the run under the fence read here, or fence *)
(* it off and acknowledge the event.                                       *)
VerifyAndClaimRun(w) ==
  LET r == Head(relays[w].batch)
  IN  /\ relays[w].pc = "VERIFY"
      /\ \/ /\ AwaitsDispatch(r)
            /\ AuthorityHolds(runs[r].grant)
            /\ relays' = [relays EXCEPT ![w].pc = "START",
                                        ![w].fence = runs[r].fence]
            /\ UNCHANGED runVars
         \/ /\ AwaitsDispatch(r)
            /\ ~ AuthorityHolds(runs[r].grant)
            /\ FenceRunBlocked(r, runs[r].fence)
            /\ relays' = [relays EXCEPT ![w].pc = "DELIVERED"]
         \/ /\ ~ AwaitsDispatch(r)
            /\ relays' = [relays EXCEPT ![w].pc = "DELIVERED"]
            /\ UNCHANGED runVars
      /\ UNCHANGED <<eventVars, withdrawn, engine, disturbances>>

(* Fault: an engine that gave no answer counts as an engine that started.  *)
StartDurableRunOnAGuess(w) ==
  /\ relays[w].pc = "START"
  /\ relays' = [relays EXCEPT ![w].pc = "MARK"]
  /\ UNCHANGED <<runVars, eventVars, withdrawn, engine, disturbances>>

(* start_durable_run.  The workflow id is stable, so starting a workflow   *)
(* that exists adopts it.  The engine may also be unreachable, or its      *)
(* answer be lost or empty.                                                *)
StartDurableRun(w) ==
  LET r == Head(relays[w].batch)
  IN  /\ relays[w].pc = "START"
      /\ \/ /\ engine' = [engine EXCEPT ![r] = TRUE]
            /\ \E pc \in {"MARK", "FAILED"} :
                 relays' = [relays EXCEPT ![w].pc = pc]
         \/ /\ relays' = [relays EXCEPT ![w].pc = "FAILED"]
            /\ UNCHANGED engine
      /\ UNCHANGED <<runVars, eventVars, withdrawn, disturbances>>

(* mark_run_started, or its refusal.                                       *)
MarkStarted(w) ==
  LET r == Head(relays[w].batch)
  IN  /\ relays[w].pc = "MARK"
      /\ \/ /\ MarkRunStarted(r, relays[w].fence)
            /\ relays' = [relays EXCEPT ![w].pc = "DELIVERED"]
         \/ /\ ~ AwaitsDispatch(r) \/ runs[r].fence # relays[w].fence
            /\ relays' = [relays EXCEPT ![w].pc = "FAILED"]
            /\ UNCHANGED runVars
      /\ UNCHANGED <<eventVars, withdrawn, engine, disturbances>>

(* The worker goes on with the next event of its batch.                    *)
NextEvent(w) ==
  LET rest == Tail(relays[w].batch)
  IN  IF rest = <<>>
      THEN Idle
      ELSE [relays[w] EXCEPT !.pc = "VERIFY", !.batch = rest]

MarkOutboxDelivered(w) ==
  LET r == Head(relays[w].batch)
  IN  /\ relays[w].pc = "DELIVERED"
      /\ inbox' = inbox \cup {r}
      /\ outbox' = [outbox EXCEPT ![r].status = "DELIVERED",
                                  ![r].lease = "NULL"]
      /\ relays' = [relays EXCEPT ![w] = NextEvent(w)]
      /\ UNCHANGED <<runVars, stream, withdrawn, engine, disturbances>>

(* mark_outbox_failed does not ask whether the event is still pending or   *)
(* who holds its lease.                                                    *)
MarkOutboxFailed(w) ==
  LET r == Head(relays[w].batch)
  IN  /\ relays[w].pc = "FAILED"
      /\ outbox' = [outbox EXCEPT ![r] =
                      IF @.attempts >= MaxAttempts
                      THEN [@ EXCEPT !.status = "DEAD_LETTER",
                                     !.lease = "NULL"]
                      ELSE [@ EXCEPT !.lease = "NULL", !.available = FALSE]]
      /\ relays' = [relays EXCEPT ![w] = NextEvent(w)]
      /\ UNCHANGED <<runVars, stream, inbox, withdrawn, engine, disturbances>>

RelayStep(w) ==
  \/ ClaimPendingOutbox(w)
  \/ VerifyAndClaimRun(w)
  \/ StartDurableRun(w)
  \/ MarkStarted(w)
  \/ MarkOutboxDelivered(w)
  \/ MarkOutboxFailed(w)

-----------------------------------------------------------------------------
(* What can go wrong around a worker.                                      *)

(* The worker dies; what it had leased stays leased.                       *)
Crash(w) ==
  /\ relays[w].pc # "IDLE"
  /\ disturbances < MaxDisturbances
  /\ disturbances' = disturbances + 1
  /\ relays' = [relays EXCEPT ![w] = Idle]
  /\ UNCHANGED <<runVars, eventVars, withdrawn, engine>>

(* A transaction fails: a failed verification or mark sends the event to   *)
(* mark_outbox_failed, a failed acknowledgement is ignored.                *)
DatabaseError(w) ==
  /\ disturbances < MaxDisturbances
  /\ disturbances' = disturbances + 1
  /\ \/ /\ relays[w].pc \in {"VERIFY", "MARK"}
        /\ relays' = [relays EXCEPT ![w].pc = "FAILED"]
     \/ /\ relays[w].pc \in {"DELIVERED", "FAILED"}
        /\ relays' = [relays EXCEPT ![w] = NextEvent(w)]
  /\ UNCHANGED <<runVars, eventVars, withdrawn, engine>>

(* mark_run_started commits, and the worker sees an error.                 *)
LostCommitAnswer(w) ==
  /\ relays[w].pc = "MARK"
  /\ disturbances < MaxDisturbances
  /\ disturbances' = disturbances + 1
  /\ MarkRunStarted(Head(relays[w].batch), relays[w].fence)
  /\ relays' = [relays EXCEPT ![w].pc = "FAILED"]
  /\ UNCHANGED <<eventVars, withdrawn, engine>>

(* The clock: a lease runs out, also under a worker that is only slow; a   *)
(* backoff ends.                                                           *)
LeaseExpires(r) ==
  /\ outbox[r].lease = "HELD"
  /\ outbox' = [outbox EXCEPT ![r].lease = "EXPIRED"]
  /\ UNCHANGED <<runVars, stream, inbox, withdrawn, engine, relays,
                 disturbances>>

BackoffEnds(r) ==
  /\ ~ outbox[r].available
  /\ outbox' = [outbox EXCEPT ![r].available = TRUE]
  /\ UNCHANGED <<runVars, stream, inbox, withdrawn, engine, relays,
                 disturbances>>

Disturbance(w) == Crash(w) \/ DatabaseError(w) \/ LostCommitAnswer(w)

DispatchNext ==
  \/ \E w \in RelayWorkers : RelayStep(w) \/ Disturbance(w)
  \/ \E r \in Runs :
       \/ \E g \in Grants : Submit(r, g)
       \/ RunCommand(r)
       \/ ReplayDeadletter(r)
       \/ LeaseExpires(r)
       \/ BackoffEnds(r)
  \/ Revoke
  \/ \E authority \in TenantAuthorities \cup Grants :
       Withdraw(authority) \/ Restore(authority)

DispatchSpec == DispatchInit /\ [][DispatchNext]_dispatchVars

(* run_relay polls for ever and finishes what it claimed; the clock moves. *)
DispatchFairness ==
  /\ \A w \in RelayWorkers : WF_dispatchVars(RelayStep(w))
  /\ \A r \in Runs :
       WF_dispatchVars(LeaseExpires(r)) /\ WF_dispatchVars(BackoffEnds(r))

FairDispatchSpec == DispatchSpec /\ DispatchFairness

-----------------------------------------------------------------------------

(* The dispatch of a run is never marked STARTED without the durable       *)
(* workflow existing, whatever answers are lost and whichever workers      *)
(* overlap on the event.                                                   *)
StartedHasEngineEvidence ==
  \A r \in Runs : runs[r].dispatch_state = "STARTED" => engine[r]

(* No run is forgotten: while a run awaits dispatch its event is neither   *)
(* acknowledged nor in the inbox, so it is claimed again or shows up as a  *)
(* dead letter.                                                            *)
QueuedRunNotForgotten ==
  \A r \in Runs :
    AwaitsDispatch(r) => /\ r \notin inbox
                         /\ outbox[r].status \in {"PENDING", "DEAD_LETTER"}

(* A run that was fenced (cancelled, blocked by a failed verification, or  *)
(* its plugin revoked) while a worker was on its way to start it is never  *)
(* brought back: the late mark_run_started is refused.                     *)
FencedRunStaysFenced ==
  [][\A r \in Runs :
       runs[r].dispatch_state = "BLOCKED" =>
         /\ runs'[r].dispatch_state = "BLOCKED"
         /\ runs'[r].state # "RUNNING"]_dispatchVars

(* Once a build is revoked none of its runs begins to run, not even one    *)
(* that a worker had verified before the revocation.                       *)
RevokedBuildNeverStarts ==
  [][\A r \in Runs :
       plugin_revoked /\ runs[r].state # "RUNNING"
         => runs'[r].state # "RUNNING"]_dispatchVars

(* A run that was stopped before it began stays stopped, whichever worker  *)
(* is on its way to start it: the two properties above.                    *)
StoppedRunsStayStopped == FencedRunStaysFenced /\ RevokedBuildNeverStarts

(* Runs move only along the edges of the kernel's table, which most of the *)
(* handlers do not ask, with one exception: fence_run_blocked takes a      *)
(* QUEUED run to BLOCKED.                                                  *)
RunsFollowKernelEdges ==
  [][\A r \in Runs :
       Exists(r) /\ runs'[r].state # runs[r].state
         => <<runs[r].state, runs'[r].state>>
              \in RunEdges \cup {<<"QUEUED", "BLOCKED">>}]_dispatchVars

(* Every run that awaits dispatch is in the end started, fenced or         *)
(* cancelled, or its event is dead-lettered, with any number of failures   *)
(* of the engine and the disturbances the bound allows.                    *)
DispatchResolves ==
  \A r \in Runs :
    AwaitsDispatch(r) ~>
      (~ AwaitsDispatch(r) \/ outbox[r].status = "DEAD_LETTER")

=============================================================================
