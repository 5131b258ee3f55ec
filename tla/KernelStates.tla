---------------------------- MODULE KernelStates ----------------------------
(***************************************************************************)
(* The closed transition tables of the kernel (crates/kernel/src/state.rs),*)
(* for the entities whose rows the PostgreSQL command handlers move.  A    *)
(* state is named by the string the rows store.                            *)
(***************************************************************************)

RunStates ==
  {"QUEUED", "RUNNING", "WAITING_APPROVAL", "WAITING_RETRY", "BLOCKED",
   "CANCEL_REQUESTED", "CANCELLED", "SUCCEEDED", "FAILED"}

TerminalRunStates == {"SUCCEEDED", "FAILED", "CANCELLED"}

RunEdges ==
  {<<"QUEUED", "RUNNING">>,
   <<"RUNNING", "WAITING_APPROVAL">>, <<"WAITING_APPROVAL", "RUNNING">>,
   <<"RUNNING", "WAITING_RETRY">>, <<"WAITING_RETRY", "RUNNING">>,
   <<"RUNNING", "BLOCKED">>, <<"BLOCKED", "RUNNING">>,
   <<"RUNNING", "SUCCEEDED">>, <<"RUNNING", "FAILED">>,
   <<"QUEUED", "CANCELLED">>, <<"WAITING_APPROVAL", "CANCELLED">>,
   <<"WAITING_RETRY", "CANCELLED">>, <<"BLOCKED", "CANCELLED">>,
   <<"RUNNING", "CANCEL_REQUESTED">>,
   <<"CANCEL_REQUESTED", "CANCELLED">>, <<"CANCEL_REQUESTED", "SUCCEEDED">>}

EffectStates ==
  {"PREPARED", "WAITING_APPROVAL", "AUTHORIZED", "EXECUTING", "SUCCEEDED",
   "FAILED_CONFIRMED", "OUTCOME_UNKNOWN", "RECONCILING", "MANUAL_REVIEW",
   "CANCELLED"}

EffectEdges ==
  {<<"PREPARED", "WAITING_APPROVAL">>, <<"PREPARED", "AUTHORIZED">>,
   <<"WAITING_APPROVAL", "AUTHORIZED">>, <<"AUTHORIZED", "EXECUTING">>,
   <<"EXECUTING", "SUCCEEDED">>, <<"EXECUTING", "FAILED_CONFIRMED">>,
   <<"EXECUTING", "OUTCOME_UNKNOWN">>, <<"OUTCOME_UNKNOWN", "RECONCILING">>,
   <<"RECONCILING", "SUCCEEDED">>, <<"RECONCILING", "FAILED_CONFIRMED">>,
   <<"RECONCILING", "AUTHORIZED">>, <<"RECONCILING", "MANUAL_REVIEW">>,
   <<"MANUAL_REVIEW", "RECONCILING">>,
   <<"PREPARED", "CANCELLED">>, <<"WAITING_APPROVAL", "CANCELLED">>,
   <<"AUTHORIZED", "CANCELLED">>}

CostStates == {"RESERVED", "SETTLED", "UNKNOWN", "RELEASED"}

CostEdges ==
  {<<"RESERVED", "SETTLED">>, <<"RESERVED", "UNKNOWN">>,
   <<"RESERVED", "RELEASED">>, <<"UNKNOWN", "SETTLED">>,
   <<"UNKNOWN", "RELEASED">>}

=============================================================================
