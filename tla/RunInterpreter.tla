--------------------------- MODULE RunInterpreter ---------------------------
(***************************************************************************)
(* crates/worker/src/run_interpreter.rs: the pure function that names the  *)
(* next step of a run from its workflow definition and its checkpoint      *)
(* history.                                                                *)
(*                                                                         *)
(* A definition is a record                                                *)
(*   entry_node, nodes (a function from declared node ids to their kind),  *)
(*   edges (a sequence of [from, to, condition]),                          *)
(*   max_total_steps and max_model_turns.                                  *)
(* A logical step id is the pair <<seq, node>> that logical_step_key       *)
(* formats; a history is a function from logical step ids to states.       *)
(***************************************************************************)
EXTENDS Integers, Sequences, FiniteSets

Declared(def, node) == node \in DOMAIN def.nodes

(* The edge condition that the success of a node continues on.             *)
Continuation(def, node) ==
  IF def.nodes[node] = "APPROVAL" THEN "APPROVED" ELSE "SUCCESS"

OutEdges(def, node) == SelectSeq(def.edges, LAMBDA e : e.from = node)

(* successor: the targets of the continuation edges, in definition order;  *)
(* the traversal takes the first.                                          *)
Successors(def, node) ==
  SelectSeq(OutEdges(def, node),
            LAMBDA e : e.condition = Continuation(def, node))

(* A position of the traversal: at a node, past a leaf, or in error.       *)
AtNode(node) == [kind |-> "NODE", node |-> node]
PastLeaf(node) == [kind |-> "LEAF", node |-> node]
InError(node) == [kind |-> "ERROR", node |-> node]

(* One iteration of the loop of node_at.                                   *)
Advance(def, pos) ==
  IF pos.kind # "NODE" THEN pos
  ELSE IF ~ Declared(def, pos.node) THEN InError(pos.node)
  ELSE IF OutEdges(def, pos.node) = << >> THEN PastLeaf(pos.node)
  ELSE IF Successors(def, pos.node) = << >> THEN InError(pos.node)
  ELSE LET next == Successors(def, pos.node)[1].to
       IN  IF Declared(def, next) THEN AtNode(next) ELSE InError(next)

(* node_at: the position of step seq, walking from entry_node.             *)
NodeAt(def, seq) ==
  LET walk[n \in 1..seq] ==
        IF n = 1 THEN AtNode(def.entry_node) ELSE Advance(def, walk[n - 1])
      end == walk[seq]
  IN  IF end.kind = "NODE" /\ ~ Declared(def, end.node)
      THEN InError(end.node)
      ELSE end

(* model_turns_used: MODEL nodes among the steps before seq.               *)
ModelTurnsUsed(def, seq) ==
  Cardinality({n \in 1..(seq - 1) :
                 /\ NodeAt(def, n).kind = "NODE"
                 /\ def.nodes[NodeAt(def, n).node] = "MODEL"})

Recorded(history, key) ==
  IF key \in DOMAIN history THEN history[key] ELSE "NONE"

Decision(kind, seq, node) == [kind |-> kind, seq |-> seq, node |-> node]

(* Fault: the gate forgets the turn budget.                                *)
BudgetGateWithoutTurns(def, seq, node) ==
  IF def.nodes[node] = "APPROVAL"
  THEN Decision("WAITING_APPROVAL", seq, node)
  ELSE Decision("EXECUTE", seq, node)

(* budget_gate.                                                            *)
BudgetGate(def, seq, node) ==
  CASE /\ def.nodes[node] = "MODEL"
       /\ ModelTurnsUsed(def, seq) >= def.max_model_turns
         -> Decision("LIMIT_REACHED", seq, node)
    [] def.nodes[node] = "APPROVAL" -> Decision("WAITING_APPROVAL", seq, node)
    [] OTHER -> Decision("EXECUTE", seq, node)

(* The decision of the loop of next_step at a step that does not continue  *)
(* to the next one.                                                        *)
DecisionAt(def, history, seq) ==
  LET pos == NodeAt(def, seq)
      state == Recorded(history, <<seq, pos.node>>)
  IN  CASE pos.kind = "LEAF" -> Decision("COMPLETED", seq, pos.node)
        [] pos.kind = "ERROR" -> Decision("UNSUPPORTED", seq, pos.node)
        [] pos.kind = "NODE" /\ state \in {"FAILED", "BLOCKED"}
             -> Decision("BLOCKED", seq, pos.node)
        [] OTHER -> BudgetGate(def, seq, pos.node)

(* Fault: a step counts as done once a later one is recorded.              *)
StepDoneIfFollowed(def, history, seq) ==
  LET pos == NodeAt(def, seq)
  IN  /\ pos.kind = "NODE"
      /\ Recorded(history, <<seq, pos.node>>) = "SUCCEEDED"
      /\ \E k \in DOMAIN history : k[1] > seq

StepDone(def, history, seq) ==
  LET pos == NodeAt(def, seq)
  IN  /\ pos.kind = "NODE"
      /\ Recorded(history, <<seq, pos.node>>) = "SUCCEEDED"

(* next_step: the first step of the budget that is not done decides.  The  *)
(* record of a step carries the node its key names                         *)
(* (interpreter_from_checkpoints), so a record found under a key always    *)
(* agrees with the node of that key and ReplayIncompatible is not decided. *)
NextStep(def, history) ==
  LET undone == {seq \in 1..def.max_total_steps : ~ StepDone(def, history, seq)}
  IN  IF undone = {}
      THEN Decision("LIMIT_REACHED", def.max_total_steps, def.entry_node)
      ELSE DecisionAt(def, history,
                      CHOOSE seq \in undone : \A other \in undone : seq <= other)

=============================================================================
