-------------------------- MODULE MCRunCheckpoints --------------------------
(***************************************************************************)
(* Small workflow definitions, one for each way a traversal can go.        *)
(***************************************************************************)
EXTENDS RunCheckpoints, TLC

Edge(from, to, condition) == [from |-> from, to |-> to, condition |-> condition]

Definition(kinds, edges, steps, turns) ==
  [entry_node |-> "a", nodes |-> kinds, edges |-> edges,
   max_total_steps |-> steps, max_model_turns |-> turns]

(* a -> b, then done, with room to spare. *)
Linear ==
  Definition([n \in {"a", "b"} |-> "ACTIVITY"],
             <<Edge("a", "b", "SUCCESS")>>, 3, 1)

(* A model turn, an activity, and a second model turn over the budget. *)
TwoTurns ==
  Definition("a" :> "MODEL" @@ "b" :> "ACTIVITY" @@ "c" :> "MODEL",
             <<Edge("a", "b", "SUCCESS"), Edge("b", "c", "SUCCESS")>>, 4, 1)

(* An approval gate between two activities. *)
Gated ==
  Definition("a" :> "ACTIVITY" @@ "b" :> "APPROVAL" @@ "c" :> "ACTIVITY",
             <<Edge("a", "b", "SUCCESS"), Edge("b", "c", "APPROVED")>>, 4, 1)

(* A branch that the interpreter does not decide. *)
Branching ==
  Definition([n \in {"a", "b"} |-> "ACTIVITY"],
             <<Edge("a", "b", "TRUE")>>, 3, 1)

(* A bounded loop that only the step budget ends. *)
Looping ==
  Definition("a" :> "ACTIVITY" @@ "b" :> "BOUNDED_LOOP",
             <<Edge("a", "b", "SUCCESS"), Edge("b", "a", "SUCCESS")>>, 3, 1)

(* One node and a budget of exactly its one step. *)
OneStep == Definition([n \in {"a"} |-> "ACTIVITY"], << >>, 1, 1)

MCDefinitions == {Linear, TwoTurns, Gated, Branching, Looping, OneStep}

WorkerSymmetry == Permutations(Workers)

=============================================================================
