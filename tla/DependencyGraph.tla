-------------------------- MODULE DependencyGraph ---------------------------
(***************************************************************************)
(* The depth first search that puts dependencies in order                  *)
(* (kernel/src/registry.rs).  A graph maps every node it has to the        *)
(* sequence of the nodes it depends on.                                    *)
(*                                                                         *)
(* The recursive calls of visit are a machine with an explicit stack: path *)
(* holds the nodes being visited, the innermost last, and at the position  *)
(* of the loop of each of them.  order lists the nodes visited.            *)
(***************************************************************************)
EXTENDS Naturals, Sequences, FiniteSets, Functions

Unvisited(edges) ==
  [ok |-> TRUE, order |-> <<>>, path |-> <<>>,
   at |-> [p \in DOMAIN edges |-> 1], root |-> 1]

(* visit up to its loop: a node visited before is done, one on the path    *)
(* closes a cycle, one that is no node of the graph is unsatisfied.        *)
Enter(edges, w, p) ==
  IF p \in Range(w.order) THEN w
  ELSE IF p \in Range(w.path) \/ p \notin DOMAIN edges
  THEN [w EXCEPT !.ok = FALSE]
  ELSE [w EXCEPT !.path = Append(@, p)]

(* Fault: a plugin is listed before what it depends on.                    *)
Preorder(order, p) == <<p>> \o order

Postorder(order, p) == Append(order, p)

(* visit after its loop.                                                   *)
Leave(w, p) ==
  [w EXCEPT !.path = SubSeq(@, 1, Len(@) - 1), !.order = Postorder(@, p)]

Finished(roots, w) == ~ w.ok \/ (w.path = <<>> /\ w.root > Len(roots))

(* The next root is resolved, or the innermost loop goes on or ends.       *)
VisitStep(edges, roots, w) ==
  IF Finished(roots, w) THEN w
  ELSE IF w.path = <<>>
  THEN Enter(edges, [w EXCEPT !.root = @ + 1], roots[w.root])
  ELSE LET p == w.path[Len(w.path)]
       IN  IF w.at[p] > Len(edges[p])
           THEN Leave(w, p)
           ELSE Enter(edges, [w EXCEPT !.at[p] = @ + 1], edges[p][w.at[p]])

(* What there is to do: a node is left once, an edge followed once.        *)
Chores(edges) == UNION {{p} \X (0..Len(edges[p])) : p \in DOMAIN edges}

MaxSteps(edges, roots) == Len(roots) + Cardinality(Chores(edges))

(* resolve of each of the roots in turn.                                   *)
Resolve(edges, roots) ==
  LET walk[n \in 0..MaxSteps(edges, roots)] ==
        IF n = 0 THEN Unvisited(edges)
        ELSE VisitStep(edges, roots, walk[n - 1])
  IN  walk[MaxSteps(edges, roots)]

=============================================================================
