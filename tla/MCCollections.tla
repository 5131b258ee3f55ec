--------------------------- MODULE MCCollections ----------------------------
(* Instances of Collections for TLC.                                       *)
EXTENDS Collections, TLC

CONSTANTS s1, l1, l2, l3, c1, p1, e1, MaxEvents

(* The first policy hides as many listings as are examined in a page, the  *)
(* second one none.                                                        *)
MCHidden == 1 :> {l1, l2} @@ 2 :> {}

MCIdOrder == s1 :> 1 @@ l1 :> 2 @@ l2 :> 3 @@ l3 :> 4 @@ c1 :> 5 @@ p1 :> 6 @@ e1 :> 7

CollectionSymmetry == Permutations(Writers)

Lost ==
  sequence - Cardinality(projections)
    - Cardinality({w \in Writers : pending[w].open})

Others ==
  Cardinality({p \in projections : p.kind # "CatalogListing"})
    - Cardinality(Connections)

(* The bound on what happens in one behaviour beside the reads: revisions, *)
(* and, once more, lost ones and those of other commands; deletions and    *)
(* time.                                                                   *)
Focus == sequence + Lost + Others + Cardinality(deleted) + now <= MaxEvents

=============================================================================
