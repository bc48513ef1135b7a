------------------------------- MODULE MCTrees -------------------------------
(* Model values for Trees.                                                 *)
EXTENDS Trees, TLC
CONSTANTS n1, n2, n3, n4, n5, d1, d2

Nodes5 == {n1, n2, n3, n4, n5}
Desktops2 == {d1, d2}

(* Nothing is preselected while a focus is mislaid.  Five nodes on one     *)
(* desktop only, nothing preselected or mislaid: three windows that are not*)
(* hidden, or two that are tiled and a receptacle.                         *)
SmallTrees ==
  /\ presel = {} \/ loose = {}
  /\ \/ Cardinality(links.alive) < 5 /\ Cardinality(loose) < 2
     \/ /\ \E d \in Desktop : links.root[d] = None
        /\ presel = {} /\ loose = {}
        /\ \/ Cardinality(links.window) = 3 /\ hidden = {}
           \/ Cardinality(links.window) = 2 /\ links.window = tiled

Symmetry == Permutations(Node) \union Permutations(Desktop)
=============================================================================
