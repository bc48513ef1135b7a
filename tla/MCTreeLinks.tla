----------------------------- MODULE MCTreeLinks -----------------------------
(* Model values for TreeLinks.                                             *)
EXTENDS TreeLinks, TLC
CONSTANTS n1, n2, n3, n4, n5, n6, d1, d2

MCNode == {n1, n2, n3, n4, n5, n6}
MCDesktop == {d1, d2}
Symmetry == Permutations(MCNode)
=============================================================================
