--------------------------- MODULE MCStackingList ---------------------------
(* Model values for StackingList.                                          *)
EXTENDS StackingList
CONSTANTS w1, w2, w3

MCWindow == {w1, w2, w3}
Symmetry == Permutations(MCWindow)
=============================================================================
