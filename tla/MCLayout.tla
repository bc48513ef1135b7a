------------------------------ MODULE MCLayout ------------------------------
(* Three windows on a square monitor that has no room for three of them    *)
(* side by side.                                                           *)
EXTENDS Layout, TLC
CONSTANTS w1, w2, w3

Windows3 == {w1, w2, w3}
Ratios1 == {<<1, 4>>}
Moves1 == {-5}
Symmetry == Permutations(Window)
=============================================================================
