----------------------------- MODULE MCStacking -----------------------------
(* Model values for Stacking.                                              *)
EXTENDS Stacking
CONSTANTS d1, d2

TwoDesktops == {d1, d2}
TwoLayers == {"below", "normal"}

(* Three windows in the normal layer, or two windows in any layers.        *)
Small ==
  \/ \A w \in Window : layer[w] = "normal"
  \/ Cardinality({w \in Window : desk[w] # None}) < 3
SmallSpec == Init /\ [][Next /\ Small']_vars

Symmetry == Permutations(Desktop)
=============================================================================
