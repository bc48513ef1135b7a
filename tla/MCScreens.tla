----------------------------- MODULE MCScreens -----------------------------
(* Model values for Screens: two outputs, and a monitor that a command adds.*)
(* States that have strayed, or have a mislaid focus, are checked, and not  *)
(* gone on from; nor are those with windows that were not mapped (unseen)   *)
(* when there are three monitors or two sticky windows.                     *)
EXTENDS Screens
CONSTANTS m1, m2, m3, d1, d2, d3, e1, e2, w1, w2

Outputs2 == {m1, m2}
Monitors3 == {m1, m2, m3}
Desktops3 == {d1, d2, d3}
Windows2 == {w1, w2}
Stashes2 == <<e1, e2>>
Symmetry == Permutations(Node) \union Permutations(Output) \union Permutations(Desktop)
Steady ==
  ~strayed /\ ~mislaid /\ (unseen => Cardinality(monitors) < 3 /\ Cardinality(sticky) < 2)
=============================================================================
