----------------------------- MODULE MCRestart -----------------------------
(* Model values for Restart: the second monitor is right of the first one. *)
EXTENDS Restart
CONSTANTS m1, m2, d1, d2, d3, w1, w2, i1, r1, r2

Monitors2 == {m1, m2}
Desktops3 == {d1, d2, d3}
Windows2 == {w1, w2}
Inner1 == {i1}
Readers2 == {r1, r2}
LeftToRight == [m \in Monitors2 |-> IF m = m1 THEN 1 ELSE 2]
TwoAndOne == [m \in Monitors2 |-> IF m = m1 THEN <<d1, d2>> ELSE <<d3>>]
OthersOrAll == {{"other"}, {"report", "other"}}
Symmetry == Permutations(Window) \union Permutations(Reader)
=============================================================================
