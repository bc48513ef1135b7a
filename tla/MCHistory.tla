----------------------------- MODULE MCHistory -----------------------------
(* Model values for History.                                               *)
EXTENDS History, TLC
CONSTANTS n1, n2, n3, d1, d2, d3, m1, m2

MCNode == {n1, n2, n3}
MCDesktop == {d1, d2, d3}
TwoOnOne == (d1 :> m1 @@ d2 :> m1 @@ d3 :> m2)

(* Searches while the list is short: they leave the list as it is.         *)
ShortSearches == Len(list) > 3 => needle = 0 /\ record

Symmetry == Permutations(MCNode) \union Permutations({d1, d2})
=============================================================================
