---------------------------- MODULE MCEventLoop ----------------------------
(* Model values for EventLoop.                                             *)
EXTENDS EventLoop, TLC
CONSTANTS w1, w2

MCWindow == {w1, w2}
Symmetry == Permutations(MCWindow)

(* The answers of a rule program: each line is written at once.            *)
Lines == { <<>>, << <<"focus", "off">>, <<"manage", "off">> >> }
=============================================================================
