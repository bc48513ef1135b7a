----------------------------- MODULE WindowSets -----------------------------
(***************************************************************************)
(* What the window trees promise about windows: every desktop holds a set  *)
(* of windows.  A window comes to one desktop, goes with others of its     *)
(* desktop, moves with others of its desktop to another one, or such a     *)
(* group changes places with a group of another desktop.                   *)
(*                                                                         *)
(* Came, Gone, Moved and Exchanged are the sets after a step, for a given  *)
(* desktop and group: whoever implements this names them for every call.   *)
(***************************************************************************)
CONSTANTS Window, Desktop

VARIABLE held

Came(sets, d, W) == [sets EXCEPT ![d] = @ \union W]
Gone(sets, d, W) == [sets EXCEPT ![d] = @ \ W]
Moved(sets, d1, W, d2) == Came(Gone(sets, d1, W), d2, W)
Exchanged(sets, d1, W1, d2, W2) == Moved(Moved(sets, d1, W1, d2), d2, W2, d1)

Init == held = [d \in Desktop |-> {}]

Next ==
  \/ \E d \in Desktop, w \in Window :
       (\A e \in Desktop : w \notin held[e]) /\ held' = Came(held, d, {w})
  \/ \E d \in Desktop : \E W \in SUBSET held[d] : held' = Gone(held, d, W)
  \/ \E d1, d2 \in Desktop : \E W \in SUBSET held[d1] : held' = Moved(held, d1, W, d2)
  \/ \E d1, d2 \in Desktop : \E W1 \in SUBSET held[d1], W2 \in SUBSET held[d2] :
       held' = Exchanged(held, d1, W1, d2, W2)

Spec == Init /\ [][Next]_held
=============================================================================
