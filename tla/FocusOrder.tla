----------------------------- MODULE FocusOrder -----------------------------
(***************************************************************************)
(* What the focus history promises: an order of places, oldest first, in   *)
(* which no node appears twice.  A place is a node with its desktop, or a  *)
(* desktop on which no node was focused (node None).                       *)
(*                                                                         *)
(* Added and Without are the order after a step, for a given place, or for *)
(* given nodes and desktops: whoever implements this names them for every  *)
(* call.                                                                   *)
(***************************************************************************)
EXTENDS Naturals, Sequences, SequencesExt

CONSTANTS Node, Desktop, None,
          Monitor     \* the monitor of every desktop

VARIABLE order

Place == [node : Node \union {None}, desk : Desktop]

(* The new place stands for the old one: a node for its former place, an   *)
(* empty desktop for every place of the desktop.                           *)
StandsFor(e, old) ==
  IF e.node # None THEN old.node = e.node ELSE old.desk = e.desk

Others(places, e) == SelectSeq(places, LAMBDA old : ~StandsFor(e, old))

(* An activated node goes right after the newest place of its desktop or,  *)
(* if there is none, before the oldest place of its monitor; an activated  *)
(* desktop goes after the newest place of its monitor.  Where there is no  *)
(* such place either, it goes first.                                       *)
Activated(places, e) ==
  LET OnMonitor(i) == Monitor[places[i].desk] = Monitor[e.desk]
      near == {i \in DOMAIN places :
                 IF e.node # None THEN places[i].desk = e.desk ELSE OnMonitor(i)}
      older == {i \in DOMAIN places :
                  e.node # None /\ OnMonitor(i) /\ ~StandsFor(e, places[i])}
      place == CASE near # {} -> Max(near) + 1
                 [] near = {} /\ older # {} -> Min(older)
                 [] OTHER -> 1
  IN Others(SubSeq(places, 1, place - 1), e) \o <<e>>
       \o Others(SubSeq(places, place, Len(places)), e)

(* A focused place takes the end; the newest place is not added again.     *)
Added(places, e, focused) ==
  CASE places # <<>> /\ StandsFor(e, Last(places)) -> places
    [] focused /\ ~(places # <<>> /\ StandsFor(e, Last(places))) -> Append(Others(places, e), e)
    [] OTHER -> Activated(places, e)

Without(places, nodes, desktops) ==
  SelectSeq(places, LAMBDA e : e.node \notin nodes /\ e.desk \notin desktops)

Init == order = <<>>

Next ==
  \/ \E e \in Place, focused \in BOOLEAN : order' = Added(order, e, focused)
  \/ \E nodes \in SUBSET Node, desktops \in SUBSET Desktop :
       order' = Without(order, nodes, desktops)

Spec == Init /\ [][Next]_order
=============================================================================
