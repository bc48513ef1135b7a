------------------------------ MODULE Stacking ------------------------------
(***************************************************************************)
(* The handlers that restack windows: layers, states, focus, activation,   *)
(* transfers, new and removed windows, on the list of StackOrder.          *)
(*                                                                         *)
(* A handler is an operator from a world (a record of the variables and of *)
(* auto_raise) to a world; an action runs one handler.  A node is the set  *)
(* of its leaves: the leaves of a desktop are ordered by number, and any   *)
(* of them may be the leaves of an internal node, as long as it is nested  *)
(* in the focused node, holds it, or is apart from it.  Every desktop is   *)
(* shown, on a monitor of its own.                                         *)
(***************************************************************************)
EXTENDS StackOrder

CONSTANTS Windows,       \* how many windows there are
          Desktop,       \* the desktops
          None,          \* no desktop
          Layer,         \* the layers clients are put in
          PointerFocus   \* the setting focus_follows_pointer

ASSUME StackingAssumption ==
  /\ Windows \in Nat
  /\ None \notin Desktop
  /\ Layer \subseteq Layers
  /\ PointerFocus \in BOOLEAN

Window == 1..Windows
State == States \ {"pseudo_tiled"}   \* stacked like the tiled state

VARIABLES desk,       \* the desktop that holds the window, or None
          layer,      \* client_t.layer
          state,      \* client_t.state
          last,       \* client_t.last_state
          stacking,   \* the list from stack_head to stack_tail
          focus,      \* desktop_t.focus, {} for NULL
          cur         \* mon->desk

vars == <<desk, layer, state, last, stacking, focus, cur>>

World == [desk |-> desk, layer |-> layer, state |-> state, last |-> last,
          stacking |-> stacking, focus |-> focus, cur |-> cur,
          autoRaise |-> TRUE]

Becomes(s) ==
  /\ desk' = s.desk
  /\ layer' = s.layer
  /\ state' = s.state
  /\ last' = s.last
  /\ stacking' = s.stacking
  /\ focus' = s.focus
  /\ cur' = s.cur

Level(s) == [w \in Window |-> StackLevel(s.layer[w], s.state[w])]

Root(s, d) == {w \in Window : s.desk[w] = d}
Nodes(s, d) ==
  {n \in SUBSET Root(s, d) : n # {} /\ n \intersect s.focus[d] \in {{}, n, s.focus[d]}}

-----------------------------------------------------------------------------
(* Bug: floating windows are skipped whatever auto_raise says.             *)
SkippedWhenFloating(s, w) == s.state[w] = "floating"

(* stack(): the leaves of the node, one after the other.                   *)
Skipped(s, w) == s.state[w] = "floating" /\ ~s.autoRaise

Stack(s, n, focused) ==
  LET lv == Level(s)
      list[w \in 0..Windows] ==
        IF w = 0 THEN s.stacking
        ELSE IF w \in n /\ ~Skipped(s, w) THEN StackList(list[w - 1], lv, w, focused)
        ELSE list[w - 1]
  IN [s EXCEPT !.stacking = list[Windows]]

(* The call of stack() that ends a change of layer or state.               *)
Restack(s, d, w) == Stack(s, {w}, s.focus[d] = {w})

(* set_state(), with set_floating() and set_fullscreen(), called for the   *)
(* state that is left and for the one that is entered: cleared is s with   *)
(* the window in its new state, after neutralize_occluding_windows() where *)
(* that is called.                                                         *)
NewState(s, w, v) == [s EXCEPT !.state[w] = v, !.last[w] = s.state[w]]

OldStateLeft(s, cleared, d, w, v) ==
  IF IsTiled(s.state[w]) THEN NewState(s, w, v) ELSE Restack(cleared, d, w)
NewStateEntered(off, d, w, v) == IF IsTiled(v) THEN off ELSE Restack(off, d, w)

StateSet(s, cleared, d, w, v) ==
  IF v = s.state[w] THEN s
  ELSE NewStateEntered(OldStateLeft(s, cleared, d, w, v), d, w, v)

(* Bug: every higher leaf occludes a window, the floating ones too.        *)
OccludesFloatingToo(s, d, f, a) ==
  s.desk[a] = d /\ a # f /\ Level(s)[f] < Level(s)[a]

(* The fullscreen leaves of the desktop that are higher than the leaf f.   *)
Occludes(s, d, f, a) ==
  s.desk[a] = d /\ a # f /\ s.state[a] = "fullscreen" /\ Level(s)[f] < Level(s)[a]

(* neutralize_occluding_windows() on a window that is the focus: the leaves*)
(* that occlude it go back to their last state.  None of them is the focus,*)
(* so that set_state() does not get here again.                            *)
DemoteOther(s, d, f, a) ==
  IF Occludes(s, d, f, a) THEN StateSet(s, NewState(s, a, s.last[a]), d, a, s.last[a]) ELSE s

NeutralizeFocus(s, d, f) ==
  LET run[a \in 0..Windows] == IF a = 0 THEN s ELSE DemoteOther(run[a - 1], d, f, a)
  IN run[Windows]

NeutralizeIfFocused(s, d, w) ==
  IF s.focus[d] = {w} THEN NeutralizeFocus(s, d, w) ELSE s

SetState(s, d, w, v) ==
  StateSet(s, NeutralizeIfFocused(NewState(s, w, v), d, w), d, w, v)

(* neutralize_occluding_windows() for a leaf f, and for all those of n.    *)
Demote(s, d, f, a) ==
  IF Occludes(s, d, f, a) THEN SetState(s, d, a, s.last[a]) ELSE s

NeutralizeLeaf(s, d, f) ==
  LET run[a \in 0..Windows] == IF a = 0 THEN s ELSE Demote(run[a - 1], d, f, a)
  IN run[Windows]

Neutralize(s, d, n) ==
  LET run[f \in 0..Windows] ==
        IF f = 0 THEN s
        ELSE IF f \in n THEN NeutralizeLeaf(run[f - 1], d, f) ELSE run[f - 1]
  IN run[Windows]

(* Bug: stack() runs with the layer the window had.                        *)
SetLayerTooLate(s, d, w, ly) ==
  [Restack(NeutralizeIfFocused(s, d, w), d, w) EXCEPT !.layer[w] = ly]

(* set_layer()                                                             *)
SetLayer(s, d, w, ly) ==
  Restack(NeutralizeIfFocused([s EXCEPT !.layer[w] = ly], d, w), d, w)

(* The node that focus_node() and activate_node() fall back on: the focus  *)
(* of the desktop, else the newest of its history, which is some node g.   *)
Fallback(s, d, g) == IF s.focus[d] # {} THEN s.focus[d] ELSE g

(* Bug: the windows that occlude n are demoted only where n had the focus. *)
RevealSameNode(s, d, n) ==
  IF s.focus[d] = n THEN Neutralize(s, d, n) ELSE s

Reveal(s, d, n) ==
  IF s.focus[d] \notin {{}, n} THEN Neutralize(s, d, n) ELSE s

(* focus_node() and activate_node(); the node is {} on an empty desktop.   *)
FocusNode(s, d, n) ==
  Stack([Reveal(s, d, n) EXCEPT !.cur = d, !.focus[d] = n], n, TRUE)

ActivateNode(s, d, n) ==
  IF d = s.cur THEN s
  ELSE [Stack(Reveal(s, d, n), n, TRUE) EXCEPT !.focus[d] = n]

FocusOrActivate(s, d, n) ==
  IF d = s.cur THEN FocusNode(s, d, n) ELSE ActivateNode(s, d, n)

(* What unlink_node() may leave in the focus of the desktop: nothing, if   *)
(* the focus is in n or is the parent that goes with n.                    *)
FocusWithout(s, d, n) ==
  LET f == s.focus[d]
  IN CASE f \subseteq n \/ (n \subseteq f /\ Cardinality(f \ n) = 1) -> {{}}
       [] n \subseteq f /\ Cardinality(f \ n) > 1 -> {{}, f \ n}
       [] OTHER -> {f}

Unlink(s, d, n, left) ==
  [s EXCEPT !.desk = [w \in Window |-> IF w \in n THEN None ELSE @[w]],
            !.focus[d] = left]

(* insert_node() gives a desktop without focus the node it inserts.        *)
Insert(s, d, n) ==
  [s EXCEPT !.desk = [w \in Window |-> IF w \in n THEN d ELSE @[w]],
            !.focus[d] = IF @ = {} THEN n ELSE @]

(* The nodes the history of the desktop may offer.                         *)
Newest(s, d) == IF Root(s, d) = {} THEN {{}} ELSE Nodes(s, d)

(* transfer_node(): left tells what unlink_node() left in the focus of the *)
(* old desktop, g what the history of the old desktop offers.              *)
Held(s, d, n) == s.focus[d] # {} /\ s.focus[d] \subseteq n

Relink(s, ds, n, dd, left) ==
  Stack(Insert(Unlink(s, ds, n, left), dd, n), n, FALSE)

TransferWithin(s, d, n, left) ==
  LET in == Relink(s, d, n, d, left)
  IN IF Held(s, d, n) THEN FocusOrActivate(in, d, s.focus[d]) ELSE in

(* What happens to the old desktop, and then to the new one.               *)
LeaveOld(in, s, ds, n, dd, follow, g) ==
  IF ~Held(s, ds, n) THEN in
  ELSE IF ~follow THEN FocusOrActivate(in, ds, Fallback(in, ds, g))
  ELSE ActivateNode(IF ds = s.cur THEN FocusNode(in, dd, s.focus[ds]) ELSE in,
                    ds, Fallback(in, ds, g))

ReachNew(gone, s, ds, n, dd, follow) ==
  IF gone.focus[dd] = n /\ ~(Held(s, ds, n) /\ follow /\ ds = s.cur)
  THEN FocusOrActivate(gone, dd, IF Held(s, ds, n) THEN s.focus[ds] ELSE n)
  ELSE gone

TransferAcross(s, ds, n, dd, follow, left, g) ==
  LET in == Relink(s, ds, n, dd, left)
  IN ReachNew(LeaveOld(in, s, ds, n, dd, follow, g), s, ds, n, dd, follow)

-----------------------------------------------------------------------------
Init ==
  /\ desk = [w \in Window |-> None]
  /\ layer = [w \in Window |-> "normal"]
  /\ state = [w \in Window |-> "tiled"]
  /\ last = [w \in Window |-> "tiled"]
  /\ stacking = <<>>
  /\ focus = [d \in Desktop |-> {}]
  /\ cur \in Desktop

(* bspc node -l and bspc node -t                                           *)
ChangeLayer(w, ly) ==
  /\ desk[w] # None
  /\ layer[w] # ly
  /\ Becomes(SetLayer(World, desk[w], w, ly))

ChangeState(w, v) ==
  /\ desk[w] # None
  /\ state[w] # v
  /\ Becomes(SetState(World, desk[w], w, v))

(* bspc node -f, bspc desktop -f, a click, a request for the focus         *)
Focus(d, n) ==
  /\ n \in Newest(World, d)
  /\ Becomes(FocusNode(World, d, n))

(* bspc node -a, bspc desktop -a                                           *)
Activate(d, n) ==
  /\ d # cur
  /\ n \in Newest(World, d)
  /\ Becomes(ActivateNode(World, d, n))

(* motion_notify() turns auto_raise off while it focuses the window under  *)
(* the pointer, or, where there is none, the desktop.                      *)
PointerMove(d) ==
  LET quiet == [World EXCEPT !.autoRaise = FALSE]
  IN /\ PointerFocus
     /\ \/ \E w \in Root(World, d) :
             {w} # focus[cur] /\ Becomes(FocusNode(quiet, d, {w}))
        \/ /\ d # cur
           /\ \E g \in Newest(World, d) :
                Becomes(FocusNode(quiet, d, Fallback(World, d, g)))

(* manage_window(): a new client enters its layer and its state before it  *)
(* is in the list.                                                         *)
Manage(w, d, ly, v, takesFocus, follow) ==
  /\ desk[w] = None
  /\ follow => takesFocus
  /\ LET s == SetState(Insert([World EXCEPT !.layer[w] = ly], d, {w}), d, w, v)
     IN Becomes(IF ~takesFocus THEN Stack(s, {w}, FALSE)
                ELSE IF follow THEN FocusNode(s, d, {w})
                ELSE FocusOrActivate(s, d, {w}))

(* unmanage_window(), with remove_node().  The client is freed: its fields *)
(* take the values the next client of the window starts with.              *)
Unmanage(w) ==
  /\ desk[w] # None
  /\ LET d == desk[w]
     IN \E left \in FocusWithout(World, d, {w}) :
          LET s == [Unlink(World, d, {w}, left) EXCEPT
                      !.stacking = Without(@, w), !.layer[w] = "normal",
                      !.state[w] = "tiled", !.last[w] = "tiled"]
          IN \E g \in Newest(s, d) :
               Becomes(IF left = {} THEN FocusOrActivate(s, d, g) ELSE s)

(* bspc node -n, within a desktop, and -d, -m, -n, to another one; follow  *)
(* changes nothing unless the focused node goes.                           *)
Move(d, n) ==
  /\ n \in Nodes(World, d) \ {Root(World, d)}
  /\ \E left \in FocusWithout(World, d, n) :
       Becomes(TransferWithin(World, d, n, left))

Send(ds, n, dd, follow) ==
  /\ n \in Nodes(World, ds)
  /\ ds # dd
  /\ follow => ds = cur /\ Held(World, ds, n)
  /\ \E left \in FocusWithout(World, ds, n) :
       \E g \in Newest(Unlink(World, ds, n, left), ds) :
         Becomes(TransferAcross(World, ds, n, dd, follow, left, g))

Next ==
  \/ \E w \in Window, ly \in Layer : ChangeLayer(w, ly)
  \/ \E w \in Window, v \in State : ChangeState(w, v)
  \/ \E d \in Desktop, n \in SUBSET Window : Focus(d, n)
  \/ \E d \in Desktop, n \in SUBSET Window : Activate(d, n)
  \/ \E d \in Desktop : PointerMove(d)
  \/ \E w \in Window, d \in Desktop, ly \in Layer, v \in State,
        takesFocus, follow \in BOOLEAN : Manage(w, d, ly, v, takesFocus, follow)
  \/ \E w \in Window : Unmanage(w)
  \/ \E d \in Desktop, n \in SUBSET Window : Move(d, n)
  \/ \E ds, dd \in Desktop, n \in SUBSET Window, follow \in BOOLEAN :
       Send(ds, n, dd, follow)

Spec == Init /\ [][Next]_vars

-----------------------------------------------------------------------------
TypeOK ==
  /\ desk \in [Window -> Desktop \union {None}]
  /\ layer \in [Window -> Layers]
  /\ state \in [Window -> State]
  /\ last \in [Window -> State]
  /\ stacking \in Seq(Window)
  /\ focus \in [Desktop -> SUBSET Window]
  /\ cur \in Desktop

(* The variables have their types; and whatever the handlers do to it, the *)
(* list holds every client, once, and nothing else, when a handler has     *)
(* ended: stack() skips floating windows while auto_raise is off, yet no   *)
(* client ever escapes the list.                                           *)
ListComplete ==
  /\ TypeOK
  /\ Unique(stacking)
  /\ \A w \in Window : w \in Listed(stacking) <=> desk[w] # None

(* In each layer, tiled lies under floating under fullscreen, and the      *)
(* layers lie in their order (doc/bspwm.1.asciidoc, Stacking Layers).      *)
Sorted == Ordered(stacking, Level(World))

(* focus_node() and activate_node() leave no fullscreen window of the      *)
(* desktop over the node that takes the focus from another one; and the    *)
(* node that focus_node() gives it ends up over all the windows that are   *)
(* not of a higher level, those of other desktops included.                *)
FocusReveals ==
  [][/\ \A d \in Desktop :
          LET n == focus'[d]
              occluded == \E f \in n, a \in Root(World, d) :
                a # f /\ state'[a] = "fullscreen" /\ Level(World)'[f] < Level(World)'[a]
          IN focus[d] \notin {{}, n} /\ occluded
               => ~(Focus(d, n) \/ Activate(d, n))
     /\ LET n == focus'[cur']
            covered == \E f \in n, w \in Listed(stacking) \ n :
              Level(World)'[w] <= Level(World)'[f] /\ ~Under(stacking', w, f)
        IN Sorted' /\ covered => ~Focus(cur', n)]_vars

(* A window changes state without a command of its own only by leaving the *)
(* fullscreen state for the one it had before.                             *)
OnlyFullscreenDemoted ==
  [][\A w \in Window :
       desk[w] # None /\ desk'[w] # None /\ state'[w] # state[w] =>
         \/ ChangeState(w, state'[w])
         \/ /\ state[w] = "fullscreen"
            /\ state'[w] = last[w]
            /\ last'[w] = "fullscreen"]_vars

(* A step spoils the order only when the focused window changes level and  *)
(* another window's level changes with it, or when a pointer motion takes  *)
(* a window, that stack() then skips, from the fullscreen state to the     *)
(* floating one.                                                           *)
OrderKept ==
  [][Sorted /\ ~Sorted' =>
       \/ \E w, v \in Listed(stacking) \cap Listed(stacking') :
            /\ w # v
            /\ focus[desk[w]] = {w}
            /\ Level(World)'[w] # Level(World)[w]
            /\ Level(World)'[v] # Level(World)[v]
       \/ /\ \E d \in Desktop : PointerMove(d)
          /\ \E v \in Window : state[v] = "fullscreen" /\ state'[v] = "floating"]_vars
=============================================================================
