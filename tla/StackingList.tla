---------------------------- MODULE StackingList ----------------------------
(***************************************************************************)
(* The stacking list as a component: the operations of stack.c on one      *)
(* leaf, under the protocol its callers are meant to follow, beside the    *)
(* stacking order of the X server.                                         *)
(*                                                                         *)
(* The protocol: a caller that changes the layer or the state of a listed  *)
(* window restacks that window before it touches the list again.  Module   *)
(* Stacking models the callers and shows where they depart from it.        *)
(***************************************************************************)
EXTENDS StackOrder

CONSTANTS Window,    \* the X windows that may become clients
          None       \* no window

ASSUME WindowAssumption == IsFiniteSet(Window) /\ None \notin Window

VARIABLES managed,   \* the windows that have a client_t
          layer,     \* client_t.layer
          state,     \* client_t.state
          stacking,  \* the list from stack_head to stack_tail
          server,    \* the X server's order of all the windows, bottom first
          unsettled  \* the listed window whose level changed since it was stacked

vars == <<managed, layer, state, stacking, server, unsettled>>

Level == [w \in Window |-> StackLevel(layer[w], state[w])]

Init ==
  /\ managed = {}
  /\ layer = [w \in Window |-> "normal"]
  /\ state = [w \in Window |-> "tiled"]
  /\ stacking = <<>>
  /\ server \in {x \in [1..Cardinality(Window) -> Window] :
                   Unique(x) /\ Listed(x) = Window}
  /\ unsettled = None

(* make_client(): a new client is tiled, in the normal layer, and not yet  *)
(* in the list.                                                            *)
MakeClient(w) ==
  /\ w \notin managed
  /\ unsettled = None
  /\ managed' = managed \union {w}
  /\ layer' = [layer EXCEPT ![w] = "normal"]
  /\ state' = [state EXCEPT ![w] = "tiled"]
  /\ UNCHANGED <<stacking, server, unsettled>>

(* The assignments of set_layer() and set_state() that move a window to    *)
(* another level.                                                          *)
ChangeLevel(w, ly, st) ==
  /\ w \in managed
  /\ unsettled = None
  /\ <<ly, st>> # <<layer[w], state[w]>>
  /\ layer' = [layer EXCEPT ![w] = ly]
  /\ state' = [state EXCEPT ![w] = st]
  /\ unsettled' = IF w \in Listed(stacking) THEN w ELSE None
  /\ UNCHANGED <<managed, stacking, server>>

(* One leaf in the loop of stack(): a floating window keeps its place      *)
(* while auto_raise is off.                                                *)
StackLeaf(w, focused, autoRaise) ==
  /\ w \in managed
  /\ unsettled \in {None, w}
  /\ ~(state[w] = "floating" /\ ~autoRaise)
  /\ stacking' = StackList(stacking, Level, w, focused)
  /\ server' = StackServer(server, stacking, Level, w, focused)
  /\ unsettled' = None
  /\ UNCHANGED <<managed, layer, state>>

(* Bug: remove_node() frees the client and leaves its cell in the list.    *)
RemoveLeafKeepsCell(w) ==
  /\ w \in managed
  /\ unsettled \in {None, w}
  /\ managed' = managed \ {w}
  /\ unsettled' = None
  /\ UNCHANGED <<stacking, layer, state, server>>

(* remove_stack_node() on a leaf, as remove_node() calls it before it      *)
(* frees the client.                                                       *)
RemoveLeaf(w) ==
  /\ w \in managed
  /\ unsettled \in {None, w}
  /\ stacking' = Without(stacking, w)
  /\ managed' = managed \ {w}
  /\ unsettled' = None
  /\ UNCHANGED <<layer, state, server>>

(* configure_request() passes the request of a window that is not managed  *)
(* on to the X server, which restacks it.                                  *)
ForeignRestack(w, a) ==
  /\ w \notin managed
  /\ a # w
  /\ \/ server' = InsertAfter(server, a, w)
     \/ server' = InsertBefore(server, a, w)
  /\ UNCHANGED <<managed, layer, state, stacking, unsettled>>

Next ==
  \E w \in Window :
    \/ MakeClient(w)
    \/ \E ly \in Layers, st \in States : ChangeLevel(w, ly, st)
    \/ \E focused, autoRaise \in BOOLEAN : StackLeaf(w, focused, autoRaise)
    \/ RemoveLeaf(w)
    \/ \E a \in Window : ForeignRestack(w, a)

Spec == Init /\ [][Next]_vars

-----------------------------------------------------------------------------
(* The variables keep their types, and the X server orders every window    *)
(* exactly once.                                                           *)
TypeOK ==
  /\ managed \subseteq Window
  /\ layer \in [Window -> Layers]
  /\ state \in [Window -> States]
  /\ stacking \in Seq(Window)
  /\ server \in Seq(Window)
  /\ unsettled \in Window \union {None}

(* Every window is at most once in the list and at most once on the X      *)
(* server, every window of the list is a client that has not been freed,   *)
(* and the X server knows it: remove_node() leaves no dangling cell behind *)
(* and stack_insert_*() no second one.                                     *)
ListSound ==
  /\ Unique(stacking)
  /\ Unique(server)
  /\ Listed(stacking) \subseteq managed
  /\ Listed(server) = Window

(* The list is what the X server shows: two listed windows are in the same *)
(* order in stack.c's list and on the screen, although the only requests   *)
(* sent are "w above a" and "w below a".                                   *)
ServerAgrees ==
  \A v, w \in Window : Under(stacking, v, w) => Under(server, v, w)

(* Under the protocol the list is ordered by level whenever no window is   *)
(* waiting to be restacked: tiled below floating below fullscreen in each  *)
(* layer, and the layers in their order.                                   *)
SettledOrder == unsettled = None => Ordered(stacking, Level)

(* stack() with focused set puts the window over every window of its level *)
(* and of the lower ones; without it, under every window of its level and  *)
(* of the higher ones.                                                     *)
PlacedAsAsked ==
  [][\A w \in Window, focused \in BOOLEAN :
       StackLeaf(w, focused, TRUE) =>
         \A v \in Listed(stacking) \ {w} :
           /\ focused /\ Level[v] <= Level[w] => Under(stacking', v, w)
           /\ ~focused /\ Level[v] >= Level[w] => Under(stacking', w, v)]_vars
=============================================================================
