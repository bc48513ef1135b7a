-------------------------------- MODULE Trees --------------------------------
(***************************************************************************)
(* What the nodes of the window trees say of themselves: hidden, vacant,   *)
(* the state of the windows (tiled or not), preselections, and the focus   *)
(* of each desktop, under the handlers that change them or move nodes.     *)
(* The pointers, and what may become of them, are those of TreeLinks.      *)
(*                                                                         *)
(* Where history_last_node() is asked, any node that it may return is      *)
(* allowed, and for a private anchor any leaf that is not vacant.  The     *)
(* monitors and the sticky windows are those of Screens.  The turns of     *)
(* rotate_tree() and flip_tree(), which read and set none of this, are     *)
(* left out.                                                               *)
(***************************************************************************)
EXTENDS Naturals, FiniteSets, Sequences, SequencesExt

CONSTANTS Node, Desktop, None,
          PreselBound   \* a bound on the preselections that there are at once

ASSUME TreesAssumption == PreselBound \in Nat

VARIABLES links,    \* the pointers
          hidden,   \* node_t.hidden
          vacant,   \* node_t.vacant
          tiled,    \* the windows that are tiled or pseudo-tiled
          presel,   \* the nodes with a preselection
          focus,    \* desktop_t.focus
          here,     \* mon->desk, the focused desktop
          loose     \* history variable: desktops whose focus was mislaid

vars == <<links, hidden, vacant, tiled, presel, focus, here, loose>>

T == INSTANCE TreeLinks

State == [links |-> links, hidden |-> hidden, vacant |-> vacant, tiled |-> tiled,
          presel |-> presel, focus |-> focus, here |-> here, loose |-> loose]

Becomes(S) ==
  \E s \in S :
    /\ links' = s.links
    /\ hidden' = s.hidden
    /\ vacant' = s.vacant
    /\ tiled' = s.tiled
    /\ presel' = s.presel
    /\ focus' = s.focus
    /\ here' = s.here
    /\ loose' = s.loose

(* The nodes above a node, those below it with itself, those of a tree.    *)
RECURSIVE Above(_, _), Branch(_, _)
Above(t, n) == IF t.parent[n] = None THEN {} ELSE {t.parent[n]} \union Above(t, t.parent[n])
Branch(t, n) ==
  IF T!IsLeaf(t, n) THEN {n} ELSE {n} \union Branch(t, t.first[n]) \union Branch(t, t.second[n])
TreeOf(t, d) == IF t.root[d] = None THEN {} ELSE Branch(t, t.root[d])

(* is_focusable()                                                          *)
Focusable(s, n) ==
  n \in s.links.alive /\ \E x \in Branch(s.links, n) : x \in s.links.window \ s.hidden

-----------------------------------------------------------------------------
(* The flags F when the nodes above S take theirs from their children, from*)
(* the lowest to the root.                                                 *)
Recomputed(t, F, S) ==
  LET A == UNION {Above(t, x) : x \in S}
  IN (F \ A) \union
     {p \in A : \A x \in Branch(t, p) \ A : t.parent[x] \in A => x \in F}

(* set_vacant_local(): a node that becomes vacant loses its preselection.  *)
WithVacant(s, V) == [s EXCEPT !.vacant = V, !.presel = @ \ (V \ s.vacant)]

(* propagate_flags_upward()                                                *)
PropagateFlags(s, n) ==
  [WithVacant(s, Recomputed(s.links, s.vacant, {n})) EXCEPT
     !.hidden = Recomputed(s.links, s.hidden, {n})]

(* set_vacant(), of a leaf.                                                *)
SetVacant(s, n, value) ==
  LET u == WithVacant(s, IF value THEN s.vacant \union {n} ELSE s.vacant \ {n})
  IN IF (n \in s.vacant) = value THEN s
     ELSE WithVacant(u, Recomputed(u.links, u.vacant, {n}))

(* set_state(), as far as tiled and not tiled are concerned.               *)
SetState(s, n, value) ==
  LET u == [s EXCEPT !.tiled = IF value THEN @ \union {n} ELSE @ \ {n},
                     !.presel = @ \ {n}]
  IN CASE (n \in s.tiled) = value -> s
       [] (n \in s.tiled) # value /\ n \in s.hidden -> u
       [] OTHER -> SetVacant(u, n, ~value)

(* The end of focus_node() and activate_node().  A focus that was mislaid  *)
(* and freed, its address used again elsewhere, stays mislaid.             *)
FocusAt(s, d, n) ==
  [s EXCEPT !.focus[d] = n,
            !.loose = IF n \in TreeOf(s.links, d) \union {None} THEN @ \ {d} ELSE @]

(* The focus of a desktop stays NULL although a node of it could be focused*)
Mislaid(s, d) ==
  IF s.focus[d] = None /\ \E x \in TreeOf(s.links, d) : Focusable(s, x)
  THEN [s EXCEPT !.loose = @ \union {d}] ELSE s

(* history_last_node(): a node that was focused once, which receptacles    *)
(* never are.  Only its own flag is read: an internal node with a hidden   *)
(* window and a receptacle may be returned.                                *)
Remembered(s, d) ==
  {x \in TreeOf(s.links, d) \ s.hidden : ~T!IsReceptacle(s.links, x)}

(* The node that focus_node() and activate_node() are about: the one given,*)
(* the focus that there is, the last one or else the first focusable leaf. *)
Meant(s, d, n) ==
  LET leaf == {x \in TreeOf(s.links, d) : T!IsLeaf(s.links, x) /\ Focusable(s, x)}
  IN CASE n # None \/ s.links.root[d] = None -> {n}
       [] n = None /\ s.links.root[d] # None /\ s.focus[d] # None -> {s.focus[d]}
       [] OTHER -> Remembered(s, d) \union (IF leaf = {} THEN {None} ELSE leaf)

(* focus_node(): a node that cannot be focused changes nothing.            *)
FocusNode(s, d, n) ==
  {IF x = None \/ Focusable(s, x) THEN [FocusAt(s, d, x) EXCEPT !.here = d] ELSE Mislaid(s, d) :
     x \in Meant(s, d, n)}

(* activate_node(): likewise, and the focused desktop is left as it is.    *)
ActivateNode(s, d, n) ==
  IF d = s.here THEN {s}
  ELSE {IF x = None \/ Focusable(s, x) THEN FocusAt(s, d, x) ELSE Mislaid(s, d) :
          x \in Meant(s, d, n)}

(* What most handlers do: focus_node() on the focused desktop.             *)
Refocus(s, d, n) == IF d = s.here THEN FocusNode(s, d, n) ELSE ActivateNode(s, d, n)

(* Bug: neither the layout nor the focus is told.                          *)
BugSetHidden(s, d, n, value) ==
  LET all == Branch(s.links, n)
      flagged == [s EXCEPT !.hidden = IF value THEN @ \union all ELSE @ \ all]
  IN {[flagged EXCEPT !.hidden = Recomputed(s.links, @, {n})]}

(* set_hidden(): the flag goes down, the tiled windows become vacant, the  *)
(* nodes above take their flags from below, and the focus moves if it was  *)
(* in the branch, or if there was none.                                    *)
SetHidden(s, d, n, value) ==
  LET all == Branch(s.links, n)
      changed == {x \in all \intersect s.tiled : (x \in s.hidden) # value}
      moved == {x \in changed : (x \in s.vacant) # value}
      flagged == [s EXCEPT !.hidden = IF value THEN @ \union all ELSE @ \ all]
      left == WithVacant(flagged, IF value THEN s.vacant \union moved ELSE s.vacant \ moved)
      up == WithVacant(left, Recomputed(s.links, left.vacant, moved))
      done == [up EXCEPT !.hidden = Recomputed(s.links, @, {n})]
  IN CASE (n \in s.hidden) = value -> {s}
       [] (n \in s.hidden) # value /\ s.focus[d] \notin all \union {None} -> {done}
       [] OTHER -> Refocus([done EXCEPT !.focus[d] = None], d, None)

-----------------------------------------------------------------------------
(* free(): nothing that was said of a freed node is read again.            *)
Drop(s, t) ==
  [s EXCEPT !.links = t, !.hidden = @ \intersect t.alive, !.vacant = @ \intersect t.alive,
            !.tiled = @ \intersect t.alive, !.presel = @ \intersect t.alive]

(* malloc(): a free address, and all of them are alike.                    *)
Fresh(t) == IF t.alive = Node THEN {} ELSE {CHOOSE c \in Node : c \notin t.alive}

(* insert_node() at x: with the scheme SPIRAL the parent is split.         *)
Splits(s, d, n, x) ==
  LET t == s.links
      p == t.parent[x]
      spiral == x \notin s.presel /\ p # None
  IN {T!Split(t, d, n, x, c, b) : c \in Fresh(t), b \in BOOLEAN}
       \union (IF spiral THEN {T!Split(t, d, n, p, c, t.first[p] = x) : c \in Fresh(t)} ELSE {})

Inserted(s, d, n, f) ==
  LET a == T!Anchor(s.links, d, f)
      public == {x \in TreeOf(s.links, d) \ s.vacant : T!IsLeaf(s.links, x)}
      Ended(u) ==
        LET v == PropagateFlags(u, n)
        IN IF v.focus[d] = None /\ Focusable(v, n) THEN FocusAt(v, d, n) ELSE v
      SplitUp(x) == {[Drop(s, t) EXCEPT !.presel = @ \ {x}] : t \in Splits(s, d, n, x)}
  IN {Ended(u) : u \in
        CASE a = None -> {[s EXCEPT !.links.root[d] = n]}
          [] a # None /\ T!IsReceptacle(s.links, a) /\ a \notin s.presel ->
               {Drop(s, T!TakePlace(s.links, d, n, a))}
          [] OTHER -> UNION {SplitUp(x) : x \in {a} \union (IF a \in s.presel THEN {} ELSE public)}}

(* The brother takes the place of the parent.                              *)
BrotherUp(t, d, n) ==
  LET p == t.parent[n]
  IN T!Free([T!Replace(t, d, p, T!Brother(t, n)) EXCEPT !.parent[n] = None], {p})

(* Bug: the parent that goes is not looked for in the focus.               *)
BugUnlinked(s, d, n) ==
  LET p == s.links.parent[n]
      focused == [s EXCEPT !.focus[d] = IF @ \in Branch(s.links, n) THEN None ELSE @]
  IN IF p = None THEN [focused EXCEPT !.links.root[d] = None]
     ELSE PropagateFlags(Drop(focused, BrotherUp(s.links, d, n)), T!Brother(s.links, n))

(* unlink_node()                                                           *)
Unlinked(s, d, n) ==
  LET p == s.links.parent[n]
      gone == Branch(s.links, n) \union {p}
      focused == [s EXCEPT !.focus[d] = IF @ \in gone THEN None ELSE @]
  IN IF p = None THEN [focused EXCEPT !.links.root[d] = None]
     ELSE PropagateFlags(Drop(focused, BrotherUp(s.links, d, n)), T!Brother(s.links, n))

(* The pointers and flags in swap_nodes(): n1 first, then n2.              *)
Swapped(s, d1, n1, d2, n2) ==
  PropagateFlags(PropagateFlags([s EXCEPT !.links = T!Swapped(@, d1, n1, d2, n2)], n1), n2)

(* The leaves from first_extrema(), in the order of next_leaf().           *)
RECURSIVE Leaves(_, _)
Leaves(t, n) ==
  IF T!IsLeaf(t, n) THEN <<n>> ELSE Leaves(t, t.first[n]) \o Leaves(t, t.second[n])

(* Bug: the windows that take no space are passed like the others.         *)
BugCirculated(s, d, n, forward) ==
  LET leaves == SelectSeq(Leaves(s.links, n), LAMBDA x : x \in s.links.window)
      order == IF forward THEN Reverse(leaves) ELSE leaves
  IN FoldLeft(LAMBDA u, x : Swapped(u, d, x, d, order[1]), s, Tail(order))

(* The swaps of circulate_leaves(), the last tiled leaf passing the others *)
(* one by one, or the first one.  If it takes no space it passes one, and  *)
(* the next one passes those that remain.                                  *)
Circulated(s, d, n, forward) ==
  LET leaves == Leaves(s.links, n)
      order == IF forward THEN Reverse(leaves) ELSE leaves
      from == CHOOSE i \in DOMAIN order : order[i] \in s.tiled
                        /\ \A j \in 1..(i - 1) : order[j] \notin s.tiled
      others == SelectSeq(SubSeq(order, from + 1, Len(order)),
                          LAMBDA x : x \in s.links.window \ s.vacant)
      Pass(u, e, line) == FoldLeft(LAMBDA v, x : Swapped(v, d, x, d, e), u, line)
  IN IF order[from] \notin s.vacant THEN Pass(s, order[from], others)
     ELSE Pass(Pass(s, order[from], SubSeq(others, 1, 1)), others[2], SubSeq(others, 3, Len(others)))

-----------------------------------------------------------------------------
(* The anchors that callers give; NULL stands for the root.                *)
AnchorsOf(d) == IF links.root[d] = None THEN {None} ELSE TreeOf(links, d)

(* The handlers.  manage_window(), with the anchor, state and flag that    *)
(* the rules gave: the window is vacant while it is inserted if it will be.*)
(* A hidden window does not take the focus, others unless the rules forbid *)
(* it, and follow is read if it does.                                      *)
Manage(d, n, f, isTiled, isHidden, takesFocus, follow) ==
  LET made == [State EXCEPT !.links = [T!Make(@, n) EXCEPT !.window = @ \union {n}],
                            !.tiled = @ \union {n},
                            !.vacant = IF isTiled /\ ~isHidden THEN @ ELSE @ \union {n}]
      Stated(u) == SetState([u EXCEPT !.vacant = @ \ {n}], n, isTiled)
      Focused(u) ==
        CASE ~takesFocus -> {u}
          [] takesFocus /\ follow -> FocusNode(u, d, n)
          [] OTHER -> Refocus(u, d, n)
  IN /\ n \in Fresh(links)
     /\ takesFocus => ~isHidden
     /\ follow => takesFocus
     /\ f \in AnchorsOf(d)
     /\ Becomes(UNION {UNION {Focused(v) : v \in SetHidden(Stated(u), d, n, isHidden)} :
                         u \in Inserted(made, d, n, f)})

(* insert_receptacle()                                                     *)
InsertReceptacle(d, n, f) ==
  /\ n \in Fresh(links)
  /\ f \in AnchorsOf(d)
  /\ Becomes(Inserted([State EXCEPT !.links = T!Make(@, n)], d, n, f))

(* remove_node(), of a window or a receptacle.                             *)
Unmanage(d, n) ==
  /\ n \in TreeOf(links, d) /\ T!IsLeaf(links, n)
  /\ LET out == Unlinked(State, d, n)
         gone == Drop(out, T!Freed(out.links, n))
     IN Becomes(IF gone.focus[d] = None THEN Refocus(gone, d, None) ELSE {gone})

(* transfer_node().  When the focus moved to another desktop and is to be  *)
(* followed, activate_node() finds the focus that ds gets; if focus_node() *)
(* could not follow, ds is still the focused desktop and gets none.        *)
Transfer(ds, n, dd, f, follow) ==
  LET last == focus[ds]
      held == last \in Branch(links, n)
      out == Unlinked(State, ds, n)
      moved == Inserted(IF out.focus[ds] # last /\ ~held THEN Mislaid(out, ds) ELSE out, dd, n, f)
      Followed(u) == IF ds = here THEN FocusNode(u, dd, last) ELSE {u}
      Left(u) ==
        CASE ~held -> {u}
          [] held /\ follow ->
               UNION {{Mislaid(w, ds) : w \in ActivateNode(v, ds, None)} : v \in Followed(u)}
          [] OTHER -> Refocus(u, ds, None)
      Taken(u) == IF ~(held /\ follow /\ ds = here) /\ u.focus[dd] = n
                  THEN Refocus(u, dd, IF held THEN last ELSE n) ELSE {u}
  IN /\ n \in TreeOf(links, ds)
     /\ f \in AnchorsOf(dd)
     /\ f \notin Branch(links, n)
     /\ f # None => links.parent[n] # f
     /\ follow => ds # dd /\ held   \* it is read only then
     /\ Becomes(IF ds = dd
                THEN UNION {IF held THEN Refocus(u, ds, last) ELSE {u} : u \in moved}
                ELSE UNION {UNION {Taken(v) : v \in Left(u)} : u \in moved})

(* swap_nodes()                                                            *)
Swap(d1, n1, d2, n2, follow) ==
  LET held1 == focus[d1] \in Branch(links, n1)
      held2 == focus[d2] \in Branch(links, n2)
      f1 == IF held2 THEN focus[d2] ELSE n2
      f2 == IF held1 THEN focus[d1] ELSE n1
      swapped == Swapped(State, d1, n1, d2, n2)
      Put(u, held, d, f) ==
        CASE ~held -> Mislaid(u, d)
          [] held /\ T!IsLeaf(u.links, f) /\ ~Focusable(u, f) ->
               [u EXCEPT !.focus[d] = f, !.loose = @ \union {d}]
          [] OTHER -> [u EXCEPT !.focus[d] = f]
      put == Put(Put(swapped, held1, d1, f1), held2, d2, f2)
      Shift(u, held, d, other, last) ==
        CASE ~held -> {u}
          [] held /\ d = here /\ follow -> FocusNode(u, other, last)
          [] held /\ d = here /\ ~follow -> FocusNode(u, d, u.focus[d])
          [] OTHER -> ActivateNode(u, d, u.focus[d])
  IN /\ follow => d1 # d2 /\ (held1 \/ held2)   \* likewise
     /\ n1 \in TreeOf(links, d1) /\ n2 \in TreeOf(links, d2)
     /\ n1 # n2 /\ n1 \notin Above(links, n2) /\ n2 \notin Above(links, n1)
     /\ Becomes(IF d1 = d2 THEN {swapped}
                ELSE UNION {Shift(u, held2, d2, d1, focus[d2]) :
                              u \in Shift(put, held1, d1, d2, focus[d1])})

(* circulate_leaves(): the focus stays where it is, on another window.     *)
Circulate(d, n, forward) ==
  LET p == links.parent[focus[d]]
      u == Circulated(State, d, n, forward)
      there == IF links.first[p] = focus[d] THEN u.links.first[p] ELSE u.links.second[p]
  IN /\ n \in TreeOf(links, d)
     /\ Cardinality((Branch(links, n) \intersect tiled) \ hidden) > 1
     /\ focus[d] \in links.alive
     /\ Becomes(IF p # None /\ T!IsLeaf(u.links, there) THEN Refocus(u, d, there) ELSE {u})

(* The commands on a node: hidden, state, preselection and focus.          *)
Hide(d, n) == n \in TreeOf(links, d) /\ Becomes(SetHidden(State, d, n, n \notin hidden))
ChangeState(n) == n \in links.window /\ Becomes({SetState(State, n, n \notin tiled)})
Preselect(n) ==
  /\ n \in links.alive \ vacant
  /\ n \in presel \/ Cardinality(presel) < PreselBound
  /\ Becomes({[State EXCEPT !.presel = IF n \in @ THEN @ \ {n} ELSE @ \union {n}]})
Focus(d, n) ==
  /\ n \in TreeOf(links, d) \union {None}
  /\ Becomes(FocusNode(State, d, n))
Activate(d, n) ==
  /\ n \in TreeOf(links, d) \union {None}
  /\ Becomes(ActivateNode(State, d, n))

-----------------------------------------------------------------------------
Init ==
  /\ T!Init
  /\ hidden = {} /\ vacant = {} /\ tiled = {} /\ presel = {} /\ loose = {}
  /\ focus = [d \in Desktop |-> None]
  /\ here \in Desktop

Next ==
  \/ \E d \in Desktop, n \in Fresh(links), f \in links.alive \union {None} :
       \/ InsertReceptacle(d, n, f)
       \/ \E isTiled, isHidden, takesFocus, follow \in BOOLEAN :
            Manage(d, n, f, isTiled, isHidden, takesFocus, follow)
  \/ \E d \in Desktop, n \in links.alive : Unmanage(d, n) \/ Hide(d, n)
  \/ \E d \in Desktop, n \in links.alive \union {None} : Focus(d, n) \/ Activate(d, n)
  \/ \E n \in links.alive : ChangeState(n) \/ Preselect(n)
  \/ \E ds, dd \in Desktop, n \in links.alive, f \in links.alive \union {None}, follow \in BOOLEAN :
       Transfer(ds, n, dd, f, follow)
  \/ \E d1, d2 \in Desktop, n1, n2 \in links.alive, follow \in BOOLEAN : Swap(d1, n1, d2, n2, follow)
  \/ \E d \in Desktop, n \in links.alive, forward \in BOOLEAN : Circulate(d, n, forward)

Spec == Init /\ [][Next]_vars

-----------------------------------------------------------------------------
(* Type correctness: nothing is said of a node that was freed.             *)
TypeOK ==
  /\ T!TypeOK
  /\ hidden \union vacant \union presel \subseteq links.alive
  /\ tiled \subseteq links.window
  /\ focus \in [Desktop -> Node \union {None}]
  /\ here \in Desktop
  /\ loose \subseteq Desktop

FlagsFromBelow ==
  \A n \in links.alive :
    CASE n \in links.window -> n \in vacant <=> n \in hidden \/ n \notin tiled
      [] T!IsReceptacle(links, n) -> n \notin vacant
      [] OTHER ->
           LET children == {links.first[n], links.second[n]}
           IN /\ n \in vacant <=> children \subseteq vacant
              /\ n \in hidden <=> children \subseteq hidden

(* The variables have their types, and nothing is said of a freed node.    *)
(* A window takes no space in the layout just when it is hidden or not     *)
(* tiled, a receptacle always does, and the flags of an internal node are  *)
(* those that its two children share, after any mix of hiding, changes of  *)
(* state, insertions, transfers, swaps and removals.  And a node that takes*)
(* no space has no preselection: its feedback would cover another node.    *)
FlagsAgree ==
  /\ TypeOK
  /\ presel \intersect vacant = {}
  /\ FlagsFromBelow

(* The focus of a desktop is a node of its tree, never one that was freed *)
(* or went away.  If it is a leaf it has a window that is not hidden, and  *)
(* there is one if the desktop has a node to focus, unless it was mislaid  *)
(* since it was last set:                                                  *)
(* - a transfer took a child of the focus away, which frees the focus;     *)
(* - a transfer within the desktop moved the branch of the focus, when     *)
(*   that has no window to focus;                                          *)
(* - a transfer that was to be followed moved a focus like that, and       *)
(*   activate_node() leaves the desktop as it is still the focused one;    *)
(* - a swap brought windows to a desktop without a focus, or a leaf without*)
(*   a window to focus in the place of the focus: the next insertion frees *)
(*   it if it is a receptacle;                                             *)
(* - the history gave an internal node that has no window to focus.        *)
FocusKept ==
  \A d \in Desktop \ loose :
    IF focus[d] = None
    THEN \A x \in TreeOf(links, d) : ~Focusable(State, x)
    ELSE /\ focus[d] \in TreeOf(links, d)
         /\ T!IsLeaf(links, focus[d]) => Focusable(State, focus[d])

(* Circulating turns the tiled windows by one place and moves nothing else,*)
(* if the leaf that it starts from takes space.                            *)
CirculateTurns ==
  \A d \in Desktop : links.root[d] # None =>
    LET n == links.root[d]
        Shown(t) == SelectSeq(Leaves(t, n), LAMBDA x : x \in links.window \ vacant)
        others(t) == {<<x, t.parent[x]>> : x \in Branch(t, n) \ (links.window \ vacant)}
        before == Shown(links)
        t == Circulated(State, d, n, TRUE).links
        last == SelectSeq(Leaves(links, n), LAMBDA x : x \in tiled)
    IN Len(before) > 1 /\ Last(last) \notin vacant =>
         /\ Shown(t) = <<before[Len(before)]>> \o SubSeq(before, 1, Len(before) - 1)
         /\ others(t) = others(links)
=============================================================================
