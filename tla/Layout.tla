------------------------------- MODULE Layout -------------------------------
(***************************************************************************)
(* Where the windows of a desktop are: the split types, ratios and minimum *)
(* sizes of the nodes, the commands that change them, and the rectangles   *)
(* that arrange() gives to the nodes after each.                           *)
(*                                                                         *)
(* A node is a record that holds its children: the pointers of the tree,   *)
(* and what becomes of them, are the subject of TreeLinks.  An axis is     *)
(* named after the splits that cut it: the width is "vertical".  Ratios are*)
(* exact fractions, where the code has doubles; sizes are small enough not *)
(* to leave their 16 bits.  Gaps, paddings and borders, which are taken off*)
(* one rectangle alone, hidden windows, receptacles, private nodes and the *)
(* padding of the monocle layout are left out.                             *)
(***************************************************************************)
EXTENDS Integers, FiniteSets, Sequences, SequencesExt, FiniteSetsExt

CONSTANTS Window, None,
          Size,         \* width and height of the monitor
          MinSize,      \* MIN_WIDTH and MIN_HEIGHT
          Ratios,       \* ratios that commands ask for, as <<num, den>>
          Moves,        \* by how much a resize moves a side
          MaxTunings    \* a bound on the commands that set or move ratios

ASSUME LayoutAssumption ==
  /\ Size \in Nat \ {0} /\ MinSize \in Nat \ {0}
  /\ \A r \in Ratios : r[1] \in 1..(r[2] - 1)
  /\ Moves \subseteq Int /\ MaxTunings \in Nat

VARIABLES tree,      \* the root of the desktop with all below it, or None
          monocle,   \* the layout is LAYOUT_MONOCLE
          stale,     \* history variable: a brother was turned, see Without
          tunings    \* how many commands set or moved a ratio

vars == <<tree, monocle, stale, tunings>>

(* automatic_scheme, which bspc config may change at any time              *)
Schemes == {"longest_side", "alternate", "spiral"}

Axis == {"vertical", "horizontal"}
Other(s) == IF s = "vertical" THEN "horizontal" ELSE "vertical"
Vector(n) == [s \in Axis |-> n]
Screen == [at |-> Vector(0), size |-> Vector(Size)]
Larger(a, b) == IF a > b THEN a ELSE b
Smaller(a, b) == IF a < b THEN a ELSE b

RECURSIVE Gcd(_, _)
Gcd(a, b) == IF b = 0 THEN a ELSE Gcd(b, a % b)

(* num / den between 0 and 1; with den = 0, an infinity or not a number    *)
(* (<<0, 0>>).                                                             *)
Ratio(num, den) ==
  CASE den = 0 /\ num = 0 -> <<0, 0>>
    [] num < 0 -> <<0, 1>>
    [] num > den -> <<1, 1>>
    [] OTHER -> LET g == Gcd(num, den) IN <<num \div g, den \div g>>
Half == <<1, 2>>
Rest(r) == <<r[2] - r[1], r[2]>>

(* size * ratio, converted to an integer: what is not a number gives 0.    *)
Share(size, r) == IF r[2] = 0 THEN 0 ELSE (size * r[1]) \div r[2]

IsLeaf(t) == t.kids = <<>>

(* Paths from a node to those below it, what is there, and the tree with   *)
(* something else there.                                                   *)
RECURSIVE Paths(_), At(_, _), Put(_, _, _)
Paths(t) == {<<>>} \union UNION {{<<i>> \o p : p \in Paths(t.kids[i])} : i \in DOMAIN t.kids}
At(t, p) == IF p = <<>> THEN t ELSE At(t.kids[Head(p)], Tail(p))
Put(t, p, u) == IF p = <<>> THEN u ELSE [t EXCEPT !.kids[Head(p)] = Put(@, Tail(p), u)]
Nodes == IF tree = None THEN {} ELSE Paths(tree)

-----------------------------------------------------------------------------
(* make_node()                                                             *)
Leaf(w, takesSpace) ==
  [window |-> w, kids |-> <<>>, type |-> "vertical", ratio |-> Half,
   min |-> Vector(MinSize), vacant |-> ~takesSpace, rect |-> [Screen EXCEPT !.size = Vector(0)]]

(* Bug: the children are side by side in either direction.                 *)
BugUpdated(t) ==
  LET a == t.kids[1]
      b == t.kids[2]
  IN [t EXCEPT !.vacant = a.vacant /\ b.vacant, !.min = [s \in Axis |-> Larger(a.min[s], b.min[s])]]

(* Bug: a node takes no space if one of its children takes none.           *)
BugVacated(t) ==
  LET a == t.kids[1]
      b == t.kids[2]
  IN [t EXCEPT !.vacant = a.vacant \/ b.vacant,
               !.min = [s \in Axis |-> IF s = t.type THEN a.min[s] + b.min[s]
                                       ELSE Larger(a.min[s], b.min[s])]]

(* update_constraints(), and the flag vacant where it is updated with it.  *)
Updated(t) ==
  LET a == t.kids[1]
      b == t.kids[2]
  IN [t EXCEPT !.vacant = a.vacant /\ b.vacant,
               !.min = [s \in Axis |-> IF s = t.type THEN a.min[s] + b.min[s]
                                       ELSE Larger(a.min[s], b.min[s])]]

(* rebuild_constraints_towards_root(), propagate_flags_upward(): the nodes *)
(* above the path.                                                         *)
RECURSIVE Rebuilt(_, _)
Rebuilt(t, p) ==
  IF p = <<>> THEN t ELSE Updated([t EXCEPT !.kids[Head(p)] = Rebuilt(@, Tail(p))])

(* rebuild_constraints_from_leaves()                                       *)
RECURSIVE RebuiltBelow(_)
RebuiltBelow(t) ==
  IF IsLeaf(t) THEN t ELSE Updated([t EXCEPT !.kids = [i \in 1..2 |-> RebuiltBelow(@[i])]])

Replaced(t, p, u) == Rebuilt(Put(t, p, u), p)

Joined(s, ratio, a, b) ==
  Updated([Leaf(None, TRUE) EXCEPT !.kids = <<a, b>>, !.type = s, !.ratio = ratio])

-----------------------------------------------------------------------------
(* Where apply_layout() cuts: not where a child gets less than its minimum *)
(* size, if both can have it.                                              *)
Fence(size, asked, min1, min2) ==
  IF min1 + min2 > size THEN asked ELSE Larger(min1, Smaller(asked, size - min2))

Cut(rect, s, fence) ==
  <<[rect EXCEPT !.size[s] = fence],
    [rect EXCEPT !.at[s] = @ + fence, !.size[s] = @ - fence]>>

(* apply_layout(): a child that takes no space leaves all to its brother.  *)
RECURSIVE Arranged(_, _, _)
Arranged(t, rect, whole) ==
  LET a == t.kids[1]
      b == t.kids[2]
      s == t.type
      asked == Share(rect.size[s], t.ratio)
      fence == Fence(rect.size[s], asked, a.min[s], b.min[s])
      rects == Cut(rect, s, fence)
      placed == [t EXCEPT !.rect = rect]
  IN CASE IsLeaf(t) -> placed
       [] ~IsLeaf(t) /\ (whole \/ a.vacant \/ b.vacant) ->
            [placed EXCEPT !.kids = <<Arranged(a, rect, whole), Arranged(b, rect, whole)>>]
       [] OTHER ->
            [placed EXCEPT
               !.kids = <<Arranged(a, rects[1], whole), Arranged(b, rects[2], whole)>>,
               !.ratio = IF fence = asked THEN @ ELSE Ratio(fence, rect.size[s])]

(* Bug: the ratio stays with the first child.                              *)
RECURSIVE BugRotateRec(_, _)
BugRotateRec(t, deg) ==
  LET turns == CASE deg = 90 -> t.type = "horizontal"
                 [] deg = 270 -> t.type = "vertical"
                 [] OTHER -> TRUE
      kids == [i \in 1..2 |-> BugRotateRec(t.kids[i], deg)]
  IN IF IsLeaf(t) THEN t
     ELSE [t EXCEPT !.kids = IF turns THEN Reverse(kids) ELSE kids,
                    !.type = IF deg = 180 THEN @ ELSE Other(@)]

(* rotate_tree_rec()                                                       *)
RECURSIVE RotateRec(_, _)
RotateRec(t, deg) ==
  LET turns == CASE deg = 90 -> t.type = "horizontal"
                 [] deg = 270 -> t.type = "vertical"
                 [] OTHER -> TRUE
      kids == [i \in 1..2 |-> RotateRec(t.kids[i], deg)]
  IN IF IsLeaf(t) THEN t
     ELSE [t EXCEPT !.kids = IF turns THEN Reverse(kids) ELSE kids,
                    !.ratio = IF turns THEN Rest(@) ELSE @,
                    !.type = IF deg = 180 THEN @ ELSE Other(@)]

(* rotate_tree()                                                           *)
Rotated(t, p, deg) == Replaced(t, p, RebuiltBelow(RotateRec(At(t, p), deg)))

(* flip_tree()                                                             *)
RECURSIVE Flipped(_, _)
Flipped(t, s) ==
  LET kids == [i \in 1..2 |-> Flipped(t.kids[i], s)]
  IN CASE IsLeaf(t) -> t
       [] ~IsLeaf(t) /\ s = t.type -> [t EXCEPT !.kids = Reverse(kids), !.ratio = Rest(@)]
       [] OTHER -> [t EXCEPT !.kids = kids]

(* equalize_tree()                                                         *)
RECURSIVE Equalized(_)
Equalized(t) ==
  IF IsLeaf(t) \/ t.vacant THEN t
  ELSE [t EXCEPT !.ratio = Half, !.kids = [i \in 1..2 |-> Equalized(@[i])]]

(* The leaves that balance_tree() counts.                                  *)
RECURSIVE Count(_)
Count(t) ==
  CASE t.vacant -> 0
    [] ~t.vacant /\ IsLeaf(t) -> 1
    [] OTHER -> Count(t.kids[1]) + Count(t.kids[2])

(* Bug: every child gets half.                                             *)
RECURSIVE BugBalanced(_)
BugBalanced(t) ==
  LET b1 == Smaller(1, Count(t.kids[1]))
      b2 == Smaller(1, Count(t.kids[2]))
  IN IF IsLeaf(t) \/ t.vacant THEN t
     ELSE [t EXCEPT !.ratio = IF b1 > 0 /\ b2 > 0 THEN Ratio(b1, b1 + b2) ELSE @,
                    !.kids = [i \in 1..2 |-> BugBalanced(@[i])]]

(* balance_tree()                                                          *)
RECURSIVE Balanced(_)
Balanced(t) ==
  LET b1 == Count(t.kids[1])
      b2 == Count(t.kids[2])
  IN IF IsLeaf(t) \/ t.vacant THEN t
     ELSE [t EXCEPT !.ratio = IF b1 > 0 /\ b2 > 0 THEN Ratio(b1, b1 + b2) ELSE @,
                    !.kids = [i \in 1..2 |-> Balanced(@[i])]]

(* Bug: the ratios are kept, not the positions.                            *)
BugKept(t, rect) == t.ratio

(* The ratio at which the fence of a node is where it was.                 *)
Kept(t, rect) ==
  LET s == t.type
  IN Ratio((t.rect.at[s] - rect.at[s]) * t.ratio[2] + t.rect.size[s] * t.ratio[1],
           rect.size[s] * t.ratio[2])

(* adjust_ratios()                                                         *)
RECURSIVE Adjusted(_, _)
Adjusted(t, rect) ==
  LET kept == [t EXCEPT !.ratio = Kept(t, rect)]
      a == t.kids[1]
      b == t.kids[2]
      rects == Cut(rect, t.type, Share(rect.size[t.type], kept.ratio))
  IN CASE t.vacant \/ IsLeaf(t) -> t
       [] ~t.vacant /\ a.vacant -> [kept EXCEPT !.kids[2] = Adjusted(@, rect)]
       [] ~t.vacant /\ b.vacant -> [kept EXCEPT !.kids[1] = Adjusted(@, rect)]
       [] OTHER -> [kept EXCEPT !.kids = <<Adjusted(a, rects[1]), Adjusted(b, rects[2])>>]

End(rect, s) == rect.at[s] + rect.size[s]

(* find_fence(): the nearest node above that goes further on this side,    *)
(* before or after along the axis.                                         *)
FindFence(t, p, s, before) ==
  LET r == At(t, p).rect
      Further(u) == u.type = s /\ IF before THEN u.rect.at[s] < r.at[s]
                                             ELSE End(u.rect, s) > End(r, s)
      depths == {i \in 0..(Len(p) - 1) : Further(At(t, SubSeq(p, 1, i)))}
  IN IF depths = {} THEN None
     ELSE SubSeq(p, 1, CHOOSE i \in depths : \A j \in depths : j <= i)

(* resize_client(), of a tiled window: one fence.                          *)
FenceMoved(t, f, by) ==
  LET u == At(t, f)
      size == u.rect.size[u.type]
      moved == [u EXCEPT !.ratio = Ratio(@[1] * size + by * @[2], @[2] * size)]
  IN Put(t, f, Adjusted(moved, u.rect))

-----------------------------------------------------------------------------
LongestSide(rect) ==
  IF rect.size["vertical"] > rect.size["horizontal"] THEN "vertical" ELSE "horizontal"

(* The type that the scheme ALTERNATE looks at: that of the nearest split  *)
(* above which shows two children, or of the parent.                       *)
SplitAbove(t, p) ==
  LET Shows(i) == LET u == At(t, SubSeq(p, 1, i)) IN ~u.kids[1].vacant /\ ~u.kids[2].vacant
      depths == {i \in 0..(Len(p) - 1) : Shows(i)}
  IN At(t, IF depths = {} THEN Front(p)
           ELSE SubSeq(p, 1, CHOOSE i \in depths : \A j \in depths : j <= i)).type

(* insert_node() at the node of a path, without preselection; polarity is  *)
(* that of initial_polarity: the new node is the first child.              *)
Split(t, p, n, scheme, polarity) ==
  LET f == At(t, p)
      alone == IsLeaf(f) /\ ~f.vacant /\ Count(t) = 1
      s == IF p = <<>> \/ scheme = "longest_side" \/ alone
           THEN LongestSide(f.rect) ELSE Other(SplitAbove(t, p))
      up == At(t, Front(p))
      first == Last(p) = 1
      turned == IF n.vacant THEN up ELSE RebuiltBelow(RotateRec(up, IF first THEN 90 ELSE 270))
  IN IF p = <<>> \/ scheme # "spiral" \/ alone
     THEN Replaced(t, p, IF polarity THEN Joined(s, Half, n, f) ELSE Joined(s, Half, f, n))
     ELSE Replaced(t, Front(p), IF first THEN Joined(up.type, up.ratio, n, turned)
                                         ELSE Joined(up.type, up.ratio, turned, n))

(* insert_node() at a preselected node                                     *)
SplitAsked(t, p, n, s, before, ratio) ==
  LET f == At(t, p)
  IN Replaced(t, p, IF before THEN Joined(s, ratio, n, f) ELSE Joined(s, ratio, f, n))

(* What unlink_node() makes of the brother: with removal_adjustment, it    *)
(* follows the scheme, and a type that is set here leaves the minimum size *)
(* of the brother as it was.                                               *)
Brother(t, p, scheme, adjustment) ==
  LET up == At(t, Front(p))
      b == up.kids[3 - Last(p)]
      s == IF scheme = "longest_side" \/ Len(p) = 1 THEN LongestSide(up.rect)
           ELSE Other(At(t, Front(Front(p))).type)
  IN CASE At(t, p).vacant \/ ~adjustment \/ IsLeaf(b) -> b
       [] ~At(t, p).vacant /\ adjustment /\ ~IsLeaf(b) /\ scheme = "spiral" ->
            RebuiltBelow(RotateRec(b, IF Last(p) = 1 THEN 270 ELSE 90))
       [] OTHER -> [b EXCEPT !.type = s]

(* unlink_node()                                                           *)
Without(t, p, brother) == IF p = <<>> THEN None ELSE Replaced(t, Front(p), brother)

(* The pointers and flags in swap_nodes()                                  *)
Swapped(t, p, q) == Rebuilt(Replaced(Put(t, p, At(t, q)), q, At(t, p)), p)

-----------------------------------------------------------------------------
(* The constraints that the flags of the nodes ask for.                    *)
Agrees(t) == t = None \/ \A p \in Paths(t) : At(t, p).min = At(RebuiltBelow(t), p).min

(* arrange(), at the end of every handler                                  *)
Arrange(t, whole) == tree' = IF t = None THEN None ELSE Arranged(t, Screen, whole)

Becomes(t) ==
  /\ Arrange(t, monocle)
  /\ stale' = (stale /\ ~Agrees(tree'))
  /\ UNCHANGED <<monocle, tunings>>

(* The same, with a ratio that was asked for.                              *)
Tuned(t) ==
  /\ tunings < MaxTunings
  /\ tunings' = tunings + 1
  /\ Arrange(t, monocle)
  /\ stale' = (stale /\ ~Agrees(tree'))
  /\ UNCHANGED monocle

(* manage_window()                                                         *)
Manage(w, takesSpace) ==
  LET n == Leaf(w, takesSpace)
  IN /\ \A p \in Nodes : At(tree, p).window # w
     /\ \/ tree = None /\ Becomes(n)
        \/ \E p \in Nodes, scheme \in Schemes, polarity \in BOOLEAN :
             Becomes(Split(tree, p, n, scheme, polarity))
        \/ \E p \in Nodes, s \in Axis, before \in BOOLEAN :
             /\ ~At(tree, p).vacant
             /\ \/ Becomes(SplitAsked(tree, p, n, s, before, Half))
                \/ \E ratio \in Ratios : Tuned(SplitAsked(tree, p, n, s, before, ratio))

(* unmanage_window(), or transfer_node() to another desktop                *)
Unmanage(p, scheme, adjustment) ==
  LET brother == IF p = <<>> THEN None ELSE Brother(tree, p, scheme, adjustment)
  IN /\ Arrange(Without(tree, p, brother), monocle)
     /\ stale' = ((stale \/ ~Agrees(brother)) /\ ~Agrees(tree'))
     /\ UNCHANGED <<monocle, tunings>>

(* set_state(), to and from tiled                                          *)
ChangeState(p) ==
  /\ IsLeaf(At(tree, p))
  /\ Becomes(Rebuilt(Put(tree, p, [At(tree, p) EXCEPT !.vacant = ~@]), p))

(* swap_nodes(), within the desktop                                        *)
Swap(p, q) ==
  /\ ~IsPrefix(p, q) /\ ~IsPrefix(q, p)
  /\ Becomes(Swapped(tree, p, q))

(* The commands -R, -F, -y, -r, -E and -B, on a node which is not a leaf   *)
Rotate(p, deg) == Becomes(Rotated(tree, p, deg))
Flip(p, s) == Becomes(Put(tree, p, Flipped(At(tree, p), s)))
SetType(p) == Becomes(Replaced(tree, p, Updated([At(tree, p) EXCEPT !.type = Other(@)])))
SetRatio(p, r) == Tuned(Put(tree, p, [At(tree, p) EXCEPT !.ratio = r]))
Equalize(p) == Becomes(Put(tree, p, Equalized(At(tree, p))))
Balance(p) == Becomes(Put(tree, p, Balanced(At(tree, p))))

(* resize_client(), of a tiled window: on each axis, which side is held and*)
(* by how much it is moved.                                                *)
Resize(p, handle) ==
  LET f(s) == IF handle[s] = None THEN None ELSE FindFence(tree, p, s, handle[s][1])
      Moved(t, s) == IF f(s) = None THEN t ELSE FenceMoved(t, f(s), handle[s][2])
  IN /\ IsLeaf(At(tree, p)) /\ ~At(tree, p).vacant
     /\ \E s \in Axis : f(s) # None
     /\ Tuned(Moved(Moved(tree, "vertical"), "horizontal"))

(* set_layout()                                                            *)
SetLayout ==
  /\ monocle' = ~monocle
  /\ Arrange(tree, ~monocle)
  /\ UNCHANGED <<stale, tunings>>

Init ==
  /\ tree = None
  /\ monocle = FALSE
  /\ stale = FALSE
  /\ tunings = 0

Next ==
  \/ \E w \in Window, takesSpace \in BOOLEAN : Manage(w, takesSpace)
  \/ \E p \in Nodes, scheme \in Schemes, adjustment \in BOOLEAN : Unmanage(p, scheme, adjustment)
  \/ \E p \in Nodes : ChangeState(p)
  \/ \E p, q \in Nodes : Swap(p, q)
  \/ \E p \in {q \in Nodes : ~IsLeaf(At(tree, q))} :
       \/ SetType(p) \/ Equalize(p) \/ Balance(p)
       \/ \E deg \in {90, 180, 270} : Rotate(p, deg)
       \/ \E s \in Axis : Flip(p, s)
       \/ \E r \in Ratios : SetRatio(p, r)
  \/ \E p \in Nodes, handle \in [Axis -> (BOOLEAN \X Moves) \union {None}] : Resize(p, handle)
  \/ SetLayout

Spec == Init /\ [][Next]_vars

-----------------------------------------------------------------------------
Shown(t) == {p \in Paths(t) : IsLeaf(At(t, p)) /\ ~At(t, p).vacant}
Splits(t) == {p \in Paths(t) : ~IsLeaf(At(t, p))
                               /\ ~At(t, p).kids[1].vacant /\ ~At(t, p).kids[2].vacant}
RectOf(t, w) == At(t, CHOOSE p \in Paths(t) : At(t, p).window = w).rect
Windows(t) == {At(t, p).window : p \in Shown(t)}
Area(rect) == rect.size["vertical"] * rect.size["horizontal"]
Fits(t) == \A s \in Axis : t.min[s] <= Size

(* The line between the children of a node, and the ratios of all nodes.   *)
Line(t, p) == At(t, p).kids[2].rect.at[At(t, p).type]
RatiosOf(t) == [p \in Paths(t) |-> At(t, p).ratio]
(* No fence falls between two pixels.                                      *)
Even(t) ==
  \A p \in Splits(t) : LET u == At(t, p) IN
    u.ratio[2] # 0 /\ (u.rect.size[u.type] * u.ratio[1]) % u.ratio[2] = 0

TypeOK ==
  /\ stale \in BOOLEAN /\ monocle \in BOOLEAN
  /\ tunings \in 0..MaxTunings
  /\ \A p \in Nodes : LET t == At(tree, p) IN
       /\ IF IsLeaf(t) THEN t.window \in Window ELSE t.window = None /\ Len(t.kids) = 2
       /\ t.type \in Axis
       /\ t.ratio[2] \in Nat /\ t.ratio[1] \in 0..t.ratio[2]

(* The windows that take space share the monitor, with no overlap and no   *)
(* hole: also where their minimum sizes do not fit, whatever the ratios    *)
(* came to be.                                                             *)
Tiled ==
  TypeOK /\ (tree # None /\ ~monocle =>
    LET rects == {RectOf(tree, w) : w \in Windows(tree)}
        Apart(r, q) == \E s \in Axis : End(r, s) <= q.at[s] \/ End(q, s) <= r.at[s]
    IN /\ \A w, x \in Windows(tree) : w # x => Apart(RectOf(tree, w), RectOf(tree, x))
       /\ \A r \in rects : \A s \in Axis : r.at[s] >= 0 /\ r.size[s] >= 0 /\ End(r, s) <= Size
       /\ rects # {} => MapThenSumSet(Area, rects) = Area(Screen))

(* The minimum size of every node is that of its windows side by side, or  *)
(* one over the other, so that no window is smaller than its minimum while *)
(* all fit: but removal_adjustment may turn the split of a brother and     *)
(* leave its minimum size what it was, until something rebuilds it.        *)
MinKept ==
  tree # None /\ ~stale =>
    /\ Agrees(tree)
    /\ Fits(tree) /\ ~monocle =>
         \A p \in Shown(tree) : \A s \in Axis : At(tree, p).rect.size[s] >= MinSize

(* Rotating and flipping a tree, as the user sees it: the picture on a     *)
(* square monitor is turned or mirrored; and turning back gives the same   *)
(* tree.                                                                   *)
PictureTurns ==
  tree # None /\ ~monocle /\ ~stale =>
    LET Turned(r) == [at |-> [vertical |-> Size - End(r, "horizontal"), horizontal |-> r.at["vertical"]],
                      size |-> [s \in Axis |-> r.size[Other(s)]]]
        Mirrored(r, s) == [r EXCEPT !.at[s] = Size - End(r, s)]
        turned == Arranged(Rotated(tree, <<>>, 90), Screen, FALSE)
        mirrored(s) == Arranged(Flipped(tree, s), Screen, FALSE)
    IN /\ Rotated(Rotated(tree, <<>>, 90), <<>>, 270) = tree
       /\ Even(tree) => \A w \in Windows(tree) :
            /\ RectOf(turned, w) = Turned(RectOf(tree, w))
            /\ \A s \in Axis : RectOf(mirrored(s), w) = Mirrored(RectOf(tree, w), s)

(* After balancing, all windows that take space have the same area, as     *)
(* long as no minimum size and no pixel is in the way.                     *)
BalancedFairly ==
  tree # None /\ ~monocle =>
    LET t == Balanced(tree)
        u == Arranged(t, Screen, FALSE)
    IN Even(u) /\ RatiosOf(u) = RatiosOf(t) =>
         \A w, x \in Windows(u) : Area(RectOf(u, w)) = Area(RectOf(u, x))

(* Moving a side of a window moves the fence that is this side, by as much *)
(* as there is room, and the fences in the two halves that go along the    *)
(* same axis stay where they are, unless it pushes them, however deep they *)
(* are; as long as no minimum size is in the way.  A side without a fence  *)
(* is a side of the monitor.                                               *)
Pushed(line, rect, s) == Larger(rect.at[s], Smaller(line, End(rect, s)))
FencesStay ==
  tree # None /\ ~monocle =>
    \A p \in Shown(tree), s \in Axis, before \in BOOLEAN :
      LET f == FindFence(tree, p, s, before)
          r == At(tree, p).rect
          side == IF before THEN r.at[s] ELSE End(r, s)
      IN IF f = None THEN side = IF before THEN 0 ELSE Size
         ELSE /\ Line(tree, f) = side
              /\ \A by \in Moves :
                   LET t == FenceMoved(tree, f, by)
                       u == Arranged(t, Screen, FALSE)
                   IN RatiosOf(t) = RatiosOf(u) =>
                        /\ Line(u, f) = Pushed(Line(tree, f) + by, At(u, f).rect, s)
                        /\ \A q \in Splits(tree) \ {f} : At(tree, q).type = s =>
                             Line(u, q) = Pushed(Line(tree, q), At(u, q).rect, s)
=============================================================================
