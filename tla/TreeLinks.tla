------------------------------ MODULE TreeLinks ------------------------------
(***************************************************************************)
(* The pointers of the window trees of tree.c: root, parent, first_child   *)
(* and second_child, under the handlers that insert, remove, transfer,     *)
(* swap and rotate nodes.                                                  *)
(*                                                                         *)
(* A handler is an operator from links to links, composed of the pointer   *)
(* surgery of the functions it calls.  Which anchor a node is inserted at, *)
(* which nodes a rotation turns and which side a new node takes depend on  *)
(* settings, geometry and preselections: here they are free.               *)
(***************************************************************************)
EXTENDS FiniteSets

CONSTANTS Node,      \* the addresses that malloc gives to nodes
          Desktop,
          None       \* NULL

ASSUME TreeAssumption == None \notin Node /\ Node # {}

VARIABLE links

(* The links: the nodes that are allocated, those of them that have a      *)
(* client, and the pointers.                                               *)
Links == [alive : SUBSET Node,
          window : SUBSET Node,
          root : [Desktop -> Node \union {None}],
          parent : [Node -> Node \union {None}],
          first : [Node -> Node \union {None}],
          second : [Node -> Node \union {None}]]

(* is_descendant(): b is met on the way up from a, in other words no set   *)
(* of nodes that holds a but not b is closed upward.                       *)
UpClosed(t, A) == \A x \in A : t.parent[x] = None \/ t.parent[x] \in A

IsDescendant(t, a, b) ==
  /\ a \in t.alive /\ b \in t.alive
  /\ \A A \in SUBSET t.alive : a \in A /\ b \notin A => ~UpClosed(t, A)

IsLeaf(t, n) == t.first[n] = None /\ t.second[n] = None

(* Bug: the leaf is not looked at for a client.                            *)
IsReceptacleOrWindow(t, n) == IsLeaf(t, n)

IsReceptacle(t, n) == IsLeaf(t, n) /\ n \notin t.window
InTree(t, d, n) == t.root[d] # None /\ IsDescendant(t, n, t.root[d])
Nodes(t, d) == {n \in t.alive : InTree(t, d, n)}

(* Bug: m does not learn its new parent.                                   *)
ReplaceKeepsParent(t, d, n, m) ==
  LET p == t.parent[n]
  IN CASE p = None -> [t EXCEPT !.root[d] = m]
       [] p # None /\ t.first[p] = n -> [t EXCEPT !.first[p] = m]
       [] OTHER -> [t EXCEPT !.second[p] = m]

(* m takes the place of n: under the parent of n, or at the root.          *)
Replace(t, d, n, m) ==
  LET p == t.parent[n]
      up == [t EXCEPT !.parent[m] = p]
  IN CASE p = None -> [up EXCEPT !.root[d] = m]
       [] p # None /\ t.first[p] = n -> [up EXCEPT !.first[p] = m]
       [] OTHER -> [up EXCEPT !.second[p] = m]

(* make_node()                                                             *)
Make(t, n) ==
  [t EXCEPT !.alive = @ \union {n}, !.parent[n] = None,
            !.first[n] = None, !.second[n] = None]

(* free(): what a freed node holds is not read any more.                   *)
Free(t, S) ==
  [t EXCEPT !.alive = @ \ S,
            !.parent = [n \in Node |-> IF n \in S THEN None ELSE @[n]],
            !.first = [n \in Node |-> IF n \in S THEN None ELSE @[n]],
            !.second = [n \in Node |-> IF n \in S THEN None ELSE @[n]]]

(* insert_node() on a receptacle that is not preselected, which is freed.  *)
TakePlace(t, d, n, f) ==
  Free(Replace(t, d, f, n), {f})

(* insert_node() elsewhere: the internal node c takes the place of x and   *)
(* has x and n for children.                                               *)
Split(t, d, n, x, c, nFirst) ==
  [Replace(Make(t, c), d, x, c) EXCEPT
     !.parent[n] = c, !.parent[x] = c,
     !.first[c] = IF nFirst THEN n ELSE x,
     !.second[c] = IF nFirst THEN x ELSE n]

(* rotate_tree() and flip_tree() exchange the children of some nodes.      *)
Turn(t, S) ==
  [t EXCEPT !.first = [n \in Node |-> IF n \in S THEN t.second[n] ELSE @[n]],
            !.second = [n \in Node |-> IF n \in S THEN t.first[n] ELSE @[n]]]

Below(t, n) == {m \in t.alive : IsDescendant(t, m, n)}

(* The anchor x is split.  With the scheme SPIRAL its parent is split in   *)
(* its stead, on its side, and turned.                                     *)
SplitAt(t, d, n, x, c) ==
  LET p == t.parent[x]
  IN {Split(t, d, n, x, c, nFirst) : nFirst \in BOOLEAN}
       \union
     (IF p = None THEN {}
      ELSE {Turn(Split(t, d, n, p, c, t.first[p] = x), S) : S \in SUBSET Below(t, p)})

(* What insert_node() may make of t for the node n, which is in no tree,   *)
(* and the anchor f.  A preselected receptacle is split like other nodes;  *)
(* for a private anchor find_public() may choose another leaf.             *)
Anchor(t, d, f) == IF f = None THEN t.root[d] ELSE f
Public(t, d) == {k \in Nodes(t, d) : IsLeaf(t, k)}

Inserted(t, d, n, f) ==
  LET a == Anchor(t, d, f)
  IN IF a = None THEN {[t EXCEPT !.root[d] = n]}
     ELSE {TakePlace(t, d, n, x) : x \in {y \in {a} : IsReceptacle(t, y)}}
            \union
          UNION {SplitAt(t, d, n, x, c) : x \in {a} \union Public(t, d), c \in Node \ t.alive}

(* unlink_node(): the brother takes the place of the parent, which is      *)
(* freed; removal_adjustment may turn the brother.                         *)
Brother(t, n) ==
  LET p == t.parent[n] IN IF t.first[p] = n THEN t.second[p] ELSE t.first[p]

Unlinked(t, d, n) ==
  LET p == t.parent[n]
      b == Brother(t, n)
      up == [Free(Replace(t, d, p, b), {p}) EXCEPT !.parent[n] = None]
  IN IF p = None THEN {[t EXCEPT !.root[d] = None]}
     ELSE {Turn(up, S) : S \in SUBSET Below(t, b)}

(* free_node(), on a node that is in no tree.                              *)
Freed(t, n) ==
  [Free(t, Below(t, n)) EXCEPT !.window = @ \ Below(t, n)]

(* The pointers that swap_nodes() exchanges, in its order.                 *)
Swapped(t, d1, n1, d2, n2) ==
  LET p1 == t.parent[n1]
      p2 == t.parent[n2]
      Child(u, p, wasFirst, n) ==
        CASE p = None -> u
          [] p # None /\ wasFirst -> [u EXCEPT !.first[p] = n]
          [] OTHER -> [u EXCEPT !.second[p] = n]
      down == Child(Child(t, p1, t.first[p1] = n1, n2), p2, t.first[p2] = n2, n1)
  IN [down EXCEPT !.parent[n1] = p2, !.parent[n2] = p1,
        !.root = [d \in Desktop |->
                    CASE d1 # d2 /\ d = d1 /\ t.root[d1] = n1 -> n2
                      [] d1 # d2 /\ d = d2 /\ t.root[d2] = n2 -> n1
                      [] OTHER -> t.root[d]]]

-----------------------------------------------------------------------------
Init ==
  links = [alive |-> {}, window |-> {},
           root |-> [d \in Desktop |-> None],
           parent |-> [n \in Node |-> None],
           first |-> [n \in Node |-> None],
           second |-> [n \in Node |-> None]]

(* The anchors that callers pass: nodes of the desktop, or NULL.           *)
Anchors(d) == Nodes(links, d) \union {None}

(* manage_window() and insert_receptacle()                                 *)
Add(d, n, f, isWindow) ==
  LET made == Make(links, n)
      new == [made EXCEPT !.window = IF isWindow THEN @ \union {n} ELSE @]
  IN /\ n \notin links.alive
     /\ f \in Anchors(d)
     /\ links' \in Inserted(new, d, n, f)

(* remove_node(), called for leaves and, by remove_desktop(), for a root.   *)
Remove(d, n) ==
  /\ InTree(links, d, n)
  /\ IsLeaf(links, n) \/ links.root[d] = n
  /\ links' \in {Freed(u, n) : u \in Unlinked(links, d, n)}

(* Bug: a node may be transferred onto a node below it.                    *)
TransferAnywhere(ds, n, dd, f) ==
  /\ InTree(links, ds, n)
  /\ f \in Anchors(dd)
  /\ n # f
  /\ links.parent[n] # f \/ f = None
  /\ links' \in UNION {Inserted(u, dd, n, f) : u \in Unlinked(links, ds, n)}

(* transfer_node(); the sticky windows that it refuses are left out.       *)
Transfer(ds, n, dd, f) ==
  /\ InTree(links, ds, n)
  /\ f \in Anchors(dd)
  /\ n # f
  /\ links.parent[n] # f \/ f = None
  /\ ~IsDescendant(links, f, n)
  /\ links' \in UNION {Inserted(u, dd, n, f) : u \in Unlinked(links, ds, n)}

(* swap_nodes(), likewise.                                                 *)
Swap(d1, n1, d2, n2) ==
  /\ InTree(links, d1, n1)
  /\ InTree(links, d2, n2)
  /\ n1 # n2
  /\ ~IsDescendant(links, n1, n2)
  /\ ~IsDescendant(links, n2, n1)
  /\ links' = Swapped(links, d1, n1, d2, n2)

(* rotate_tree() and flip_tree()                                           *)
Rotate(n, S) ==
  /\ n \in links.alive
  /\ links' = Turn(links, S)
  /\ S \subseteq Below(links, n)

Next ==
  \/ \E d \in Desktop, n \in Node, f \in Node \union {None}, isWindow \in BOOLEAN :
       Add(d, n, f, isWindow)
  \/ \E d \in Desktop, n \in Node : Remove(d, n)
  \/ \E ds, dd \in Desktop, n \in Node, f \in Node \union {None} : Transfer(ds, n, dd, f)
  \/ \E d1, d2 \in Desktop, n1, n2 \in Node : Swap(d1, n1, d2, n2)
  \/ \E n \in links.alive : \E S \in SUBSET Below(links, n) : Rotate(n, S)

Spec == Init /\ [][Next]_links

-----------------------------------------------------------------------------
(* The shape of the links while the node x is in no tree (None: no node):  *)
(* Roots of desktops have no parent, no two desktops share one, ...        *)
RootsSound(t, x) ==
  \A d \in Desktop : t.root[d] # None =>
    /\ t.root[d] \in t.alive /\ t.root[d] # x
    /\ t.parent[t.root[d]] = None
    /\ \A e \in Desktop : t.root[e] = t.root[d] => e = d

(* ... every other node is a child of its parent, ...                      *)
ParentsSound(t, x) ==
  \A n \in t.alive :
    IF t.parent[n] = None THEN n = x \/ \E d \in Desktop : t.root[d] = n
    ELSE t.parent[n] \in t.alive /\ n \in {t.first[t.parent[n]], t.second[t.parent[n]]}

(* ... and a node is a leaf or an internal node with two children, whose   *)
(* parent it is; clients are on leaves.                                    *)
ChildrenSound(t) ==
  \A n \in t.alive : IsLeaf(t, n) \/
    /\ t.first[n] # t.second[n]
    /\ {t.first[n], t.second[n]} \subseteq t.alive
    /\ t.parent[t.first[n]] = n /\ t.parent[t.second[n]] = n
    /\ n \notin t.window

(* Following the parents ends: no set of nodes holds all its parents.      *)
Acyclic(t) ==
  \A S \in SUBSET t.alive : S # {} => \E n \in S : t.parent[n] \notin S

(* Every pointer is NULL or leads to a node, and no client outlives its    *)
(* node: only nodes without a client were freed in passing.                *)
TypeOK == links \in Links /\ links.window \subseteq links.alive

(* The trees are full binary trees whose pointers up and down agree, and   *)
(* no insertion, removal, transfer or swap leaves a pointer to a freed     *)
(* node.                                                                   *)
LinksSound ==
  /\ RootsSound(links, None)
  /\ ParentsSound(links, None)
  /\ ChildrenSound(links)

(* The walks up and down the trees end: the guards of transfer_node() and  *)
(* swap_nodes() keep a node from becoming its own ancestor.                *)
TreesAcyclic == Acyclic(links)

(* The windows that are found from the roots of the desktops.              *)
Held == [d \in Desktop |-> links.window \intersect Nodes(links, d)]
Windows(n) == links.window \intersect Below(links, n)
Sets == INSTANCE WindowSets WITH Window <- Node, held <- Held

(* Every step is the call of a handler, and has the effect on the windows  *)
(* that the promise of WindowSets gives to this handler and its arguments: *)
(* manage_window() brings its window to its desktop, remove_node() takes   *)
(* those below its node away, transfer_node() and swap_nodes() move just   *)
(* those below their nodes; receptacles and rotations bring, move and lose *)
(* none.                                                                   *)
HandlerKeepsPromise ==
  \E now \in {Held}, then \in {Held'} :
    \/ \E d \in Desktop, n \in Node :
         Remove(d, n) /\ then = Sets!Gone(now, d, Windows(n))
    \/ \E d \in Desktop, n \in Node :
         /\ then = Sets!Came(now, d, {n})
         /\ \E f \in Node \union {None} : Add(d, n, f, TRUE)
    \/ \E d \in Desktop, n \in Node, f \in Node \union {None} :
         then = now /\ Add(d, n, f, FALSE)
    \/ \E n \in links.alive : \E S \in SUBSET Below(links, n) :
         then = now /\ Rotate(n, S)
    \/ \E ds, dd \in Desktop : \E n \in Nodes(links, ds) :
         /\ then = Sets!Moved(now, ds, Windows(n), dd)
         /\ \E f \in Node \union {None} : Transfer(ds, n, dd, f)
    \/ \E d1, d2 \in Desktop : \E n1 \in Nodes(links, d1), n2 \in Nodes(links, d2) :
         /\ Swap(d1, n1, d2, n2)
         /\ then = Sets!Exchanged(now, d1, Windows(n1), d2, Windows(n2))

HoldsWindows == Sets!Init /\ [][HandlerKeepsPromise]_links
=============================================================================
