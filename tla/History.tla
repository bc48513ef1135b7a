------------------------------ MODULE History ------------------------------
(***************************************************************************)
(* The focus history of history.c: a doubly linked list of places with the *)
(* pointers history_head, history_tail and history_needle, under the calls *)
(* its users make.                                                         *)
(*                                                                         *)
(* The list is the sequence that the prev pointers give from history_tail, *)
(* oldest first: history_tail is its last cell.  history_head and          *)
(* history_needle are places in it, 0 for NULL.                            *)
(***************************************************************************)
EXTENDS Naturals, Sequences, SequencesExt

CONSTANTS Node, Desktop, None,
          Monitor,       \* the monitor of every desktop
          MaxEntries     \* bound: no call adds an entry to so long a list

ASSUME HistoryAssumption ==
  /\ None \notin Node \union Desktop
  /\ MaxEntries \in Nat

VARIABLES home,      \* the desktop that holds the node, or None
          list,      \* the cells: node, desk, latest
          head,      \* history_head
          needle,    \* history_needle
          record     \* the setting record_history

vars == <<home, list, head, needle, record>>

Lost == MaxEntries + 1   \* a needle on a cell that no pointer reaches

(* The cells that a call of history_add() makes older.                     *)
Same(d, n, cell) ==
  IF n # None THEN cell.node = n ELSE cell.desk = d

(* Bug: a node ages every cell of its desktop.                             *)
AgedByDesktop(d, n) ==
  [i \in 1..Len(list) |-> [list[i] EXCEPT !.latest = @ /\ list[i].desk # d]]

(* Bug: the older cells of the node stay the latest ones.                  *)
AgedNever(d, n) == list

Aged(d, n) ==
  [i \in 1..Len(list) |-> [list[i] EXCEPT !.latest = @ /\ ~Same(d, n, list[i])]]

(* A pointer follows its cell when a cell is inserted at place k.          *)
Shift(p, k) == IF p >= k /\ p # Lost THEN p + 1 ELSE p

(* history_insert_after() and history_insert_before(), at place k.         *)
InsertCell(cells, k, cell, newHead, ndl) ==
  /\ list' = InsertAt(cells, k, cell)
  /\ head' = newHead
  /\ needle' = Shift(ndl, k)

(* history_add(), while the setting record_history is on.                  *)
Add(d, n, focused) ==
  LET cell == [node |-> n, desk |-> d, latest |-> TRUE]
      ndl == IF focused THEN 0 ELSE needle
      aged == Aged(d, n)
      near == {i \in 1..Len(list) :
                 IF n # None THEN list[i].desk = d
                             ELSE Monitor[list[i].desk] = Monitor[d]}
      older == {i \in head..Len(list) :
                  n # None /\ aged[i].latest /\ Monitor[list[i].desk] = Monitor[d]}
      ip == IF focused THEN Len(list) ELSE Max(near)
  IN /\ record
     /\ Len(list) < MaxEntries
     /\ CASE head = 0 ->
               /\ list' = <<cell>>
               /\ head' = 1
               /\ needle' = IF ndl = 0 THEN 0 ELSE Lost
          [] head # 0 /\ Same(d, n, Last(list)) ->
               needle' = ndl /\ UNCHANGED <<list, head>>
          [] head # 0 /\ ~Same(d, n, Last(list)) /\ (focused \/ near # {}) ->
               InsertCell(aged, ip + 1, cell, Shift(head, ip + 1), ndl)
          [] OTHER ->
               InsertCell(aged, IF older # {} THEN Min(older) ELSE head, cell, head, ndl)
     /\ UNCHANGED <<home, record>>

-----------------------------------------------------------------------------
(* A round of the loop of history_remove(), on the cell b of place h.at.   *)
(* If it matches, it goes with the older cells next to it that name what   *)
(* its newer neighbour a names, down to c, where the loop goes on.         *)
Older(cells, b) ==
  IF b < Len(cells)
  THEN LET a == cells[b + 1]
       IN Max({0} \union {i \in 1..(b - 1) : ~Same(a.desk, a.node, cells[i])})
  ELSE b - 1

(* Where a pointer to the cell at p leads afterwards: onB, if it was b.    *)
Settle(p, onB, b, c, tail) ==
  LET q == IF c < p /\ p < b THEN tail ELSE IF p = b THEN onB ELSE p
  IN IF q > b /\ q # Lost THEN q - (b - c) ELSE q

Round(h, nodes, desks) ==
  LET b == h.at
      c == Older(h.list, b)
      tail == Len(h.list)
  IN CASE b = 0 -> h
       [] b # 0 /\ h.list[b].node \notin nodes /\ h.list[b].desk \notin desks ->
            [h EXCEPT !.at = b - 1]
       [] OTHER ->
            [list |-> SubSeq(h.list, 1, c) \o SubSeq(h.list, b + 1, tail),
             head |-> Settle(h.head, IF b < tail THEN b + 1 ELSE 0, b, c, tail),
             needle |-> Settle(h.needle, c, b, c, tail),
             at |-> c]

(* history_remove(), from the newest cell down: the cells of the nodes, or *)
(* all those of the desktops.  Every round goes down by a cell at least.   *)
Unlist(h, nodes, desks) ==
  LET n == Len(h.list)
      run[i \in 0..n] == IF i = 0 THEN [h EXCEPT !.at = n]
                         ELSE Round(run[i - 1], nodes, desks)
  IN run[n]

Pointers == [list |-> list, head |-> head, needle |-> needle, at |-> 0]

Becomes(h) ==
  /\ list' = h.list
  /\ head' = h.head
  /\ needle' = h.needle

-----------------------------------------------------------------------------
Init ==
  /\ home = [n \in Node |-> None]
  /\ list = <<>>
  /\ head = 0
  /\ needle = 0
  /\ record = TRUE

(* insert_node() with a new node                                           *)
Create(n, d) ==
  /\ home[n] = None
  /\ home' = [home EXCEPT ![n] = d]
  /\ UNCHANGED <<list, head, needle, record>>

(* focus_node() and activate_node() add the node, activate_desktop() the   *)
(* desktop alone; on a desktop without nodes focus_node() and              *)
(* activate_node() do too.                                                 *)
Visit(d, n, focused) ==
  /\ n # None => home[n] = d
  /\ n = None /\ focused => \A m \in Node : home[m] # d
  /\ Add(d, n, focused)

(* Bug: unlink_node() frees the parent and does not tell the history.      *)
LeaveKeepsParent(nodes, parent, d) ==
  /\ nodes # {} /\ parent \notin nodes
  /\ \A n \in (nodes \union {parent}) \ {None} : home[n] # None /\ home[n] # d
  /\ \A n, m \in (nodes \union {parent}) \ {None} : home[n] = home[m]
  /\ Becomes(Unlist(Pointers, nodes, {}))
  /\ home' = [n \in Node |-> IF n \in nodes THEN d ELSE IF n = parent THEN None ELSE home[n]]
  /\ UNCHANGED record

(* remove_node() and transfer_node() forget the node with its descendants, *)
(* and unlink_node() its parent before; the parent is freed.               *)
Leave(nodes, parent, d) ==
  /\ nodes # {} /\ parent \notin nodes
  /\ \A n \in (nodes \union {parent}) \ {None} : home[n] # None /\ home[n] # d
  /\ \A n, m \in (nodes \union {parent}) \ {None} : home[n] = home[m]
  /\ Becomes(Unlist(Unlist(Pointers, {parent} \ {None}, {}), nodes, {}))
  /\ home' = [n \in Node |-> IF n \in nodes THEN d ELSE IF n = parent THEN None ELSE home[n]]
  /\ UNCHANGED record

(* remove_desktop(), transfer_desktop() and swap_desktops()                *)
ForgetDesktop(d) ==
  /\ Becomes(Unlist(Pointers, {}, {d}))
  /\ UNCHANGED <<home, record>>

(* history_find_node(), history_find_desktop() and history_find_monitor(): *)
(* while the history is recorded a search starts from the newest cell,     *)
(* otherwise from the needle, which moves to the cell it finds.            *)
Found(cells, from, older, eligible) ==
  LET places == {i \in (IF older THEN 1..from ELSE from..Len(cells)) :
                   cells[i].latest /\ cells[i].node \in eligible}
  IN CASE from = 0 \/ places = {} -> 0
       [] from # 0 /\ places # {} /\ older -> Max(places)
       [] OTHER -> Min(places)

Find(older, eligible) ==
  LET start == IF needle = 0 \/ record THEN Len(list) ELSE needle
      found == Found(list, start, older, eligible)
  IN /\ start # Lost
     /\ needle' = IF record \/ found = 0 THEN start ELSE found
     /\ UNCHANGED <<home, list, head, record>>

(* bspc wm -h                                                              *)
SetRecord(b) ==
  /\ record # b
  /\ record' = b
  /\ UNCHANGED <<home, list, head, needle>>

Next ==
  \/ \E n \in Node, d \in Desktop : Create(n, d)
  \/ \E d \in Desktop, n \in Node \union {None}, focused \in BOOLEAN :
       Visit(d, n, focused)
  \/ \E nodes \in SUBSET Node, parent \in Node \union {None},
        d \in Desktop \union {None} : Leave(nodes, parent, d)
  \/ \E d \in Desktop : ForgetDesktop(d)
  \/ \E older \in BOOLEAN, eligible \in SUBSET Node : Find(older, eligible)
  \/ \E b \in BOOLEAN : SetRecord(b)

Spec == Init /\ [][Next]_vars

-----------------------------------------------------------------------------
Cell == [node : Node \union {None}, desk : Desktop, latest : BOOLEAN]

TypeOK ==
  /\ home \in [Node -> Desktop \union {None}]
  /\ list \in Seq(Cell)
  /\ head \in 0..Len(list)
  /\ needle \in 0..Len(list) \union {Lost}
  /\ record \in BOOLEAN

(* The variables have their types: history_head is a cell of the list. No  *)
(* cell names a node that was freed or has moved to another desktop: the   *)
(* fallback of focus_node() never meets a dangling pointer.                *)
NoStaleCell ==
  /\ TypeOK
  /\ \A i \in 1..Len(list) : list[i].node # None => home[list[i].node] = list[i].desk

(* A node, and a desktop without one, has at most one latest cell, and no  *)
(* newer cell names it ("required for maintaining the *latest* attribute", *)
(* history.c).                                                             *)
LatestIsNewest ==
  \A i, j \in 1..Len(list) :
    i < j /\ list[i].latest => ~Same(list[j].desk, list[j].node, list[i])

(* The cells that selectors see, the latest ones.                          *)
Visible ==
  LET latest == SelectSeq(list, LAMBDA cell : cell.latest)
  IN [i \in 1..Len(latest) |-> [node |-> latest[i].node, desk |-> latest[i].desk]]

Promise == INSTANCE FocusOrder WITH order <- Visible

HeadIsOldest == head = IF list = <<>> THEN 0 ELSE 1

(* As long as history_head is the oldest cell, every call does to the      *)
(* latest cells what FocusOrder promises for its arguments: history_add()  *)
(* puts the place where it belongs, by desktop and by monitor, and         *)
(* history_remove() drops the places that it was called for and no others, *)
(* whatever duplicates it clears.                                          *)
CallKeepsPromise ==
  /\ \A d \in Desktop, n \in Node \union {None}, focused \in BOOLEAN :
       Visit(d, n, focused) =>
         Visible' = Promise!Added(Visible, [node |-> n, desk |-> d], focused)
  /\ \A nodes \in SUBSET Node, parent \in Node \union {None}, d \in Desktop \union {None} :
       Leave(nodes, parent, d) =>
         Visible' = Promise!Without(Visible, nodes \union ({parent} \ {None}), {})
  /\ \A d \in Desktop : ForgetDesktop(d) => Visible' = Promise!Without(Visible, {}, {d})

FollowsOrder == [][HeadIsOldest => CallKeepsPromise]_vars

(* After a node took the focus, last selects the node that was focused     *)
(* before it, if it is the newest of the history and still exists.         *)
LastSelectsPrevious ==
  [][\A d \in Desktop, n \in Node :
       /\ Visit(d, n, TRUE)
       /\ list # <<>>
       /\ Last(list).node \notin {n, None}
       => LET seen == Found(list', Len(list'), TRUE, Node \ {n})
          IN seen # 0 /\ list'[seen].node = Last(list).node]_vars
=============================================================================
