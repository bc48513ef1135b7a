------------------------------- MODULE Restart -------------------------------
(***************************************************************************)
(* Dumping the state and restoring it (query.c and restore.c): by a restart*)
(* of bspwm, which hands its state over in a file and the streams of its   *)
(* subscribers as open descriptors, and by wm -d and wm -l in one process. *)
(*                                                                         *)
(* In the text of the dump a place is named by its identifier, here the    *)
(* place itself; parents are not named.  Internal nodes, desktops and      *)
(* monitors get other identifiers afterwards, which nothing here tells     *)
(* apart.  Names, states, layers and rectangles are read back as they were *)
(* written.                                                                *)
(*                                                                         *)
(* Bounds: commands and subscribers meet worlds without windows only, and  *)
(* the worlds with windows are restored as they are.                       *)
(***************************************************************************)
EXTENDS Naturals, FiniteSets, Subscribers

CONSTANTS Monitor, Desktop,
          Window,       \* nodes that have a client
          Inner,        \* nodes that have none
          Rank,         \* where rect_cmp() puts a monitor
          Desks,        \* the desktops of each monitor, which has at least one
          Kinds,        \* a bound on what readers subscribe to
          MaxCells,     \* a bound on the length of the history
          MaxWant,      \* a bound on the number of events asked for
          MaxRestores   \* a bound on the number of restarts and loads

Node == Window \union Inner

ASSUME RestartAssumption ==
  /\ IsFiniteSet(Monitor) /\ IsFiniteSet(Node)
  /\ Rank \in [Monitor -> Nat]
  /\ \A m1, m2 \in Monitor : Rank[m1] = Rank[m2] => m1 = m2
  /\ Desks \in [Monitor -> Seq(Desktop) \ {<<>>}]
  /\ Kinds \subseteq (SUBSET {"report", "other"}) \ {{}}
  /\ {MaxCells, MaxWant, MaxRestores} \subseteq Nat
  /\ None \notin Monitor \union Desktop \union Node

VARIABLES world,     \* monitors, desktops, trees, history and stacking list
          streams,   \* the subscribers, see Subscribers
          phase,     \* running, asked by wm -r, or ended: out of the loop
          saved,     \* a text that wm -d wrote, or None
          dumped,    \* history variable: the world that it was written of
          restores,  \* how many restarts and loads there were
          late,      \* readers that bspwm let go between wm -r and the dump
          crossed,   \* readers that were handed over
          misled     \* the last report does not name the focused monitor

vars == <<world, streams, phase, saved, dumped, restores, late, crossed, misled>>

Or(p, guess) == IF p # None THEN p ELSE guess
NoChild == [i \in Inner |-> None]
NoTree == [d \in Desktop |-> None]

(* The world after cleanup() or before the first monitor is restored.      *)
Void ==
  [monitors |-> <<>>, mon |-> None, pri |-> None,
   desks |-> [m \in Monitor |-> <<>>], shown |-> [m \in Monitor |-> None],
   count |-> [m \in Monitor |-> 0], monGap |-> [m \in Monitor |-> 0],
   gap |-> [d \in Desktop |-> 0], root |-> NoTree, focus |-> NoTree,
   first |-> NoChild, second |-> NoChild, parent |-> [n \in Node |-> None],
   sticky |-> {}, history |-> <<>>, stack |-> <<>>]

Home(w, d) == CHOOSE m \in Monitor : d \in Range(w.desks[m])

-----------------------------------------------------------------------------
(* The nodes of the tree under n, for find_by_id_in() and query_node().    *)
Kids(w, S) == UNION {{w.first[i], w.second[i]} : i \in S \intersect Inner} \ {None}
Below(w, n) ==
  {k \in Node : \A S \in SUBSET Node : {n} \ {None} \subseteq S /\ Kids(w, S) \subseteq S => k \in S}
FindIn(w, d, n) == IF n \in Below(w, w.root[d]) THEN n ELSE None

(* query_node(): what the nested text says of the nodes, by identifier.    *)
TreeText(w, n) ==
  LET nodes == Below(w, n)
  IN [root |-> n, sticky |-> nodes \intersect w.sticky,
      first |-> [i \in nodes \intersect Inner |-> w.first[i]],
      second |-> [i \in nodes \intersect Inner |-> w.second[i]]]

(* query_desktop(), query_monitor()                                        *)
DesktopText(w, d) ==
  [id |-> d, gap |-> w.gap[d], focused |-> w.focus[d], tree |-> TreeText(w, w.root[d])]
MonitorText(w, m) ==
  [id |-> m, gap |-> w.monGap[m], stickyCount |-> w.count[m], focused |-> w.shown[m],
   desktops |-> [i \in DOMAIN w.desks[m] |-> DesktopText(w, w.desks[m][i])]]

(* query_history(), from the oldest cell on, without the flag latest       *)
HistoryText(w) ==
  [i \in DOMAIN w.history |->
     [monitor |-> Home(w, w.history[i].desk), desktop |-> w.history[i].desk,
      node |-> w.history[i].node]]

(* query_state()                                                           *)
Text(w) ==
  [focused |-> w.mon, primary |-> w.pri, stack |-> w.stack, history |-> HistoryText(w),
   monitors |-> [i \in DOMAIN w.monitors |-> MonitorText(w, w.monitors[i])]]

-----------------------------------------------------------------------------
(* Bug: the second child is not told its parent.                           *)
BugParents(x, n) == {i \in DOMAIN x.first : n = x.first[i]}

(* restore_node(): each node that is read tells its children.              *)
Parents(x, n) == {i \in DOMAIN x.first : n \in {x.first[i], x.second[i]}}

RestoreTree(w, x) ==
  LET Read(f, g) == [i \in Inner |-> IF i \in DOMAIN f THEN f[i] ELSE g[i]]
  IN [w EXCEPT !.first = Read(x.first, @), !.second = Read(x.second, @),
               !.parent = [n \in Node |-> IF Parents(x, n) = {} THEN @[n]
                                          ELSE CHOOSE i \in Parents(x, n) : TRUE],
               !.sticky = @ \union x.sticky]

(* restore_desktop()                                                       *)
RestoreDesktop(w, x) ==
  LET t == [RestoreTree(w, x.tree) EXCEPT !.root[x.id] = x.tree.root, !.gap[x.id] = x.gap]
  IN [t EXCEPT !.focus[x.id] = FindIn(t, x.id, x.focused)]

(* add_desktop(): the desktop gets the gap of its monitor.                 *)
AddDesktop(w, m, d) ==
  [w EXCEPT !.desks[m] = Append(@, d), !.shown[m] = Or(@, d), !.gap[d] = w.monGap[m]]

(* add_monitor(): before the first one that does not come before it.       *)
AddMonitor(w, m) ==
  LET after == {i \in 1..Len(w.monitors) : Rank[m] <= Rank[w.monitors[i]]}
      place == IF after = {} THEN Len(w.monitors) + 1 ELSE Min(after)
  IN [w EXCEPT !.monitors = InsertAt(@, place, m), !.mon = Or(@, m)]

(* restore_monitor()                                                       *)
RestoreMonitor(w, x) ==
  LET t == [w EXCEPT !.monGap[x.id] = x.gap, !.count[x.id] = x.stickyCount]
      u == Loop(LAMBDA v, d : AddDesktop(RestoreDesktop(v, d), x.id, d.id), t, x.desktops)
  IN [u EXCEPT !.shown[x.id] = IF x.focused \in Range(u.desks[x.id]) THEN x.focused ELSE @]

(* Do history_add() and the cell name the same place?                      *)
Same(d, n, cell) == IF n # None THEN cell.node = n ELSE cell.desk = d

(* history_add() at the end of the list                                    *)
HistoryAdd(history, d, n) ==
  LET aged == [i \in DOMAIN history |->
                 [history[i] EXCEPT !.latest = @ /\ ~Same(d, n, history[i])]]
  IN IF history # <<>> /\ Same(d, n, history[Len(history)]) THEN history
     ELSE Append(aged, [desk |-> d, node |-> n, latest |-> TRUE])

(* restore_history(): places that do not exist are left out.               *)
RestoreHistory(w, cells) ==
  Loop(LAMBDA t, x :
         IF x.monitor \in Range(t.monitors) /\ x.desktop \in Range(t.desks[x.monitor])
         THEN [t EXCEPT !.history = HistoryAdd(@, x.desktop, FindIn(t, x.desktop, x.node))]
         ELSE t, w, cells)

(* restore_stack(): each window that is in a tree goes above the others.   *)
RestoreStack(w, windows) ==
  LET Located(n) == \E d \in Desktop : n \in Below(w, w.root[d])
  IN Loop(LAMBDA t, n : IF Located(n)
                        THEN [t EXCEPT !.stack = Append(Unlisted(@, n), n)]
                        ELSE t, w, windows)

(* restore_state(), what it makes of a text                                *)
RestoreMonitors(texts) ==
  Loop(LAMBDA t, x : AddMonitor(RestoreMonitor(t, x), x.id), Void, texts)

Restored(x) ==
  LET u == RestoreStack(RestoreHistory(RestoreMonitors(x.monitors), x.history), x.stack)
      Find(m, otherwise) == IF m \in Range(u.monitors) THEN m ELSE otherwise
  IN [u EXCEPT !.mon = Find(x.focused, @), !.pri = Find(x.primary, @)]

-----------------------------------------------------------------------------
(* What remove_monitor() tells when there is no focused monitor, in        *)
(* cleanup() and restore_state(): of its desktops, which lose their trees, *)
(* and of itself.                                                          *)
TellDesktopGone(s, w, d) ==
  LET t == PutStatus(s, "other", None)
  IN PutStatus(IF w.root[d] = None THEN t ELSE PutStatus(t, "report", None), "report", None)
TellMonitorGone(s, w, m) ==
  PutStatus(Loop(LAMBDA t, d : TellDesktopGone(t, w, d), PutStatus(s, "other", None), w.desks[m]),
            "report", None)
TellRemoval(s, w) == Loop(LAMBDA t, m : TellMonitorGone(t, w, m), s, w.monitors)

(* What restore_state() tells while it adds desktops and monitors: the     *)
(* first monitor of the text is the focused one once it is added.          *)
TellMonitorAdded(s, y, head) ==
  PutBoth(Loop(LAMBDA t, d : PutBoth(t, IF y.id = head THEN None ELSE head), s, y.desktops), head)
TellRestored(s, x) ==
  LET head == x.monitors[1].id
  IN Loop(LAMBDA t, y : TellMonitorAdded(t, y, head), s, x.monitors)

(* restore_subscribers(), with the first monitor focused                   *)
Relist(s, q, mon) == Loop(LAMBDA t, r : AddSubscriber(t, r, mon), s, q)

(* The subscribers over a restart: query_subscribers() writes the counts,  *)
(* cleanup() tells of what it removes and lets them go, the descriptors    *)
(* without the flag pass the exec, restore_subscribers() lists them again. *)
HandOver(w) ==
  LET cleaned == TellRemoval(streams, w)
      left == Loop(RemoveSubscriber, cleaned, cleaned.list)
      started == [left EXCEPT !.open = @ \intersect left.kept, !.restart = FALSE,
                              !.count = streams.count]
  IN Relist(started, streams.list, w.monitors[1])

-----------------------------------------------------------------------------
Bare == world.root = NoTree

(* What a handler leaves of the subscribers.                               *)
Leaves(s) ==
  /\ streams' = s
  /\ late' = IF phase = "asked" THEN late \union (Range(streams.list) \ Range(s.list)) ELSE late

(* cmd_subscribe()                                                         *)
Subscribe(r, kinds, want, fifo) ==
  /\ phase = "running" /\ Bare
  /\ streams.kinds[r] = {} /\ r \notin streams.gone
  /\ streams' = AddSubscriber([streams EXCEPT
                   !.kinds[r] = kinds, !.want[r] = want, !.count[r] = IF want = None THEN -1 ELSE want,
                   !.fifo = IF fifo THEN @ \union {r} ELSE @, !.open = @ \union {r}], r, world.mon)
  /\ UNCHANGED <<world, phase, saved, dumped, restores, late, crossed, misled>>

(* A reader closes its end.                                                *)
Close(r) ==
  /\ streams.kinds[r] # {} /\ r \notin streams.gone
  /\ streams' = [streams EXCEPT !.gone = @ \union {r}]
  /\ UNCHANGED <<world, phase, saved, dumped, restores, late, crossed, misled>>

(* set_layout(), of a desktop that is shown or not: it tells a report, or  *)
(* none.                                                                   *)
Notify(reports) ==
  /\ phase \in {"running", "asked"} /\ Bare
  /\ Leaves(IF reports THEN PutBoth(streams, world.mon) ELSE PutStatus(streams, "other", world.mon))
  /\ misled' = (misled /\ ~reports)
  /\ UNCHANGED <<world, phase, saved, dumped, restores, crossed>>

(* Bug: the report is put before the monitor is focused.                   *)
BugTellFocus(s, m, changed) ==
  LET t == PutStatus(s, "report", world.mon)
  IN IF changed THEN PutStatus(PutStatus(t, "other", m), "other", m) ELSE t

(* What focus_node() tells: the monitor, the desktop, the report.          *)
TellFocus(s, m, changed) ==
  PutStatus(IF changed THEN PutStatus(PutStatus(s, "other", m), "other", m) ELSE s, "report", m)

(* focus_node(), of a desktop without windows                              *)
FocusMonitor(m) ==
  LET history == HistoryAdd(world.history, world.shown[m], None)
  IN /\ phase \in {"running", "asked"} /\ Bare
     /\ Len(history) <= MaxCells
     /\ world' = [world EXCEPT !.mon = m, !.history = history]
     /\ Leaves(TellFocus(streams, m, m # world.mon))
     /\ misled' = FALSE
     /\ UNCHANGED <<phase, saved, dumped, restores, crossed>>

(* wm -r: the loop still handles the events of this turn.                  *)
AskRestart ==
  /\ phase = "running"
  /\ restores < MaxRestores
  /\ phase' = "asked"
  /\ streams' = [streams EXCEPT !.restart = TRUE]
  /\ UNCHANGED <<world, saved, dumped, restores, late, crossed, misled>>

(* The end of a turn of the loop.                                          *)
EndTurn ==
  /\ phase \in {"running", "asked"}
  /\ phase' = IF phase = "asked" THEN "ended" ELSE phase
  /\ Leaves(Prune(streams))
  /\ UNCHANGED <<world, saved, dumped, restores, crossed, misled>>

(* The dump, cleanup(), the exec, and restore_state() in a new program.    *)
Restart ==
  /\ phase = "ended"
  /\ phase' = "running"
  /\ world' = Restored(Text(world))
  /\ streams' = HandOver(world)
  /\ crossed' = crossed \union Range(streams.list)
  /\ misled' = (world.mon # world.monitors[1])
  /\ saved' = None /\ dumped' = Void
  /\ restores' = restores + 1
  /\ UNCHANGED late

(* wm -d                                                                   *)
DumpState ==
  /\ phase = "running" /\ Bare
  /\ saved = None /\ restores < MaxRestores
  /\ saved' = Text(world)
  /\ dumped' = world
  /\ UNCHANGED <<world, streams, phase, restores, late, crossed, misled>>

(* wm -l                                                                   *)
LoadState ==
  /\ phase = "running" /\ saved # None
  /\ world' = Restored(saved)
  /\ streams' = TellRestored(TellRemoval(streams, world), saved)
  /\ misled' = (saved.focused # saved.monitors[1].id)
  /\ saved' = None /\ dumped' = Void
  /\ restores' = restores + 1
  /\ UNCHANGED <<phase, late, crossed>>

-----------------------------------------------------------------------------
(* The worlds to restore: the monitors in any order, the trees of up to all*)
(* windows and inner nodes, any focus that the trees allow, sticky windows *)
(* where they may be, every short history and every stacking list.         *)
Orders(S) == {q \in [1..Cardinality(S) -> S] : Range(q) = S}

Trees ==
  {w \in [root : [Desktop -> Node \union {None}],
          first : [Inner -> Window \union {None}], second : [Inner -> Window \union {None}]] :
     LET kids == {w.first[i] : i \in Inner} \union {w.second[i] : i \in Inner}
         roots == Range(w.root)
     IN /\ \A d, e \in Desktop : d # e /\ w.root[d] = w.root[e] => w.root[d] = None
        /\ \A i \in Inner : w.first[i] = w.second[i] => w.first[i] = None
        /\ \A i \in Inner : w.first[i] = None <=> w.second[i] = None
        /\ \A i \in Inner : w.first[i] # None => i \in roots
        /\ roots \intersect kids \subseteq {None}}

Planted(tree) ==
  LET Parent(n) == {i \in Inner : n \in {tree.first[i], tree.second[i]}}
  IN [Void EXCEPT !.root = tree.root, !.first = tree.first, !.second = tree.second,
                  !.parent = [n \in Node |-> IF Parent(n) = {} THEN None
                                             ELSE CHOOSE i \in Parent(n) : TRUE],
                  !.desks = Desks]

(* The cells of a history that only history_add() made, at its end.        *)
Histories(w) ==
  LET cells == {c \in [desk : Desktop, node : Node \union {None}] :
                  c.node = None \/ c.node \in Below(w, w.root[c.desk])}
      Latest(q) == [i \in DOMAIN q |->
                      [desk |-> q[i].desk, node |-> q[i].node,
                       latest |-> \A j \in (i + 1)..Len(q) : ~Same(q[j].desk, q[j].node, q[i])]]
  IN {Latest(q) : q \in UNION {[1..k -> cells] : k \in 0..MaxCells}}

WindowsOn(w, desktops) == {n \in Window : \E d \in desktops : n \in Below(w, w.root[d])}

Furniture(w, order, mon, shown, gap, focus, sticky, history, stack) ==
  [w EXCEPT
    !.monitors = order, !.mon = mon, !.pri = mon, !.shown = shown, !.focus = focus,
    !.gap = [d \in Desktop |-> IF d = Desks[mon][1] THEN gap ELSE 0],
    !.count = [m \in Monitor |-> Cardinality(sticky \intersect Below(w, w.root[shown[m]]))],
    !.sticky = sticky, !.history = history, !.stack = stack]

Furnished(w) ==
  \E order \in Orders(Monitor), mon \in Monitor,
     shown \in [Monitor -> Desktop], gap \in {0, 1}, focus \in [Desktop -> Node \union {None}] :
    /\ \A m \in Monitor : shown[m] \in Range(Desks[m])
    /\ \A d \in Desktop : IF w.root[d] = None THEN focus[d] = None
                          ELSE focus[d] \in Below(w, w.root[d])
    /\ \E sticky \in SUBSET WindowsOn(w, Range(shown)), history \in Histories(w),
          stack \in Orders(WindowsOn(w, Desktop)) :
         world = Furniture(w, order, mon, shown, gap, focus, sticky, history, stack)

(* The world that commands and subscribers meet.                           *)
Plain ==
  \E order \in Orders(Monitor), m \in Monitor :
    world = [Planted([root |-> NoTree, first |-> NoChild, second |-> NoChild]) EXCEPT
               !.monitors = order, !.mon = m, !.shown = [x \in Monitor |-> Desks[x][1]]]

Nobody ==
  [list |-> <<>>, kinds |-> [r \in Reader |-> {}], fifo |-> {}, count |-> [r \in Reader |-> 0],
   open |-> {}, kept |-> {}, restart |-> FALSE, gone |-> {},
   want |-> [r \in Reader |-> None], got |-> [r \in Reader |-> 0],
   told |-> [r \in Reader |-> None]]

Init ==
  /\ Plain \/ \E tree \in Trees : tree.root # NoTree /\ Furnished(Planted(tree))
  /\ streams = Nobody
  /\ phase = "running"
  /\ saved = None /\ dumped = Void
  /\ restores = 0
  /\ late = {} /\ crossed = {}
  /\ misled = FALSE

Next ==
  \/ \E r \in Reader, kinds \in Kinds,
        want \in (1..MaxWant) \union {None}, fifo \in BOOLEAN : Subscribe(r, kinds, want, fifo)
  \/ \E r \in Reader : Close(r)
  \/ \E reports \in BOOLEAN : Notify(reports)
  \/ \E m \in Monitor : FocusMonitor(m)
  \/ AskRestart \/ EndTurn \/ Restart
  \/ DumpState \/ LoadState

Spec == Init /\ [][Next]_vars

-----------------------------------------------------------------------------
(* Type correctness.                                                       *)
Cells == [desk : Desktop, node : Node \union {None}, latest : BOOLEAN]
Worlds ==
  [monitors : Seq(Monitor), mon : Monitor \union {None}, pri : Monitor \union {None},
   desks : [Monitor -> Seq(Desktop)], shown : [Monitor -> Desktop \union {None}],
   count : [Monitor -> Nat], monGap : [Monitor -> Nat], gap : [Desktop -> Nat],
   root : [Desktop -> Node \union {None}], focus : [Desktop -> Node \union {None}],
   first : [Inner -> Node \union {None}], second : [Inner -> Node \union {None}],
   parent : [Node -> Inner \union {None}], sticky : SUBSET Node,
   history : Seq(Cells), stack : Seq(Window)]

TypeOK ==
  /\ world \in Worlds
  /\ IsInjective(world.monitors) /\ Range(world.monitors) = Monitor
  /\ world.mon # None
  /\ \A m \in Monitor : world.shown[m] # None /\ world.desks[m] # <<>>
  /\ streams.list \in Seq(Reader) /\ streams.open \union streams.kept \subseteq Reader
  /\ streams.count \in [Reader -> Int] /\ streams.got \in [Reader -> Nat]
  /\ phase \in {"running", "asked", "ended"}
  /\ restores \in 0..MaxRestores
  /\ late \union crossed \subseteq Reader
  /\ misled \in BOOLEAN

(* The variables have their types, and every stream that is open belongs   *)
(* to one subscriber in the list, over restarts as well, and the other way *)
(* round; except that a stream is kept open for nobody when its subscriber *)
(* goes between wm -r and the exec.                                        *)
StreamsMatch ==
  /\ TypeOK
  /\ IsInjective(streams.list)
  /\ Range(streams.list) \intersect late = {}
  /\ streams.open \ late = Range(streams.list)

(* A reader that asked for a number of events gets them before bspwm ends  *)
(* its stream, and no more: but a reader that was handed over may get more,*)
(* for what cleanup() tells of is not in the counts.                       *)
CountKept ==
  \A r \in Reader : streams.want[r] # None /\ r \notin streams.gone =>
    LET left == IF r \in Range(streams.list) THEN streams.count[r] ELSE 0
        due == streams.want[r] - left
    IN IF r \in crossed THEN streams.got[r] >= due ELSE streams.got[r] = due

(* The last report that a reader got names the focused monitor, unless the *)
(* monitors were restored since: restore_state() sets the focused monitor  *)
(* after the last report.                                                  *)
FocusTold ==
  misled \/ phase = "ended" \/
  \A r \in Range(streams.list) \ streams.gone :
    "report" \in streams.kinds[r] => streams.told[r] = world.mon

(* What a restart and wm -l make of the world is what was dumped: its      *)
(* trees with their parents, the desktops that are shown, every focus, the *)
(* sticky windows and their counts, and the stacking list.  The history    *)
(* has the desktops in the same order, and the nodes that selectors saw:   *)
(* more of them, where a cell of the desktop alone had aged them.  But the *)
(* monitors come in the order of their rectangles, and the desktops get    *)
(* the gaps of their monitors.                                             *)
DesktopsSeen(w) ==
  LET q == [i \in DOMAIN w.history |-> w.history[i].desk]
      Newest(i) == \A j \in (i + 1)..Len(q) : q[j] # q[i]
      places == SelectSeq([i \in DOMAIN q |-> i], Newest)
  IN [i \in DOMAIN places |-> q[places[i]]]
NodesSeen(w) == SelectSeq(w.history, LAMBDA c : c.latest /\ c.node # None)

AsDumped(w, v) ==
  /\ \A f \in DOMAIN w \ {"monitors", "gap", "history"} : v[f] = w[f]
  /\ Range(v.monitors) = Range(w.monitors)
  /\ \A i, j \in DOMAIN v.monitors : i < j => Rank[v.monitors[i]] < Rank[v.monitors[j]]
  /\ DesktopsSeen(v) = DesktopsSeen(w)
  /\ NodesSeen(w) = SelectSeq(NodesSeen(v), LAMBDA c : c \in Range(NodesSeen(w)))
  /\ \A m \in Monitor : \A d \in Range(v.desks[m]) : v.gap[d] = v.monGap[m]

WorldRestored ==
  [][restores' # restores => AsDumped(IF phase = "ended" THEN world ELSE dumped, world')]_vars
=============================================================================
