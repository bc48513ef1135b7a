------------------------------ MODULE Screens ------------------------------
(***************************************************************************)
(* Monitors, desktops and windows under the commands that move them and    *)
(* under changes of the outputs: monitor.c, and the handlers of messages.c *)
(* and window.c that call the functions of Places.                         *)
(*                                                                         *)
(* A monitor made for an output has the output's identity; the others were *)
(* added by a command.  The rectangles and the order of the monitors are   *)
(* left out: here the monitors are a set, gone through in any order.       *)
(***************************************************************************)
EXTENDS Places

CONSTANT Output      \* the monitors that outputs of the X server stand for

ASSUME ScreensAssumption ==
  Output \subseteq Monitor /\ IsFiniteSet(Monitor) /\ IsFiniteSet(Desktop)

VARIABLES monitors,   \* the list of monitors
          desks,      \* the desktops of a monitor from desk_head to desk_tail
          shown,      \* monitor_t.desk
          count,      \* monitor_t.sticky_count
          mon,        \* the focused monitor
          home,       \* the desktop whose tree holds the window, or None
          sticky,     \* the windows that are sticky
          focus,      \* desktop_t.focus
          visible,    \* the windows with client_t.shown
          strayed,    \* a desktop has left its monitor's count behind
          unseen,     \* a desktop is shown whose windows were not mapped
          mislaid     \* a chain of commands looked for a window where it was

vars == <<monitors, desks, shown, count, mon, home, sticky, focus, visible,
          strayed, unseen, mislaid>>

(* The state, and what the history will answer.                            *)
State(recent) ==
  [monitors |-> monitors, desks |-> desks, shown |-> shown, count |-> count,
   mon |-> mon, home |-> home, sticky |-> sticky, focus |-> focus,
   visible |-> visible, strayed |-> strayed, unseen |-> unseen,
   mislaid |-> mislaid, last |-> None, recent |-> recent]

Becomes(s) ==
  /\ monitors' = s.monitors
  /\ desks' = s.desks
  /\ shown' = s.shown
  /\ count' = s.count
  /\ mon' = s.mon
  /\ home' = s.home
  /\ sticky' = s.sticky
  /\ focus' = s.focus
  /\ visible' = s.visible
  /\ strayed' = s.strayed
  /\ unseen' = s.unseen
  /\ mislaid' = s.mislaid

Orders(S) == {q \in [1..Cardinality(S) -> S] : Range(q) = S}
AnyOrder(S) == {CHOOSE q \in Orders(S) : TRUE}

Occupied(m) == Range(desks[m])
Used == UNION {Occupied(m) : m \in monitors}
Fresh == Desktop \ Used
Home(d) == CHOOSE m \in monitors : d \in Occupied(m)
Managed == {n \in Node : home[n] # None}
On(n) == Home(home[n])

(* Every order of the places that the handler may ask the history for: the *)
(* windows, and where a desktop may stop being shown all of them.          *)
RecentNodes ==
  [monitors : AnyOrder(Monitor), desktops : AnyOrder(Used),
   nodes : Orders(Managed), leaves : Orders(Managed)]
RecentPlaces ==
  [monitors : Orders(Monitor), desktops : Orders(Used),
   nodes : Orders(Managed), leaves : Orders(Managed)]

-----------------------------------------------------------------------------
(* add_monitor()                                                           *)
AddMonitor(s, m) ==
  [s EXCEPT !.monitors = @ \union {m}, !.mon = IF @ = None THEN m ELSE @]

(* remove_monitor()                                                        *)
RemoveMonitor(s, m) ==
  LET Unlinked(t) == [t EXCEPT !.monitors = @ \ {m}, !.count[m] = 0,
                               !.mon = IF @ = m THEN None ELSE @]
      Gone(t) == IF t.mon = m THEN FocusNode(Unlinked(t), None, None, None) ELSE Unlinked(t)
  IN Gone(Loop(LAMBDA t, d : RemoveDesktop(t, m, d), s, s.desks[m]))

(* merge_monitors()                                                        *)
MergeMonitors(s, ms, md) ==
  IF md \in {None, ms} THEN s
  ELSE Loop(LAMBDA t, d : TransferDesktop(t, ms, md, d, FALSE), s, s.desks[ms])

(* The loops of update_monitors(). The outputs with a CRTC have a monitor, *)
(* and s.last is last_wired, ...                                           *)
Light(s, m) == [IF m \in s.monitors THEN s ELSE AddMonitor(s, m) EXCEPT !.last = m]
Scan(s, screen) ==
  Loop(LAMBDA t, m : IF m \in screen.on THEN Light(t, m) ELSE t, s, s.recent.monitors)

(* ... a monitor takes the desktops of those it covers, ...                *)
Absorb(s, m, mb, screen) ==
  IF m # mb /\ {m, mb} \subseteq s.monitors \intersect screen.wired
     /\ <<m, mb>> \in screen.covers
  THEN RemoveMonitor(MergeMonitors([s EXCEPT !.last = IF @ = mb THEN m ELSE @], mb, m), mb)
  ELSE s
AbsorbAll(s, m, screen) ==
  Loop(LAMBDA t, mb : Absorb(t, m, mb, screen), s, s.recent.monitors)
MergeOverlapping(s, screen) ==
  Loop(LAMBDA t, m : AbsorbAll(t, m, screen), s, s.recent.monitors)

(* ... the last one those of the monitors that are not wired, ...          *)
RemoveUnplugged(s, screen) ==
  Loop(LAMBDA t, m : IF m \in t.monitors \ screen.wired
                     THEN RemoveMonitor(MergeMonitors(t, m, t.last), m) ELSE t,
       s, s.recent.monitors)

(* ... and a monitor without a desktop gets one.                           *)
GiveDesktops(s, given) ==
  Loop(LAMBDA t, m : IF m \in t.monitors /\ t.shown[m] = None
                     THEN InsertDesktop(t, m, given[m]) ELSE t,
       s, s.recent.monitors)

(* update_monitors()                                                       *)
UpdateMonitors(s, screen, given) ==
  LET Removed(t) == IF screen.unplugged THEN RemoveUnplugged(t, screen) ELSE t
  IN GiveDesktops(Removed(MergeOverlapping(Scan(s, screen), screen)), given)

-----------------------------------------------------------------------------
(* A handler runs to its end; a command needs a focused desktop.           *)
Handle(handler(_)) == \E r \in RecentPlaces : Becomes(handler(State(r)))
Command(handler(_)) == mon # None /\ \E r \in RecentNodes : Becomes(handler(State(r)))

(* manage_window() and unmanage_window()                                   *)
Manage(n, rule) ==
  LET d == IF rule.sticky THEN shown[mon] ELSE rule.desktop
      m == Home(d)
      Insert(s) == [s EXCEPT !.home[n] = d,
                             !.focus[d] = IF @ = None THEN n ELSE @,
                             !.recent.nodes = Append(@, n),
                             !.recent.leaves = Append(@, n),
                             !.visible = IF d = s.shown[m] THEN @ \union {n} ELSE @]
      Handler(s) ==
        LET t == SetSticky(Insert(s), m, d, n, rule.sticky)
        IN CASE ~rule.focus -> t
             [] rule.focus /\ (d = Current(s) \/ rule.follow) -> FocusNode(t, m, d, n)
             [] OTHER -> ActivateNode(t, d, n)
  IN home[n] = None /\ d \in Used /\ Command(Handler)

Unmanage(n) == Command(LAMBDA s : RemoveNode(s, On(n), home[n], {n}))

(* The commands on a node.                                                 *)
FocusWindow(n) == Command(LAMBDA s : FocusNode(s, On(n), home[n], n))
ActivateWindow(n) == Command(LAMBDA s : ActivateNode(s, home[n], n))
ToDesktop(n, d, follow) ==
  Command(LAMBDA s : TransferNode(s, On(n), home[n], {n}, Home(d), d, follow))
SwapWindows(n1, n2, follow) ==
  /\ home[n1] # home[n2]
  /\ Command(LAMBDA s : SwapNodes(s, On(n1), home[n1], n1, On(n2), home[n2], n2, follow))
Stuck(s, n) == SetSticky(s, On(n), home[n], n, n \notin sticky)
Stick(n) == Command(LAMBDA s : Stuck(s, n))

(* A chain of two commands on a node: the second gets the desktop where    *)
(* the node was before set_sticky() moved it. focus_node() carries it back *)
(* there when the count of sticky nodes is right. What is noted of it is no*)
(* state of the program.                                                   *)
Noted(s, n) == [s EXCEPT !.mislaid = @ \/ s.home[n] # home[n]]
StickThenFocus(n) ==
  Command(LAMBDA s : Noted(FocusNode(Stuck(s, n), On(n), home[n], n), n))
StickThenActivate(n) ==
  Command(LAMBDA s : Noted(ActivateNode(Stuck(s, n), home[n], n), n))

(* The commands on a desktop.                                              *)
FocusDesktop(d) == Command(LAMBDA s : FocusNode(s, Home(d), d, None))
ShowDesktop(d) == Command(LAMBDA s : ActivateIfCan(s, Home(d), d))
SendDesktop(d, m, follow) ==
  /\ Len(desks[Home(d)]) > 1
  /\ Handle(LAMBDA s : TransferDesktop(s, Home(d), m, d, follow))
SwapDesktop(d1, d2, follow) ==
  Command(LAMBDA s : SwapDesktops(s, Home(d1), d1, Home(d2), d2, follow))

(* A desktop at an end of its list goes to the other end, step by step.    *)
Bubble(d, forward) ==
  LET m == Home(d)
      i == CHOOSE k \in DOMAIN desks[m] : desks[m][k] = d
      after == SubSeq(desks[m], i + 1, Len(desks[m]))
      before == Reverse(SubSeq(desks[m], 1, i - 1))
      Past(s, others) == Loop(LAMBDA t, e : SwapDesktops(t, m, d, m, e, FALSE), s, others)
      others == CASE forward /\ after # <<>> -> <<Head(after)>>
                  [] forward /\ after = <<>> -> before
                  [] ~forward /\ before # <<>> -> <<Head(before)>>
                  [] OTHER -> after
  IN Command(LAMBDA s : Past(s, others))

DeleteDesktop(d) ==
  LET m == Home(d)
      i == CHOOSE k \in DOMAIN desks[m] : desks[m][k] = d
      fallback == IF i = 1 THEN desks[m][2] ELSE desks[m][i - 1]
  IN /\ Len(desks[m]) > 1
     /\ Handle(LAMBDA s : RemoveDesktop(MergeDesktops(s, m, d, m, fallback), m, d))

(* The commands on a monitor.                                              *)
FocusMonitor(m) == Command(LAMBDA s : FocusNode(s, m, None, None))
AddDesktop(m, d) == d \in Fresh /\ Command(LAMBDA s : InsertDesktop(s, m, d))
DeleteMonitor(m) == monitors # {m} /\ Handle(LAMBDA s : RemoveMonitor(s, m))

(* monitor -d, with fewer names than there are desktops: k of them remain. *)
ResetDesktops(m, k) ==
  LET keep == SubSeq(desks[m], 1, k)
      Drop(s, d) ==
        LET prev == keep[k]
            t == IF d = Current(s) THEN FocusNode(s, m, prev, s.focus[prev]) ELSE s
        IN RemoveDesktop(MergeDesktops(t, m, d, t.mon, Current(t)), m, d)
  IN /\ k \in 1..Len(desks[m])
     /\ Handle(LAMBDA s : Loop(Drop, s, SubSeq(desks[m], k + 1, Len(desks[m]))))

(* monitor -o: one after the other, the desktop named at place i takes it. *)
ReorderDesktops(m, names) ==
  LET Take(s, i) == SwapDesktops(s, m, s.desks[m][i], m, names[i], FALSE)
  IN Command(LAMBDA s : Loop(Take, s, [i \in DOMAIN names |-> i]))

(* wm -a                                                                   *)
NewMonitor(m, d) ==
  /\ m \notin Output \union monitors
  /\ d \in Fresh
  /\ Command(LAMBDA s : InsertDesktop(AddMonitor(s, m), m, d))

(* The X server tells of a change of the outputs: those that have a CRTC,  *)
(* those that count as wired, which cover which, and whether the others    *)
(* are removed.  There must be desktops left for the new monitors.         *)
ScreenChange(screen) ==
  LET Gifts == {f \in [screen.on \ monitors -> Fresh] : IsInjective(f)}
      given == CHOOSE f \in Gifts : TRUE
  IN /\ Gifts # {}
     /\ Handle(LAMBDA s : UpdateMonitors(s, screen, given))

-----------------------------------------------------------------------------
Init ==
  \E m \in Output, d \in Desktop :
    /\ monitors = {m}
    /\ desks = [x \in Monitor |-> IF x = m THEN <<d>> ELSE <<>>]
    /\ shown = [x \in Monitor |-> IF x = m THEN d ELSE None]
    /\ count = [x \in Monitor |-> 0]
    /\ mon = m
    /\ home = [n \in Node |-> None]
    /\ sticky = {}
    /\ focus = [e \in Desktop \union Range(Stash) |-> None]
    /\ visible = {}
    /\ strayed = FALSE
    /\ unseen = FALSE
    /\ mislaid = FALSE

Rules ==
  {rule \in [desktop : Used, sticky : BOOLEAN, focus : BOOLEAN, follow : BOOLEAN] :
     /\ rule.sticky => rule.desktop = shown[mon]
     /\ rule.follow => rule.focus}

Screens ==
  {screen \in [on : SUBSET Output, wired : SUBSET Output,
               covers : SUBSET (Output \X Output), unplugged : BOOLEAN] :
     /\ screen.on \subseteq screen.wired
     /\ screen.on # {} \/ monitors \intersect screen.wired # {}
     /\ \A m1, m2 \in Output : <<m1, m2>> \in screen.covers =>
          m1 # m2 /\ {m1, m2} \subseteq screen.wired \intersect (screen.on \union monitors)
     /\ screen.unplugged => ~(monitors \subseteq screen.wired)}

NodeCommands ==
  \/ \E n \in Managed : FocusWindow(n) \/ ActivateWindow(n)
  \/ \E n \in Managed : Stick(n) \/ StickThenFocus(n) \/ StickThenActivate(n)
  \/ \E n \in Managed, d \in Used, follow \in BOOLEAN : ToDesktop(n, d, follow)
  \/ \E n1, n2 \in Managed, follow \in BOOLEAN : SwapWindows(n1, n2, follow)

DesktopCommands ==
  \/ \E d \in Used : FocusDesktop(d) \/ ShowDesktop(d) \/ DeleteDesktop(d)
  \/ \E d \in Used, forward \in BOOLEAN : Bubble(d, forward)
  \/ \E d \in Used, m \in monitors, follow \in BOOLEAN : SendDesktop(d, m, follow)
  \/ \E d1, d2 \in Used, follow \in BOOLEAN : SwapDesktop(d1, d2, follow)

MonitorCommands ==
  \/ \E m \in monitors : FocusMonitor(m) \/ DeleteMonitor(m)
  \/ \E m \in monitors, d \in Desktop : AddDesktop(m, d)
  \/ \E m \in monitors, k \in 1..Cardinality(Desktop) : ResetDesktops(m, k)
  \/ \E m \in monitors : \E names \in Orders(Occupied(m)) : ReorderDesktops(m, names)
  \/ \E m \in Monitor, d \in Desktop : NewMonitor(m, d)

Next ==
  \/ \E n \in Node, rule \in Rules : Manage(n, rule)
  \/ \E n \in Managed : Unmanage(n)
  \/ NodeCommands
  \/ DesktopCommands
  \/ MonitorCommands
  \/ \E screen \in Screens : ScreenChange(screen)

Spec == Init /\ [][Next]_vars

-----------------------------------------------------------------------------
(* Type correctness.                                                       *)
TypeOK ==
  /\ monitors \subseteq Monitor
  /\ desks \in [Monitor -> Seq(Desktop)]
  /\ shown \in [Monitor -> Desktop \union {None}]
  /\ count \in [Monitor -> 0..(Word - 1)]
  /\ mon \in Monitor \union {None}
  /\ home \in [Node -> Desktop \union {None}]
  /\ sticky \subseteq Managed
  /\ focus \in [Desktop \union Range(Stash) -> Node \union {None}]
  /\ visible \subseteq Managed
  /\ {strayed, unseen, mislaid} \subseteq BOOLEAN

(* The variables have their types. A desktop is in one list, once, and     *)
(* only monitors that exist have any; the focused monitor exists and each  *)
(* monitor shows one of its desktops: mon->desk, dereferenced without a    *)
(* test, is never null; and no window is in the tree of a desktop that was *)
(* removed or is temporary.                                                *)
ListsSound ==
  /\ TypeOK
  /\ \A m \in Monitor : IsInjective(desks[m]) /\ (m \notin monitors => desks[m] = <<>>)
  /\ \A m, x \in Monitor : m # x => Occupied(m) \intersect Occupied(x) = {}
  /\ mon \in monitors
  /\ \A m \in monitors : shown[m] \in Occupied(m)
  /\ \A n \in Managed : home[n] \in Used

(* The focus of a desktop is one of its windows, and it has one if it has  *)
(* windows: d->focus is neither dangling nor forgotten.  But node -g sticky*)
(* -a leaves the focus of the old desktop on the window that has left it;  *)
(* so does -f, when the count is wrong and it does not carry the window.   *)
FocusKept ==
  mislaid \/
  \A d \in Used : IF \E n \in Node : home[n] = d THEN focus[d] # None /\ home[focus[d]] = d
                                               ELSE focus[d] = None

(* The windows that are mapped are those of the desktops that are shown.   *)
OnScreen == strayed \/ unseen \/ visible = {n \in Managed : home[n] = shown[On(n)]}

(* A sticky window is on the desktop that its monitor shows, where         *)
(* sticky_count, kept by hand at seven places, counts it.                  *)
StickyShown ==
  strayed \/ /\ \A n \in sticky : home[n] = shown[On(n)]
             /\ \A m \in monitors : count[m] = Cardinality({n \in sticky : On(n) = m})

(* A window leaves the trees alone, or with its desktop: because its       *)
(* monitor is removed, or because the desktop held sticky windows, which   *)
(* merge_desktops() does not move.                                         *)
WindowsKept ==
  [][\A n \in Managed : home'[n] = None =>
        \/ \A x \in Node \ {n} : home'[x] = home[x]
        \/ /\ home[n] \notin Used'
           /\ On(n) \notin monitors' \/ \E x \in sticky : home[x] = home[n]]_vars

(* A sticky window leaves a monitor that remains alone, sent to the desktop*)
(* that another one shows; or with others, to the focused desktop when     *)
(* theirs is removed, or to the monitor that sends a desktop in its place. *)
StickyStays ==
  [][\A n \in sticky \intersect sticky' :
        (~strayed' /\ On(n) \in monitors' /\ On(n)' # On(n)) =>
          /\ home'[n] # home[n]
          /\ \/ \A x \in Node \ {n} : home'[x] = home[x]
             \/ home[n] \notin Used' /\ home'[n] = shown'[mon']
             \/ Range(desks'[On(n)]) \intersect Range(desks[On(n)']) # {}]_vars

(* The manual of a sticky node: "Stays in the focused desktop of its       *)
(* monitor."                                                               *)
StickyAlwaysShown == \A n \in sticky : home[n] = shown[On(n)]
=============================================================================
