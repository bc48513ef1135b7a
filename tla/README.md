# Verification of bspwm

This directory holds TLA+ models of bspwm, a tiling window manager, the TLC
configurations that check them and proofs for the TLA+ proof system. Paths
such as `tree.c:291` are relative to `src/src/`.

## The system

bspwm is one process with one thread. Its main loop (`bspwm.c`) waits on the X
connection, a socket for commands and the pipes of external rule programs, and
runs one handler to its end for each event, command or answer. There is no
preemption: what is hard is the state that a handler leaves behind for the
next one, the nested calls inside a handler that change state the caller still
holds, and the few places where bspwm waits for another process.

| component | state | operations | interacts with |
|---|---|---|---|
| window tree (`tree.c`) | per desktop: root, focus; per node: parent, children, split, flags, preselection, client | insert, unlink, remove, transfer, swap, rotate, flip, circulate, flags, layer, state | history and stack on every focus; desktops and monitors through sticky nodes |
| layout (`tree.c`, `window.c`) | split types, ratios, minimum sizes, rectangles | arrange, resize, rotate, flip, equalize, balance | the tree |
| stacking list (`stack.c`) | doubly linked list of leaves, bottom to top | stack, remove | sends relative restack requests to the X server |
| focus history (`history.c`) | doubly linked list of places, head, tail, needle | add, remove, find, empty | fallback of focus and activation, selectors |
| desktops (`desktop.c`) | list of desktops per monitor, shown desktop, layout | insert, unlink, add, remove, merge, swap, transfer, activate | tree, history |
| monitors (`monitor.c`) | list of monitors, sticky count, rectangle | add, unlink, remove, merge, swap, RandR update | desktops |
| rules (`rule.c`, `window.c`) | rules; pending rules with a pipe and an event queue | schedule, answer, postpone, replay | the main loop, manage_window |
| subscribers (`subscribe.c`) | list of streams with a mask and a count | add, put_status, prune | every component reports through it |
| pointer grab (`pointer.c`) | grabbed node, resize handle | grab, track, release | a nested event loop |
| restart (`bspwm.c`, `restore.c`, `query.c`) | dumped state | dump, restore | everything |
| commands and selectors (`messages.c`, `query.c`, `parse.c`) | none | run a chain of commands on one node, desktop or monitor | everything |
| EWMH, settings, size hints, JSON, client | root-window properties, global settings | - | - |

What makes each of them correct:

* stacking: the list has every client once, is ordered by layer and state, and
  the X server shows the same order;
* history: no cell outlives its node; selectors see places from the newest to
  the oldest, without repetition;
* tree: it is a full binary tree, its flags agree with those of the leaves,
  the focus of a desktop is a focusable node of it;
* layout: the windows share the monitor without hole or overlap, none is
  smaller than its minimum while all fit, resizing moves one fence;
* desktops and monitors: every desktop is on one monitor, every client on one
  desktop, sticky nodes on a shown desktop, the counts count, the mapped
  windows are those of the shown desktops;
* rules: a window is managed at most once, and in the end if its program answers;
* subscribers: each gets every report it asked for, as often as it asked for;
* restart: what was dumped is what is restored.

## The modules

Arrows read "is used by".

    StackOrder  -> StackingList
                -> Stacking
    FocusOrder  -> History                (every call of History does what FocusOrder says)
    WindowSets  -> TreeLinks              (TreeLinks implements WindowSets)
                   TreeLinks -> Trees
    Places      -> Screens
    Subscribers -> Restart
    EventLoop
    Layout

and the proofs, each module with the one it is about:

    ListFacts -> StackingListProofs  (StackingList)
              -> StackingProofs      (Stacking)
              -> HistoryProofs       (History)
              -> EventLoopProofs     (EventLoop)
              -> RestartProofs       (Restart, Subscribers)
              -> ScreensProofs       (Screens, Places)
    TreeLinksProofs                  (TreeLinks, WindowSets)

| module | models | state | actions and operators |
|---|---|---|---|
| `StackOrder` | the algorithms of `stack.c` on a sequence, bottom first | - | `StackLevel`, `LimitAbove`, `LimitBelow`, `StackList` are `stack_level()`, `limit_above()`, `limit_below()` and the body of `stack()`; `StackServer` is what the X server does with the request of `window_above()` or `window_below()` |
| `StackingList` | the list as a component, under the protocol "restack what you changed" | clients, their layer and state, the list, the order of the X server, the window that waits to be restacked | `MakeClient`, `ChangeLevel`, `StackLeaf`, `RemoveLeaf`, and `ForeignRestack` for windows that are not managed (`configure_request()`) |
| `Stacking` | the handlers that restack, calling each other as in `tree.c` | home desktop, layer, state, last state of the windows, list, focus of the desktops, focused desktop | `ChangeLayer`, `ChangeState`, `Focus`, `Activate`, `PointerMove`, `Manage`, `Unmanage`, `Move`, `Send`; each applies one operator (`SetLayer`, `SetState`, `FocusNode`, `ActivateNode`, `TransferWithin`, `TransferAcross`) that stands for the whole handler. A loop over leaves is a recursive function on the numbers of the windows |
| `FocusOrder` | abstract: what the history promises to selectors | an order of places | `Added` (a place that was focused or activated) and `Without` (nodes and desktops that are forgotten), the order after a call with these arguments |
| `History` | `history.c` | home of the nodes, list of cells, `history_head`, `history_needle`, `record_history` | `Create`, `Visit`, `Leave`, `ForgetDesktop`, `Find`, `SetRecord` |
| `WindowSets` | abstract: which windows are on which desktop | a set of windows for each desktop | `Came`, `Gone`, `Moved`, `Exchanged`, the sets after a call with these arguments |
| `TreeLinks` | the pointers of the window trees under `insert_node()`, `unlink_node()`, `free_node()`, `swap_nodes()`, `rotate_tree()` | allocated nodes, nodes with a client, root, parent and children | `Add`, `Remove`, `Transfer`, `Swap`, `Rotate` |
| `Trees` | what the nodes say of themselves, on the pointers of `TreeLinks` | hidden, vacant, tiled, preselected nodes, focus of each desktop, focused desktop | `Manage`, `InsertReceptacle`, `Unmanage`, `Transfer`, `Swap`, `Circulate`, `Hide`, `ChangeState`, `Preselect`, `Focus`, `Activate`; what `focus_node()` and `activate_node()` do to the focus, and when they refuse, is `FocusNode` and `ActivateNode` |
| `Places` | the functions of `tree.c` and `desktop.c` that move nodes and desktops between monitors, sticky nodes and their counts among them, on a record of the state | - | `FocusNode`, `ActivateNode`, `TransferNode`, `SwapNodes`, `TransferStickyNodes`, `SetSticky`, `RemoveNode`, `ActivateDesktop`, `InsertDesktop`, `UnlinkDesktop`, `RemoveDesktop`, `MergeDesktops`, `TransferDesktop`, `SwapDesktops` |
| `Screens` | the commands on nodes, desktops and monitors that call them, and the outputs that come and go (`update_monitors()`) | monitors, their lists of desktops, the shown one, sticky counts, focused monitor; home of the windows, sticky ones, focus of each desktop, mapped windows | one action per command (`ToDesktop`, `SendDesktop`, `SwapDesktop`, `Bubble`, `DeleteDesktop`, `ResetDesktops`, `Stick`, ...), the chains `StickThenFocus` and `StickThenActivate`, `Manage`, `Unmanage`, `ScreenChange` |
| `Subscribers` | the list of subscribers and their streams, on a record of the state | - | `AddSubscriber`, `RemoveSubscriber`, `PutStatus`, `Prune` |
| `Restart` | the dump and its restoration, by a restart and by `wm -l` | the world (monitors, desktops, trees, history, stacking list), the subscribers, the phase of the main loop, a saved text | `Subscribe`, `Close`, `Notify`, `FocusMonitor`, `AskRestart`, `EndTurn`, `Restart`, `DumpState`, `LoadState` |
| `Layout` | split types, ratios, minimum sizes and rectangles of one desktop | the tree as nested records, the monocle layout | `Manage`, `Unmanage`, `ChangeState`, `Swap`, `Rotate`, `Flip`, `SetType`, `SetRatio`, `Equalize`, `Balance`, `Resize`, `SetLayout` |
| `EventLoop` | the main loop of `bspwm.c` with the pending rules of `rule.c` and the nested loop of `track_pointer()`, the X server, the clients, the user, the rule programs and `bspc` | windows of the server, its event mask, requests and events under way, the queue of XCB, pending rules with their pipes, managed windows, the place in the loop, the grabbed node | bspwm: `Select`, `ReadAnswer`, `ManagePending`, `HandleMessage`, `SkipSocket`, one action per event, `EventsDone`; around it `Serve`, `Nudge`, `Query`, `ProgramWrites`, `ProgramEnds`, `ClientMaps`, `ClientWithdraws`, `ClientDestroys`, `ClientWrites`, `UserPresses`, `UserReleases` |
| `ListFacts` | lemmas: places and cuts of sequences, `RemoveAt` and `InsertAt`, recursive functions on `0..n`; what each operator of `StackOrder` does to the order of a list | | |
| `StackingListProofs`, `StackingProofs`, `HistoryProofs`, `TreeLinksProofs`, `EventLoopProofs`, `RestartProofs`, `ScreensProofs` | theorems about the module in the name, in `TreeLinksProofs` also that `TreeLinks` implements `WindowSets` | | |
| `MC...` | model values for TLC | | |

Operators whose comment begins with "Bug:" are wrong on purpose: each is the
form that a plausible mistake would give to the definition after it, and shows
that the property it is meant for can fail. No specification uses them.

### How the code maps to the models

* **A handler is a step.** bspwm runs a handler to its end before it reads the
  next event, so that every action is one handler with all its nested calls.
  Outside `EventLoop` a handler is an operator from a state to a state and
  nested calls are compositions, in the order of the code.
* **The list** of `stack.c` is a sequence of windows. `window_above()` sends a
  request that places a window just above a sibling; the model keeps the order
  of the server beside the list, and lets other clients move their own windows.
* **Nodes in `Stacking`** are sets of leaves. Which leaves form a subtree
  depends on the tree, which that module does not have: any set that is nested
  in the focused node, holds it, or is apart from it, is allowed. Each desktop
  is shown on its own monitor; hidden and sticky windows are left out.
* **Freed cells and nodes** matter. In `History` a pointer to a cell that the
  list does not reach any more has the value `Lost`, and `history_head` may be
  0 while the list is not empty, as in the code. In `TreeLinks` a freed node
  leaves `alive`, and `LinksSound` says that no pointer leads to it.
* **Geometry is free outside `Layout`.** In `TreeLinks` and `Trees`, which leaf
  `find_public()` chooses, and in `TreeLinks` which nodes a rotation turns and
  the side of a new leaf, depend on rectangles, split types, preselections and
  settings: all choices are allowed. Transfers and swaps of sticky nodes, which
  the code refuses in some desktops, are allowed as well: these are more
  behaviours than the code has.
* **What an abstract specification says of a call.** `FocusOrder` and
  `WindowSets` say what the history and the trees come to when they are asked
  for something definite: to add this place, to forget these nodes, to move the
  windows below this node. That some such request explains a step would mean
  little, since forgetting explains every loss; `History.CallKeepsPromise` and
  `TreeLinks.HandlerKeepsPromise` therefore name the request that each call is,
  with its own arguments. In `FollowsOrder` it is every call that could have
  made the step, in `HoldsWindows` one of them.
* **The focus in `Trees`.** When nothing is asked for, the history may give any
  node of the desktop that is not hidden and no receptacle (`Remembered`),
  since `history_last_node()` reads the node's own flag alone: also an internal
  node none of whose windows can be shown. `focus_node()` then changes nothing,
  as `activate_node()` does on the focused desktop (`here`).
* **A tree in `Places` and `Screens`** is the set of its windows: these modules
  are about which desktop holds a window and which monitor holds and shows a
  desktop. What `history.c` answers is any order of the places, chosen at the
  start of the handler; the history is taken to be recorded, so that it knows
  every monitor with a desktop, and `GuessMonitor` needs no `mon_head`
  (`tree.c:545`). The count of sticky nodes is an unsigned integer that
  wraps around (`Word`).
* **A tree in `Layout`** is a record that holds its children, since here no
  pointer can be wrong: `TreeLinks` shows that. Ratios are exact fractions,
  `<<0, 0>>` standing for what is not a number, where the code has doubles.
* **The text of a dump** names places by their identifiers and has what
  `query_state()` writes and no more; `Restored` is `restore_state()` on it,
  parents and lists being built again by the functions that read it.
* **In `EventLoop` a handler is cut where it waits**: for `select()`, for the
  output of a rule program, and for a reply of the X server. A reply comes after
  the server has served every earlier request (`requests`), and XCB reads the
  events that precede it into its queue (`wire` becomes `inbox`), which
  `select()` does not see. A postponed event is the number of the message; what
  handling it changes is in other modules. A withdrawal is one event: when a
  window is mapped the server sends one and the client another, and the second
  finds nothing to do. Identifiers of windows are not used again. The round
  trips and the hiding of the motion recorder inside `focus_node()` are left
  out: they only make more of the gaps that `EventsHandled` and `missed` are
  about. While a window is grabbed (`grabbed`), the same handlers take the
  events, and bspwm does not go back to `select()`.

## What is checked

| run | instance | shows |
|---|---|---|
| `MCStackingList` | 3 windows; every order of the server at the start (85,096 states) | list sound and complete, ordered when settled; server and list agree; `stack()` places where asked |
| `MCStacking` | 3 windows in the normal layer or 2 in any, 2 desktops, pointer focus (51,667) | list complete; order is only lost in the ways `OrderKept` says; focusing reveals and raises; only fullscreen windows change state unasked |
| `MCHistory` | 3 nodes, 2 desktops on one monitor and 1 on another, at most 4 cells (29,592 states up to names) | no stale cell, `latest` on the newest cell; while `history_head` is the oldest cell, every call changes the visible places as `FocusOrder` says |
| `MCHistoryLast` | the same, at most 5 cells | **violated**: `last` selects nothing (finding 1) |
| `MCTreeLinks` | 6 nodes, 2 desktops (145 states up to names) | trees sound and acyclic; each call changes the windows of the desktops as `WindowSets` says for its arguments, so that only a removal takes any away |
| `MCTrees` | 4 nodes on 2 desktops, or 5 on one (13,481 states up to names) | flags of every node agree with those below; the focus of a desktop is a node that can be focused; circulating turns the tiled windows |
| `MCScreens` | 2 outputs and a monitor added by a command, 3 desktops, 2 windows (1,603 states up to names) | lists and focus sound, mapped windows are those of shown desktops, sticky windows shown and counted, no window lost |
| `MCScreensSticky` | the same | **violated**: a sticky window on a hidden desktop (finding 3) |
| `MCRestart` | 2 monitors, 3 desktops, 2 windows, 2 subscribers, 1 restart or load (902,828) | what is restored is what was dumped; streams and counts survive; the last report names the focused monitor |
| `MCLayout` | 3 windows on 12 by 12 pixels, at least 5 by 5 each, one command that sets a ratio (87,471) | windows tile the monitor, minimum sizes, rotation and flip as pictures, fair balance, a resize moves one fence |
| `MCEventLoop` | 2 windows, 3 requests of clients, user and `bspc` together, rule programs, a server that may serve clients at any time, `BusySpec` (293,473) | one entry for a window, answers understood, postponed messages kept and in order, destroyed windows forgotten but for those that `missed` names; the grabbed node is not freed; pending windows are resolved, messages read, events handled |
| `MCEventLoopStuck` | 2 windows, 2 requests, no rule programs, no further events, `Spec` | **violated**: an event waits in the queue of XCB (finding 2) |

Why the bounds are enough to be of use:

* three windows are the fewest with a focused one, a demoted one and one that
  is between or beside them; three levels meet in each layer. In `MCStacking`
  the third window stays in the normal layer (`Small`), so that layers meet in
  pairs;
* `MaxEntries` bounds the calls of `history_add()`: four cells hold a removed
  cell between two duplicates, the case in which `history_remove()` clears more
  than it was asked to, and a cell beside them; five, with which finding 1
  shows, take the properties of `MCHistory` too long. Two desktops on one
  monitor tell the newest place of a desktop from that of its monitor, and a
  third one, on another monitor, what is left alone (`history.c:62`, 72).
  `ShortSearches` goes on from searches and from the setting `record_history`
  in lists of up to three cells: they move the needle and leave the list;
* six nodes make a tree of three leaves (five nodes) and leave one for the
  internal node of an insertion; a receptacle is replaced, the parent of the
  root's child is freed, brothers are swapped, a spiral turns a subtree. The
  proofs take the bound away. `Trees` has more to
  say of each node: five nodes on one desktop are reached without
  preselections, either three windows that are not hidden or two tiled ones and
  a receptacle, with any of them hidden (the constraint `SmallTrees`; what a
  step makes of others is checked, and not gone on from), four otherwise, where
  nothing is preselected while a focus is mislaid. Each exception of `FocusKept`
  happens: without it the run fails;
* `Screens` has two outputs, since the desktops of an unplugged one need
  another monitor, and a third monitor that no output stands for; `Steady`
  stops after the count of sticky nodes has gone wrong in the way of finding 3,
  or a chain of commands has mislaid a focus, and after windows were not mapped
  (`unseen`) goes on only with at most two monitors and one sticky window; the
  states in which that happens are still checked. A change of the outputs
  after which no monitor remains is left out;
* in `Restart` the worlds with windows (every tree of two windows, every
  history of two cells, every shown desktop and focus that goes with them) are
  dumped and restored as they are; commands and subscribers meet the worlds
  without windows, since a report depends on the focused monitor alone. Two
  events are the fewest for which a count can be wrong by one;
* three windows of 5 pixels do not fit side by side in 12, two do: both cases
  of a fence and its limits. One quarter and minus five leave odd sizes;
* `MaxSent` bounds the requests of clients, user and `bspc` together: three
  make a window pending, send it a message and destroy it, or let a press, a
  message or the other window come in between.

CHECK_DEADLOCK is off in the runs of `EventLoop`, since bspwm waits in
`select()` when the clients have made all their requests, and in `MCRestart`,
since a process that ended, and was restarted as often as `MaxRestores`, does
nothing any more.

Some properties state an exception by name, in a history variable or in the
formula. Each is a behaviour of the code that the run found:

| property | exception |
|---|---|
| `Stacking.OrderKept` | the order of the list is lost only where the focused window and another one change level in one step (`tree.c:1871`, `set_layer()` neutralizes before its own window is restacked), or where a window that the pointer's focus makes floating is not restacked because `auto_raise` is off (`stack.c:168`) |
| `History.FollowsOrder` | `history_head` is not the oldest cell (finding 1) |
| `Trees.FocusKept`, `loose` | a desktop is left without a focus, which `circulate_leaves()` would then dereference (`tree.c:1776`), although it has a window to focus: a transfer took a child of the focused internal node away (1354); a transfer moved, within the desktop or to be followed to another one, the branch of a focused internal node none of whose windows can be shown, and `focus_node()` refuses that node (580), `activate_node()` the focused desktop (487); a swap brought windows to a desktop without a focus; the history gave an internal node with nothing to show (`history.c:174`: a hidden window and a receptacle). Or a swap puts a leaf without a window to show in the place of the focus: if it is a receptacle, the next insertion frees it (`tree.c:323`). And a focus may stay on an internal node whose windows were hidden or went away |
| `Screens.FocusKept`, `mislaid` | `node -g sticky -a` on a window of a hidden desktop: `set_sticky()` moves the window to the shown desktop, and `activate_node()`, with the place that the chain started from, makes it the focus of the desktop it has left (`messages.c:348`, `tree.c:506`); `-f` does the same after finding 3, when the count is wrong and `focus_node()` does not carry the window back |
| `Screens.StickyShown`, `strayed` | finding 3 |
| `Screens.OnScreen`, `unseen` | a monitor without desktops gets one by `transfer_desktop()`, whose windows are not mapped |
| `Screens.WindowsKept` | `merge_desktops()` does not move the windows of a desktop that holds a sticky one, and they are lost with it; when no output has a CRTC, `merge_monitors()` has no monitor to merge into (`monitor.c:533`), and the windows of unplugged monitors are lost with them |
| `Restart.WorldRestored` | monitors come back in the order of their rectangles (`monitor.c`), desktops with the window gap of their monitor (`desktop.c:283` overwrites the one that was read); cells of a desktop alone age the others in another way |
| `Restart.StreamsMatch`, `late` | a subscription that ends between `wm -r` and the `exec` leaves its stream open for nobody |
| `Restart.CountKept`, `crossed` | what `cleanup()` and the restoration report is not in the counts that are handed over: a reader may get more events than it asked for |
| `Restart.FocusTold`, `misled` | `restore_state()` sets the focused monitor after the last report, which names the first monitor of the text |
| `Layout.MinKept`, `stale` | with `removal_adjustment`, `unlink_node()` turns the split of the brother and keeps its minimum size (`tree.c:1384`) |
| `EventLoop.GhostsMissed`, `missed` | `window_set_visibility()` (`window.c:899`) turns the substructure events of the root off with one request and on with another: a window that another client destroys in between keeps its leaf. The server usually serves these requests together |
| `EventLoop.AnswerRead` | holds for rule programs that write whole lines: a pair whose halves come with two `read()` calls is dropped (`rule.c:393`) |

Fairness is assumed in `EventLoop` alone, where liveness is stated. `Bspwm` is
weakly fair, since the loop runs as long as it has something to do; so is the
X server in serving requests; each rule program ends; and the user lets go of
the button. The last two are assumptions that the code relies on and does not
enforce: a program that writes something and stays stops bspwm in `read()`, and
while a button is held on a window, messages and answers wait (`pointer.c:276`).
Nothing is assumed of the clients and of `bspc`. `BusySpec` adds that the X
server has another event to send while some are stuck: it is what
`EventsHandled` needs (finding 2), and `Resolved` and `MessagesRead` do not.

### Findings

1. `history.c:130`: `history_remove()` moves `history_head` to the tail, and
   the next `history_add()` may take the list for empty and drop it
   (`doc/bspwm.1.asciidoc:119`, "Selects the previously focused node").
2. `bspwm.c:258`: events are polled only if `select()` reported the display;
   those that a round trip has read meanwhile (`bspc query -N -n pointed`) wait
   for the next event of the X server (`README.md:5`, "It only responds to X
   events, and the messages it receives on a dedicated socket").
3. `desktop.c:207`: when the shown desktop of a monitor goes to a monitor that
   shows another one, the count of sticky nodes goes with it and the sticky
   nodes come back without; the first monitor then leaves them behind when it
   changes desktops (`doc/bspwm.1.asciidoc:368`, "Stays in the focused desktop
   of its monitor").

## What is proved

TLAPS proves these for every value of the constants, from the assumptions named
in the modules. Those say little: there are finitely many windows
(`WindowAssumption`, `StackingAssumption`); `None` is not a window, a node or a
desktop, and there is a node (`HistoryAssumption`, `TreeAssumption`); answers
are sequences of pieces, switches are Boolean, bounds are numbers
(`LoopAssumption`); there are finitely many monitors and nodes, no two monitors
have one place in the order of `rect_cmp()`, each has a desktop at least, and
a subscription is to something (`RestartAssumption`); there are finitely many
monitors, desktops and windows, `None` is none of them, and the two temporary
desktops of `swap_desktops()` are apart from each other and from the rest
(`PlacesAssumption`, `ScreensAssumption`). One theorem has a hypothesis of its
own, `WholePairs`.

| theorems | state |
|---|---|
| `StackingListProofs`: `TypeCorrect`, `NoDanglingCell`, `ServerFollowsList`, `SettledListOrdered`, `PlacementCorrect` | the types and the four properties of `StackingList` |
| `StackingProofs`: `ListCompleteHolds`, `OnlyFullscreenDemotedHolds` | `ListComplete`, `OnlyFullscreenDemoted` |
| `HistoryProofs`: `NoStaleCellHolds`, `LatestIsNewestHolds` | `NoStaleCell`, `LatestIsNewest` |
| `TreeLinksProofs`: `TypeCorrect`, `AlwaysLinksSound`, `AlwaysTreesAcyclic` | the types, `LinksSound`, `TreesAcyclic` of `TreeLinks` |
| `TreeLinksProofs`: `HoldsWindowsHolds`, `ImplementsWindowSets` | `HoldsWindows`: each call changes the windows of the desktops as `WindowSets` says for its arguments; so that `TreeLinks` implements `WindowSets` |
| `EventLoopProofs`: `OneEntryHolds`, `AnswerReadHolds`, `MessagesKeptHolds`, `GhostsMissedHolds`, `GrabHeldHolds` | the five invariants of `EventLoop` |
| `RestartProofs`: `StreamsMatchHolds`, `CountKeptHolds`, `FocusToldHolds` | the three invariants of `Restart` |
| `ScreensProofs`: `ListsAreSound`, `WindowsAreKept`, `FocusIsKept` | of `Screens` the types and the lists, `ListsSound`, which windows a step may lose, `WindowsKept`, and the focus of the desktops, `FocusKept` |

How they go, and what the inductive invariants add to the properties:

* **`StackingListProofs`.** Sequences are described by the relation "u lies
  under v" (`Under`), and the lemmas of `ListFacts` say what removal and
  insertion do to it. The invariant adds that the list without the window that
  waits is ordered by level, which is what `limit_above()` and `limit_below()`
  rely on: with it, the limit they find separates the lower windows from the
  higher ones (`StackListInOrder`).
* **`StackingProofs`.** `stack()` lists whatever leaves it is given, so that
  `ListComplete` needs every caller to give it leaves that are managed.
  `focus_node()` falls back on the focus of a desktop; the invariant therefore
  adds that the focus of a desktop is made of its windows. Were it left on a
  window that has gone, the next handler would list that window. Each function
  of the code takes a world that is `Sound` to one that `Follows` it: the list
  has lost nothing, and a window that changed state has left the fullscreen
  one. Both are kept by composition, so that a handler follows from the calls
  it makes. A loop over leaves is a function on `0..Windows` (`LoopOfStack`,
  `NeutralizeLeafFacts`).
* **`HistoryProofs`.** `LatestIsNewest` alone is not inductive: `history_add()`
  may put a cell in the middle of the list, in front of newer cells. No newer
  cell names its node, because `history_add()` looks for the last cell of the
  desktop and the cells of a node are all of the desktop that holds it, which
  is `NoStaleCell`: the invariant has both. The loop of `history_remove()` goes
  backwards and may drop a neighbour too; its lemma (`RoundFacts`) says that
  the cells over the place it has reached are none of those it was called for,
  and that dropping cells, whichever, keeps the rest sound (`UnlistFacts`).
* **`TreeLinksProofs`.** Inside a transfer a node is in no tree, so the invariant
  is `Forest(t, x)`: the links are sound but for the loose node `x`; between
  steps it is `Forest(links, None)`. `UnlinkSound` takes `Forest(t, None)` to
  `Forest(u, n)`, `InsertSound` and `FreedSound` take it back, `SwapSound` and
  `TurnSound` keep it. Two facts are the heart of it: an anchor that passes the
  guards of `transfer_node()` is still in its tree after the unlinking
  (`LiftedKeepsAnchor`), and a node of a tree is not below the loose node
  (`TreesApart`). Paths are never counted: "b is above a" means that every set
  with `a` that is closed upward has `b`, and a tree is acyclic when no set of
  nodes holds the parents of all its members, so that each proof about a path
  exhibits one set.
* **`HoldsWindowsHolds`.** The same device the other way: the nodes of a tree, and
  those below a node, are the one set that agrees with the pointers of each of
  its members (`TreeIs`, `BelowIs`). What an operator does to pointers then says
  what it does to these sets (`UnlinkTrees`, `InsertTrees`, `FreedTrees`,
  `SwapTrees`), and each action does to the sets what `WindowSets` says for its node:
  `MovedWithin` and `ExchangedApart` are the transfers and swaps on one desktop,
  which change none. It relies on `Forest` throughout.
* **`EventLoopProofs`.** One invariant has five parts. `Lists`: pending and
  managed windows are apart, and only windows that wait for an answer are left
  to be looked at. `Mail`: nobody has heard of a window that bspwm does not
  know, without which a message could be counted twice when its window comes
  back. `Pointer`: a press that is under way means that the button is held.
  `Ghosts`: of a window that is gone, a request to map it that is still under
  way is followed by the event of its destruction, or that event was kept back;
  otherwise bspwm would make a ghost of it later, which `GhostsMissed` does not
  see yet. Most handlers are covered by two lemmas on what they may do
  to the events (`TakeKeeps`, `SendKeeps`).
* **`AnswerReadHolds`** assumes `WholePairs`: no `write()` of a program ends
  between a key and its value. The hypothesis is needed: `rule.c:393` drops a
  pair whose halves come apart (see the exceptions above). What is understood
  (`Understood`) is a recursive function over the places of an answer, and the
  proof compares it with the meaning of the whole text so far.
* **`RestartProofs`.** The invariant has four parts. `WorldOK`: the world has
  its types and all monitors, each with desktops, one of them shown, and one
  monitor is focused. `StreamsOK`: a subscriber has one cell and an event to come
  (`Sound`), open streams are those of the subscribers (`Matched`), and what a
  reader asked for is what it got and has to come (`Counted`), or less for one
  that was handed over; a reader that never subscribed is nowhere (`Fresh`),
  without which it could come into the list with an event it was not sent.
  `SavedOK`: a saved text is the text of a world with `WorldOK`, and a program
  that is asked to restart has a restart left. `ToldOK` is `FocusTold`. What
  `put_status()` does is a relation (`Follows`: subscribers go, with all they
  asked for, and nothing else changes but what they heard), which composes, so
  that the loops of `cleanup()` and `restore_state()` over monitors, desktops
  and subscribers are covered by one lemma (`FollowsLoop`).
  `StateRestored` says that whatever text `query_state()` wrote of a world with
  `WorldOK`, `restore_state()` makes such a world of it, with the focused
  monitor that the text names: `Restored` is followed operator by operator.

* **`ScreensProofs`.** The invariant adds to `ListsSound` that a monitor that does
  not exist shows nothing (`IInv`). Each function of `desktop.c`, `monitor.c`
  and `tree.c` is an operator on records, and its lemma says which relation
  holds between the record it gets and the one it returns: `Stays` (no list
  and nothing shown has changed), `Roams` (monitors may show another desktop of
  their own), `Sends`, `Drops`, `Swaps`, `Removes` (a desktop has gone to
  another monitor, has gone, has changed places, a monitor has gone with its
  desktops). These compose, so that a command follows from its calls. In the
  middle of a function the lists are only `Legal`: a monitor may show nothing,
  and even the focused monitor may be gone. `Sound` is what holds again at the
  end; that it does rests on what the history knows (`Known`): the fallbacks
  `GuessDesktop` and `GuessMonitor` find a place whenever there is one. The
  loops (`merge_monitors()`, `remove_monitor()`, `update_monitors()`,
  `transfer_sticky_nodes()`, the commands that reset, bubble or reorder
  desktops) are runs: functions on `0..n` whose values stay in the sets that
  their turns lead through (`LoopRuns`, `LoopRunsOn`, `LoopHolds`). Between the
  loops of `update_monitors()` a monitor shows something exactly when it has
  desktops, and one that is wired keeps the others' desktops (`Held`); the last
  loop gives each new monitor one (`Gave`).
* **`WindowsAreKept`.** Most relations say that the same windows are in the trees
  afterwards. Where they are not, the lemma says which have gone and why:
  `Merges`, those of a desktop with sticky windows, merged into one that is
  not shown; `Removes`, those of the monitor's desktops; `Lost`, in
  `update_monitors()`, those of a desktop that no list has at the end, of a
  monitor that is not there any more. So the proof must follow where a
  desktop is between the loops: one that `merge_monitors()` could not move is
  known from the start and is given to no new monitor (`Spares`). `monitor -d`
  removes desktops too, but merges them into the one in focus, which is never
  the one it drops, so that it loses no window (`DropTurnShrinks`).

* **`FocusIsKept`.** `FocusKept` speaks of the desktops on the lists; the invariant
  `Focused` has it for every desktop, removed and temporary ones too, since
  `add_desktop()` and `swap_desktops()` put those on a list as they are. Inside
  a handler a desktop may have windows and no focus: `Blurred` is the set of
  these, and the lemma of each function says which of them it adds or repairs
  (`Minds`, `Mends`, `Heeds`). `unlink_node()` blurs a desktop, and the call of
  `focus_node()` or `activate_node()` that must follow repairs it: it finds a
  window of that desktop because the history, or the walk over the leaves, has
  all of them (`Wary`), the window just managed among them. With the chains of
  commands a handler may instead set `mislaid` (`Attends`). `StickThenFocus`
  had to mark it as well as `StickThenActivate`: when the count of sticky nodes
  is wrong (finding 3), `focus_node()` does not carry the window back.

Only model-checked, because the proofs have not been written:
`Stacking.OrderKept` and `FocusReveals`; `History.FollowsOrder`; of
`Screens`, what is said of mapped and sticky windows
(`OnScreen`, `StickyShown`, `StickyStays`);
`Restart.WorldRestored`, which says of `Restored` that it finds again what
`Text` wrote, tree by tree. And, because their functions are RECURSIVE
operators, for which tlapm has no arithmetic: the properties of `Trees` and
`Layout`. The trees of `Layout` are nested records, and what its functions
compute on them would need induction on the data.

Out of the prover's reach: liveness under fairness (`Resolved`, `MessagesRead`,
`EventsHandled`), ENABLED, and the library's theorems on recursive definitions,
which take an operator as their parameter. Loops that run over `0..n` do not
need those: `ListFacts` states induction of a set of numbers (`Induction`)
and the recursive function itself (`Recursion`).

## What is not modelled

Of the modelled components:

* `Stacking`: hidden, sticky and locked windows, several desktops on a monitor;
* `History`: the hidden flag in the finders' tests;
* `Trees`: the flags private, locked, marked and urgent, rotations and flips,
  which read and set none of its state;
* `Screens`: `swap_monitors()` (the monitors are a set there, and in any order
  in `Restart`), renaming, rectangles and the adaptation of windows to them;
  the change of the outputs after which no monitor remains;
* `Layout`: gaps, paddings and borders, receptacles, private and hidden nodes;
  a ratio that is not a number (`tree.c:1297`) has a value in the model, and
  needs two resizes where the run has one;
* `Restart`: windows with pending rules, which are in no dump; windows that
  came or went while no bspwm ran; texts that bspwm did not write, and dumps
  loaded into another world than their own;
* `EventLoop`: what handling an event changes, the pointer motion and the place
  of the grabbed node. That place becomes stale when a `_NET_WM_DESKTOP`
  message moves the node while it is dragged (`events.c:333`): `move_client()`
  would then swap nodes on the wrong desktop and leave the root pointer of the
  right one alone;
* chains of several commands on one selector (`messages.c`): but for `-g sticky`
  followed by `-f` or `-a`, each action is one command. The selector's place can
  be stale for other commands after `set_sticky()` too (`messages.c:348`), and
  its node a receptacle freed by the next insertion (`tree.c:468`).

Not modelled at all: floating windows' geometry, size hints and
`adapt_geometry()`; the parsers and the JSON tokenizer (string conversions
without state); the client program `bspc` (one request, one answer); EWMH
properties (written, not read back, but for the struts); settings; the list of
rules and their matching.

## Plan

1. Proofs: the flags of `Trees` on top of `Forest`, once the walks up and down
   the tree are sets closed upward; mapped and sticky windows of `Screens`, over
   the relations of `ScreensProofs`; `WorldRestored` for the monitors,
   desktops and trees, over the lemmas of `RestartProofs` on `Restored`.
2. `OrderKept` over `ListFacts`: what a handler leaves out of order is
   the focused window or one it has demoted.
3. The place of the grabbed node over `TreeLinks`: `track_pointer()`'s
   coordinates against transfers that it handles.
4. More chains of commands on one selector: `-d`, `-n` and `-s` with a place or
   a node that the first command made stale.
5. Floating geometry and size hints, against reference definitions.
