------------------------------- MODULE Places -------------------------------
(***************************************************************************)
(* Where windows are: desktops on monitors, the desktop each monitor       *)
(* shows, the focused monitor, sticky nodes and the windows mapped on the  *)
(* screen.  The operators are the functions of tree.c and desktop.c that   *)
(* move nodes and desktops about; each takes a record of the state and     *)
(* returns the record when the function returns.                           *)
(*                                                                         *)
(* A tree is the set of its windows: the functions are applied to one      *)
(* window or to a whole tree.  What history.c answers in the course of a   *)
(* handler is any order of the places, newest first (s.recent); History    *)
(* models the list itself.  Every window is focusable.                     *)
(*                                                                         *)
(* s.strayed and s.unseen are no state of the program: they remember that  *)
(* transfer_desktop() has left a count of sticky nodes wrong, and that it  *)
(* gave a monitor without desktops one whose windows are not mapped.       *)
(***************************************************************************)
EXTENDS Integers, FiniteSets, Sequences, SequencesExt

CONSTANTS Monitor,   \* the monitors there may be
          Desktop,   \* the desktops there may be
          Node,      \* the windows there may be
          Stash,     \* the temporary desktops of swap_desktops(), two of them
          None,      \* the null pointer
          Word       \* how many values an unsigned int has

ASSUME PlacesAssumption ==
  /\ None \notin Monitor \union Desktop \union Node \union Range(Stash)
  /\ DOMAIN Stash = 1..2 /\ Stash[1] # Stash[2]
  /\ Range(Stash) \intersect Desktop = {}
  /\ IsFiniteSet(Node)
  /\ Word \in Nat \ {0}

(* A loop over a list, on a record of the state.                           *)
Loop(Step(_, _), s, q) ==
  LET at[i \in 0..Len(q)] == IF i = 0 THEN s ELSE Step(at[i - 1], q[i]) IN at[Len(q)]

NodesOf(s, d) == {n \in Node : s.home[n] = d}

(* mon->desk                                                               *)
Current(s) == IF s.mon = None THEN None ELSE s.shown[s.mon]

(* The newest place of S in the history.                                   *)
Latest(places, S) ==
  LET known == {i \in DOMAIN places : places[i] \in S}
  IN IF known = {} THEN None ELSE places[Min(known)]

(* The fallbacks of focus and activation.  The history is taken to know    *)
(* all the places, as it does while it is recorded, and it knows no monitor*)
(* without a desktop.  The heads of the lists, the last resort, are left   *)
(* out: here they are reached only if no monitor has a desktop, and then   *)
(* focus_node() returns without effect, whatever monitor it was given.     *)
GuessMonitor(s) ==
  IF s.mon # None THEN s.mon
  ELSE Latest(s.recent.monitors, {m \in s.monitors : s.shown[m] # None})
GuessDesktop(s, m) ==
  IF s.shown[m] # None THEN s.shown[m]
                       ELSE Latest(s.recent.desktops, Range(s.desks[m]))
GuessNode(s, d) ==
  IF s.focus[d] # None THEN s.focus[d] ELSE Latest(s.recent.nodes, NodesOf(s, d))
Or(p, guess) == IF p # None THEN p ELSE guess

Reveal(s, S) == [s EXCEPT !.visible = @ \union S]
Conceal(s, S) == [s EXCEPT !.visible = @ \ S]

(* Bug: the windows of the desktop that was shown stay on the screen.      *)
BugSwitch(s, m, d) == [Reveal(s, NodesOf(s, d)) EXCEPT !.shown[m] = d]

(* The change of what a monitor shows: the windows of a desktop that is    *)
(* shown already are not touched.  The change of a count of sticky nodes.  *)
Switch(s, m, d) ==
  LET t == Conceal(Reveal(s, NodesOf(s, d)), NodesOf(s, s.shown[m]) \ NodesOf(s, d))
  IN IF d = s.shown[m] THEN s ELSE [t EXCEPT !.shown[m] = d]
Count(s, m, k) == [s EXCEPT !.count[m] = (@ + Word + k) % Word]

(* The sticky nodes that a function carries or counts: those of the shown  *)
(* desktop, when the monitor counts any.                                   *)
Counted(s, m, d, S) ==
  IF s.count[m] > 0 /\ d = s.shown[m] THEN Cardinality(S \intersect s.sticky) ELSE 0

-----------------------------------------------------------------------------
(* Bug: the desktop is left without a focus when none is given.            *)
BugActivateNode(s, d, n) == IF d = Current(s) THEN s ELSE [s EXCEPT !.focus[d] = n]

(* activate_node()                                                         *)
ActivateNode(s, d, n) ==
  IF d = Current(s) THEN s ELSE [s EXCEPT !.focus[d] = Or(n, GuessNode(s, d))]

(* The end of focus_node(), once the sticky nodes are where they go.       *)
FocusAt(s, m, d, n) ==
  [Switch(s, m, d) EXCEPT !.mon = m, !.focus[d] = n]

(* unlink_node() and insert_node() in transfer_node(): focus, counts and   *)
(* windows; still is sticky_still.                                         *)
Relocate(s, still, ms, ds, N, md, dd) ==
  LET sc == Counted(s, ms, ds, N)
      hides == still /\ ds = s.shown[ms] /\ dd # s.shown[md]
      shows == still /\ ds # s.shown[ms] /\ dd = s.shown[md]
      moved == [s EXCEPT !.home = [n \in Node |-> IF n \in N THEN dd ELSE @[n]],
                         !.focus[ds] = IF @ \in N THEN None ELSE @,
                         !.visible = CASE hides -> @ \ N
                                       [] shows -> @ \union N
                                       [] OTHER -> @]
  IN IF ms = md THEN moved ELSE Count(Count(moved, ms, Word - sc), md, sc)

Refused(s, still, ms, ds, N, md, dd) ==
  \/ N = {} \/ ds = dd
  \/ still /\ Counted(s, ms, ds, N) > 0 /\ dd # s.shown[md]

(* The end of transfer_node(): a desktop that had no focus takes the node. *)
Settle(s, md, dd, n) ==
  IF dd = Current(s) THEN FocusAt(s, md, dd, Or(n, GuessNode(s, dd)))
                     ELSE ActivateNode(s, dd, n)

(* transfer_node() between two desktops, without follow.  Here focus_node()*)
(* is called for the focused desktop only: no sticky node moves in it.     *)
TransferStay(s, still, ms, ds, N, md, dd) ==
  LET held == s.focus[ds] \in N
      lead == IF held THEN s.focus[ds] ELSE Latest(s.recent.nodes, N)
      Left(t) == CASE ~held -> t
                   [] held /\ ds = Current(s) -> FocusAt(t, ms, ds, GuessNode(t, ds))
                   [] OTHER -> ActivateNode(t, ds, None)
      Entered(t) == IF s.focus[dd] = None THEN Settle(t, md, dd, lead) ELSE t
  IN IF Refused(s, still, ms, ds, N, md, dd) THEN s
     ELSE Entered(Left(Relocate(s, still, ms, ds, N, md, dd)))

(* transfer_sticky_nodes(), from the root of a desktop.                    *)
TransferStickyNodes(s, ms, ds, md, dd) ==
  Loop(LAMBDA t, n : IF n \in NodesOf(t, ds) \intersect t.sticky
                     THEN TransferStay(t, FALSE, ms, ds, {n}, md, dd) ELSE t,
       s, s.recent.leaves)

(* Bug: the sticky nodes stay on the desktop that is left.                 *)
BugCarry(s, m, d) == s

(* Does showing d on m take the sticky nodes of m along?                   *)
Carries(s, m, d) == s.count[m] > 0 /\ s.shown[m] # None /\ d # s.shown[m]
Carry(s, m, d) ==
  IF Carries(s, m, d) THEN TransferStickyNodes(s, m, s.shown[m], m, d) ELSE s

(* focus_node(), and its arguments when they are null.                     *)
FocusOn(s, m, d, n0) ==
  LET old == s.focus[s.shown[m]]
      n == IF n0 = None /\ Carries(s, m, d) /\ old \in s.sticky
           THEN old ELSE Or(n0, GuessNode(s, d))
      Arrived(t) == FocusAt(t, m, d, IF n = None THEN t.focus[d] ELSE n)
  IN IF m = None \/ d = None THEN s ELSE Arrived(Carry(s, m, d))

FocusNode(s, m0, d0, n) ==
  LET On(m) == FocusOn(s, m, IF m = None THEN None ELSE Or(d0, GuessDesktop(s, m)), n)
  IN On(Or(m0, GuessMonitor(s)))

(* transfer_node() between two desktops.                                   *)
TransferNode(s, ms, ds, N, md, dd, follow) ==
  LET n == s.focus[ds]
      Left(t) == ActivateNode(IF ds = Current(s) THEN FocusNode(t, md, dd, n) ELSE t, ds, None)
      Entered(t) == IF ds # Current(s) /\ s.focus[dd] = None THEN Settle(t, md, dd, n) ELSE t
  IN CASE Refused(s, TRUE, ms, ds, N, md, dd) -> s
       [] ~follow \/ n \notin N -> TransferStay(s, TRUE, ms, ds, N, md, dd)
       [] OTHER -> Entered(Left(Relocate(s, TRUE, ms, ds, N, md, dd)))

(* swap_nodes(), of two windows on two desktops, in steps: t is the state  *)
(* they have come to, s the one before.  Which windows are mapped, and the *)
(* focus that n1 had on d1.                                                *)
SwapMapped(t, s, m1, d1, n1, m2, d2, n2, follow) ==
  CASE s.shown[m1] # d1 /\ s.shown[m2] = d2 ->
         IF follow /\ d2 = Current(s) /\ s.focus[d2] = n2
         THEN Reveal(t, {n1}) ELSE Conceal(Reveal(t, {n1}), {n2})
    [] s.shown[m1] = d1 /\ s.shown[m2] # d2 ->
         Reveal(IF follow /\ d1 = Current(s) /\ s.focus[d1] = n1 THEN t
                ELSE Conceal(t, {n1}), {n2})
    [] OTHER -> t

SwapFocus(t, s, m1, d1, n1, m2, d2, n2, follow) ==
  CASE s.focus[d1] # n1 -> t
    [] s.focus[d1] = n1 /\ d1 = Current(s) /\ follow -> FocusNode(t, m2, d2, n1)
    [] s.focus[d1] = n1 /\ d1 = Current(s) /\ ~follow -> FocusNode(t, m1, d1, t.focus[d1])
    [] OTHER -> ActivateNode(t, d1, t.focus[d1])

SwapNodes(s, m1, d1, n1, m2, d2, n2, follow) ==
  LET swapped == [s EXCEPT !.home[n1] = d2, !.home[n2] = d1,
                           !.focus[d1] = IF s.focus[d1] = n1 THEN n2 ELSE @,
                           !.focus[d2] = IF s.focus[d2] = n2 THEN n1 ELSE @]
  IN IF \/ s.count[m1] > 0 /\ n1 \in s.sticky
        \/ s.count[m2] > 0 /\ n2 \in s.sticky
     THEN s
     ELSE SwapFocus(SwapFocus(SwapMapped(swapped, s, m1, d1, n1, m2, d2, n2, follow),
                              s, m1, d1, n1, m2, d2, n2, follow),
                    s, m2, d2, n2, m1, d1, n1, follow)

(* set_sticky()                                                            *)
SetSticky(s, m, d, n, value) ==
  LET t == IF d = s.shown[m] THEN s
           ELSE TransferStay(s, TRUE, m, d, {n}, m, s.shown[m])
  IN IF (n \in s.sticky) = value THEN s
     ELSE Count([t EXCEPT !.sticky = IF value THEN @ \union {n} ELSE @ \ {n}],
                m, IF value THEN 1 ELSE Word - 1)

(* remove_node(), of a window or of a whole tree.                          *)
RemoveNode(s, m, d, N) ==
  LET t == [s EXCEPT !.home = [n \in Node |-> IF n \in N THEN None ELSE @[n]],
                     !.focus[d] = IF @ \in N THEN None ELSE @,
                     !.sticky = @ \ N, !.visible = @ \ N]
      u == Count(t, m, Word - Counted(s, m, d, N))
  IN CASE N = {} -> s
       [] N # {} /\ (s.mon = None \/ u.focus[d] # None) -> u
       [] OTHER -> IF d = Current(s) THEN FocusNode(u, m, d, None)
                                     ELSE ActivateNode(u, d, None)
-----------------------------------------------------------------------------
(* activate_desktop(): does it do anything, and what.                      *)
Activates(s, m, d0) ==
  LET d == Or(d0, GuessDesktop(s, m))
  IN ~(d0 # None /\ m = s.mon) /\ d # None /\ d # s.shown[m]

ActivateDesktop(s, m, d0) ==
  LET d == Or(d0, GuessDesktop(s, m)) IN Switch(Carry(s, m, d), m, d)

(* if (activate_desktop(m, d)) activate_node(m, d or m->desk, NULL)        *)
ActivateIfCan(s, m, d0) ==
  LET Arrived(t) == ActivateNode(t, t.shown[m], None)
  IN IF Activates(s, m, d0) THEN Arrived(ActivateDesktop(s, m, d0)) ELSE s

(* insert_desktop(), and unlink_desktop()                                  *)
InsertDesktop(s, m, d) ==
  [s EXCEPT !.desks[m] = Append(@, d), !.shown[m] = Or(@, d)]

(* Bug: the desktop stays in the list.                                     *)
BugUnlinkDesktop(s, m, d) == [s EXCEPT !.shown[m] = IF @ = d THEN None ELSE @]

UnlinkDesktop(s, m, d) ==
  [s EXCEPT !.desks[m] = RemoveAt(@, CHOOSE i \in 1..Len(@) : @[i] = d),
            !.shown[m] = IF @ = d THEN None ELSE @]

(* remove_desktop(): another desktop is shown instead.                     *)
ShowAnother(s, m) ==
  LET Arrived(t) == IF t.shown[m] = None THEN t
                    ELSE ActivateNode(t, t.shown[m], t.focus[t.shown[m]])
  IN CASE s.mon = None \/ s.shown[m] # None -> s
       [] s.mon = m /\ s.shown[m] = None -> FocusNode(s, m, None, None)
       [] OTHER -> Arrived(IF Activates(s, m, None) THEN ActivateDesktop(s, m, None) ELSE s)

RemoveDesktop(s, m, d) ==
  ShowAnother(UnlinkDesktop(RemoveNode(s, m, d, NodesOf(s, d)), m, d), m)

(* Bug: nothing is merged.                                                 *)
BugMergeDesktops(s, ms, ds, md, dd) == s

(* merge_desktops()                                                        *)
MergeDesktops(s, ms, ds, md, dd) == TransferNode(s, ms, ds, NodesOf(s, ds), md, dd, FALSE)

(* transfer_desktop() in steps: t is the state they have come to, s the    *)
(* one before.  The desktop Remains when it does not take the focus along. *)
Remains(s, ms, d, follow) == ~follow \/ d # s.shown[ms] \/ ms # s.mon

SentTo(t, s, ms, md, d, follow) ==
  Count(InsertDesktop(IF Remains(s, ms, d, follow) /\ s.shown[md] # None
                      THEN Conceal(t, NodesOf(s, d) \ s.sticky) ELSE t,
                      md, d), md, Counted(s, ms, d, NodesOf(s, d)))

FocusAlong(t, s, ms, md, d) == IF ms = s.mon THEN FocusNode(t, md, d, t.focus[d]) ELSE t
LeftBehind(t, s, ms, md, d, follow) ==
  CASE d # s.shown[ms] -> t
    [] d = s.shown[ms] /\ follow -> FocusAlong(ActivateIfCan(t, ms, None), s, ms, md, d)
    [] d = s.shown[ms] /\ ~follow /\ ms = s.mon -> FocusNode(t, ms, None, None)
    [] OTHER -> ActivateIfCan(t, ms, None)

Flagged(t, s, ms, md, d) ==
  [t EXCEPT
     !.strayed = @ \/ (/\ Counted(s, ms, d, NodesOf(s, d)) > 0
                       /\ t.shown[ms] # None /\ t.shown[md] # d),
     !.unseen = @ \/ (d # s.shown[ms] /\ s.shown[md] = None)]

StickyBack(t, s, ms, md, d) ==
  CASE Counted(s, ms, d, NodesOf(s, d)) > 0 /\ t.shown[ms] # None ->
         TransferStickyNodes(t, md, d, ms, t.shown[ms])
    [] Counted(s, ms, d, NodesOf(s, d)) > 0 /\ t.shown[ms] = None /\ d # t.shown[md] ->
         TransferStickyNodes(t, md, d, md, t.shown[md])
    [] OTHER -> t

SettleDesktop(t, s, ms, md, d, follow) ==
  IF Remains(s, ms, d, follow) /\ t.shown[md] = d THEN Settle(t, md, d, t.focus[d]) ELSE t

(* transfer_desktop()                                                      *)
TransferDesktop(s, ms, md, d, follow) ==
  LET sc == Counted(s, ms, d, NodesOf(s, d))
  IN IF ms = md THEN s
     ELSE SettleDesktop(StickyBack(Flagged(LeftBehind(
            SentTo(Count(UnlinkDesktop(s, ms, d), ms, Word - sc), s, ms, md, d, follow),
            s, ms, md, d, follow), s, ms, md, d), s, ms, md, d), s, ms, md, d, follow)

(* Bug: the sticky nodes are swapped with their desktop.                   *)
BugStashes(s, m, d) == FALSE

(* The sticky nodes of a shown desktop are put on a temporary desktop while*)
(* swap_desktops() changes the lists, and then on the desktop that is shown*)
(* instead.                                                                *)
Stashes(s, m, d) == Counted(s, m, d, NodesOf(s, d)) > 0
StashAway(s, m, d, e) ==
  IF Stashes(s, m, d)
  THEN TransferStickyNodes(InsertDesktop(s, m, e), m, d, m, e) ELSE s
BringBack(s, stashed, m, d, e) ==
  IF stashed THEN UnlinkDesktop(TransferStickyNodes(s, m, e, m, d), m, e) ELSE s

(* Exchange of two desktops in the lists and as the desktops shown.        *)
Exchange(s, d1, d2) ==
  LET Other(d) == CASE d = d1 -> d2 [] d = d2 -> d1 [] OTHER -> d
  IN [s EXCEPT !.desks = [m \in Monitor |->
                            [i \in DOMAIN s.desks[m] |-> Other(s.desks[m][i])]],
               !.shown = [m \in Monitor |-> Other(@[m])]]

(* swap_desktops() in steps: t is the state they have come to, s the one   *)
(* before.  Which windows are mapped, and the focus of the desktop d of the*)
(* monitor m, when a desktop was focused or shown.                         *)
SwapShown(t, s, goes, old, new) ==
  Reveal(IF goes /\ Current(s) = old THEN t ELSE Conceal(t, NodesOf(t, old)), NodesOf(t, new))
SwapMapping(t, s, m1, d1, m2, d2, goes) ==
  CASE s.shown[m1] = d1 /\ s.shown[m2] # d2 -> SwapShown(t, s, goes, d1, d2)
    [] s.shown[m1] # d1 /\ s.shown[m2] = d2 -> SwapShown(t, s, goes, d2, d1)
    [] OTHER -> t

SwapRefocus(t, m, d, focused, active) ==
  CASE focused -> FocusNode(t, m, d, t.focus[d])
    [] ~focused /\ active -> ActivateNode(t, d, t.focus[d])
    [] OTHER -> t

SwapFocuses(t, s, m1, d1, m2, d2, goes) ==
  LET focused1 == Current(s) = d1
      focused2 == Current(s) = d2
      active1 == s.shown[m1] = d1
      active2 == s.shown[m2] = d2
  IN IF goes
     THEN SwapRefocus(SwapRefocus(t, m2, d1, focused1, active1), m1, d2, focused2, active2)
     ELSE SwapRefocus(SwapRefocus(t, m1, d2, focused1, active1), m2, d1, focused2, active2)

Crossed(s, m1, d1, m2, d2) ==
  BringBack(BringBack(Exchange(StashAway(StashAway(s, m1, d1, Stash[1]), m2, d2, Stash[2]), d1, d2),
                      Stashes(s, m1, d1), m1, d2, Stash[1]),
            Stashes(s, m2, d2), m2, d1, Stash[2])

(* swap_desktops()                                                         *)
SwapDesktops(s, m1, d1, m2, d2, follow) ==
  LET goes == follow \/ m1 = m2
  IN IF d1 = d2 THEN s
     ELSE SwapFocuses(SwapMapping(Crossed(s, m1, d1, m2, d2), s, m1, d1, m2, d2, goes),
                      s, m1, d1, m2, d2, goes)
=============================================================================
