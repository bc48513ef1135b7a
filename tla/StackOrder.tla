---------------------------- MODULE StackOrder ----------------------------
(***************************************************************************)
(* The list operations of stack.c, as operators on sequences.              *)
(*                                                                         *)
(* bspwm keeps the windows it has stacked in a doubly linked list that     *)
(* runs from stack_head (the bottom) to stack_tail (the top).  The list    *)
(* is a sequence here, bottom first.  A level function lv gives every      *)
(* window the number stack_level() computes.                               *)
(***************************************************************************)
EXTENDS Integers, Sequences, SequencesExt

Layers == {"below", "normal", "above"}
States == {"tiled", "pseudo_tiled", "floating", "fullscreen"}
IsTiled(st) == st \in {"tiled", "pseudo_tiled"}

(* stack_level(): the layer counts first, the state second.                *)
StackLevel(ly, st) ==
  3 * (CASE ly = "below" -> 0 [] ly = "normal" -> 1 [] OTHER -> 2)
    + (CASE IsTiled(st) -> 0 [] st = "floating" -> 1 [] OTHER -> 2)

Listed(s) == {s[i] : i \in 1..Len(s)}
Position(s, w) == CHOOSE i \in 1..Len(s) : s[i] = w

(* remove_stack_node() on a leaf: drop the first cell that holds it.       *)
Without(s, w) == IF w \in Listed(s) THEN RemoveAt(s, Position(s, w)) ELSE s

(* stack_insert_after() and stack_insert_before() with a non-empty list:   *)
(* the window leaves its old place before it takes the new one.            *)
InsertAfter(s, a, w) ==
  IF a = w THEN s
  ELSE LET t == Without(s, w) IN InsertAt(t, Position(t, a) + 1, w)

InsertBefore(s, a, w) ==
  IF a = w THEN s
  ELSE LET t == Without(s, w) IN InsertAt(t, Position(t, a), w)

(* Bug: the scan stops at the first window of the same level.              *)
LimitAboveTooEarly(s, lv, w) ==
  LET higher == {i \in 1..Len(s) : lv[s[i]] >= lv[w] /\ s[i] # w}
  IN IF higher = {} THEN Len(s) ELSE Min(higher)

(* limit_above() and limit_below(): the place of the cell next to which a  *)
(* window goes; a place outside the list stands for the NULL they return   *)
(* when the window is alone in it.                                         *)
LimitAbove(s, lv, w) ==
  LET higher == {i \in 1..Len(s) : lv[s[i]] > lv[w]}
      k == IF higher = {} THEN Len(s) ELSE Min(higher)
  IN IF s[k] = w THEN k - 1 ELSE k

LimitBelow(s, lv, w) ==
  LET lower == {i \in 1..Len(s) : lv[s[i]] < lv[w]}
      k == IF lower = {} THEN 1 ELSE Max(lower)
  IN IF s[k] = w THEN k + 1 ELSE k

Limit(s, lv, w, focused) ==
  IF focused THEN LimitAbove(s, lv, w) ELSE LimitBelow(s, lv, w)

(* Bug: window_below() only for the windows of the same level.             *)
GoesBelowSameLevelOnly(lv, w, a, focused) == lv[w] = lv[a] /\ ~focused

(* The comparison that picks window_below() over window_above().           *)
GoesBelow(lv, w, a, focused) ==
  \/ lv[w] < lv[a]
  \/ lv[w] = lv[a] /\ ~focused

(* Move w next to its sibling a, in the list or on the X server.           *)
PutNextTo(s, lv, w, a, focused) ==
  IF GoesBelow(lv, w, a, focused) THEN InsertBefore(s, a, w)
                                  ELSE InsertAfter(s, a, w)

(* One turn of the loop of stack(): the new list, ...                      *)
StackList(s, lv, w, focused) ==
  IF s = <<>> THEN <<w>>
  ELSE LET k == Limit(s, lv, w, focused)
       IN IF k \in 1..Len(s) THEN PutNextTo(s, lv, w, s[k], focused) ELSE s

(* Bug: the X server is always asked to put the window above.              *)
StackServerAlwaysAbove(x, s, lv, w, focused) ==
  LET k == Limit(s, lv, w, focused)
  IN IF s # <<>> /\ k \in 1..Len(s) THEN InsertAfter(x, s[k], w) ELSE x

(* ... and the X server's order x after the request that goes with it.     *)
StackServer(x, s, lv, w, focused) ==
  LET k == Limit(s, lv, w, focused)
  IN IF s # <<>> /\ k \in 1..Len(s) THEN PutNextTo(x, lv, w, s[k], focused)
                                   ELSE x

(* No window twice; levels never decrease from the bottom to the top.      *)
Unique(s) == \A i, j \in 1..Len(s) : s[i] = s[j] => i = j
Ordered(s, lv) == \A i, j \in 1..Len(s) : i < j => lv[s[i]] <= lv[s[j]]

(* w1 lies below w2 in s.                                                  *)
Under(s, w1, w2) ==
  \E i, j \in 1..Len(s) : i < j /\ s[i] = w1 /\ s[j] = w2
===========================================================================
