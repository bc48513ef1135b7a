----------------------------- MODULE Subscribers -----------------------------
(***************************************************************************)
(* The list of event subscribers of subscribe.c and the descriptors behind *)
(* it.  The operators are its functions: each takes a record of the state  *)
(* and returns the record when the function returns.                       *)
(*                                                                         *)
(* A reader has one subscription.  What it was told is the number of       *)
(* events, for a reader that asked for a number of them, and the focused   *)
(* monitor that the last report named.                                     *)
(***************************************************************************)
EXTENDS Integers, Sequences, SequencesExt

CONSTANTS Reader,    \* the programs that may subscribe
          None       \* no monitor, and no number of events

(* s.list    the readers from subscribe_head to subscribe_tail             *)
(* s.kinds   what a reader subscribes to: reports, or the other events     *)
(* s.fifo    the readers that read from a FIFO                             *)
(* s.count   subscriber_list_t.count                                       *)
(* s.open    the readers whose descriptor is open in bspwm                 *)
(* s.kept    those of them whose descriptor an exec leaves open            *)
(* s.restart the variable restart                                          *)
(* s.gone    the readers that closed their end                             *)
(* s.want, s.got   the events a reader asked for, and got                  *)
(* s.told    the focused monitor in the last report that a reader got      *)

(* A loop over a list, on a record of the state.                           *)
Loop(Step(_, _), s, q) ==
  LET at[i \in 0..Len(q)] == IF i = 0 THEN s ELSE Step(at[i - 1], q[i]) IN at[Len(q)]

(* A list without the cell that holds x.                                   *)
Unlisted(q, x) ==
  IF x \in Range(q) THEN RemoveAt(q, CHOOSE i \in 1..Len(q) : q[i] = x) ELSE q

(* Bug: the stream is closed before a restart as well.                     *)
BugRemoveSubscriber(s, r) ==
  [s EXCEPT !.list = Unlisted(@, r), !.open = @ \ {r}]

(* remove_subscriber(): before a restart the stream is left to the next    *)
(* program.                                                                *)
RemoveSubscriber(s, r) ==
  LET t == [s EXCEPT !.list = Unlisted(@, r)]
  IN IF s.restart THEN [t EXCEPT !.kept = @ \union {r}]
                  ELSE [t EXCEPT !.open = @ \ {r}]

(* The reader gets an event, or the report that names the focused monitor. *)
Hear(s, r, kind, mon) ==
  [s EXCEPT !.got[r] = IF s.want[r] = None THEN @ ELSE @ + 1,
            !.told[r] = IF kind = "report" THEN mon ELSE @]

(* add_subscriber(): the first report counts.                              *)
AddSubscriber(s, r, mon) ==
  LET t == [s EXCEPT !.list = Append(@, r), !.kept = @ \ {r}]
      u == [Hear(t, r, "report", mon) EXCEPT !.count[r] = @ - 1]
  IN CASE "report" \notin s.kinds[r] -> t
       [] "report" \in s.kinds[r] /\ s.count[r] = 1 -> RemoveSubscriber(u, r)
       [] OTHER -> u

(* Bug: the count is looked at before this event is taken from it.         *)
BugTell(s, r, kind, mon) ==
  LET fails == r \in s.gone
      heard == IF fails THEN s ELSE Hear(s, r, kind, mon)
      counted == [heard EXCEPT !.count[r] = IF @ > 0 THEN @ - 1 ELSE @]
  IN IF fails \/ s.count[r] = 0 THEN RemoveSubscriber(counted, r) ELSE counted

(* One turn of the loop in put_status(): a subscriber goes with its last   *)
(* event, or when its stream fails.                                        *)
Tell(s, r, kind, mon) ==
  LET fails == r \in s.gone
      heard == IF fails THEN s ELSE Hear(s, r, kind, mon)
      counted == [heard EXCEPT !.count[r] = IF @ > 0 THEN @ - 1 ELSE @]
  IN IF fails \/ counted.count[r] = 0 THEN RemoveSubscriber(counted, r) ELSE counted

(* put_status()                                                            *)
PutStatus(s, kind, mon) ==
  Loop(LAMBDA t, r : IF kind \in t.kinds[r] THEN Tell(t, r, kind, mon) ELSE t, s, s.list)

(* An event, then a report.                                                *)
PutBoth(s, mon) == PutStatus(PutStatus(s, "other", mon), "report", mon)

(* prune_dead_subscribers(): nothing tells that a FIFO lost its reader.    *)
Prune(s) ==
  Loop(LAMBDA t, r : IF r \in s.gone \ s.fifo THEN RemoveSubscriber(t, r) ELSE t, s, s.list)
=============================================================================
