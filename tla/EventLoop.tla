----------------------------- MODULE EventLoop -----------------------------
(***************************************************************************)
(* The main loop of bspwm.c with the windows that wait for an external     *)
(* rule program: select(), the answers of the programs, one message of the *)
(* socket, the events of the X server; and the loop of its own in which    *)
(* track_pointer() handles events while a button is held on a window.      *)
(*                                                                         *)
(* Four kinds of processes take steps between two steps of bspwm: clients  *)
(* and user, the X server, the rule programs and bspc.  A step of bspwm is  *)
(* a handler, cut where it waits for another process: for select(), for    *)
(* the output of a rule program, and for the X server's reply to a request *)
(* ("round trip").  A round trip reads every event that has arrived into   *)
(* the event queue of XCB, where select() does not see it.                 *)
(***************************************************************************)
EXTENDS Naturals, Sequences, SequencesExt

CONSTANTS Window,
          ExternalRules,   \* is external_rules_command set?
          Answers,         \* what a rule program may write: pieces of tokens
          Preempts,        \* may the X server serve a client between the
                           \*   requests of window_set_visibility()?
          MaxSent,         \* bound on the requests of the clients and the messages
          MaxQueries       \* bound on the messages of bspc

Token == {"manage", "focus", "on", "off"}

ASSUME LoopAssumption ==
  /\ ExternalRules \in BOOLEAN
  /\ Preempts \in BOOLEAN
  /\ Answers \subseteq Seq(Seq(Token))
  /\ MaxSent \in Nat
  /\ MaxQueries \in Nat

VARIABLES wins,      \* X server: is the window absent, unmapped or mapped?
          deaf,      \* X server: bspwm does not listen to the substructure
          missed,    \* windows that were destroyed while it was so
          requests,  \* requests of bspwm that the X server has to serve
          wire,      \* events that the X server sent
          inbox,     \* events that XCB has read
          sent,      \* how many requests the clients have made
          queries,   \* how many messages bspc has sent
          waiting,   \* how many of them are in the socket
          program,   \* the rule program of a window and its pipe
          pending,   \* the list of pending_rule_t
          managed,   \* windows that have a node
          phase,     \* where bspwm is in its loop
          ready,     \* what select() reported of the two other descriptors
          todo,      \* pending windows whose pipe select() reported
          grabbed,   \* grabbed_node, the window that track_pointer() moves
          button,    \* the user: has not pressed, holds or let go of a button
          heard,     \* messages for a window since it is pending or managed
          applied    \* messages that were applied to its node

server == <<wins, deaf, missed>>
loop == <<phase, ready, todo, grabbed, button>>
mail == <<heard, applied>>
vars == <<wins, deaf, missed, requests, wire, inbox, sent, queries, waiting,
          program, pending, managed, phase, ready, todo, grabbed, button, heard, applied>>

Event == [kind : {"map", "unmap", "destroy", "message", "press"},
          win : Window, serial : 1..MaxSent]
Notice == [kind |-> "notice"]   \* an event that bspwm ignores
Letgo == [kind |-> "release"]   \* the button is released
Request == [op : {"deafen", "map", "listen"}, win : Window]
Program == [alive : BOOLEAN, left : Seq(Seq(Token)),
            said : Seq(Token), read : Nat]
PendingRule == [win : Window, rule : BOOLEAN, manage : BOOLEAN,
                events : Seq(1..MaxSent)]

NoProgram == [alive |-> FALSE, left |-> <<>>, said |-> <<>>, read |-> 0]

Waiting(w) == \E i \in 1..Len(pending) : pending[i].win = w
PlaceOf(w) == CHOOSE i \in 1..Len(pending) : pending[i].win = w
Dequeued(list, w) == RemoveAt(list, PlaceOf(w))

Pipe(w) ==
  SubSeq(program[w].said, program[w].read + 1, Len(program[w].said))

(* All the events that xcb_poll_for_event() can return.                    *)
Incoming == inbox \o wire

(* A round trip: the reply comes after the X server served what bspwm      *)
(* asked before, and XCB keeps the events that came with it.               *)
RoundTrip ==
  /\ requests = <<>>
  /\ inbox' = Incoming
  /\ wire' = <<>>

----------------------------------------------------------------------------
(* Bug: a key that the answer does not have gets its default again.        *)
UnderstoodAfresh(tokens, manage) ==
  LET after[i \in 0..(Len(tokens) \div 2)] ==
        IF i = 0 THEN TRUE
        ELSE IF tokens[2*i - 1] = "manage" THEN tokens[2*i] # "off"
        ELSE after[i - 1]
  IN  after[Len(tokens) \div 2]

(* parse_keys_values() on what one read() returned: tokens are taken in    *)
(* pairs; a value that is no boolean, or an unknown key, changes nothing.  *)
Understood(tokens, manage) ==
  LET after[i \in 0..(Len(tokens) \div 2)] ==
        IF i = 0 THEN manage
        ELSE IF tokens[2*i - 1] = "manage" /\ tokens[2*i] \in {"on", "off"}
        THEN tokens[2*i] = "on"
        ELSE after[i - 1]
  IN  after[Len(tokens) \div 2]

(* window_show(): bspwm stops listening to the substructure of the root    *)
(* while it maps the window.                                               *)
Show(w) == <<[op |-> "deafen", win |-> w], [op |-> "map", win |-> w],
             [op |-> "listen", win |-> w]>>

(* What manage_window() and the replay of the postponed events leave: a    *)
(* node for the window, unless the consequence says manage=off; the window *)
(* is shown in either case.                                                *)
Settle(w, manage, events) ==
  /\ managed' = IF manage THEN managed \union {w} ELSE managed
  /\ heard' = [heard EXCEPT ![w] = IF manage THEN @ ELSE <<>>]
  /\ applied' = [applied EXCEPT ![w] = IF manage THEN events ELSE <<>>]
  /\ requests' = requests \o Show(w)

----------------------------------------------------------------------------
(* bspwm: select().                                                        *)

(* Bug: the end of the pipe is not waited for, only output.                *)
ReadableWithOutput(w) == Pipe(w) # <<>>

(* A pipe can be read when it has data or when the program closed it.      *)
Readable(w) == Pipe(w) # <<>> \/ ~program[w].alive

(* Bug: max_fd does not cover the descriptor of the X server.              *)
WatchedSocketOnly == IF waiting > 0 THEN {"socket"} ELSE {}

Watched ==
  {d \in {"socket", "display"} :
     IF d = "socket" THEN waiting > 0 ELSE wire # <<>>}

Select ==
  /\ phase = "select"
  /\ todo' = {w \in Window : Waiting(w) /\ Readable(w)}
  /\ Watched # {} \/ todo' # {}
  /\ ready' = Watched
  /\ phase' = "rules"
  /\ UNCHANGED <<server, requests, wire, inbox, sent, queries, waiting,
                 program, pending, managed, grabbed, button, mail>>

(* bspwm: the pending rules whose pipe is ready, in the order of the list. *)
Reported(w) ==
  /\ phase = "rules"
  /\ w \in todo
  /\ \A i \in 1..(PlaceOf(w) - 1) : pending[i].win \notin todo

(* One read() of parse_rule_consequence().  When the pipe is empty and     *)
(* the program still runs, no step is possible: bspwm waits in read().     *)
ReadAnswer(w) ==
  /\ Reported(w)
  /\ Pipe(w) # <<>>
  /\ program' = [program EXCEPT ![w].read = Len(program[w].said)]
  /\ pending' = [pending EXCEPT ![PlaceOf(w)].manage = Understood(Pipe(w), @)]
  /\ UNCHANGED <<server, requests, wire, inbox, sent, queries, waiting,
                 managed, loop, mail>>

(* The end of the answer: manage_window() goes on, the postponed events    *)
(* are handled and the pending rule is removed.                            *)
ManagePending(w) ==
  /\ Reported(w)
  /\ Pipe(w) = <<>>
  /\ ~program[w].alive
  /\ LET pr == pending[PlaceOf(w)] IN Settle(w, pr.manage, pr.events)
  /\ pending' = Dequeued(pending, w)
  /\ program' = [program EXCEPT ![w] = NoProgram]
  /\ RoundTrip
  /\ todo' = todo \ {w}
  /\ UNCHANGED <<server, sent, queries, waiting, phase, ready, grabbed, button>>

(* bspwm: one message of the socket.  The message asks for the pointed     *)
(* window (query_pointer()), so that it makes a round trip; after it comes *)
(* the display, if select() reported it.                                   *)
AfterSocket == IF "display" \in ready THEN "events" ELSE "select"

HandleMessage ==
  /\ phase = "rules"
  /\ todo = {}
  /\ "socket" \in ready
  /\ RoundTrip
  /\ waiting' = waiting - 1
  /\ phase' = AfterSocket
  /\ UNCHANGED <<server, requests, sent, queries, program, pending, managed,
                 ready, todo, grabbed, button, mail>>

(* No message; xcb_aux_sync() before the events is a round trip as well.   *)
SkipSocket ==
  /\ phase = "rules"
  /\ todo = {}
  /\ "socket" \notin ready
  /\ phase' = AfterSocket
  /\ IF "display" \in ready THEN RoundTrip ELSE UNCHANGED <<wire, inbox>>
  /\ UNCHANGED <<server, requests, sent, queries, waiting, program, pending,
                 managed, ready, todo, grabbed, button, mail>>

----------------------------------------------------------------------------
(* bspwm: the events.  Each handler takes the first event that XCB has, in *)
(* the main loop, or in that of track_pointer() while a window is grabbed. *)

Take(kind) ==
  /\ phase = "events"
  /\ Incoming # <<>>
  /\ Head(Incoming).kind = kind
  /\ inbox' = Tail(Incoming)
  /\ wire' = <<>>
  /\ UNCHANGED <<server, sent, queries, waiting, phase, ready, todo, button>>

First == Head(Incoming).win

(* Bug: windows that wait for their rule program are not looked for.       *)
KnownByNode(w) == w \in managed

Known(w) == w \in managed \/ Waiting(w)

(* map_request(), the window is known: schedule_window() ignores it.       *)
MapKnown ==
  /\ Take("map")
  /\ requests = <<>>
  /\ Known(First)
  /\ UNCHANGED <<requests, program, pending, managed, grabbed, mail>>

(* map_request(), with a rule program: rule is what the rules of bspwm say *)
(* of manage.                                                              *)
Schedule(rule, answer) ==
  /\ ExternalRules
  /\ Take("map")
  /\ requests = <<>>
  /\ ~Known(First)
  /\ pending' = Append(pending, [win |-> First, rule |-> rule,
                                 manage |-> rule, events |-> <<>>])
  /\ program' = [program EXCEPT ![First] =
                   [alive |-> TRUE, left |-> answer, said |-> <<>>, read |-> 0]]
  /\ UNCHANGED <<requests, managed, grabbed, mail>>

(* map_request(), without one, or when pipe() or fork() fails.             *)
ManageAtOnce(rule) ==
  /\ Take("map")
  /\ requests = <<>>
  /\ ~Known(First)
  /\ Settle(First, rule, <<>>)
  /\ UNCHANGED <<program, pending, grabbed>>

(* Bug: a window that waits for its rule program is not forgotten.         *)
UnmanageNode(w) ==
  /\ managed' = managed \ {w}
  /\ grabbed' = grabbed \ {w}
  /\ heard' = [heard EXCEPT ![w] = <<>>]
  /\ applied' = [applied EXCEPT ![w] = <<>>]
  /\ UNCHANGED <<pending, program>>

(* Bug: remove_node() does not look at grabbed_node.                       *)
UnmanageGrabbed(w) ==
  /\ managed' = managed \ {w}
  /\ IF w \in managed \/ ~Waiting(w)
     THEN UNCHANGED <<pending, program>>
     ELSE /\ pending' = Dequeued(pending, w)
          /\ program' = [program EXCEPT ![w] = NoProgram]
  /\ heard' = [heard EXCEPT ![w] = <<>>]
  /\ applied' = [applied EXCEPT ![w] = <<>>]
  /\ UNCHANGED grabbed

(* unmanage_window(): the node goes, and with it the grab, or else the     *)
(* pending rule, whose pipe is closed: what the program still writes is    *)
(* lost.                                                                   *)
Unmanage(w) ==
  /\ managed' = managed \ {w}
  /\ grabbed' = grabbed \ {w}
  /\ IF w \in managed \/ ~Waiting(w)
     THEN UNCHANGED <<pending, program>>
     ELSE /\ pending' = Dequeued(pending, w)
          /\ program' = [program EXCEPT ![w] = NoProgram]
  /\ heard' = [heard EXCEPT ![w] = <<>>]
  /\ applied' = [applied EXCEPT ![w] = <<>>]

(* unmap_notify(): window_exists() asks the X server first.                *)
UnmapNotify ==
  /\ Take("unmap")
  /\ requests = <<>>
  /\ IF wins[First] = "absent"
     THEN UNCHANGED <<pending, program, managed, grabbed, mail>>
     ELSE Unmanage(First)
  /\ UNCHANGED requests

DestroyNotify ==
  /\ Take("destroy")
  /\ Unmanage(First)
  /\ UNCHANGED requests

(* Bug: the last postponed event comes first.                              *)
PostponedFirst(events, n) == <<n>> \o events

(* postpone_event()                                                        *)
Postponed(events, n) == Append(events, n)

(* client_message(), and property_notify() in the same way: the event is   *)
(* for a node, or for a window that waits for its rules, or is dropped.    *)
ClientMessage ==
  /\ Take("message")
  /\ LET w == First
         n == Head(Incoming).serial
     IN  \/ /\ w \in managed
            /\ heard' = [heard EXCEPT ![w] = Append(@, n)]
            /\ applied' = [applied EXCEPT ![w] = Append(@, n)]
            /\ UNCHANGED pending
         \/ /\ w \notin managed /\ Waiting(w)
            /\ heard' = [heard EXCEPT ![w] = Append(@, n)]
            /\ pending' = [pending EXCEPT ![PlaceOf(w)].events =
                                            Postponed(@, n)]
            /\ UNCHANGED applied
         \/ ~Known(w) /\ UNCHANGED <<pending, mail>>
  /\ UNCHANGED <<requests, program, managed, grabbed>>

(* button_press(): grab_pointer() asks where the pointer is; a click to    *)
(* focus ends there, an action goes on in track_pointer().                 *)
ButtonPress ==
  /\ Take("press")
  /\ requests = <<>>
  /\ grabbed' \in {grabbed, grabbed \union ({First} \intersect managed)}
  /\ UNCHANGED <<requests, program, pending, managed, mail>>

(* Bug: grabbing is not reset.                                             *)
ButtonReleaseKeepsGrab ==
  /\ Take("release")
  /\ UNCHANGED <<requests, program, pending, managed, grabbed, mail>>

(* The end of the loop in track_pointer(); the main loop ignores the event.*)
ButtonRelease ==
  /\ Take("release")
  /\ grabbed' = {}
  /\ UNCHANGED <<requests, program, pending, managed, mail>>

OtherEvent ==
  /\ Take("notice")
  /\ UNCHANGED <<requests, program, pending, managed, grabbed, mail>>

EventsDone ==
  /\ phase = "events"
  /\ grabbed = {}
  /\ Incoming = <<>>
  /\ phase' = "select"
  /\ UNCHANGED <<server, requests, wire, inbox, sent, queries, waiting,
                 program, pending, managed, ready, todo, grabbed, button, mail>>

----------------------------------------------------------------------------
(* The clients.  Each request has a number, and the X server tells bspwm   *)
(* of it in the order of these numbers.                                    *)

Asks(kind, w) ==
  /\ sent + queries < MaxSent
  /\ Preempts \/ ~deaf
  /\ sent' = sent + 1
  /\ wire' = IF kind = "destroy" /\ deaf THEN wire
             ELSE Append(wire, [kind |-> kind, win |-> w, serial |-> sent + 1])
  /\ UNCHANGED <<deaf, requests, inbox, queries, waiting, program, pending,
                 managed, phase, ready, todo, grabbed, mail>>

(* MapRequest goes to bspwm, the window stays unmapped.                    *)
ClientMaps(w) ==
  /\ wins[w] = "unmapped"
  /\ Asks("map", w)
  /\ UNCHANGED <<wins, missed, button>>

(* A withdrawn window: the client also sends the UnmapNotify itself, which *)
(* arrives even if the window was not mapped or bspwm is deaf.             *)
ClientWithdraws(w) ==
  /\ wins[w] # "absent"
  /\ Asks("unmap", w)
  /\ wins' = [wins EXCEPT ![w] = "unmapped"]
  /\ UNCHANGED <<missed, button>>

ClientDestroys(w) ==
  /\ wins[w] # "absent"
  /\ Asks("destroy", w)
  /\ wins' = [wins EXCEPT ![w] = "absent"]
  /\ missed' = IF deaf THEN missed \union {w} ELSE missed
  /\ UNCHANGED button

ClientWrites(w) ==
  /\ wins[w] # "absent"
  /\ Asks("message", w)
  /\ UNCHANGED <<wins, missed, button>>

(* The user presses a button on a window that bspwm has mapped.  The X     *)
(* server holds the pointer until bspwm has read that, and tells bspwm of  *)
(* the release if it has grabbed the pointer.  One press is the bound.     *)
UserPresses(w) ==
  /\ button = "fresh" /\ wins[w] = "mapped"
  /\ Asks("press", w)
  /\ button' = "held"
  /\ UNCHANGED <<wins, missed>>

UserReleases ==
  /\ button = "held"
  /\ \A i \in 1..Len(Incoming) : Incoming[i].kind # "press"
  /\ button' = "released"
  /\ wire' = IF grabbed = {} THEN wire ELSE Append(wire, Letgo)
  /\ UNCHANGED <<server, requests, inbox, sent, queries, waiting, program,
                 pending, managed, phase, ready, todo, grabbed, mail>>

(* The X server serves a request of bspwm.                                 *)
Serve ==
  /\ requests # <<>>
  /\ requests' = Tail(requests)
  /\ LET r == Head(requests) IN
       /\ deaf' = IF r.op = "map" THEN deaf ELSE r.op = "deafen"
       /\ wins' = [wins EXCEPT ![r.win] =
                     IF r.op = "map" /\ @ # "absent" THEN "mapped" ELSE @]
  /\ UNCHANGED <<missed, wire, inbox, sent, queries, waiting, program,
                 pending, managed, loop, mail>>

(* The X server has something else to tell, while XCB holds events.        *)
Nudge ==
  /\ wire = <<>>
  /\ \E i \in 1..Len(inbox) : inbox[i] # Notice
  /\ wire' = <<Notice>>
  /\ UNCHANGED <<server, requests, inbox, sent, queries, waiting, program,
                 pending, managed, loop, mail>>

(* bspc sends a message.                                                   *)
Query ==
  /\ queries < MaxQueries /\ sent + queries < MaxSent
  /\ queries' = queries + 1
  /\ waiting' = waiting + 1
  /\ UNCHANGED <<server, requests, wire, inbox, sent, program, pending,
                 managed, loop, mail>>

(* The rule program writes, and ends.                                      *)
ProgramWrites(w) ==
  /\ program[w].alive
  /\ program[w].left # <<>>
  /\ program' = [program EXCEPT ![w].said = @ \o Head(program[w].left),
                                ![w].left = Tail(@)]
  /\ UNCHANGED <<server, requests, wire, inbox, sent, queries, waiting,
                 pending, managed, loop, mail>>

ProgramEnds(w) ==
  /\ program[w].alive
  /\ program[w].left = <<>>
  /\ program' = [program EXCEPT ![w].alive = FALSE]
  /\ UNCHANGED <<server, requests, wire, inbox, sent, queries, waiting,
                 pending, managed, loop, mail>>

----------------------------------------------------------------------------
Init ==
  /\ wins = [w \in Window |-> "unmapped"]
  /\ deaf = FALSE
  /\ missed = {}
  /\ requests = <<>> /\ wire = <<>> /\ inbox = <<>>
  /\ sent = 0 /\ queries = 0 /\ waiting = 0
  /\ program = [w \in Window |-> NoProgram]
  /\ pending = <<>>
  /\ managed = {}
  /\ phase = "select" /\ ready = {} /\ todo = {}
  /\ grabbed = {} /\ button = "fresh"
  /\ heard = [w \in Window |-> <<>>]
  /\ applied = [w \in Window |-> <<>>]

Bspwm ==
  \/ Select
  \/ \E w \in Window : ReadAnswer(w) \/ ManagePending(w)
  \/ HandleMessage \/ SkipSocket
  \/ MapKnown
  \/ \E rule \in BOOLEAN, answer \in Answers : Schedule(rule, answer)
  \/ \E rule \in BOOLEAN : ManageAtOnce(rule)
  \/ UnmapNotify \/ DestroyNotify \/ ClientMessage \/ ButtonPress \/ ButtonRelease
  \/ OtherEvent \/ EventsDone

Next ==
  \/ Bspwm
  \/ Serve \/ Nudge \/ Query
  \/ \E w \in Window : ProgramWrites(w) \/ ProgramEnds(w)
  \/ \E w \in Window : \/ ClientMaps(w) \/ ClientWithdraws(w)
                       \/ ClientDestroys(w) \/ ClientWrites(w)
  \/ \E w \in Window : UserPresses(w)
  \/ UserReleases

(* bspwm and the X server go on while they can, rule programs end, and the *)
(* user lets go of the button.                                             *)
(* Nothing is owed by the clients, by bspc, or by the X server beyond      *)
(* serving requests.                                                       *)
Fairness ==
  /\ WF_vars(Bspwm)
  /\ WF_vars(Serve)
  /\ \A w \in Window : WF_vars(ProgramWrites(w) \/ ProgramEnds(w))
  /\ WF_vars(UserReleases)

Spec == Init /\ [][Next]_vars /\ Fairness

(* The same with an X server that always has another event to send.        *)
BusySpec == Spec /\ WF_vars(Nudge)

----------------------------------------------------------------------------
TypeOK ==
  /\ wins \in [Window -> {"absent", "unmapped", "mapped"}]
  /\ deaf \in BOOLEAN
  /\ missed \subseteq Window
  /\ requests \in Seq(Request)
  /\ wire \in Seq(Event \union {Notice, Letgo})
  /\ inbox \in Seq(Event \union {Notice, Letgo})
  /\ sent \in 0..MaxSent
  /\ queries \in 0..MaxQueries
  /\ waiting \in 0..queries
  /\ program \in [Window -> Program]
  /\ pending \in Seq(PendingRule)
  /\ managed \subseteq Window
  /\ phase \in {"select", "rules", "events"}
  /\ ready \subseteq {"socket", "display"}
  /\ todo \subseteq Window
  /\ grabbed \subseteq Window
  /\ button \in {"fresh", "held", "released"}
  /\ heard \in [Window -> Seq(1..MaxSent)]
  /\ applied \in [Window -> Seq(1..MaxSent)]

(* The variables have their types; a window has one node or one pending    *)
(* rule at most, and only pending rules are left to be looked at, whatever *)
(* map requests are repeated while its program runs (schedule_window(),    *)
(* remove_pending_rule()).                                                 *)
OneEntry ==
  /\ TypeOK
  /\ \A i \in 1..Len(pending) :
       /\ pending[i].win \notin managed
       /\ \A j \in 1..Len(pending) : pending[i].win = pending[j].win => i = j
  /\ \A w \in todo : Waiting(w)

(* The value that tokens give to manage when they are read together.       *)
Meaning(tokens, rule) ==
  LET says == {i \in 1..(Len(tokens) \div 2) :
                 tokens[2*i - 1] = "manage" /\ tokens[2*i] \in {"on", "off"}}
  IN  IF says = {} THEN rule
      ELSE \E i \in says : /\ \A j \in says : j <= i
                           /\ tokens[2*i] = "on"

(* What bspwm has understood of an answer is what the answer says, however *)
(* the read() calls of parse_rule_consequence() cut it.                    *)
AnswerRead ==
  \A i \in 1..Len(pending) :
    LET p == program[pending[i].win]
    IN  pending[i].manage = Meaning(SubSeq(p.said, 1, p.read), pending[i].rule)

(* A message for a window that waits or has a node is not lost, and is     *)
(* applied to the node in the order of arrival: postpone_event() and the   *)
(* replay in the main loop are invisible to the client.                    *)
MessagesKept ==
  /\ \A w \in managed : applied[w] = heard[w]
  /\ \A i \in 1..Len(pending) : pending[i].events = heard[pending[i].win]

DestroyArrives(w) ==
  \E i \in 1..Len(Incoming) : /\ Incoming[i].kind = "destroy"
                              /\ Incoming[i].win = w

(* bspwm knows a destroyed window only as long as it has not read the      *)
(* event, or the window was destroyed while window_set_visibility() had    *)
(* the X server keep such events back.                                     *)
GhostsMissed ==
  \A w \in Window : wins[w] = "absent" /\ Known(w) =>
    DestroyArrives(w) \/ w \in missed

(* The node that track_pointer() holds is not freed while it tracks it:    *)
(* the events that it handles may unmanage any window, and the grab ends   *)
(* with its own.  And no event that it handles leaves it tracking for ever *)
(* a pointer whose release it was told of.                                 *)
GrabHeld ==
  /\ grabbed \subseteq managed
  /\ grabbed # {} =>
       /\ phase = "events"
       /\ button = "held" \/ \E i \in 1..Len(Incoming) : Incoming[i] = Letgo

(* A window that waits for its rule program does not wait for ever, if     *)
(* these programs end and the user lets go of the button: its pipe becomes *)
(* readable when the program ends, and select() is called again after a    *)
(* grab.                                                                   *)
Resolved ==
  \A w \in Window : Waiting(w) ~> ~Waiting(w)

Arrived(n) ==
  \E i \in 1..Len(Incoming) : /\ Incoming[i] \notin {Notice, Letgo}
                              /\ Incoming[i].serial = n

(* A message of bspc is read, if the user lets go of the button.           *)
MessagesRead == waiting > 0 ~> waiting = 0

(* Every event that the X server sends is handled (the main loop, and that *)
(* of track_pointer()).                                                    *)
EventsHandled ==
  \A n \in 1..MaxSent : Arrived(n) ~> ~Arrived(n)
=============================================================================
