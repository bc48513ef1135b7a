-------------------------- MODULE EventLoopProofs --------------------------
(***************************************************************************)
(* The safety of the main loop, for any number of windows, requests,       *)
(* messages and answers.                                                   *)
(***************************************************************************)
EXTENDS EventLoop, ListFacts

-----------------------------------------------------------------------------
(* The answers of rule programs.                                           *)

Pairs(tokens) == Len(tokens) \div 2
Says(tokens, i) == tokens[2*i - 1] = "manage" /\ tokens[2*i] \in {"on", "off"}

LEMMA PairsFacts ==
  ASSUME NEW tokens \in Seq(Token)
  PROVE  /\ Len(tokens) \in Nat /\ Pairs(tokens) \in Nat
         /\ 2 * Pairs(tokens) <= Len(tokens) /\ Len(tokens) <= 2 * Pairs(tokens) + 1
BY LenProperties DEF Pairs

(* Understood() goes through the pairs from the first on.                  *)
LEMMA UnderstoodRecursion ==
  ASSUME NEW tokens \in Seq(Token), NEW manage \in BOOLEAN
  PROVE  \E f \in [0..Pairs(tokens) -> BOOLEAN] :
           /\ f[0] = manage
           /\ \A i \in 1..Pairs(tokens) :
                f[i] = IF Says(tokens, i) THEN tokens[2*i] = "on" ELSE f[i - 1]
           /\ Understood(tokens, manage) = f[Pairs(tokens)]
<1> DEFINE n == Pairs(tokens)
           F == [i \in 1..n |-> [b \in BOOLEAN |->
                   IF Says(tokens, i) THEN tokens[2*i] = "on" ELSE b]]
           Rec(f) == f = [i \in 0..n |->
                        IF i = 0 THEN manage
                        ELSE IF tokens[2*i - 1] = "manage" /\ tokens[2*i] \in {"on", "off"}
                        THEN tokens[2*i] = "on"
                        ELSE f[i - 1]]
<1>1. n \in Nat
  BY PairsFacts
<1>2. F \in [1..n -> [BOOLEAN -> BOOLEAN]]
  OBVIOUS
<1>3. PICK f \in [0..n -> BOOLEAN] : f[0] = manage /\ \A i \in 1..n : f[i] = F[i][f[i - 1]]
  <2> DEFINE R == BOOLEAN
             a == manage
  <2>1. a \in R /\ F \in [1..n -> [R -> R]]
    BY <1>2
  <2> HIDE DEF n, F, R, a
  <2> DEFINE f == Iterated(n, R, a, F)
  <2>2. f \in [0..n -> R] /\ f[0] = a /\ \A i \in 1..n : f[i] = F[i][f[i - 1]]
    BY <1>1, <2>1, Recursion
  <2> QED BY <2>2 DEF R, a
<1>4. \A i \in 1..n : f[i] = IF Says(tokens, i) THEN tokens[2*i] = "on" ELSE f[i - 1]
  <2> TAKE i \in 1..n
  <2>1. i - 1 \in 0..n
    BY <1>1
  <2> QED BY <1>3, <2>1
<1>5. Rec(f)
  <2>1. \A i \in 0..n : i # 0 => i \in 1..n
    BY <1>1
  <2> HIDE DEF n
  <2> QED BY <1>3, <1>4, <2>1 DEF Says
<1> DEFINE g == CHOOSE g : Rec(g)
<1>6. Rec(g)
  <2> HIDE DEF Rec
  <2> QED BY <1>5
<1>7. Understood(tokens, manage) = g[n]
  BY DEF Understood, Pairs
<1>8. \A i \in 0..n : g[i] = f[i]
  <2> DEFINE S == {i \in 0..n : g[i] = f[i]}
  <2>1. 0 \in S
    <3>1. 0 \in 0..n
      BY <1>1
    <3> HIDE DEF n, g
    <3> QED BY <1>5, <1>6, <3>1
  <2>2. ASSUME NEW i \in 0..(n - 1), i \in S  PROVE i + 1 \in S
    <3>1. i + 1 \in 0..n /\ i + 1 # 0 /\ (i + 1) - 1 = i
      BY <1>1
    <3>2. g[i] = f[i]
      BY <2>2
    <3> HIDE DEF n, g
    <3> QED BY <1>5, <1>6, <3>1, <3>2
  <2> HIDE DEF S
  <2>3. \A i \in 0..n : i \in S
    BY <1>1, <2>1, <2>2, Induction
  <2> QED BY <2>3 DEF S
<1>9. g[n] = f[n]
  BY <1>1, <1>8
<1> HIDE DEF g, F
<1> QED BY <1>3, <1>4, <1>7, <1>9

LEMMA UnderstoodType ==
  ASSUME NEW tokens \in Seq(Token), NEW manage \in BOOLEAN
  PROVE  Understood(tokens, manage) \in BOOLEAN
BY UnderstoodRecursion, PairsFacts

-----------------------------------------------------------------------------
(* The events that XCB can return, and the list of pending rules.          *)

Happening == Event \union {Notice, Letgo}

LEMMA IncomingFacts ==
  ASSUME TypeOK
  PROVE  /\ Incoming \in Seq(Happening)
         /\ Len(Incoming) \in Nat
         /\ \A i \in 1..Len(Incoming) : Incoming[i] \in Happening
         /\ Incoming # <<>> => /\ Head(Incoming) = Incoming[1]
                               /\ Tail(Incoming) \in Seq(Happening)
<1>1. Incoming \in Seq(Happening)
  BY ConcatProperties DEF TypeOK, Incoming, Happening
<1> QED BY <1>1, ElementOfSeq, LenProperties, HeadTailProperties

(* The kind of an event tells whether it has a window.                     *)
LEMMA KindFacts ==
  ASSUME NEW e \in Happening
  PROVE  /\ e.kind \in {"map", "unmap", "destroy", "message", "press"} =>
              e.win \in Window /\ e.serial \in 1..MaxSent
         /\ e.kind = "release" <=> e = Letgo
BY DEF Happening, Event, Notice, Letgo

(* A handler takes the first event, and the others stay in their order.    *)
LEMMA TakeFacts ==
  ASSUME TypeOK, NEW kind, Take(kind)
  PROVE  /\ inbox' \in Seq(Happening) /\ wire' = <<>>
         /\ 1 \in 1..Len(Incoming)
         /\ Incoming[1].kind = kind /\ Incoming[1] = Head(Incoming)
         /\ Incoming' = Tail(Incoming)
         /\ Len(Incoming') = Len(Incoming) - 1
         /\ \A i \in 1..Len(Incoming') : Incoming'[i] = Incoming[i + 1]
         /\ UNCHANGED <<server, sent, queries, waiting, phase, ready, todo, button>>
<1>1. Incoming \in Seq(Happening) /\ Incoming # <<>>
  BY IncomingFacts DEF Take
<1>2. inbox' = Tail(Incoming) /\ wire' = <<>> /\ Tail(Incoming) \in Seq(Happening)
  BY <1>1, HeadTailProperties DEF Take
<1>3. Incoming' = Tail(Incoming)
  BY <1>2, ConcatEmptySeq DEF Incoming
<1> QED BY <1>1, <1>2, <1>3, HeadTailProperties, LenProperties DEF Take

(* The X server adds an event at the end.                                  *)
LEMMA SendFacts ==
  ASSUME TypeOK, NEW e \in Happening, wire' = Append(wire, e), inbox' = inbox
  PROVE  /\ wire' \in Seq(Happening)
         /\ Len(Incoming') = Len(Incoming) + 1
         /\ \A i \in 1..Len(Incoming) : Incoming'[i] = Incoming[i]
         /\ Incoming'[Len(Incoming')] = e
<1>1. wire \in Seq(Happening) /\ inbox \in Seq(Happening)
  BY DEF TypeOK, Happening
<1>2. wire' \in Seq(Happening) /\ Incoming' = inbox \o Append(wire, e)
  BY <1>1, AppendProperties DEF Incoming
<1>3. inbox \o Append(wire, e) = Append(Incoming, e)
  BY <1>1 DEF Incoming
<1>4. Incoming \in Seq(Happening)
  BY IncomingFacts
<1> QED BY <1>2, <1>3, <1>4, AppendProperties

(* A round trip moves events, and changes neither them nor their order.    *)
LEMMA RoundTripFacts ==
  ASSUME TypeOK, RoundTrip
  PROVE  inbox' \in Seq(Happening) /\ wire' = <<>> /\ Incoming' = Incoming
<1>1. Incoming \in Seq(Happening) /\ inbox' = Incoming /\ wire' = <<>>
  BY IncomingFacts DEF RoundTrip
<1>2. Incoming' = Incoming \o <<>>
  BY <1>1 DEF Incoming
<1> QED BY <1>1, <1>2, ConcatEmptySeq

LEMMA PendingFacts ==
  ASSUME TypeOK
  PROVE  /\ Len(pending) \in Nat
         /\ \A i \in 1..Len(pending) : pending[i] \in PendingRule
         /\ \A w : Waiting(w) => w \in Window
<1>1. pending \in Seq(PendingRule)
  BY DEF TypeOK
<1>2. Len(pending) \in Nat /\ \A i \in 1..Len(pending) : pending[i] \in PendingRule
  BY <1>1, ElementOfSeq, LenProperties
<1> QED BY <1>2 DEF Waiting, PendingRule

LEMMA PlaceFacts ==
  ASSUME NEW w, Waiting(w)
  PROVE  PlaceOf(w) \in 1..Len(pending) /\ pending[PlaceOf(w)].win = w
BY DEF Waiting, PlaceOf

(* A window has one pending rule at most.                                  *)
OnceEach(list) ==
  \A i, j \in 1..Len(list) : list[i].win = list[j].win => i = j

LEMMA WithoutFacts ==
  ASSUME TypeOK, OnceEach(pending), NEW w, Waiting(w), pending' = Dequeued(pending, w)
  PROVE  /\ pending' \in Seq(PendingRule)
         /\ OnceEach(pending')
         /\ \A i \in 1..Len(pending') : \E j \in 1..Len(pending) : pending'[i] = pending[j]
         /\ \A v : Waiting(v)' <=> Waiting(v) /\ v # w
<1> DEFINE k == PlaceOf(w)
<1>1. k \in 1..Len(pending) /\ pending[k].win = w
  BY PlaceFacts
<1>2. pending \in Seq(PendingRule) /\ Len(pending) \in Nat
  BY PendingFacts DEF TypeOK
<1> HIDE DEF k
<1>3. /\ pending' \in Seq(PendingRule)
      /\ Len(pending') = Len(pending) - 1
      /\ \A i \in 1..(Len(pending) - 1) :
           pending'[i] = IF i < k THEN pending[i] ELSE pending[i + 1]
  BY <1>1, <1>2, RemoveAtFacts DEF Dequeued, k
<1> DEFINE P(i) == IF i < k THEN i ELSE i + 1
<1>4. \A i \in 1..Len(pending') : /\ P(i) \in 1..Len(pending) /\ P(i) # k
                                  /\ pending'[i] = pending[P(i)]
  BY <1>1, <1>2, <1>3
<1>5. \A i, j \in 1..Len(pending') : P(i) = P(j) => i = j
  BY <1>1, <1>2, <1>3
<1>6. \A j \in 1..Len(pending) : j # k => \E i \in 1..Len(pending') : P(i) = j
  <2> TAKE j \in 1..Len(pending)
  <2> HAVE j # k
  <2> DEFINE i == IF j < k THEN j ELSE j - 1
  <2>1. i \in 1..Len(pending') /\ P(i) = j
    BY <1>1, <1>2, <1>3
  <2> HIDE DEF P, i
  <2> QED BY <2>1
<1> HIDE DEF P
<1>7. \A i \in 1..Len(pending') : pending'[i].win # w
  BY <1>1, <1>4 DEF OnceEach
<1>8. OnceEach(pending')
  BY <1>4, <1>5 DEF OnceEach
<1>9. ASSUME NEW v  PROVE Waiting(v)' <=> Waiting(v) /\ v # w
  <2>1. Waiting(v)' => Waiting(v) /\ v # w
    BY <1>4, <1>7 DEF Waiting
  <2>2. ASSUME Waiting(v), v # w  PROVE Waiting(v)'
    <3>1. PICK j \in 1..Len(pending) : pending[j].win = v
      BY <2>2 DEF Waiting
    <3>2. j # k
      BY <1>1, <2>2, <3>1
    <3>3. PICK i \in 1..Len(pending') : P(i) = j
      BY <1>6, <3>2
    <3>4. pending'[i].win = v
      BY <1>4, <3>1, <3>3
    <3> QED BY <3>4 DEF Waiting
  <2> QED BY <2>1, <2>2
<1>10. \A i \in 1..Len(pending') : \E j \in 1..Len(pending) : pending'[i] = pending[j]
  BY <1>4
<1> QED BY <1>3, <1>8, <1>9, <1>10

(* An entry of the list changes, and stays the entry of its window.        *)
LEMMA UpdateFacts ==
  ASSUME TypeOK, OnceEach(pending), NEW w, Waiting(w), NEW pr \in PendingRule, pr.win = w,
         pending' = [pending EXCEPT ![PlaceOf(w)] = pr]
  PROVE  /\ pending' \in Seq(PendingRule)
         /\ OnceEach(pending')
         /\ Len(pending') = Len(pending)
         /\ \A i \in 1..Len(pending) : pending'[i].win = pending[i].win
         /\ \A i \in 1..Len(pending) :
              /\ pending[i].win = w => pending'[i] = pr
              /\ pending[i].win # w => pending'[i] = pending[i]
         /\ \A v : Waiting(v)' <=> Waiting(v)
<1> DEFINE k == PlaceOf(w)
<1>1. k \in 1..Len(pending) /\ pending[k].win = w
  BY PlaceFacts
<1>2. pending \in Seq(PendingRule) /\ Len(pending) \in Nat
  BY PendingFacts DEF TypeOK
<1> HIDE DEF k
<1>3. pending' = [pending EXCEPT ![k] = pr]
  BY DEF k
<1>4. pending' \in Seq(PendingRule) /\ Len(pending') = Len(pending)
  <2>1. [pending EXCEPT ![k] = pr] \in Seq(PendingRule)
    BY <1>1, <1>2, ExceptSeq
  <2>2. Len([pending EXCEPT ![k] = pr]) = Len(pending)
    BY <1>1, <1>2, ExceptSeq
  <2> QED BY <1>3, <2>1, <2>2
<1>5. \A i \in 1..Len(pending) : pending'[i] = IF i = k THEN pr ELSE pending[i]
  BY <1>1, <1>2, <1>3
<1>6. \A i \in 1..Len(pending) : i = k <=> pending[i].win = w
  BY <1>1 DEF OnceEach
<1>7. \A i \in 1..Len(pending) : pending'[i].win = pending[i].win
  BY <1>5, <1>6
<1>8. OnceEach(pending')
  BY <1>4, <1>7 DEF OnceEach
<1>9. \A v : Waiting(v)' <=> Waiting(v)
  BY <1>4, <1>7 DEF Waiting
<1> QED BY <1>4, <1>5, <1>6, <1>7, <1>8, <1>9

(* A window that bspwm does not know gets an entry at the end.             *)
LEMMA AppendFacts ==
  ASSUME TypeOK, OnceEach(pending), NEW pr \in PendingRule, ~Waiting(pr.win),
         pending' = Append(pending, pr)
  PROVE  /\ pending' \in Seq(PendingRule)
         /\ OnceEach(pending')
         /\ \A i \in 1..Len(pending') :
              pending'[i] = pr \/ \E j \in 1..Len(pending) : pending'[i] = pending[j]
         /\ \A v : Waiting(v)' <=> Waiting(v) \/ v = pr.win
<1>1. pending \in Seq(PendingRule) /\ Len(pending) \in Nat
  BY PendingFacts DEF TypeOK
<1>2. /\ pending' \in Seq(PendingRule)
      /\ Len(pending') = Len(pending) + 1
      /\ \A i \in 1..Len(pending) : pending'[i] = pending[i]
      /\ pending'[Len(pending) + 1] = pr
  BY <1>1, AppendProperties
<1>3. \A i \in 1..Len(pending') : i = Len(pending) + 1 \/ i \in 1..Len(pending)
  BY <1>1, <1>2
<1>4. \A i \in 1..Len(pending) : i \in 1..Len(pending') /\ pending[i].win # pr.win
  BY <1>1, <1>2 DEF Waiting
<1>5. Len(pending) + 1 \in 1..Len(pending')
  BY <1>1, <1>2
<1>6. OnceEach(pending')
  BY <1>2, <1>3, <1>4 DEF OnceEach
<1>7. ASSUME NEW v  PROVE Waiting(v)' <=> Waiting(v) \/ v = pr.win
  <2>1. Waiting(v)' => Waiting(v) \/ v = pr.win
    BY <1>2, <1>3 DEF Waiting
  <2>2. Waiting(v) => Waiting(v)'
    BY <1>2, <1>4 DEF Waiting
  <2>3. v = pr.win => Waiting(v)'
    BY <1>2, <1>5 DEF Waiting
  <2> QED BY <2>1, <2>2, <2>3
<1> QED BY <1>2, <1>3, <1>6, <1>7

-----------------------------------------------------------------------------
(* The inductive invariant.                                                *)

(* The lists: a window is in one of them, and only the turn of the pending *)
(* rules has something left to do.                                         *)
Lists ==
  /\ OnceEach(pending)
  /\ \A i \in 1..Len(pending) : pending[i].win \notin managed
  /\ \A w \in todo : Waiting(w)
  /\ phase # "rules" => todo = {}
  /\ phase = "rules" /\ "socket" \in ready => waiting > 0

(* The messages: nobody has heard of a window that bspwm does not know.    *)
Mail ==
  /\ MessagesKept
  /\ \A w \in Window : ~Known(w) => heard[w] = <<>>

(* The pointer: the user holds the button until bspwm has read the press.  *)
Pointer ==
  /\ GrabHeld
  /\ \A i \in 1..Len(Incoming) : Incoming[i].kind = "press" => button = "held"

(* The destroyed windows: a request to map one comes before the event that *)
(* tells of its end, unless that was kept back.                            *)
Ghosts ==
  /\ GhostsMissed
  /\ \A i \in 1..Len(Incoming) :
       Incoming[i].kind = "map" /\ wins[Incoming[i].win] = "absent" =>
         \/ Incoming[i].win \in missed
         \/ \E j \in (i + 1)..Len(Incoming) : /\ Incoming[j].kind = "destroy"
                                              /\ Incoming[j].win = Incoming[i].win

Inv == TypeOK /\ Lists /\ Mail /\ Pointer /\ Ghosts

LEMMA InitInv == Init => Inv
<1> SUFFICES ASSUME Init  PROVE Inv
  OBVIOUS
<1>1. Incoming = <<>> /\ Len(Incoming) = 0
  BY DEF Init, Incoming
<1>2. Len(pending) = 0
  BY DEF Init
<1>3. TypeOK
  <2>1. NoProgram \in Program
    BY DEF NoProgram, Program
  <2>2. program \in [Window -> Program]
    BY <2>1 DEF Init
  <2>3. heard \in [Window -> Seq(1..MaxSent)] /\ applied \in [Window -> Seq(1..MaxSent)]
    BY EmptySeq DEF Init
  <2>4. wins \in [Window -> {"absent", "unmapped", "mapped"}]
    BY DEF Init
  <2>5. /\ requests \in Seq(Request) /\ pending \in Seq(PendingRule)
        /\ wire \in Seq(Event \union {Notice, Letgo})
        /\ inbox \in Seq(Event \union {Notice, Letgo})
    BY EmptySeq DEF Init
  <2>6. deaf \in BOOLEAN
    BY DEF Init
  <2>7. sent \in 0..MaxSent /\ queries \in 0..MaxQueries /\ waiting \in 0..queries
    BY LoopAssumption DEF Init
  <2>8. /\ missed \subseteq Window /\ managed \subseteq Window
        /\ phase \in {"select", "rules", "events"} /\ ready \subseteq {"socket", "display"}
        /\ todo \subseteq Window /\ grabbed \subseteq Window
        /\ button \in {"fresh", "held", "released"}
    BY DEF Init
  <2> QED BY <2>2, <2>3, <2>4, <2>5, <2>6, <2>7, <2>8 DEF TypeOK
<1>4. Lists /\ Mail
  BY <1>2 DEF Init, Lists, Mail, OnceEach, MessagesKept, Waiting
<1>5. Pointer /\ Ghosts
  BY <1>1, <1>2 DEF Init, Pointer, Ghosts, GrabHeld, GhostsMissed, Known, Waiting
<1> QED BY <1>3, <1>4, <1>5 DEF Inv

-----------------------------------------------------------------------------
(* Types.                                                                  *)

LEMMA PipeType ==
  ASSUME TypeOK, NEW w \in Window
  PROVE  Pipe(w) \in Seq(Token)
<1>1. program[w].said \in Seq(Token) /\ program[w].read \in Nat
  BY DEF TypeOK, Program
<1>2. \A i \in 1..Len(program[w].said) : program[w].said[i] \in Token
  BY <1>1, ElementOfSeq
<1>3. Len(program[w].said) \in Nat
  BY <1>1, LenProperties
<1>4. \A i \in (program[w].read + 1)..Len(program[w].said) : program[w].said[i] \in Token
  BY <1>1, <1>2, <1>3
<1> QED BY <1>1, <1>3, <1>4, SubSeqProperties DEF Pipe

LEMMA ManageField ==
  ASSUME NEW pr \in PendingRule, NEW manage \in BOOLEAN
  PROVE  /\ [pr EXCEPT !.manage = manage] \in PendingRule
         /\ [pr EXCEPT !.manage = manage].win = pr.win
         /\ [pr EXCEPT !.manage = manage].rule = pr.rule
         /\ [pr EXCEPT !.manage = manage].manage = manage
         /\ [pr EXCEPT !.manage = manage].events = pr.events
BY DEF PendingRule

LEMMA ShowType ==
  ASSUME NEW w \in Window
  PROVE  Show(w) \in Seq(Request)
<1>1. /\ [op |-> "deafen", win |-> w] \in Request
      /\ [op |-> "map", win |-> w] \in Request
      /\ [op |-> "listen", win |-> w] \in Request
  BY DEF Request
<1> QED BY <1>1 DEF Show

LEMMA SettleType ==
  ASSUME TypeOK, NEW w \in Window, NEW manage \in BOOLEAN, NEW events \in Seq(1..MaxSent),
         Settle(w, manage, events)
  PROVE  /\ managed' \subseteq Window
         /\ heard' \in [Window -> Seq(1..MaxSent)]
         /\ applied' \in [Window -> Seq(1..MaxSent)]
         /\ requests' \in Seq(Request)
<1>1. managed' \subseteq Window
  BY DEF Settle, TypeOK
<1>2. heard' \in [Window -> Seq(1..MaxSent)] /\ applied' \in [Window -> Seq(1..MaxSent)]
  BY EmptySeq DEF Settle, TypeOK
<1>3. requests' \in Seq(Request)
  BY ShowType, ConcatProperties DEF Settle, TypeOK
<1> QED BY <1>1, <1>2, <1>3

LEMMA UnmanageType ==
  ASSUME TypeOK, OnceEach(pending), NEW w \in Window, Unmanage(w)
  PROVE  /\ managed' \subseteq Window /\ grabbed' \subseteq Window
         /\ heard' \in [Window -> Seq(1..MaxSent)]
         /\ applied' \in [Window -> Seq(1..MaxSent)]
         /\ pending' \in Seq(PendingRule)
         /\ program' \in [Window -> Program]
<1>1. managed' \subseteq Window /\ grabbed' \subseteq Window
  BY DEF Unmanage, TypeOK
<1>2. heard' \in [Window -> Seq(1..MaxSent)] /\ applied' \in [Window -> Seq(1..MaxSent)]
  BY EmptySeq DEF Unmanage, TypeOK
<1>3. NoProgram \in Program
  BY EmptySeq DEF NoProgram, Program
<1>4. program' \in [Window -> Program]
  BY <1>3 DEF Unmanage, TypeOK
<1>5. pending' \in Seq(PendingRule)
  BY WithoutFacts DEF Unmanage, TypeOK
<1> QED BY <1>1, <1>2, <1>4, <1>5

(* Clients and user.                                                       *)
LEMMA AsksType ==
  ASSUME TypeOK, NEW w \in Window,
         NEW kind \in {"map", "unmap", "destroy", "message", "press"}, Asks(kind, w)
  PROVE  /\ sent' \in 0..MaxSent
         /\ wire' \in Seq(Happening)
         /\ UNCHANGED <<deaf, requests, inbox, queries, waiting, program, pending,
                        managed, phase, ready, todo, grabbed, mail>>
<1> DEFINE e == [kind |-> kind, win |-> w, serial |-> sent + 1]
<1>1. sent + 1 \in 1..MaxSent /\ sent + 1 \in 0..MaxSent
  BY LoopAssumption DEF TypeOK, Asks
<1>2. e \in Event
  BY <1>1 DEF Event
<1>3. wire \in Seq(Happening) /\ e \in Happening
  BY <1>2 DEF TypeOK, Happening
<1>4. Append(wire, e) \in Seq(Happening)
  BY <1>3, AppendProperties
<1>5. wire' \in {wire, Append(wire, e)} /\ sent' = sent + 1
  BY DEF Asks
<1> QED BY <1>1, <1>3, <1>4, <1>5 DEF Asks

LEMMA ClientsType ==
  ASSUME TypeOK, NEW w \in Window,
         ClientMaps(w) \/ ClientWithdraws(w) \/ ClientDestroys(w) \/ ClientWrites(w)
           \/ UserPresses(w)
  PROVE  TypeOK'
<1>1. PICK kind \in {"map", "unmap", "destroy", "message", "press"} : Asks(kind, w)
  BY DEF ClientMaps, ClientWithdraws, ClientDestroys, ClientWrites, UserPresses
<1>2. wins' \in [Window -> {"absent", "unmapped", "mapped"}]
  BY DEF TypeOK, ClientMaps, ClientWithdraws, ClientDestroys, ClientWrites, UserPresses
<1>3. missed' \subseteq Window /\ button' \in {"fresh", "held", "released"}
  BY DEF TypeOK, ClientMaps, ClientWithdraws, ClientDestroys, ClientWrites, UserPresses
<1> QED BY <1>1, <1>2, <1>3, AsksType DEF TypeOK, Happening, mail

(* The X server, bspc, the rule programs.                                  *)
LEMMA OthersType ==
  ASSUME TypeOK,
         \/ UserReleases \/ Serve \/ Nudge \/ Query
         \/ \E w \in Window : ProgramWrites(w) \/ ProgramEnds(w)
  PROVE  TypeOK'
<1>1. wire \in Seq(Happening) /\ Notice \in Happening /\ Letgo \in Happening
  BY DEF TypeOK, Happening
<1>2. CASE UserReleases
  <2>1. wire' \in Seq(Happening)
    BY <1>1, <1>2, AppendProperties DEF UserReleases
  <2> QED BY <1>2, <2>1 DEF TypeOK, Happening, UserReleases, server, mail
<1>3. CASE Serve
  <2> DEFINE r == Head(requests)
  <2>1. requests \in Seq(Request) /\ requests # <<>>
    BY <1>3 DEF TypeOK, Serve
  <2>2. r \in Request /\ Tail(requests) \in Seq(Request)
    BY <2>1, HeadTailProperties
  <2>3. deaf' \in BOOLEAN
    BY <1>3 DEF TypeOK, Serve
  <2>4. wins' \in [Window -> {"absent", "unmapped", "mapped"}]
    BY <1>3, <2>2 DEF TypeOK, Serve, Request
  <2> QED BY <1>3, <2>2, <2>3, <2>4 DEF TypeOK, Serve, loop, mail
<1>4. CASE Nudge
  <2>1. wire' \in Seq(Happening)
    BY <1>1, <1>4 DEF Nudge
  <2> QED BY <1>4, <2>1 DEF TypeOK, Happening, Nudge, server, loop, mail
<1>5. CASE Query
  <2>1. queries' \in 0..MaxQueries /\ waiting' \in 0..queries'
    BY <1>5, LoopAssumption DEF TypeOK, Query
  <2> QED BY <1>5, <2>1 DEF TypeOK, Query, server, loop, mail
<1>6. ASSUME NEW w \in Window, ProgramWrites(w) \/ ProgramEnds(w)
      PROVE  TypeOK'
  <2> DEFINE p == program[w]
  <2>1. p \in Program
    BY DEF TypeOK
  <2>2. program' \in [Window -> Program]
    <3>1. CASE ProgramWrites(w)
      <4>1. p.left \in Seq(Seq(Token)) /\ p.left # <<>> /\ p.said \in Seq(Token)
        BY <2>1, <3>1 DEF ProgramWrites, Program
      <4>2. Head(p.left) \in Seq(Token) /\ Tail(p.left) \in Seq(Seq(Token))
        BY <4>1, HeadTailProperties
      <4>3. p.said \o Head(p.left) \in Seq(Token)
        BY <4>1, <4>2, ConcatProperties
      <4>4. [p EXCEPT !.said = @ \o Head(p.left), !.left = Tail(@)] \in Program
        BY <2>1, <4>2, <4>3 DEF Program
      <4>5. program' = [program EXCEPT ![w] = [p EXCEPT !.said = @ \o Head(p.left),
                                                       !.left = Tail(@)]]
        BY <3>1 DEF ProgramWrites, TypeOK
      <4> QED BY <4>4, <4>5 DEF TypeOK
    <3>2. CASE ProgramEnds(w)
      <4>1. [p EXCEPT !.alive = FALSE] \in Program
        BY <2>1 DEF Program
      <4> QED BY <3>2, <4>1 DEF TypeOK, ProgramEnds
    <3> QED BY <1>6, <3>1, <3>2
  <2> QED BY <1>6, <2>2 DEF TypeOK, ProgramWrites, ProgramEnds, server, loop, mail
<1> QED BY <1>2, <1>3, <1>4, <1>5, <1>6

(* bspwm: the rules and the socket.                                        *)
LEMMA RulesType ==
  ASSUME TypeOK, Lists,
         \/ Select \/ HandleMessage \/ SkipSocket \/ EventsDone
         \/ \E w \in Window : ReadAnswer(w) \/ ManagePending(w)
  PROVE  TypeOK'
<1>1. CASE Select
  BY <1>1 DEF TypeOK, Select, Watched, server, mail
<1>2. CASE HandleMessage
  <2>1. inbox' \in Seq(Happening) /\ wire' \in Seq(Happening)
    BY <1>2, RoundTripFacts, EmptySeq DEF HandleMessage
  <2>2. waiting' \in 0..queries'
    BY <1>2, LoopAssumption DEF TypeOK, HandleMessage, Lists
  <2> QED BY <1>2, <2>1, <2>2 DEF TypeOK, Happening, HandleMessage, AfterSocket, server, mail
<1>3. CASE SkipSocket
  <2>1. inbox' \in Seq(Happening) /\ wire' \in Seq(Happening)
    BY <1>3, RoundTripFacts, EmptySeq DEF SkipSocket, TypeOK, Happening
  <2> QED BY <1>3, <2>1 DEF TypeOK, Happening, SkipSocket, AfterSocket, server, mail
<1>4. CASE EventsDone
  BY <1>4 DEF TypeOK, EventsDone, server, mail
<1>5. ASSUME NEW w \in Window, ReadAnswer(w)  PROVE TypeOK'
  <2> DEFINE k == PlaceOf(w)
             pr == [pending[k] EXCEPT !.manage = Understood(Pipe(w), @)]
  <2>1. Waiting(w)
    BY <1>5 DEF ReadAnswer, Reported, Lists
  <2>2. pending[k] \in PendingRule /\ pending[k].win = w
    BY <2>1, PlaceFacts, PendingFacts
  <2>3. Understood(Pipe(w), pending[k].manage) \in BOOLEAN
    BY <2>2, PipeType, UnderstoodType DEF PendingRule
  <2> DEFINE m == Understood(Pipe(w), pending[k].manage)
  <2>4. [pending[k] EXCEPT !.manage = m] \in PendingRule
    <3> HIDE DEF m, k
    <3> QED BY <2>2, <2>3, ManageField DEF m
  <2>5. pending' = [pending EXCEPT ![k] = [pending[k] EXCEPT !.manage = m]]
    BY <1>5 DEF ReadAnswer
  <2> HIDE DEF m, k
  <2>6. pending' \in Seq(PendingRule)
    <3>1. [pending[k] EXCEPT !.manage = m].win = w
      BY <2>2 DEF PendingRule
    <3> DEFINE q == [pending[k] EXCEPT !.manage = m]
    <3>2. q \in PendingRule /\ q.win = w /\ pending' = [pending EXCEPT ![k] = q]
      BY <2>4, <2>5, <3>1
    <3> HIDE DEF q
    <3> QED BY <2>1, <3>2, UpdateFacts DEF Lists, k
  <2>7. program' \in [Window -> Program]
    <3>1. program[w] \in Program
      BY DEF TypeOK
    <3>2. Len(program[w].said) \in Nat
      BY <3>1, LenProperties DEF Program
    <3> DEFINE l == Len(program[w].said)
    <3>3. [program[w] EXCEPT !.read = l] \in Program
      <4> HIDE DEF l
      <4> QED BY <3>1, <3>2 DEF Program, l
    <3>4. program' = [program EXCEPT ![w] = [program[w] EXCEPT !.read = l]]
      BY <1>5 DEF ReadAnswer
    <3> QED BY <3>3, <3>4 DEF TypeOK
  <2> QED BY <1>5, <2>6, <2>7 DEF TypeOK, ReadAnswer, server, loop, mail
<1>6. ASSUME NEW w \in Window, ManagePending(w)  PROVE TypeOK'
  <2> DEFINE pr == pending[PlaceOf(w)]
  <2>1. Waiting(w)
    BY <1>6 DEF ManagePending, Reported, Lists
  <2>2. pr \in PendingRule
    BY <2>1, PlaceFacts, PendingFacts
  <2>3. pr.manage \in BOOLEAN /\ pr.events \in Seq(1..MaxSent)
    BY <2>2 DEF PendingRule
  <2>4. /\ managed' \subseteq Window
        /\ heard' \in [Window -> Seq(1..MaxSent)]
        /\ applied' \in [Window -> Seq(1..MaxSent)]
        /\ requests' \in Seq(Request)
    <3>1. Settle(w, pr.manage, pr.events)
      BY <1>6 DEF ManagePending
    <3> HIDE DEF pr
    <3> QED BY <2>3, <3>1, SettleType
  <2>5. pending' \in Seq(PendingRule)
    BY <1>6, <2>1, WithoutFacts DEF ManagePending, Lists
  <2>6. program' \in [Window -> Program]
    <3>1. NoProgram \in Program
      BY EmptySeq DEF NoProgram, Program
    <3> QED BY <1>6, <3>1 DEF ManagePending, TypeOK
  <2>7. inbox' \in Seq(Happening) /\ wire' \in Seq(Happening)
    BY <1>6, RoundTripFacts, EmptySeq DEF ManagePending
  <2> QED BY <1>6, <2>4, <2>5, <2>6, <2>7 DEF TypeOK, Happening, ManagePending, server
<1> QED BY <1>1, <1>2, <1>3, <1>4, <1>5, <1>6

(* bspwm: the events.                                                      *)
LEMMA EventsType ==
  ASSUME TypeOK, Lists,
         \/ MapKnown \/ UnmapNotify \/ DestroyNotify \/ ClientMessage
         \/ ButtonPress \/ ButtonRelease \/ OtherEvent
         \/ \E rule \in BOOLEAN, answer \in Answers : Schedule(rule, answer)
         \/ \E rule \in BOOLEAN : ManageAtOnce(rule)
  PROVE  TypeOK'
<1>1. ASSUME NEW kind, Take(kind)
      PROVE  /\ inbox' \in Seq(Happening) /\ wire' \in Seq(Happening)
             /\ UNCHANGED <<server, sent, queries, waiting, phase, ready, todo, button>>
             /\ kind \in {"map", "unmap", "destroy", "message", "press"} =>
                  First \in Window /\ Head(Incoming).serial \in 1..MaxSent
  <2>1. Head(Incoming) \in Happening /\ Head(Incoming).kind = kind
    BY <1>1, TakeFacts, IncomingFacts
  <2> QED BY <1>1, <2>1, TakeFacts, KindFacts, EmptySeq DEF First
<1>2. CASE MapKnown \/ ButtonPress \/ ButtonRelease \/ OtherEvent
  <2>1. grabbed' \subseteq Window
    BY <1>2 DEF TypeOK, MapKnown, ButtonPress, ButtonRelease, OtherEvent
  <2>2. PICK kind : Take(kind)
    BY <1>2 DEF MapKnown, ButtonPress, ButtonRelease, OtherEvent
  <2>3. UNCHANGED <<requests, program, pending, managed, mail>>
    BY <1>2 DEF MapKnown, ButtonPress, ButtonRelease, OtherEvent
  <2> QED BY <1>1, <2>1, <2>2, <2>3 DEF TypeOK, Happening, server, mail
<1>3. ASSUME UnmapNotify \/ DestroyNotify  PROVE TypeOK'
  <2>1. PICK kind \in {"unmap", "destroy"} : Take(kind)
    BY <1>3 DEF UnmapNotify, DestroyNotify
  <2>2. UNCHANGED requests
    BY <1>3 DEF UnmapNotify, DestroyNotify
  <2>3. First \in Window
    BY <1>1, <2>1
  <2>4. Unmanage(First) \/ UNCHANGED <<pending, program, managed, grabbed, mail>>
    BY <1>3 DEF UnmapNotify, DestroyNotify
  <2>5. /\ managed' \subseteq Window /\ grabbed' \subseteq Window
        /\ heard' \in [Window -> Seq(1..MaxSent)]
        /\ applied' \in [Window -> Seq(1..MaxSent)]
        /\ pending' \in Seq(PendingRule)
        /\ program' \in [Window -> Program]
    BY <2>3, <2>4, UnmanageType DEF Lists, TypeOK, mail
  <2> QED BY <1>1, <2>1, <2>2, <2>5 DEF TypeOK, Happening, server
<1>4. CASE ClientMessage
  <2> DEFINE w == First
             n == Head(Incoming).serial
  <2>1. w \in Window /\ n \in 1..MaxSent
    BY <1>1, <1>4 DEF ClientMessage
  <2> DEFINE h == Append(heard[w], n)
             a == Append(applied[w], n)
  <2>2. h \in Seq(1..MaxSent) /\ a \in Seq(1..MaxSent)
    BY <2>1, AppendProperties DEF TypeOK
  <2>3. /\ heard' = heard \/ heard' = [heard EXCEPT ![w] = h]
        /\ applied' = applied \/ applied' = [applied EXCEPT ![w] = a]
    BY <1>4 DEF ClientMessage, mail
  <2>4. heard' \in [Window -> Seq(1..MaxSent)] /\ applied' \in [Window -> Seq(1..MaxSent)]
    <3>1. heard \in [Window -> Seq(1..MaxSent)] /\ applied \in [Window -> Seq(1..MaxSent)]
      BY DEF TypeOK
    <3> HIDE DEF w, n, h, a
    <3>2. [heard EXCEPT ![w] = h] \in [Window -> Seq(1..MaxSent)]
      BY <2>1, <2>2, <3>1
    <3>3. [applied EXCEPT ![w] = a] \in [Window -> Seq(1..MaxSent)]
      BY <2>1, <2>2, <3>1
    <3> QED BY <2>3, <3>1, <3>2, <3>3
  <2>5. pending' \in Seq(PendingRule)
    <3>1. CASE UNCHANGED pending
      BY <3>1 DEF TypeOK
    <3>2. CASE /\ Waiting(w)
               /\ pending' = [pending EXCEPT ![PlaceOf(w)].events = Postponed(@, n)]
      <4> DEFINE k == PlaceOf(w)
                 q == Append(pending[k].events, n)
      <4>1. pending[k] \in PendingRule /\ pending[k].win = w
        BY <3>2, PlaceFacts, PendingFacts
      <4>2. q \in Seq(1..MaxSent)
        BY <2>1, <4>1, AppendProperties DEF PendingRule
      <4>3. pending' = [pending EXCEPT ![k] = [pending[k] EXCEPT !.events = q]]
        BY <3>2 DEF Postponed
      <4> HIDE DEF q, k, w
      <4>4. [pending[k] EXCEPT !.events = q] \in PendingRule
            /\ [pending[k] EXCEPT !.events = q].win = w
        BY <4>1, <4>2 DEF PendingRule
      <4> QED BY <3>2, <4>3, <4>4, UpdateFacts DEF Lists, k
    <3> QED BY <1>4, <3>1, <3>2 DEF ClientMessage
  <2> QED BY <1>1, <1>4, <2>4, <2>5 DEF ClientMessage, TypeOK, Happening, server
<1>5. ASSUME NEW rule \in BOOLEAN, NEW answer \in Answers, Schedule(rule, answer)
      PROVE  TypeOK'
  <2> DEFINE pr == [win |-> First, rule |-> rule, manage |-> rule, events |-> <<>>]
             p == [alive |-> TRUE, left |-> answer, said |-> <<>>, read |-> 0]
  <2>1. First \in Window
    BY <1>1, <1>5 DEF Schedule
  <2>2. pr \in PendingRule /\ p \in Program
    BY <2>1, LoopAssumption, EmptySeq DEF PendingRule, Program
  <2>3. pending' = Append(pending, pr) /\ program' = [program EXCEPT ![First] = p]
    BY <1>5 DEF Schedule
  <2> HIDE DEF pr, p
  <2>4. pending' \in Seq(PendingRule) /\ program' \in [Window -> Program]
    BY <2>2, <2>3, AppendProperties DEF TypeOK
  <2> QED BY <1>1, <1>5, <2>4 DEF Schedule, TypeOK, Happening, server, mail
<1>6. ASSUME NEW rule \in BOOLEAN, ManageAtOnce(rule)  PROVE TypeOK'
  <2>1. First \in Window
    BY <1>1, <1>6 DEF ManageAtOnce
  <2>2. <<>> \in Seq(1..MaxSent)
    BY EmptySeq
  <2>3. /\ managed' \subseteq Window
        /\ heard' \in [Window -> Seq(1..MaxSent)]
        /\ applied' \in [Window -> Seq(1..MaxSent)]
        /\ requests' \in Seq(Request)
    BY <1>6, <2>1, <2>2, SettleType DEF ManageAtOnce
  <2> QED BY <1>1, <1>6, <2>3 DEF ManageAtOnce, TypeOK, Happening, server
<1> QED BY <1>2, <1>3, <1>4, <1>5, <1>6

LEMMA TypesStep == TypeOK /\ Lists /\ [Next]_vars => TypeOK'
<1> SUFFICES ASSUME TypeOK, Lists, [Next]_vars  PROVE TypeOK'
  OBVIOUS
<1>1. CASE Bspwm
  BY <1>1, RulesType, EventsType DEF Bspwm
<1>2. CASE Next /\ ~Bspwm
  BY <1>2, OthersType, ClientsType DEF Next
<1>3. CASE UNCHANGED vars
  BY <1>3 DEF vars, server, loop, mail, TypeOK
<1> QED BY <1>1, <1>2, <1>3

-----------------------------------------------------------------------------
(* What the handlers do to the lists.                                      *)

(* The steps that leave the pending rules and the nodes alone.             *)
Aside ==
  \/ Serve \/ Nudge \/ Query \/ UserReleases
  \/ \E w \in Window : ProgramWrites(w) \/ ProgramEnds(w)
  \/ \E w \in Window : \/ ClientMaps(w) \/ ClientWithdraws(w)
                       \/ ClientDestroys(w) \/ ClientWrites(w) \/ UserPresses(w)
  \/ MapKnown \/ ButtonPress \/ ButtonRelease \/ OtherEvent
  \/ Select \/ HandleMessage \/ SkipSocket \/ EventsDone
  \/ UNCHANGED vars

LEMMA AsideFacts ==
  ASSUME TypeOK, Aside
  PROVE  UNCHANGED <<pending, managed, mail>>
BY DEF Aside, Serve, Nudge, Query, UserReleases, ProgramWrites, ProgramEnds, ClientMaps,
       ClientWithdraws, ClientDestroys, ClientWrites, UserPresses, Asks, MapKnown,
       ButtonPress, ButtonRelease, OtherEvent, Select, HandleMessage, SkipSocket,
       EventsDone, vars, mail

(* The steps that do not.                                                  *)
LEMMA StepCases ==
  ASSUME [Next]_vars
  PROVE  \/ Aside
         \/ \E w \in Window : ReadAnswer(w)
         \/ \E w \in Window : ManagePending(w)
         \/ \E rule \in BOOLEAN, answer \in Answers : Schedule(rule, answer)
         \/ \E rule \in BOOLEAN : ManageAtOnce(rule)
         \/ UnmapNotify \/ DestroyNotify
         \/ ClientMessage
BY DEF Next, Bspwm, Aside

(* A window is forgotten.                                                  *)
LEMMA UnmanageFacts ==
  ASSUME TypeOK, Lists, NEW w, Unmanage(w)
  PROVE  /\ OnceEach(pending')
         /\ \A i \in 1..Len(pending') :
              pending'[i].win # w /\ \E j \in 1..Len(pending) : pending'[i] = pending[j]
         /\ \A v : Waiting(v)' <=> Waiting(v) /\ v # w
         /\ managed' = managed \ {w} /\ grabbed' = grabbed \ {w}
<1>1. CASE w \in managed \/ ~Waiting(w)
  <2>1. pending' = pending /\ ~Waiting(w)
    BY <1>1 DEF Unmanage, Lists, Waiting
  <2> QED BY <2>1 DEF Unmanage, Lists, Waiting
<1>2. CASE w \notin managed /\ Waiting(w)
  <2>1. pending' = Dequeued(pending, w)
    BY <1>2 DEF Unmanage
  <2>2. /\ OnceEach(pending')
        /\ \A i \in 1..Len(pending') : \E j \in 1..Len(pending) : pending'[i] = pending[j]
        /\ \A v : Waiting(v)' <=> Waiting(v) /\ v # w
    BY <1>2, <2>1, WithoutFacts DEF Lists
  <2>3. \A i \in 1..Len(pending') : pending'[i].win # w
    BY <2>2 DEF Waiting
  <2> QED BY <2>2, <2>3 DEF Unmanage
<1> QED BY <1>1, <1>2

(* The consequence of a rule goes on with what is in the pipe.             *)
Reads(w) ==
  \A i \in 1..Len(pending) :
    /\ pending'[i].rule = pending[i].rule
    /\ pending[i].win # w => pending'[i] = pending[i]
    /\ pending[i].win = w =>
         pending'[i].manage = Understood(Pipe(w), pending[i].manage)

(* An answer is read: no entry moves, and no events are lost.              *)
LEMMA ReadFacts ==
  ASSUME TypeOK, Lists, NEW w \in Window, ReadAnswer(w)
  PROVE  /\ OnceEach(pending')
         /\ Len(pending') = Len(pending)
         /\ \A i \in 1..Len(pending) : /\ pending'[i].win = pending[i].win
                                      /\ pending'[i].events = pending[i].events
         /\ \A v : Waiting(v)' <=> Waiting(v)
         /\ Reads(w)
<1> DEFINE k == PlaceOf(w)
           m == Understood(Pipe(w), pending[k].manage)
<1>1. Waiting(w)
  BY DEF ReadAnswer, Reported, Lists
<1>2. k \in 1..Len(pending) /\ pending[k] \in PendingRule /\ pending[k].win = w
  BY <1>1, PlaceFacts, PendingFacts
<1>3. m \in BOOLEAN
  BY <1>2, PipeType, UnderstoodType DEF PendingRule
<1>4. pending' = [pending EXCEPT ![k] = [pending[k] EXCEPT !.manage = m]]
  BY DEF ReadAnswer
<1> HIDE DEF m, k
<1> DEFINE q == [pending[k] EXCEPT !.manage = m]
<1>5. q \in PendingRule /\ q.win = w /\ q.events = pending[k].events
  BY <1>2, <1>3, ManageField
<1>10. q.rule = pending[k].rule
  BY <1>2, <1>3, ManageField
<1>11. q.manage = m
  BY <1>2, <1>3, ManageField
<1>6. pending' = [pending EXCEPT ![PlaceOf(w)] = q]
  BY <1>4 DEF k
<1> HIDE DEF q
<1>7. /\ OnceEach(pending')
      /\ Len(pending') = Len(pending)
      /\ \A i \in 1..Len(pending) : pending'[i].win = pending[i].win
      /\ \A i \in 1..Len(pending) :
           /\ pending[i].win = w => pending'[i] = q
           /\ pending[i].win # w => pending'[i] = pending[i]
      /\ \A v : Waiting(v)' <=> Waiting(v)
  <2>1. OnceEach(pending)
    BY DEF Lists
  <2> QED BY <1>1, <1>5, <1>6, <2>1, UpdateFacts, Zenon
<1>8. \A i \in 1..Len(pending) : pending[i].win = w => i = k
  BY <1>2 DEF Lists, OnceEach
<1>9. \A i \in 1..Len(pending) : pending'[i].events = pending[i].events
  BY <1>5, <1>7, <1>8
<1>12. \A i \in 1..Len(pending) : pending'[i].rule = pending[i].rule
  BY <1>7, <1>8, <1>10
<1>13. \A i \in 1..Len(pending) :
         pending[i].win = w => pending'[i].manage = Understood(Pipe(w), pending[i].manage)
  BY <1>7, <1>8, <1>11, Zenon DEF m
<1>14. Reads(w)
  BY <1>7, <1>12, <1>13, Zenon DEF Reads
<1> QED BY <1>7, <1>9, <1>14

(* A message arrives for a window that waits for its rules.                *)
Postpones(w, n) ==
  pending' = [pending EXCEPT ![PlaceOf(w)].events = Postponed(@, n)]

LEMMA PostponeFacts ==
  ASSUME TypeOK, Lists, NEW w, Waiting(w), NEW n \in 1..MaxSent, Postpones(w, n)
  PROVE  /\ OnceEach(pending')
         /\ Len(pending') = Len(pending)
         /\ \A i \in 1..Len(pending) :
              /\ pending'[i].win = pending[i].win
              /\ pending[i].win = w => pending'[i].events = Append(pending[i].events, n)
              /\ pending[i].win # w => pending'[i].events = pending[i].events
              /\ pending'[i].rule = pending[i].rule
              /\ pending'[i].manage = pending[i].manage
         /\ \A v : Waiting(v)' <=> Waiting(v)
<1> DEFINE k == PlaceOf(w)
           e == Append(pending[k].events, n)
<1>1. k \in 1..Len(pending) /\ pending[k] \in PendingRule /\ pending[k].win = w
  BY PlaceFacts, PendingFacts
<1>2. e \in Seq(1..MaxSent)
  BY <1>1, AppendProperties DEF PendingRule
<1>3. pending' = [pending EXCEPT ![k] = [pending[k] EXCEPT !.events = e]]
  BY DEF Postpones, Postponed
<1> HIDE DEF k, e
<1> DEFINE q == [pending[k] EXCEPT !.events = e]
<1>4. q \in PendingRule /\ q.win = w /\ q.events = e
  BY <1>1, <1>2 DEF PendingRule
<1>9. q.rule = pending[k].rule /\ q.manage = pending[k].manage
  BY <1>1, Zenon DEF PendingRule
<1>5. pending' = [pending EXCEPT ![PlaceOf(w)] = q]
  BY <1>3 DEF k
<1> HIDE DEF q
<1>6. /\ OnceEach(pending')
      /\ Len(pending') = Len(pending)
      /\ \A i \in 1..Len(pending) : pending'[i].win = pending[i].win
      /\ \A i \in 1..Len(pending) :
           /\ pending[i].win = w => pending'[i] = q
           /\ pending[i].win # w => pending'[i] = pending[i]
      /\ \A v : Waiting(v)' <=> Waiting(v)
  <2>1. OnceEach(pending)
    BY DEF Lists
  <2> QED BY <1>4, <1>5, <2>1, UpdateFacts, Zenon
<1>7. \A i \in 1..Len(pending) : pending[i].win = w => i = k
  BY <1>1 DEF Lists, OnceEach
<1>8. \A i \in 1..Len(pending) :
        /\ pending[i].win = w => pending'[i].events = Append(pending[i].events, n)
        /\ pending[i].win # w => pending'[i].events = pending[i].events
  BY <1>4, <1>6, <1>7 DEF e
<1>10. \A i \in 1..Len(pending) : pending'[i].rule = pending[i].rule
                                 /\ pending'[i].manage = pending[i].manage
  BY <1>6, <1>7, <1>9, Zenon
<1> QED BY <1>6, <1>8, <1>10, Zenon

-----------------------------------------------------------------------------
(* The lists stay sound.                                                   *)

LEMMA ListsStep == TypeOK /\ Lists /\ [Next]_vars => Lists'
<1> SUFFICES ASSUME TypeOK, Lists, [Next]_vars  PROVE Lists'
  OBVIOUS
<1> DEFINE Apart == \A v : Waiting(v) => v \notin managed
           Turn == /\ \A v \in todo : Waiting(v)
                   /\ phase # "rules" => todo = {}
                   /\ phase = "rules" /\ "socket" \in ready => waiting > 0
<1>1. OnceEach(pending) /\ Apart /\ Turn
  BY DEF Lists, Waiting
<1>2. SUFFICES OnceEach(pending') /\ Apart' /\ Turn'
  BY DEF Lists, Waiting
<1>3. CASE Aside
  <2>1. UNCHANGED <<pending, managed>>
    BY <1>3, AsideFacts
  <2>2. OnceEach(pending') /\ Apart'
    BY <1>1, <2>1 DEF Waiting
  <2>3. Turn'
    <3>1. CASE Select
      BY <2>1, <3>1 DEF Select, Watched, Waiting
    <3>2. CASE HandleMessage \/ SkipSocket
      BY <3>2 DEF HandleMessage, SkipSocket, AfterSocket
    <3>3. CASE EventsDone
      BY <1>1, <3>3 DEF EventsDone
    <3>4. CASE UNCHANGED <<phase, ready, todo>> /\ waiting' \in {waiting, waiting + 1}
      <4>1. waiting \in Nat
        BY LoopAssumption DEF TypeOK
      <4> QED BY <1>1, <2>1, <3>4, <4>1 DEF Waiting
    <3>5. CASE Query
      BY <3>4, <3>5 DEF Query, loop
    <3>6. CASE UNCHANGED <<phase, ready, todo, waiting>>
      BY <3>4, <3>6
    <3> QED
      BY <1>3, <3>1, <3>2, <3>3, <3>5, <3>6
         DEF Aside, Serve, Nudge, UserReleases, ProgramWrites, ProgramEnds, ClientMaps,
             ClientWithdraws, ClientDestroys, ClientWrites, UserPresses, Asks, MapKnown,
             ButtonPress, ButtonRelease, OtherEvent, Take, vars, loop
  <2> QED BY <2>2, <2>3
<1>4. ASSUME NEW w \in Window, ReadAnswer(w)  PROVE OnceEach(pending') /\ Apart' /\ Turn'
  <2>1. OnceEach(pending') /\ \A v : Waiting(v)' <=> Waiting(v)
    BY <1>4, ReadFacts
  <2>2. UNCHANGED <<managed, phase, ready, todo, waiting>>
    BY <1>4 DEF ReadAnswer, loop
  <2> HIDE DEF Waiting
  <2> QED BY <1>1, <2>1, <2>2
<1>5. ASSUME NEW w \in Window, ManagePending(w)
      PROVE  OnceEach(pending') /\ Apart' /\ Turn'
  <2>1. Waiting(w)
    BY <1>5 DEF ManagePending, Reported, Lists
  <2>2. OnceEach(pending') /\ \A v : Waiting(v)' <=> Waiting(v) /\ v # w
    BY <1>5, <2>1, WithoutFacts DEF ManagePending, Lists
  <2>3. managed' \subseteq managed \union {w}
    BY <1>5 DEF ManagePending, Settle
  <2>4. todo' = todo \ {w} /\ phase = "rules" /\ UNCHANGED <<phase, ready, waiting>>
    BY <1>5 DEF ManagePending, Reported
  <2> QED BY <1>1, <2>2, <2>3, <2>4
<1>6. ASSUME NEW rule \in BOOLEAN, NEW answer \in Answers, Schedule(rule, answer)
      PROVE  OnceEach(pending') /\ Apart' /\ Turn'
  <2> DEFINE pr == [win |-> First, rule |-> rule, manage |-> rule, events |-> <<>>]
  <2>1. Take("map") /\ ~Known(First) /\ pending' = Append(pending, pr)
    BY <1>6 DEF Schedule
  <2>2. First \in Window
    BY <2>1, TakeFacts, KindFacts, IncomingFacts DEF First
  <2>3. pr \in PendingRule /\ pr.win = First
    BY <2>2, EmptySeq DEF PendingRule
  <2> HIDE DEF pr
  <2>4. OnceEach(pending') /\ \A v : Waiting(v)' <=> Waiting(v) \/ v = First
    BY <2>1, <2>3, AppendFacts DEF Lists, Known
  <2>5. phase = "events" /\ UNCHANGED <<managed, phase, ready, todo, waiting>>
    BY <1>6 DEF Schedule, Take
  <2> QED BY <1>1, <2>1, <2>4, <2>5 DEF Known
<1>7. ASSUME NEW rule \in BOOLEAN, ManageAtOnce(rule)
      PROVE  OnceEach(pending') /\ Apart' /\ Turn'
  <2>1. ~Known(First) /\ managed' \subseteq managed \union {First} /\ UNCHANGED pending
    BY <1>7 DEF ManageAtOnce, Settle
  <2>2. UNCHANGED <<phase, ready, todo, waiting>>
    BY <1>7 DEF ManageAtOnce, Take
  <2> QED BY <1>1, <2>1, <2>2 DEF Known, Waiting
<1>8. ASSUME UnmapNotify \/ DestroyNotify  PROVE OnceEach(pending') /\ Apart' /\ Turn'
  <2>1. phase = "events" /\ UNCHANGED <<phase, ready, todo, waiting>>
    BY <1>8 DEF UnmapNotify, DestroyNotify, Take
  <2>2. CASE Unmanage(First)
    <3> DEFINE w == First
    <3>1. /\ OnceEach(pending') /\ \A v : Waiting(v)' <=> Waiting(v) /\ v # w
          /\ managed' = managed \ {w}
      BY <2>2, UnmanageFacts
    <3> HIDE DEF w
    <3> QED BY <1>1, <2>1, <3>1
  <2>3. CASE UNCHANGED <<pending, managed>>
    BY <1>1, <2>1, <2>3 DEF Waiting
  <2> QED BY <1>8, <2>2, <2>3 DEF UnmapNotify, DestroyNotify
<1>9. CASE ClientMessage
  <2> DEFINE w == First
             n == Head(Incoming).serial
  <2>1. UNCHANGED <<managed, phase, ready, todo, waiting>>
    BY <1>9 DEF ClientMessage, Take
  <2>2. n \in 1..MaxSent
    BY <1>9, TakeFacts, KindFacts, IncomingFacts DEF ClientMessage
  <2>3. UNCHANGED pending \/ (Waiting(w) /\ Postpones(w, n))
    BY <1>9 DEF ClientMessage, Postpones
  <2> HIDE DEF w, n
  <2>4. OnceEach(pending') /\ \A v : Waiting(v)' <=> Waiting(v)
    <3>1. CASE UNCHANGED pending
      BY <1>1, <3>1 DEF Waiting
    <3>2. CASE Waiting(w) /\ Postpones(w, n)
      BY <2>2, <3>2, PostponeFacts
    <3> QED BY <2>3, <3>1, <3>2
  <2> QED BY <1>1, <2>1, <2>4
<1> QED BY StepCases, <1>3, <1>4, <1>5, <1>6, <1>7, <1>8, <1>9

-----------------------------------------------------------------------------
(* No message is lost.                                                     *)

LEMMA MailStep == TypeOK /\ Lists /\ Mail /\ [Next]_vars => Mail'
<1> SUFFICES ASSUME TypeOK, Lists, Mail, [Next]_vars  PROVE Mail'
  OBVIOUS
<1> DEFINE InNodes == \A v \in managed : applied[v] = heard[v]
           InRules == \A i \in 1..Len(pending) : pending[i].events = heard[pending[i].win]
           Silent == \A v \in Window : ~Known(v) => heard[v] = <<>>
<1>1. InNodes /\ InRules /\ Silent
  BY DEF Mail, MessagesKept
<1>2. SUFFICES InNodes' /\ InRules' /\ Silent'
  BY DEF Mail, MessagesKept
<1>3. heard \in [Window -> Seq(1..MaxSent)] /\ applied \in [Window -> Seq(1..MaxSent)]
      /\ managed \subseteq Window
  BY DEF TypeOK
<1>4. \A i \in 1..Len(pending) : pending[i].win \in Window /\ pending[i].win \notin managed
  BY PendingFacts DEF Lists, PendingRule
<1>5. CASE Aside
  <2>1. UNCHANGED <<pending, managed, heard, applied>>
    BY <1>5, AsideFacts DEF mail
  <2> QED BY <1>1, <2>1 DEF Known, Waiting
<1>6. ASSUME NEW w \in Window, ReadAnswer(w)  PROVE InNodes' /\ InRules' /\ Silent'
  <2>1. /\ Len(pending') = Len(pending)
        /\ \A i \in 1..Len(pending) : /\ pending'[i].win = pending[i].win
                                     /\ pending'[i].events = pending[i].events
        /\ \A v : Waiting(v)' <=> Waiting(v)
    BY <1>6, ReadFacts
  <2>2. UNCHANGED <<managed, heard, applied>>
    BY <1>6 DEF ReadAnswer, mail
  <2>3. InRules'
    BY <1>1, <2>1, <2>2
  <2>4. \A v : Known(v)' <=> Known(v)
    BY <2>1, <2>2 DEF Known
  <2> QED BY <1>1, <2>2, <2>3, <2>4
<1>7. ASSUME NEW w \in Window, ManagePending(w)  PROVE InNodes' /\ InRules' /\ Silent'
  <2> DEFINE pr == pending[PlaceOf(w)]
  <2>1. Waiting(w)
    BY <1>7 DEF ManagePending, Reported, Lists
  <2>2. w \notin managed /\ pr.events = heard[w] /\ pr.manage \in BOOLEAN
    BY <1>1, <1>4, <2>1, PlaceFacts, PendingFacts DEF PendingRule
  <2>3. /\ \A v : Waiting(v)' <=> Waiting(v) /\ v # w
        /\ \A i \in 1..Len(pending') : \E j \in 1..Len(pending) : pending'[i] = pending[j]
    BY <1>7, <2>1, WithoutFacts DEF ManagePending, Lists
  <2>4. \A i \in 1..Len(pending') : pending'[i].win # w
    BY <2>3 DEF Waiting
  <2>5. Settle(w, pr.manage, pr.events)
    BY <1>7 DEF ManagePending
  <2> HIDE DEF pr
  <2>6. CASE pr.manage
    <3>1. /\ managed' = managed \union {w}
          /\ \A v \in Window : heard'[v] = heard[v]
          /\ \A v \in Window : applied'[v] = IF v = w THEN heard[w] ELSE applied[v]
      BY <1>3, <2>2, <2>5, <2>6 DEF Settle
    <3>2. \A v \in Window : Known(v)' <=> Known(v)
      BY <2>1, <2>3, <3>1 DEF Known
    <3>3. InRules'
      BY <1>1, <1>4, <2>3, <3>1
    <3> QED BY <1>1, <1>3, <3>1, <3>2, <3>3
  <2>7. CASE ~pr.manage
    <3>1. /\ managed' = managed
          /\ \A v \in Window : heard'[v] = IF v = w THEN <<>> ELSE heard[v]
          /\ \A v \in Window : applied'[v] = IF v = w THEN <<>> ELSE applied[v]
      BY <1>3, <2>2, <2>5, <2>7 DEF Settle
    <3>2. \A v \in Window : Known(v)' <=> Known(v) /\ v # w
      BY <2>2, <2>3, <3>1 DEF Known
    <3>3. InRules'
      BY <1>1, <1>4, <2>3, <2>4, <3>1
    <3> QED BY <1>1, <1>3, <3>1, <3>2, <3>3
  <2> QED BY <2>6, <2>7
<1>8. ASSUME NEW rule \in BOOLEAN, NEW answer \in Answers, Schedule(rule, answer)
      PROVE  InNodes' /\ InRules' /\ Silent'
  <2> DEFINE pr == [win |-> First, rule |-> rule, manage |-> rule, events |-> <<>>]
  <2>1. Take("map") /\ ~Known(First) /\ pending' = Append(pending, pr)
        /\ UNCHANGED <<managed, heard, applied>>
    BY <1>8 DEF Schedule, mail
  <2>2. First \in Window
    BY <2>1, TakeFacts, KindFacts, IncomingFacts DEF First
  <2>3. pr \in PendingRule /\ pr.win = First /\ pr.events = <<>>
    BY <2>2, EmptySeq DEF PendingRule
  <2> HIDE DEF pr
  <2>4. /\ \A i \in 1..Len(pending') :
             pending'[i] = pr \/ \E j \in 1..Len(pending) : pending'[i] = pending[j]
        /\ \A v : Waiting(v)' <=> Waiting(v) \/ v = First
    BY <2>1, <2>3, AppendFacts DEF Lists, Known
  <2>5. heard[First] = <<>>
    BY <1>1, <2>1, <2>2
  <2>6. InRules'
    BY <1>1, <2>1, <2>3, <2>4, <2>5
  <2>7. \A v : Known(v)' <=> Known(v) \/ v = First
    BY <2>1, <2>4 DEF Known
  <2> QED BY <1>1, <2>1, <2>6, <2>7
<1>9. ASSUME NEW rule \in BOOLEAN, ManageAtOnce(rule)
      PROVE  InNodes' /\ InRules' /\ Silent'
  <2> DEFINE w == First
  <2>1. Take("map") /\ ~Known(w) /\ UNCHANGED pending /\ Settle(w, rule, <<>>)
    BY <1>9 DEF ManageAtOnce
  <2>2. w \in Window
    BY <2>1, TakeFacts, KindFacts, IncomingFacts DEF First
  <2> HIDE DEF w
  <2>3. heard[w] = <<>> /\ ~Waiting(w) /\ w \notin managed
    BY <1>1, <2>1, <2>2 DEF Known
  <2>4. /\ managed' \in {managed, managed \union {w}}
        /\ \A v \in Window : heard'[v] = heard[v]
        /\ \A v \in Window : applied'[v] = IF v = w THEN <<>> ELSE applied[v]
    BY <1>3, <2>1, <2>2, <2>3 DEF Settle
  <2>5. InRules'
    BY <1>1, <1>4, <2>1, <2>4
  <2>6. \A v : Known(v) => Known(v)'
    BY <2>1, <2>4 DEF Known, Waiting
  <2> QED BY <1>1, <1>3, <2>2, <2>3, <2>4, <2>5, <2>6
<1>10. ASSUME UnmapNotify \/ DestroyNotify  PROVE InNodes' /\ InRules' /\ Silent'
  <2> DEFINE w == First
  <2>1. PICK kind \in {"unmap", "destroy"} : Take(kind)
    BY <1>10 DEF UnmapNotify, DestroyNotify
  <2>2. w \in Window
    BY <2>1, TakeFacts, KindFacts, IncomingFacts DEF First
  <2>3. CASE Unmanage(w)
    <3> HIDE DEF w
    <3>1. /\ \A i \in 1..Len(pending') :
               pending'[i].win # w /\ \E j \in 1..Len(pending) : pending'[i] = pending[j]
          /\ \A v : Waiting(v)' <=> Waiting(v) /\ v # w
          /\ managed' = managed \ {w}
      BY <2>3, UnmanageFacts
    <3>2. /\ \A v \in Window : heard'[v] = IF v = w THEN <<>> ELSE heard[v]
          /\ \A v \in Window : applied'[v] = IF v = w THEN <<>> ELSE applied[v]
      BY <1>3, <2>2, <2>3 DEF Unmanage
    <3>3. InRules'
      <4> SUFFICES ASSUME NEW i \in 1..Len(pending')
                   PROVE  pending'[i].events = heard'[pending'[i].win]
        OBVIOUS
      <4>1. PICK j \in 1..Len(pending) : pending'[i] = pending[j]
        BY <3>1
      <4>2. pending[j].win # w /\ pending[j].win \in Window
        BY <1>4, <3>1, <4>1
      <4> QED BY <1>1, <3>2, <4>1, <4>2
    <3>4. \A v : Known(v)' <=> Known(v) /\ v # w
      BY <3>1 DEF Known
    <3> QED BY <1>1, <1>3, <3>1, <3>2, <3>3, <3>4
  <2>4. CASE UNCHANGED <<pending, managed, mail>>
    BY <1>1, <2>4 DEF Known, Waiting, mail
  <2> QED BY <1>10, <2>3, <2>4 DEF UnmapNotify, DestroyNotify
<1>11. CASE ClientMessage
  <2> DEFINE w == First
             n == Head(Incoming).serial
  <2>1. UNCHANGED managed
    BY <1>11 DEF ClientMessage
  <2>2. w \in Window /\ n \in 1..MaxSent
    BY <1>11, TakeFacts, KindFacts, IncomingFacts DEF ClientMessage, First
  <2>3. \/ /\ w \in managed
           /\ heard' = [heard EXCEPT ![w] = Append(heard[w], n)]
           /\ applied' = [applied EXCEPT ![w] = Append(applied[w], n)]
           /\ UNCHANGED pending
        \/ /\ w \notin managed /\ Waiting(w)
           /\ heard' = [heard EXCEPT ![w] = Append(heard[w], n)]
           /\ Postpones(w, n) /\ UNCHANGED applied
        \/ UNCHANGED <<pending, heard, applied>>
    BY <1>11 DEF ClientMessage, Postpones, mail
  <2> HIDE DEF w, n
  <2>4. CASE /\ w \in managed
             /\ heard' = [heard EXCEPT ![w] = Append(heard[w], n)]
             /\ applied' = [applied EXCEPT ![w] = Append(applied[w], n)]
             /\ UNCHANGED pending
    <3>1. /\ heard'[w] = Append(heard[w], n) /\ applied'[w] = Append(applied[w], n)
          /\ \A v \in Window : v # w => heard'[v] = heard[v] /\ applied'[v] = applied[v]
      BY <1>3, <2>2, <2>4
    <3>2. InRules'
      BY <1>1, <1>4, <2>4, <3>1
    <3>3. \A v : Known(v)' <=> Known(v)
      BY <2>1, <2>4 DEF Known, Waiting
    <3>4. InNodes'
      BY <1>1, <1>3, <2>1, <2>4, <3>1
    <3>5. Silent'
      BY <1>1, <2>4, <3>1, <3>3 DEF Known
    <3> QED BY <3>2, <3>4, <3>5
  <2>5. CASE /\ w \notin managed /\ Waiting(w)
             /\ heard' = [heard EXCEPT ![w] = Append(heard[w], n)]
             /\ Postpones(w, n) /\ UNCHANGED applied
    <3>1. /\ heard'[w] = Append(heard[w], n)
          /\ \A v \in Window : v # w => heard'[v] = heard[v]
      BY <1>3, <2>2, <2>5
    <3>2. /\ Len(pending') = Len(pending)
          /\ \A i \in 1..Len(pending) :
               /\ pending'[i].win = pending[i].win
               /\ pending[i].win = w => pending'[i].events = Append(pending[i].events, n)
               /\ pending[i].win # w => pending'[i].events = pending[i].events
          /\ \A v : Waiting(v)' <=> Waiting(v)
      BY <2>2, <2>5, PostponeFacts
    <3>3. InRules'
      <4> SUFFICES ASSUME NEW i \in 1..Len(pending)
                   PROVE  pending'[i].events = heard'[pending[i].win]
        BY <3>2
      <4>1. pending[i].win \in Window /\ pending[i].events = heard[pending[i].win]
        BY <1>1, <1>4
      <4>2. CASE pending[i].win = w
        <5>1. pending'[i].events = Append(pending[i].events, n)
          BY <3>2, <4>2
        <5> QED BY <3>1, <4>1, <4>2, <5>1
      <4>3. CASE pending[i].win # w
        <5>1. pending'[i].events = pending[i].events
          BY <3>2, <4>3
        <5> QED BY <3>1, <4>1, <4>3, <5>1
      <4> QED BY <4>2, <4>3
    <3>4. \A v : Known(v)' <=> Known(v)
      BY <2>1, <3>2 DEF Known
    <3>5. InNodes' /\ Silent'
      BY <1>1, <1>3, <2>1, <2>5, <3>1, <3>4 DEF Known
    <3> QED BY <3>3, <3>5
  <2>6. CASE UNCHANGED <<pending, heard, applied>>
    BY <1>1, <2>1, <2>6 DEF Known, Waiting
  <2> QED BY <2>3, <2>4, <2>5, <2>6
<1> QED BY StepCases, <1>5, <1>6, <1>7, <1>8, <1>9, <1>10, <1>11

-----------------------------------------------------------------------------
(* How the events that have not been handled change.                       *)

Pressed == \E i \in 1..Len(Incoming) : Incoming[i].kind = "press"
LetGo == \E i \in 1..Len(Incoming) : Incoming[i] = Letgo

(* The event that tells of the end of a window comes after the i-th.       *)
Doomed(w, i) == \E j \in (i + 1)..Len(Incoming) : /\ Incoming[j].kind = "destroy"
                                                 /\ Incoming[j].win = w

LEMMA TakeKeeps ==
  ASSUME TypeOK, NEW kind, Take(kind)
  PROVE  /\ Pressed' => Pressed
         /\ kind # "release" /\ LetGo => LetGo'
         /\ kind = "press" => Pressed
         /\ \A w : DestroyArrives(w) => DestroyArrives(w)' \/ (kind = "destroy" /\ First = w)
         /\ \A w : Doomed(w, 1) => DestroyArrives(w)'
         /\ \A w : \A i \in 1..Len(Incoming') : Doomed(w, i + 1) => Doomed(w, i)'
<1>1. /\ 1 \in 1..Len(Incoming) /\ Len(Incoming) \in Nat
      /\ Incoming[1].kind = kind /\ Incoming[1] = Head(Incoming)
      /\ Len(Incoming') = Len(Incoming) - 1
      /\ \A i \in 1..Len(Incoming') : Incoming'[i] = Incoming[i + 1]
  BY TakeFacts, IncomingFacts
<1> DEFINE inc == Incoming
           incp == Incoming'
<1>2. \A i \in 1..Len(inc) : i # 1 => i - 1 \in 1..Len(incp) /\ incp[i - 1] = inc[i]
  BY <1>1
<1>3. \A i \in 1..Len(incp) : i + 1 \in 1..Len(inc) /\ incp[i] = inc[i + 1]
  BY <1>1
<1>4. Pressed' => Pressed
  BY <1>3 DEF Pressed
<1>5. ASSUME kind # "release", LetGo  PROVE LetGo'
  <2>1. PICK i \in 1..Len(inc) : inc[i] = Letgo
    BY <1>5 DEF LetGo
  <2>2. i # 1
    BY <1>1, <1>5, <2>1 DEF Letgo
  <2>3. i - 1 \in 1..Len(incp) /\ incp[i - 1] = Letgo
    BY <1>2, <2>1, <2>2
  <2> QED BY <2>3 DEF LetGo
<1>6. kind = "press" => Pressed
  BY <1>1 DEF Pressed
<1>7. ASSUME NEW w, DestroyArrives(w)
      PROVE  DestroyArrives(w)' \/ (kind = "destroy" /\ First = w)
  <2>1. PICK i \in 1..Len(inc) : inc[i].kind = "destroy" /\ inc[i].win = w
    BY <1>7 DEF DestroyArrives
  <2>2. CASE i = 1
    BY <1>1, <2>1, <2>2 DEF First
  <2>3. CASE i # 1
    <3>1. i - 1 \in 1..Len(incp) /\ incp[i - 1] = inc[i]
      BY <1>2, <2>3
    <3> QED BY <2>1, <3>1 DEF DestroyArrives
  <2> QED BY <2>2, <2>3
<1>8. ASSUME NEW w, Doomed(w, 1)  PROVE DestroyArrives(w)'
  <2>1. PICK i \in (1 + 1)..Len(inc) : inc[i].kind = "destroy" /\ inc[i].win = w
    BY <1>8 DEF Doomed
  <2>2. i \in 1..Len(inc) /\ i # 1
    BY <1>1, <2>1
  <2>3. i - 1 \in 1..Len(incp) /\ incp[i - 1] = inc[i]
    BY <1>2, <2>2
  <2> QED BY <2>1, <2>3 DEF DestroyArrives
<1>9. ASSUME NEW w, NEW i \in 1..Len(incp), Doomed(w, i + 1)  PROVE Doomed(w, i)'
  <2>1. PICK j \in ((i + 1) + 1)..Len(inc) : inc[j].kind = "destroy" /\ inc[j].win = w
    BY <1>9 DEF Doomed
  <2>2. j \in 1..Len(inc) /\ j # 1 /\ j - 1 \in (i + 1)..Len(incp)
    BY <1>1, <2>1
  <2>3. incp[j - 1] = inc[j]
    BY <1>2, <2>2
  <2> QED BY <2>1, <2>2, <2>3 DEF Doomed
<1> QED BY <1>4, <1>5, <1>6, <1>7, <1>8, <1>9

LEMMA SendKeeps ==
  ASSUME TypeOK, NEW e \in Happening, wire' = Append(wire, e), inbox' = inbox
  PROVE  /\ Pressed' => Pressed \/ e.kind = "press"
         /\ LetGo \/ e = Letgo => LetGo'
         /\ \A w : DestroyArrives(w) => DestroyArrives(w)'
         /\ \A w : e.kind = "destroy" /\ e.win = w => DestroyArrives(w)'
         /\ \A w : \A i \in 1..Len(Incoming) :
              Doomed(w, i) \/ (e.kind = "destroy" /\ e.win = w) => Doomed(w, i)'
<1>1. /\ Len(Incoming) \in Nat /\ Len(Incoming') = Len(Incoming) + 1
      /\ \A i \in 1..Len(Incoming) : Incoming'[i] = Incoming[i]
      /\ Incoming'[Len(Incoming')] = e
  BY SendFacts, IncomingFacts
<1> DEFINE inc == Incoming
           incp == Incoming'
<1>2. /\ \A i \in 1..Len(inc) : i \in 1..Len(incp) /\ incp[i] = inc[i]
      /\ \A i \in 1..Len(incp) : i \in 1..Len(inc) \/ i = Len(incp)
      /\ Len(incp) \in 1..Len(incp) /\ incp[Len(incp)] = e
  BY <1>1
<1>3. Pressed' => Pressed \/ e.kind = "press"
  BY <1>2 DEF Pressed
<1>4. LetGo \/ e = Letgo => LetGo'
  BY <1>2 DEF LetGo
<1>5. ASSUME NEW w  PROVE DestroyArrives(w) \/ (e.kind = "destroy" /\ e.win = w)
                            => DestroyArrives(w)'
  BY <1>2 DEF DestroyArrives
<1>6. ASSUME NEW w, NEW i \in 1..Len(inc)
      PROVE  Doomed(w, i) \/ (e.kind = "destroy" /\ e.win = w) => Doomed(w, i)'
  <2>1. Len(incp) \in (i + 1)..Len(incp)
    BY <1>1
  <2>2. e.kind = "destroy" /\ e.win = w => Doomed(w, i)'
    BY <1>2, <2>1 DEF Doomed
  <2>3. ASSUME Doomed(w, i)  PROVE Doomed(w, i)'
    <3>1. PICK j \in (i + 1)..Len(inc) : inc[j].kind = "destroy" /\ inc[j].win = w
      BY <2>3 DEF Doomed
    <3>2. j \in 1..Len(inc) /\ j \in (i + 1)..Len(incp)
      BY <1>1, <3>1
    <3>3. incp[j] = inc[j]
      BY <1>2, <3>2
    <3> QED BY <3>1, <3>2, <3>3 DEF Doomed
  <2> QED BY <2>2, <2>3
<1> QED BY <1>3, <1>4, <1>5, <1>6

(* What each step does to these events.                                    *)
Quiet ==
  \/ Serve \/ Query \/ Select \/ HandleMessage \/ SkipSocket \/ EventsDone
  \/ \E w \in Window : \/ ProgramWrites(w) \/ ProgramEnds(w)
                       \/ ReadAnswer(w) \/ ManagePending(w)
  \/ UNCHANGED vars

LEMMA QuietFacts ==
  ASSUME TypeOK, Quiet
  PROVE  Incoming' = Incoming /\ UNCHANGED <<missed, button>>
<1>1. UNCHANGED <<wire, inbox>> \/ RoundTrip
  BY DEF Quiet, Serve, Query, Select, HandleMessage, SkipSocket, EventsDone,
         ProgramWrites, ProgramEnds, ReadAnswer, ManagePending, vars
<1>2. Incoming' = Incoming
  BY <1>1, RoundTripFacts DEF Incoming
<1> QED
  BY <1>2 DEF Quiet, Serve, Query, Select, HandleMessage, SkipSocket, EventsDone,
              ProgramWrites, ProgramEnds, ReadAnswer, ManagePending, vars, loop, server

Handler ==
  \/ MapKnown \/ UnmapNotify \/ DestroyNotify \/ ClientMessage
  \/ ButtonPress \/ ButtonRelease \/ OtherEvent
  \/ \E rule \in BOOLEAN, answer \in Answers : Schedule(rule, answer)
  \/ \E rule \in BOOLEAN : ManageAtOnce(rule)

Sender ==
  \/ Nudge \/ UserReleases
  \/ \E w \in Window : \/ ClientMaps(w) \/ ClientWithdraws(w)
                       \/ ClientDestroys(w) \/ ClientWrites(w) \/ UserPresses(w)

LEMMA EventCases ==
  ASSUME [Next]_vars
  PROVE  Quiet \/ Handler \/ Sender
BY DEF Next, Bspwm, Quiet, Handler, Sender

(* A handler forgets the window whose end it reads, and gets to know none  *)
(* but the one that asks to be mapped.                                     *)
LEMMA HandlerFacts ==
  ASSUME TypeOK, Lists, Handler
  PROVE  \E kind \in {"map", "unmap", "destroy", "message", "press", "release", "notice"} :
           /\ Take(kind)
           /\ kind \notin {"press", "release"} => /\ grabbed' \subseteq grabbed
                                                /\ grabbed' \intersect managed \subseteq managed'
           /\ kind = "press" => grabbed' \subseteq grabbed \union managed /\ UNCHANGED managed
           /\ kind = "release" => grabbed' = {}
           /\ \A v : Known(v)' => Known(v) \/ (kind = "map" /\ v = First)
           /\ kind = "destroy" => \A v : v = First => ~Known(v)'
<1> DEFINE Kinds == {"map", "unmap", "destroy", "message", "press", "release", "notice"}
           Does(kind) ==
             /\ Take(kind)
             /\ kind \notin {"press", "release"} => /\ grabbed' \subseteq grabbed
                                                  /\ grabbed' \intersect managed \subseteq managed'
             /\ kind = "press" => grabbed' \subseteq grabbed \union managed /\ UNCHANGED managed
             /\ kind = "release" => grabbed' = {}
             /\ \A v : Known(v)' => Known(v) \/ (kind = "map" /\ v = First)
             /\ kind = "destroy" => \A v : v = First => ~Known(v)'
<1> SUFFICES \E kind \in Kinds : Does(kind)
  OBVIOUS
<1>1. CASE MapKnown
  <2>1. Does("map")
    BY <1>1 DEF MapKnown, Known, Waiting
  <2> HIDE DEF Does
  <2> QED BY <2>1
<1>2. CASE UnmapNotify
  <2>1. Take("unmap")
    BY <1>2 DEF UnmapNotify
  <2>2. Unmanage(First) \/ UNCHANGED <<pending, managed, grabbed>>
    BY <1>2 DEF UnmapNotify
  <2>3. Does("unmap")
    BY <2>1, <2>2, UnmanageFacts DEF Known, Waiting
  <2> HIDE DEF Does
  <2> QED BY <2>3
<1>3. CASE DestroyNotify
  <2>1. Take("destroy") /\ Unmanage(First)
    BY <1>3 DEF DestroyNotify
  <2>2. Does("destroy")
    <3> DEFINE w == First
    <3>1. /\ \A v : Waiting(v)' <=> Waiting(v) /\ v # w
          /\ managed' = managed \ {w} /\ grabbed' = grabbed \ {w}
      BY <2>1, UnmanageFacts
    <3>2. \A v : Known(v)' <=> Known(v) /\ v # w
      BY <3>1 DEF Known
    <3> QED BY <2>1, <3>1, <3>2
  <2> HIDE DEF Does
  <2> QED BY <2>2
<1>4. CASE ClientMessage
  <2>1. Take("message") /\ UNCHANGED <<managed, grabbed>>
    BY <1>4 DEF ClientMessage
  <2>2. \A v : Waiting(v)' <=> Waiting(v)
    <3> DEFINE w == First
               n == Head(Incoming).serial
    <3>1. n \in 1..MaxSent
      BY <2>1, TakeFacts, KindFacts, IncomingFacts
    <3>2. UNCHANGED pending \/ (Waiting(w) /\ Postpones(w, n))
      BY <1>4 DEF ClientMessage, Postpones
    <3> HIDE DEF w, n
    <3>3. CASE UNCHANGED pending
      BY <3>3 DEF Waiting
    <3>4. CASE Waiting(w) /\ Postpones(w, n)
      BY <3>1, <3>4, PostponeFacts
    <3> QED BY <3>2, <3>3, <3>4
  <2>3. Does("message")
    BY <2>1, <2>2 DEF Known
  <2> HIDE DEF Does
  <2> QED BY <2>3
<1>5. CASE ButtonPress
  <2>1. Does("press")
    BY <1>5 DEF ButtonPress, Known, Waiting
  <2> HIDE DEF Does
  <2> QED BY <2>1
<1>6. CASE ButtonRelease
  <2>1. Does("release")
    BY <1>6 DEF ButtonRelease, Known, Waiting
  <2> HIDE DEF Does
  <2> QED BY <2>1
<1>7. CASE OtherEvent
  <2>1. Does("notice")
    BY <1>7 DEF OtherEvent, Known, Waiting
  <2> HIDE DEF Does
  <2> QED BY <2>1
<1>8. ASSUME NEW rule \in BOOLEAN, NEW answer \in Answers, Schedule(rule, answer)
      PROVE  \E kind \in Kinds : Does(kind)
  <2> DEFINE pr == [win |-> First, rule |-> rule, manage |-> rule, events |-> <<>>]
  <2>1. Take("map") /\ ~Known(First) /\ pending' = Append(pending, pr)
        /\ UNCHANGED <<managed, grabbed>>
    BY <1>8 DEF Schedule
  <2>2. pr \in PendingRule /\ pr.win = First
    BY <2>1, TakeFacts, KindFacts, IncomingFacts, EmptySeq DEF First, PendingRule
  <2> HIDE DEF pr
  <2>3. \A v : Waiting(v)' <=> Waiting(v) \/ v = First
    BY <2>1, <2>2, AppendFacts DEF Lists, Known
  <2>4. Does("map")
    BY <2>1, <2>3 DEF Known
  <2> HIDE DEF Does
  <2> QED BY <2>4
<1>9. ASSUME NEW rule \in BOOLEAN, ManageAtOnce(rule)
      PROVE  \E kind \in Kinds : Does(kind)
  <2>1. Take("map") /\ UNCHANGED <<pending, grabbed>>
        /\ managed' \in {managed, managed \union {First}}
    BY <1>9 DEF ManageAtOnce, Settle
  <2>2. Does("map")
    BY <2>1 DEF Known, Waiting
  <2> HIDE DEF Does
  <2> QED BY <2>2
<1> QED BY <1>1, <1>2, <1>3, <1>4, <1>5, <1>6, <1>7, <1>8, <1>9 DEF Handler

-----------------------------------------------------------------------------
(* The node that the pointer holds.                                        *)

LEMMA PointerStep == TypeOK /\ Lists /\ Pointer /\ [Next]_vars => Pointer'
<1> SUFFICES ASSUME TypeOK, Lists, Pointer, [Next]_vars  PROVE Pointer'
  OBVIOUS
<1> DEFINE Tracks == grabbed # {} => phase = "events" /\ (button = "held" \/ LetGo)
           Holds == Pressed => button = "held"
<1>1. grabbed \subseteq managed /\ Tracks /\ Holds
  BY DEF Pointer, GrabHeld, LetGo, Pressed
<1>2. SUFFICES (grabbed \subseteq managed)' /\ Tracks' /\ Holds'
  BY DEF Pointer, GrabHeld, LetGo, Pressed
<1>3. CASE Quiet
  <2>1. Incoming' = Incoming /\ button' = button
    BY <1>3, QuietFacts
  <2>2. (Pressed' <=> Pressed) /\ (LetGo' <=> LetGo)
    BY <2>1 DEF Pressed, LetGo
  <2>3. CASE UNCHANGED <<phase, grabbed, managed>>
    BY <1>1, <2>1, <2>2, <2>3
  <2>4. CASE phase # "events" /\ UNCHANGED grabbed
    BY <1>1, <2>1, <2>2, <2>4
  <2>5. CASE EventsDone
    BY <1>1, <2>1, <2>2, <2>5 DEF EventsDone
  <2> QED
    BY <1>3, <2>3, <2>4, <2>5
       DEF Quiet, Serve, Query, Select, HandleMessage, SkipSocket, ProgramWrites,
           ProgramEnds, ReadAnswer, ManagePending, Reported, vars, loop
<1>4. CASE Handler
  <2>1. PICK kind :
          /\ Take(kind)
          /\ kind \notin {"press", "release"} => /\ grabbed' \subseteq grabbed
                                               /\ grabbed' \intersect managed \subseteq managed'
          /\ kind = "press" => grabbed' \subseteq grabbed \union managed /\ UNCHANGED managed
          /\ kind = "release" => grabbed' = {}
    BY <1>4, HandlerFacts
  <2>2. phase = "events" /\ UNCHANGED <<phase, button>>
    BY <2>1 DEF Take
  <2>3. /\ Pressed' => Pressed
        /\ kind # "release" /\ LetGo => LetGo'
        /\ kind = "press" => Pressed
    BY <2>1, TakeKeeps
  <2>4. (grabbed \subseteq managed)'
    BY <1>1, <2>1
  <2>5. Holds'
    BY <1>1, <2>2, <2>3
  <2>6. Tracks'
    <3>1. CASE kind = "release"
      BY <2>1, <3>1
    <3>2. CASE kind = "press"
      BY <1>1, <2>2, <2>3, <3>2
    <3>3. CASE kind \notin {"press", "release"}
      BY <1>1, <2>1, <2>2, <2>3, <3>3
    <3> QED BY <3>1, <3>2, <3>3
  <2> QED BY <2>4, <2>5, <2>6
<1>5. CASE Sender
  <2>1. UNCHANGED <<phase, grabbed, managed, inbox>>
    BY <1>5 DEF Sender, Nudge, UserReleases, ClientMaps, ClientWithdraws, ClientDestroys,
                ClientWrites, UserPresses, Asks, loop
  <2>2. wire \in Seq(Happening) /\ Notice \in Happening /\ Letgo \in Happening
    BY DEF TypeOK, Happening
  <2>3. CASE Nudge
    <3>1. wire' = Append(wire, Notice) /\ button' = button
      BY <2>3 DEF Nudge, loop
    <3>2. Notice.kind # "press"
      BY DEF Notice
    <3> QED BY <1>1, <2>1, <2>2, <3>1, <3>2, SendKeeps
  <2>4. CASE UserReleases
    <3>1. ~Pressed
      BY <2>4 DEF UserReleases, Pressed
    <3>2. CASE grabbed = {}
      <4>1. Incoming' = Incoming
        BY <2>1, <2>4, <3>2 DEF UserReleases, Incoming
      <4>2. ~Pressed'
        BY <3>1, <4>1 DEF Pressed
      <4> QED BY <1>1, <2>1, <3>2, <4>2
    <3>3. CASE grabbed # {}
      <4>1. wire' = Append(wire, Letgo) /\ Letgo.kind # "press"
        BY <2>4, <3>3 DEF UserReleases, Letgo
      <4> QED BY <1>1, <2>1, <2>2, <3>1, <4>1, SendKeeps
    <3> QED BY <3>2, <3>3
  <2>5. ASSUME NEW w \in Window, NEW kind \in {"map", "unmap", "destroy", "message", "press"},
               Asks(kind, w), kind # "press" => UNCHANGED button,
               kind = "press" => button' = "held"
        PROVE  (grabbed \subseteq managed)' /\ Tracks' /\ Holds'
    <3> DEFINE e == [kind |-> kind, win |-> w, serial |-> sent + 1]
    <3>1. wire' = wire \/ wire' = Append(wire, e)
      BY <2>5 DEF Asks
    <3>2. e \in Happening /\ e.kind = kind
      BY <2>5, LoopAssumption DEF TypeOK, Asks, Happening, Event
    <3> HIDE DEF e
    <3>3. CASE wire' = wire
      <4>1. Incoming' = Incoming
        BY <2>1, <3>3 DEF Incoming
      <4>2. (Pressed' <=> Pressed) /\ (LetGo' <=> LetGo)
        BY <4>1 DEF Pressed, LetGo
      <4> QED BY <1>1, <2>1, <2>5, <4>2
    <3>4. CASE wire' = Append(wire, e)
      <4>1. (Pressed' => Pressed \/ kind = "press") /\ (LetGo => LetGo')
        BY <2>1, <3>2, <3>4, SendKeeps
      <4> QED BY <1>1, <2>1, <2>5, <4>1
    <3> QED BY <3>1, <3>3, <3>4
  <2> QED
    BY <1>5, <2>3, <2>4, <2>5
       DEF Sender, ClientMaps, ClientWithdraws, ClientDestroys, ClientWrites, UserPresses
<1> QED BY EventCases, <1>3, <1>4, <1>5

-----------------------------------------------------------------------------
(* The windows that no longer exist.                                       *)

LEMMA GhostsStep == TypeOK /\ Lists /\ Ghosts /\ [Next]_vars => Ghosts'
<1> SUFFICES ASSUME TypeOK, Lists, Ghosts, [Next]_vars  PROVE Ghosts'
  OBVIOUS
<1> DEFINE Mourned == \A v \in Window : wins[v] = "absent" /\ Known(v) =>
                        DestroyArrives(v) \/ v \in missed
           Warned == \A i \in 1..Len(Incoming) :
                       Incoming[i].kind = "map" /\ wins[Incoming[i].win] = "absent" =>
                         Incoming[i].win \in missed \/ Doomed(Incoming[i].win, i)
<1>1. Mourned /\ Warned
  BY DEF Ghosts, GhostsMissed, Doomed
<1>2. SUFFICES Mourned' /\ Warned'
  BY DEF Ghosts, GhostsMissed, Doomed
<1>3. wins \in [Window -> {"absent", "unmapped", "mapped"}]
  BY DEF TypeOK
<1>4. \A i \in 1..Len(Incoming) : Incoming[i].kind = "map" => Incoming[i].win \in Window
  BY IncomingFacts, KindFacts
<1>5. CASE Quiet
  <2>1. Incoming' = Incoming /\ missed' = missed
    BY <1>5, QuietFacts
  <2>2. \A v \in Window : wins'[v] = "absent" => wins[v] = "absent"
    BY <1>3, <1>5 DEF Quiet, Serve, Query, Select, HandleMessage, SkipSocket, EventsDone,
                      ProgramWrites, ProgramEnds, ReadAnswer, ManagePending, vars, server
  <2>3. \A v : Known(v)' => Known(v)
    <3>1. CASE UNCHANGED <<pending, managed>>
      BY <3>1 DEF Known, Waiting
    <3>2. ASSUME NEW w \in Window, ReadAnswer(w)  PROVE \A v : Known(v)' => Known(v)
      <4>1. \A v : Waiting(v)' <=> Waiting(v)
        BY <3>2, ReadFacts
      <4> QED BY <3>2, <4>1 DEF ReadAnswer, Known
    <3>3. ASSUME NEW w \in Window, ManagePending(w)  PROVE \A v : Known(v)' => Known(v)
      <4>1. Waiting(w)
        BY <3>3 DEF ManagePending, Reported, Lists
      <4>2. \A v : Waiting(v)' <=> Waiting(v) /\ v # w
        BY <3>3, <4>1, WithoutFacts DEF ManagePending, Lists
      <4>3. managed' \subseteq managed \union {w}
        BY <3>3 DEF ManagePending, Settle
      <4> QED BY <4>1, <4>2, <4>3 DEF Known
    <3> QED
      BY <1>5, <3>1, <3>2, <3>3
         DEF Quiet, Serve, Query, Select, HandleMessage, SkipSocket, EventsDone,
             ProgramWrites, ProgramEnds, vars
  <2>4. \A v : (DestroyArrives(v)' <=> DestroyArrives(v))
             /\ \A i : Doomed(v, i)' <=> Doomed(v, i)
    BY <2>1 DEF DestroyArrives, Doomed
  <2>5. Mourned'
    BY <1>1, <2>1, <2>2, <2>3, <2>4
  <2>6. Warned'
    <3> SUFFICES ASSUME NEW i \in 1..Len(Incoming), Incoming[i].kind = "map",
                        NEW w, w = Incoming[i].win, wins'[w] = "absent"
                 PROVE  w \in missed \/ Doomed(w, i)'
      BY <2>1
    <3> QED BY <1>1, <1>4, <2>2, <2>4
  <2> QED BY <2>5, <2>6
<1>6. CASE Handler
  <2>1. PICK kind : /\ Take(kind)
                    /\ \A v : Known(v)' => Known(v) \/ (kind = "map" /\ v = First)
                    /\ kind = "destroy" => \A v : v = First => ~Known(v)'
    BY <1>6, HandlerFacts
  <2>2. UNCHANGED <<wins, missed>>
    BY <2>1 DEF Take, server
  <2>3. /\ \A w : DestroyArrives(w) => DestroyArrives(w)' \/ (kind = "destroy" /\ First = w)
        /\ \A w : Doomed(w, 1) => DestroyArrives(w)'
        /\ \A w : \A i \in 1..Len(Incoming') : Doomed(w, i + 1) => Doomed(w, i)'
    BY <2>1, TakeKeeps
  <2>4. /\ 1 \in 1..Len(Incoming) /\ Incoming[1].kind = kind /\ Incoming[1].win = First
        /\ Len(Incoming) \in Nat /\ Len(Incoming') = Len(Incoming) - 1
        /\ \A i \in 1..Len(Incoming') : Incoming'[i] = Incoming[i + 1]
    BY <2>1, TakeFacts, IncomingFacts DEF First
  <2>5. ASSUME NEW v \in Window, wins[v] = "absent", Known(v)'
        PROVE  DestroyArrives(v)' \/ v \in missed
    <3>1. CASE Known(v)
      BY <1>1, <2>1, <2>3, <2>5, <3>1
    <3>2. CASE kind = "map" /\ v = First
      <4>1. v \in missed \/ Doomed(v, 1)
        BY <1>1, <2>4, <2>5, <3>2
      <4> QED BY <2>3, <4>1
    <3> QED BY <2>1, <2>5, <3>1, <3>2
  <2>6. Mourned'
    BY <2>2, <2>5
  <2>7. Warned'
    <3> SUFFICES ASSUME NEW i \in 1..Len(Incoming'), Incoming'[i].kind = "map",
                        NEW w, w = Incoming'[i].win, wins[w] = "absent"
                 PROVE  w \in missed \/ Doomed(w, i)'
      BY <2>2
    <3>1. i + 1 \in 1..Len(Incoming) /\ Incoming'[i] = Incoming[i + 1]
      BY <2>4
    <3>2. w \in missed \/ Doomed(w, i + 1)
      BY <1>1, <3>1
    <3> QED BY <2>3, <3>2
  <2> QED BY <2>6, <2>7
<1>7. CASE Sender
  <2>1. UNCHANGED <<pending, managed, inbox>>
    BY <1>7 DEF Sender, Nudge, UserReleases, ClientMaps, ClientWithdraws, ClientDestroys,
                ClientWrites, UserPresses, Asks
  <2>2. \A v : Known(v)' <=> Known(v)
    BY <2>1 DEF Known, Waiting
  <2>3. ASSUME NEW e \in Happening, wire' = Append(wire, e), missed' = missed,
               \A v \in Window : wins'[v] = "absent" =>
                 wins[v] = "absent" \/ (e.kind = "destroy" /\ e.win = v),
               e.kind = "map" => wins'[e.win] # "absent"
        PROVE  Mourned' /\ Warned'
    <3>1. /\ \A w : DestroyArrives(w) => DestroyArrives(w)'
          /\ \A w : e.kind = "destroy" /\ e.win = w => DestroyArrives(w)'
          /\ \A w : \A i \in 1..Len(Incoming) :
               Doomed(w, i) \/ (e.kind = "destroy" /\ e.win = w) => Doomed(w, i)'
      BY <2>1, <2>3, SendKeeps
    <3>2. /\ Len(Incoming) \in Nat /\ Len(Incoming') = Len(Incoming) + 1
          /\ \A i \in 1..Len(Incoming) : Incoming'[i] = Incoming[i]
          /\ Incoming'[Len(Incoming')] = e
      BY <2>1, <2>3, SendFacts, IncomingFacts
    <3>3. Mourned'
      BY <1>1, <2>2, <2>3, <3>1
    <3>4. Warned'
      <4> SUFFICES ASSUME NEW i \in 1..Len(Incoming'), Incoming'[i].kind = "map",
                          NEW w, w = Incoming'[i].win, wins'[w] = "absent"
                   PROVE  w \in missed \/ Doomed(w, i)'
        BY <2>3
      <4>1. i \in 1..Len(Incoming) /\ Incoming'[i] = Incoming[i]
        BY <2>3, <3>2
      <4>2. w \in Window
        BY <1>4, <4>1
      <4> QED BY <1>1, <2>3, <3>1, <4>1, <4>2
    <3> QED BY <3>3, <3>4
  <2>4. ASSUME wire' = wire, missed \subseteq missed',
               \A v \in Window : wins'[v] = "absent" => wins[v] = "absent" \/ v \in missed'
        PROVE  Mourned' /\ Warned'
    <3>1. Incoming' = Incoming
      BY <2>1, <2>4 DEF Incoming
    <3>2. \A v : (DestroyArrives(v)' <=> DestroyArrives(v))
               /\ \A i : Doomed(v, i)' <=> Doomed(v, i)
      BY <3>1 DEF DestroyArrives, Doomed
    <3>3. Mourned'
      BY <1>1, <2>2, <2>4, <3>2
    <3>4. Warned'
      <4> SUFFICES ASSUME NEW i \in 1..Len(Incoming), Incoming[i].kind = "map",
                          NEW w, w = Incoming[i].win, wins'[w] = "absent"
                   PROVE  w \in missed' \/ Doomed(w, i)'
        BY <3>1
      <4> QED BY <1>1, <1>4, <2>4, <3>2
    <3> QED BY <3>3, <3>4
  <2>5. Notice \in Happening /\ Letgo \in Happening
        /\ Notice.kind \notin {"map", "destroy"} /\ Letgo.kind \notin {"map", "destroy"}
    BY DEF Happening, Notice, Letgo
  <2>6. CASE Nudge
    <3>1. wire' = Append(wire, Notice) /\ UNCHANGED <<wins, missed>>
      BY <2>6 DEF Nudge, server
    <3> QED BY <2>3, <2>5, <3>1
  <2>7. CASE UserReleases
    <3>1. (wire' = wire \/ wire' = Append(wire, Letgo)) /\ UNCHANGED <<wins, missed>>
      BY <2>7 DEF UserReleases, server
    <3> QED BY <2>3, <2>4, <2>5, <3>1
  <2>8. ASSUME NEW w \in Window, NEW kind \in {"map", "unmap", "message", "press"},
               Asks(kind, w), wins[w] # "absent",
               wins' = wins \/ wins' = [wins EXCEPT ![w] = "unmapped"], missed' = missed
        PROVE  Mourned' /\ Warned'
    <3> DEFINE e == [kind |-> kind, win |-> w, serial |-> sent + 1]
    <3>1. e \in Happening /\ e.kind = kind /\ e.win = w
      BY <2>8, LoopAssumption DEF TypeOK, Asks, Happening, Event
    <3>2. wire' = Append(wire, e)
      BY <2>8 DEF Asks
    <3> HIDE DEF e
    <3>3. \A v \in Window : wins'[v] = "absent" => wins[v] = "absent"
      BY <1>3, <2>8
    <3>4. wins'[w] # "absent"
      BY <1>3, <2>8
    <3> QED BY <2>3, <2>8, <3>1, <3>2, <3>3, <3>4
  <2>9. ASSUME NEW w \in Window, ClientDestroys(w)  PROVE Mourned' /\ Warned'
    <3> DEFINE e == [kind |-> "destroy", win |-> w, serial |-> sent + 1]
    <3>1. \A v \in Window : wins'[v] = "absent" => wins[v] = "absent" \/ v = w
      BY <1>3, <2>9 DEF ClientDestroys
    <3>2. CASE deaf
      <4>1. wire' = wire /\ missed' = missed \union {w}
        BY <2>9, <3>2 DEF ClientDestroys, Asks
      <4> QED BY <2>4, <3>1, <4>1
    <3>3. CASE ~deaf
      <4>1. wire' = Append(wire, e) /\ missed' = missed
        BY <2>9, <3>3 DEF ClientDestroys, Asks
      <4>2. e \in Happening /\ e.kind = "destroy" /\ e.win = w
        BY <2>9, LoopAssumption DEF TypeOK, ClientDestroys, Asks, Happening, Event
      <4> HIDE DEF e
      <4> QED BY <2>3, <3>1, <4>1, <4>2
    <3> QED BY <3>2, <3>3
  <2>10. ASSUME NEW w \in Window,
                ClientMaps(w) \/ ClientWithdraws(w) \/ ClientWrites(w) \/ UserPresses(w)
         PROVE  Mourned' /\ Warned'
    <3>1. wins[w] # "absent" /\ missed' = missed
          /\ (wins' = wins \/ wins' = [wins EXCEPT ![w] = "unmapped"])
      BY <2>10 DEF ClientMaps, ClientWithdraws, ClientWrites, UserPresses
    <3>2. \E kind \in {"map", "unmap", "message", "press"} : Asks(kind, w)
      BY <2>10 DEF ClientMaps, ClientWithdraws, ClientWrites, UserPresses
    <3> QED BY <2>8, <3>1, <3>2
  <2> QED BY <1>7, <2>6, <2>7, <2>9, <2>10 DEF Sender
<1> QED BY EventCases, <1>5, <1>6, <1>7

-----------------------------------------------------------------------------
(* The invariant holds, and with it what the runs check.                   *)

THEOREM InvHolds == Spec => []Inv
<1>1. Inv /\ [Next]_vars => Inv'
  BY TypesStep, ListsStep, MailStep, PointerStep, GhostsStep DEF Inv
<1> QED BY <1>1, InitInv, PTL DEF Spec

(* A window has one node or one pending rule at most, and no rule that is  *)
(* gone is left to be looked at, whatever map requests are repeated while  *)
(* its program runs (schedule_window(), remove_pending_rule()).            *)
THEOREM OneEntryHolds == Spec => []OneEntry
<1>1. Inv => OneEntry
  BY DEF Inv, Lists, OnceEach, OneEntry
<1> QED BY <1>1, InvHolds, PTL

(* A message for a window that waits for its rule program is applied to    *)
(* its node, in the order of arrival (postpone_event()).                   *)
THEOREM MessagesKeptHolds == Spec => []MessagesKept
<1>1. Inv => MessagesKept
  BY DEF Inv, Mail
<1> QED BY <1>1, InvHolds, PTL

(* bspwm keeps a window that was destroyed only until it reads the event,  *)
(* or if it had the X server keep the event back (window_set_visibility()).*)
THEOREM GhostsMissedHolds == Spec => []GhostsMissed
<1>1. Inv => GhostsMissed
  BY DEF Inv, Ghosts
<1> QED BY <1>1, InvHolds, PTL

(* The node that track_pointer() moves is not freed while it moves it, and *)
(* the release that ends the grab is held down, or on its way.             *)
THEOREM GrabHeldHolds == Spec => []GrabHeld
<1>1. Inv => GrabHeld
  BY DEF Inv, Pointer
<1> QED BY <1>1, InvHolds, PTL

-----------------------------------------------------------------------------
(* What is understood of an answer.                                        *)

(* What the first k pairs say.                                             *)
Told(tokens, k) == {i \in 1..k : Says(tokens, i)}
MeaningTo(tokens, k, rule) ==
  IF Told(tokens, k) = {} THEN rule
  ELSE \E i \in Told(tokens, k) : /\ \A j \in Told(tokens, k) : j <= i
                                 /\ tokens[2*i] = "on"

LEMMA MeaningNext ==
  ASSUME NEW tokens, NEW k \in Nat, NEW rule \in BOOLEAN
  PROVE  /\ MeaningTo(tokens, k, rule) \in BOOLEAN
         /\ MeaningTo(tokens, 0, rule) = rule
         /\ Says(tokens, k + 1) =>
              (MeaningTo(tokens, k + 1, rule) <=> tokens[2*(k + 1)] = "on")
         /\ ~Says(tokens, k + 1) =>
              (MeaningTo(tokens, k + 1, rule) <=> MeaningTo(tokens, k, rule))
<1>1. MeaningTo(tokens, k, rule) \in BOOLEAN
  BY DEF MeaningTo
<1>2. MeaningTo(tokens, 0, rule) = rule
  <2>1. Told(tokens, 0) = {}
    BY DEF Told
  <2> QED BY <2>1 DEF MeaningTo
<1>3. ASSUME Says(tokens, k + 1)
      PROVE  MeaningTo(tokens, k + 1, rule) <=> tokens[2*(k + 1)] = "on"
  <2>1. k + 1 \in Told(tokens, k + 1) /\ \A j \in Told(tokens, k + 1) : j \in Nat /\ j <= k + 1
    BY <1>3 DEF Told
  <2>2. \A i \in Told(tokens, k + 1) : (\A j \in Told(tokens, k + 1) : j <= i) => i = k + 1
    BY <2>1
  <2> QED BY <2>1, <2>2 DEF MeaningTo
<1>4. ASSUME ~Says(tokens, k + 1)
      PROVE  MeaningTo(tokens, k + 1, rule) <=> MeaningTo(tokens, k, rule)
  <2>1. Told(tokens, k + 1) = Told(tokens, k)
    BY <1>4 DEF Told
  <2> QED BY <2>1 DEF MeaningTo
<1>5. MeaningTo(tokens, k + 1, rule) \in BOOLEAN
  BY DEF MeaningTo
<1> QED BY <1>1, <1>2, <1>3, <1>4, <1>5

(* The meaning of the beginning of what a program said.                    *)
LEMMA MeaningOfBeginning ==
  ASSUME NEW said \in Seq(Token), NEW r \in 0..Len(said), NEW rule
  PROVE  Meaning(SubSeq(said, 1, r), rule) = MeaningTo(said, r \div 2, rule)
<1> DEFINE t == SubSeq(said, 1, r)
           q == r \div 2
<1>1. Len(said) \in Nat
  BY LenProperties
<1>2. Len(t) = r /\ \A i \in 1..r : t[i] = said[i]
  BY <1>1 DEF t
<1>3. \A i \in 1..q : 2*i - 1 \in 1..r /\ 2*i \in 1..r
  BY <1>1
<1>4. \A i \in 1..q : t[2*i - 1] = said[2*i - 1] /\ t[2*i] = said[2*i]
  BY <1>2, <1>3
<1> DEFINE says == {i \in 1..(Len(t) \div 2) :
                     t[2*i - 1] = "manage" /\ t[2*i] \in {"on", "off"}}
<1>5. says = Told(said, q)
  BY <1>2, <1>4 DEF Told, Says
<1>6. \A i \in says : t[2*i] = said[2*i]
  BY <1>2, <1>4
<1>7. Meaning(t, rule) = IF says = {} THEN rule
                         ELSE \E i \in says : /\ \A j \in says : j <= i
                                             /\ t[2*i] = "on"
  BY DEF Meaning
<1> HIDE DEF says, t, q
<1>8. (\E i \in says : (\A j \in says : j <= i) /\ t[2*i] = "on")
        = (\E i \in Told(said, q) : (\A j \in Told(said, q) : j <= i) /\ said[2*i] = "on")
  BY <1>5, <1>6
<1>9. Meaning(t, rule) = MeaningTo(said, q, rule)
  BY <1>5, <1>7, <1>8 DEF MeaningTo
<1> QED BY <1>9 DEF t, q

(* A rest that begins with a pair is understood as a continuation.         *)
LEMMA UnderstoodContinues ==
  ASSUME NEW said \in Seq(Token), NEW r \in 0..Len(said), r = 2 * (r \div 2),
         NEW rule \in BOOLEAN
  PROVE  Understood(SubSeq(said, r + 1, Len(said)), MeaningTo(said, r \div 2, rule))
           = MeaningTo(said, Len(said) \div 2, rule)
<1> DEFINE t == SubSeq(said, r + 1, Len(said))
           q == r \div 2
           n == Pairs(t)
           b == MeaningTo(said, q, rule)
<1>1. Len(said) \in Nat /\ r \in Nat /\ q \in Nat /\ r = 2 * q /\ r <= Len(said)
  BY LenProperties
<1>2. \A i \in 1..Len(said) : said[i] \in Token
  BY ElementOfSeq
<1>3. \A i \in (r + 1)..Len(said) : said[i] \in Token
  BY <1>1, <1>2
<1>4. t \in Seq(Token) /\ Len(t) = Len(said) - r /\ \A i \in 1..Len(t) : t[i] = said[r + i]
  <2> HIDE DEF q
  <2>1. /\ t \in Seq(Token)
        /\ Len(t) = IF r + 1 <= Len(said) THEN Len(said) - (r + 1) + 1 ELSE 0
        /\ \A i \in 1..(Len(said) - (r + 1) + 1) : t[i] = said[(r + 1) + i - 1]
    BY <1>1, <1>3, SubSeqProperties
  <2>2. Len(t) = Len(said) - r
    <3> DEFINE l == Len(said)
    <3>1. l \in Nat /\ r \in Nat /\ r <= l
      BY <1>1
    <3>2. Len(t) = IF r + 1 <= l THEN l - (r + 1) + 1 ELSE 0
      BY <2>1
    <3> HIDE DEF l, t
    <3>3. Len(t) = l - r
      BY <3>1, <3>2
    <3> QED BY <3>3 DEF l
  <2>3. \A i \in 1..Len(t) : i \in 1..(Len(said) - (r + 1) + 1) /\ (r + 1) + i - 1 = r + i
    BY <1>1, <2>2
  <2> QED BY <2>1, <2>2, <2>3
<1> HIDE DEF t
<1>5. n \in Nat /\ 2 * n <= Len(t) /\ Len(t) <= 2 * n + 1
  BY <1>4, PairsFacts
<1>6. q + n = Len(said) \div 2
  <2> HIDE DEF n, q
  <2> DEFINE l == Len(said)
  <2>1. l \in Nat /\ 2 * (q + n) <= l /\ l <= 2 * (q + n) + 1
    BY <1>1, <1>4, <1>5
  <2> HIDE DEF l
  <2> QED BY <1>1, <1>5, <2>1 DEF l
<1> HIDE DEF n, q
<1>7. \A i \in 1..n : /\ 2*i - 1 \in 1..Len(t) /\ 2*i \in 1..Len(t)
                     /\ r + (2*i - 1) = 2*(q + i) - 1 /\ r + 2*i = 2*(q + i)
  BY <1>1, <1>4, <1>5
<1>8. \A i \in 1..n : t[2*i - 1] = said[2*(q + i) - 1] /\ t[2*i] = said[2*(q + i)]
  BY <1>4, <1>7
<1>9. \A i \in 1..n : Says(t, i) <=> Says(said, q + i)
  BY <1>8 DEF Says
<1>10. b \in BOOLEAN
  BY <1>1, MeaningNext
<1> HIDE DEF b
<1>11. PICK f \in [0..n -> BOOLEAN] :
         /\ f[0] = b
         /\ \A i \in 1..n : f[i] = IF Says(t, i) THEN t[2*i] = "on" ELSE f[i - 1]
         /\ Understood(t, b) = f[n]
  BY <1>4, <1>10, UnderstoodRecursion DEF n
<1> DEFINE S == {i \in 0..n : f[i] = MeaningTo(said, q + i, rule)}
<1>12. 0 \in S
  BY <1>1, <1>5, <1>11 DEF b
<1>13. ASSUME NEW i \in 0..(n - 1), i \in S  PROVE i + 1 \in S
  <2>1. /\ i + 1 \in 1..n /\ i + 1 \in 0..n /\ (i + 1) - 1 = i
        /\ q + i \in Nat /\ q + (i + 1) = (q + i) + 1
    BY <1>1, <1>5
  <2>2. f[i] = MeaningTo(said, q + i, rule)
    BY <1>13
  <2> DEFINE k == q + i
  <2>3. /\ MeaningTo(said, k, rule) \in BOOLEAN /\ MeaningTo(said, k + 1, rule) \in BOOLEAN
        /\ Says(said, k + 1) => (MeaningTo(said, k + 1, rule) <=> said[2*(k + 1)] = "on")
        /\ ~Says(said, k + 1) => (MeaningTo(said, k + 1, rule) <=> MeaningTo(said, k, rule))
    <3>1. k \in Nat /\ k + 1 \in Nat
      BY <2>1
    <3> HIDE DEF k
    <3> QED BY <3>1, MeaningNext
  <2>4. (Says(t, i + 1) <=> Says(said, k + 1)) /\ t[2*(i + 1)] = said[2*(k + 1)]
    BY <1>8, <1>9, <2>1
  <2>5. /\ Says(t, i + 1) => f[i + 1] = (t[2*(i + 1)] = "on")
        /\ ~Says(t, i + 1) => f[i + 1] = f[i]
    BY <1>11, <2>1
  <2>6. f[i + 1] = MeaningTo(said, k + 1, rule)
    <3> HIDE DEF k
    <3> QED BY <2>2, <2>3, <2>4, <2>5 DEF k
  <2> QED BY <2>1, <2>6
<1> HIDE DEF S
<1>14. n \in S
  BY <1>5, <1>12, <1>13, Induction, n \in 0..n
<1>15. Understood(t, b) = MeaningTo(said, q + n, rule)
  BY <1>11, <1>14 DEF S
<1> QED BY <1>6, <1>15 DEF t, b, q

(* A rule program writes whole pairs: a write() of it does not end between *)
(* a key and its value.                                                    *)
WholePairs ==
  \A answer \in Answers : \A i \in 1..Len(answer) : Len(answer[i]) % 2 = 0

(* So it is with what it has said, what was read of it, and what is left.  *)
Whole(p) ==
  /\ p.read <= Len(p.said)
  /\ p.read % 2 = 0 /\ Len(p.said) % 2 = 0
  /\ \A i \in 1..Len(p.left) : Len(p.left[i]) % 2 = 0

(* What was understood of an answer is its meaning so far.                 *)
Correct(pr, p) == pr.manage = Meaning(SubSeq(p.said, 1, p.read), pr.rule)

Answered ==
  /\ \A w \in Window : Whole(program[w])
  /\ \A i \in 1..Len(pending) : Correct(pending[i], program[pending[i].win])

LEMMA WriteFacts ==
  ASSUME NEW p \in Program, Whole(p), p.left # <<>>,
         NEW p2, p2 = [p EXCEPT !.said = @ \o Head(p.left), !.left = Tail(@)]
  PROVE  /\ Whole(p2)
         /\ \A pr : Correct(pr, p) => Correct(pr, p2)
<1> DEFINE new == p.said \o Head(p.left)
<1>1. p.left \in Seq(Seq(Token)) /\ p.said \in Seq(Token) /\ p.read \in Nat
  BY DEF Program
<1>2. p2.said = new /\ p2.left = Tail(p.left) /\ p2.read = p.read
  BY DEF Program
<1>3. /\ Head(p.left) = p.left[1] /\ 1 \in 1..Len(p.left)
      /\ Head(p.left) \in Seq(Token) /\ Len(p.left) \in Nat
      /\ Len(Tail(p.left)) = Len(p.left) - 1
      /\ \A i \in 1..Len(Tail(p.left)) : Tail(p.left)[i] = p.left[i + 1]
  BY <1>1, HeadTailProperties, LenProperties
<1>4. /\ Len(p.said) \in Nat /\ Len(Head(p.left)) \in Nat
      /\ Len(new) = Len(p.said) + Len(Head(p.left))
      /\ \A i \in 1..Len(p.said) : new[i] = p.said[i]
  <2> DEFINE a == p.said
             b == Head(p.left)
  <2>1. a \in Seq(Token) /\ b \in Seq(Token)
    BY <1>1, <1>3
  <2> HIDE DEF a, b
  <2>2. /\ Len(a) \in Nat /\ Len(b) \in Nat
        /\ Len(a \o b) = Len(a) + Len(b)
        /\ \A i \in 1..Len(a) : (a \o b)[i] = a[i]
    BY <2>1, LenProperties
  <2> QED BY <2>2 DEF a, b
<1>5. Len(Head(p.left)) % 2 = 0 /\ Len(p.said) % 2 = 0
      /\ p.read <= Len(p.said) /\ p.read % 2 = 0
  BY <1>3 DEF Whole
<1> HIDE DEF new
<1>6. Len(new) % 2 = 0 /\ p.read <= Len(new)
  <2> DEFINE a == Len(p.said)
             b == Len(Head(p.left))
             l == Len(new)
             r == p.read
  <2>1. a \in Nat /\ b \in Nat /\ l = a + b /\ a % 2 = 0 /\ b % 2 = 0 /\ r \in Nat /\ r <= a
    BY <1>1, <1>4, <1>5
  <2> HIDE DEF a, b, l, r
  <2>2. l % 2 = 0 /\ r <= l
    BY <2>1
  <2> QED BY <2>2 DEF l, r
<1>7. \A i \in 1..Len(Tail(p.left)) : Len(Tail(p.left)[i]) % 2 = 0
  <2> TAKE i \in 1..Len(Tail(p.left))
  <2>1. i + 1 \in 1..Len(p.left) /\ Tail(p.left)[i] = p.left[i + 1]
    BY <1>3
  <2> QED BY <2>1 DEF Whole
<1>8. Whole(p2)
  BY <1>2, <1>5, <1>6, <1>7 DEF Whole
<1>9. SubSeq(new, 1, p.read) = SubSeq(p.said, 1, p.read)
  <2> DEFINE a == p.said
             r == p.read
             l == Len(a)
  <2>1. l \in Nat /\ \A i \in 1..l : new[i] = a[i]
    BY <1>4
  <2>2. r \in Nat /\ r <= l
    BY <1>1, <1>5
  <2> HIDE DEF a, r, l
  <2> QED BY <2>1, <2>2 DEF a, r
<1>10. ASSUME NEW pr, Correct(pr, p)  PROVE Correct(pr, p2)
  BY <1>2, <1>9, <1>10 DEF Correct
<1> QED BY <1>8, <1>10

LEMMA EndFacts ==
  ASSUME NEW p \in Program, Whole(p), NEW p2, p2 = [p EXCEPT !.alive = FALSE]
  PROVE  /\ Whole(p2)
         /\ \A pr : Correct(pr, p) => Correct(pr, p2)
<1>1. p2.said = p.said /\ p2.left = p.left /\ p2.read = p.read
  BY DEF Program
<1> QED BY <1>1 DEF Whole, Correct

LEMMA NoProgramWhole == Whole(NoProgram)
BY DEF Whole, NoProgram

LEMMA NothingSaid ==
  ASSUME WholePairs, NEW answer \in Answers, NEW rule \in BOOLEAN,
         NEW p, p.left = answer, p.said = <<>>, p.read = 0,
         NEW pr, pr.rule = rule, pr.manage = rule
  PROVE  Whole(p) /\ Correct(pr, p)
<1>1. Whole(p)
  <2>1. \A i \in 1..Len(answer) : Len(answer[i]) % 2 = 0
    BY DEF WholePairs
  <2>2. Len(p.said) = 0 /\ 0 <= 0 /\ 0 % 2 = 0
    BY EmptySeq
  <2>3. p.read <= Len(p.said) /\ p.read % 2 = 0 /\ Len(p.said) % 2 = 0
    BY <2>2
  <2>4. \A i \in 1..Len(p.left) : Len(p.left[i]) % 2 = 0
    BY <2>1, Zenon
  <2> QED BY <2>3, <2>4, Zenon DEF Whole
<1>2. Meaning(SubSeq(p.said, 1, p.read), rule) = rule
  <2>1. Meaning(SubSeq(<<>>, 1, 0), rule) = MeaningTo(<<>>, 0 \div 2, rule)
    <3>1. <<>> \in Seq(Token) /\ 0 \in 0..Len(<<>>)
      BY EmptySeq
    <3> QED BY <3>1, MeaningOfBeginning
  <2>2. 0 \div 2 = 0
    OBVIOUS
  <2>3. MeaningTo(<<>>, 0, rule) = rule
    BY MeaningNext
  <2> QED BY <2>1, <2>2, <2>3
<1>3. Correct(pr, p)
  BY <1>2 DEF Correct
<1> QED BY <1>1, <1>3

LEMMA AnswerFacts ==
  ASSUME NEW p \in Program, Whole(p), NEW pr \in PendingRule, Correct(pr, p),
         NEW p2, p2 = [p EXCEPT !.read = Len(p.said)],
         NEW pr2, pr2.rule = pr.rule,
         pr2.manage = Understood(SubSeq(p.said, p.read + 1, Len(p.said)), pr.manage)
  PROVE  Whole(p2) /\ Correct(pr2, p2)
<1> DEFINE said == p.said
           r == p.read
           l == Len(p.said)
           rule == pr.rule
<1>1. said \in Seq(Token) /\ r \in Nat /\ l \in Nat /\ r <= l /\ r % 2 = 0 /\ l % 2 = 0
      /\ l = Len(said)
  BY LenProperties DEF Program, Whole
<1>2. p2.said = said /\ p2.left = p.left /\ p2.read = l
  BY DEF Program
<1>3. Whole(p2)
  <2>1. l <= l
    BY <1>1
  <2> QED BY <1>1, <1>2, <2>1 DEF Whole
<1>4. rule \in BOOLEAN
  BY DEF PendingRule
<1>5. pr.manage = Meaning(SubSeq(said, 1, r), rule)
  BY DEF Correct
<1>6. pr2.manage = Understood(SubSeq(said, r + 1, l), pr.manage)
  OBVIOUS
<1>7. pr2.rule = rule
  OBVIOUS
<1> HIDE DEF said, r, l, rule
<1>8. r \in 0..Len(said) /\ l \in 0..Len(said) /\ r = 2 * (r \div 2)
  BY <1>1
<1>9. pr.manage = MeaningTo(said, r \div 2, rule)
  BY <1>1, <1>5, <1>8, MeaningOfBeginning
<1>10. Understood(SubSeq(said, r + 1, l), MeaningTo(said, r \div 2, rule))
         = MeaningTo(said, l \div 2, rule)
  BY <1>1, <1>4, <1>8, UnderstoodContinues
<1>11. Meaning(SubSeq(said, 1, l), rule) = MeaningTo(said, l \div 2, rule)
  BY <1>1, <1>8, MeaningOfBeginning
<1>12. Correct(pr2, p2)
  BY <1>2, <1>6, <1>7, <1>9, <1>10, <1>11, Zenon DEF Correct
<1> QED BY <1>3, <1>12

LEMMA AnswersStep ==
  ASSUME WholePairs, TypeOK, Lists, Answered, [Next]_vars
  PROVE  Answered'
<1> DEFINE Pieces == \A v \in Window : Whole(program[v])
           Read == \A i \in 1..Len(pending) : Correct(pending[i], program[pending[i].win])
<1>1. Pieces /\ Read
  BY DEF Answered
<1>2. SUFFICES Pieces' /\ Read'
  BY DEF Answered
<1>3. program \in [Window -> Program] /\ \A v \in Window : program[v] \in Program
  BY DEF TypeOK
<1>4. \A i \in 1..Len(pending) : pending[i] \in PendingRule /\ pending[i].win \in Window
  BY PendingFacts DEF PendingRule
<1>5. CASE UNCHANGED <<pending, program>>
  BY <1>1, <1>5
<1>6. ASSUME NEW w \in Window, ProgramWrites(w) \/ ProgramEnds(w)  PROVE Pieces' /\ Read'
  <2> DEFINE p2 == IF ProgramWrites(w)
                   THEN [program[w] EXCEPT !.said = @ \o Head(program[w].left),
                                           !.left = Tail(@)]
                   ELSE [program[w] EXCEPT !.alive = FALSE]
  <2>1. program' = [program EXCEPT ![w] = p2] /\ pending' = pending
    BY <1>3, <1>6 DEF ProgramWrites, ProgramEnds
  <2>2. Whole(p2) /\ \A pr : Correct(pr, program[w]) => Correct(pr, p2)
    <3>1. program[w] \in Program /\ Whole(program[w])
      BY <1>1, <1>3
    <3>2. CASE ProgramWrites(w)
      <4>1. program[w].left # <<>>
        BY <3>2 DEF ProgramWrites
      <4>2. p2 = [program[w] EXCEPT !.said = @ \o Head(program[w].left), !.left = Tail(@)]
        BY <3>2
      <4> HIDE DEF p2
      <4> QED BY <3>1, <4>1, <4>2, WriteFacts
    <3>3. CASE ~ProgramWrites(w)
      <4>1. p2 = [program[w] EXCEPT !.alive = FALSE]
        BY <3>3
      <4> HIDE DEF p2
      <4> QED BY <3>1, <4>1, EndFacts
    <3> QED BY <3>2, <3>3
  <2> HIDE DEF p2
  <2>3. \A v \in Window : program'[v] = IF v = w THEN p2 ELSE program[v]
    BY <1>3, <2>1
  <2> QED BY <1>1, <1>4, <2>1, <2>2, <2>3
<1>7. ASSUME NEW w \in Window, ReadAnswer(w)  PROVE Pieces' /\ Read'
  <2> DEFINE p2 == [program[w] EXCEPT !.read = Len(program[w].said)]
  <2>1. Waiting(w)
    BY <1>7 DEF ReadAnswer, Reported, Lists
  <2>2. /\ Len(pending') = Len(pending)
        /\ \A i \in 1..Len(pending) : pending'[i].win = pending[i].win
        /\ Reads(w)
    BY <1>7, ReadFacts
  <2>3. program' = [program EXCEPT ![w] = p2]
    BY <1>7 DEF ReadAnswer
  <2>4. p2 = [program[w] EXCEPT !.read = Len(program[w].said)]
    OBVIOUS
  <2> HIDE DEF p2
  <2>5. program'[w] = p2 /\ \A v \in Window : v # w => program'[v] = program[v]
    BY <1>3, <2>3
  <2>6. Pieces'
    <3>1. PICK i \in 1..Len(pending) : pending[i].win = w
      BY <2>1 DEF Waiting
    <3>2. Whole(p2)
      <4>1. /\ program[w] \in Program /\ Whole(program[w])
            /\ pending[i] \in PendingRule /\ Correct(pending[i], program[w])
        BY <1>1, <1>3, <1>4, <3>1
      <4>2. pending'[i].rule = pending[i].rule
            /\ pending'[i].manage = Understood(Pipe(w), pending[i].manage)
        BY <2>2, <3>1, Zenon DEF Reads
      <4> QED BY <2>4, <4>1, <4>2, AnswerFacts DEF Pipe
    <3> QED BY <1>1, <2>5, <3>2
  <2>7. ASSUME NEW i \in 1..Len(pending)
        PROVE  Correct(pending'[i], program'[pending'[i].win])
    <3>1. pending'[i].win = pending[i].win /\ pending[i].win \in Window
      BY <1>4, <2>2
    <3>2. CASE pending[i].win = w
      <4>1. /\ program[w] \in Program /\ Whole(program[w])
            /\ pending[i] \in PendingRule /\ Correct(pending[i], program[w])
        BY <1>1, <1>3, <1>4, <3>2
      <4>2. pending'[i].rule = pending[i].rule
            /\ pending'[i].manage = Understood(Pipe(w), pending[i].manage)
        BY <2>2, <3>2, Zenon DEF Reads
      <4>3. Correct(pending'[i], p2)
        BY <2>4, <4>1, <4>2, AnswerFacts DEF Pipe
      <4> QED BY <2>5, <3>1, <3>2, <4>3
    <3>3. CASE pending[i].win # w
      <4>1. pending'[i] = pending[i]
        BY <2>2, <3>3 DEF Reads
      <4>2. program'[pending[i].win] = program[pending[i].win]
        BY <2>5, <3>1, <3>3
      <4> QED BY <1>1, <4>1, <4>2
    <3> QED BY <3>2, <3>3
  <2> QED BY <2>2, <2>6, <2>7
<1>8. ASSUME NEW w \in Window, Waiting(w), pending' = Dequeued(pending, w),
             program' = [program EXCEPT ![w] = NoProgram]
      PROVE  Pieces' /\ Read'
  <2>1. /\ \A i \in 1..Len(pending') : \E j \in 1..Len(pending) : pending'[i] = pending[j]
        /\ \A v : Waiting(v)' <=> Waiting(v) /\ v # w
    BY <1>8, WithoutFacts DEF Lists
  <2>2. \A i \in 1..Len(pending') : pending'[i].win # w
    BY <2>1 DEF Waiting
  <2>3. \A v \in Window : program'[v] = IF v = w THEN NoProgram ELSE program[v]
    BY <1>3, <1>8
  <2>4. Pieces'
    BY <1>1, <2>3, NoProgramWhole
  <2>5. ASSUME NEW i \in 1..Len(pending')
        PROVE  Correct(pending'[i], program'[pending'[i].win])
    <3>1. PICK j \in 1..Len(pending) : pending'[i] = pending[j]
      BY <2>1
    <3>2. program'[pending[j].win] = program[pending[j].win]
      BY <1>4, <2>2, <2>3, <3>1
    <3> QED BY <1>1, <3>1, <3>2
  <2> QED BY <2>4, <2>5
<1>9. ASSUME NEW rule \in BOOLEAN, NEW answer \in Answers, Schedule(rule, answer)
      PROVE  Pieces' /\ Read'
  <2> DEFINE w == First
             pr == [win |-> w, rule |-> rule, manage |-> rule, events |-> <<>>]
             p == [alive |-> TRUE, left |-> answer, said |-> <<>>, read |-> 0]
  <2>1. /\ Take("map") /\ ~Known(w) /\ pending' = Append(pending, pr)
        /\ program' = [program EXCEPT ![w] = p]
    BY <1>9 DEF Schedule
  <2>2. w \in Window
    BY <2>1, TakeFacts, KindFacts, IncomingFacts DEF First
  <2>3. pr \in PendingRule /\ pr.win = w
    BY <2>2, EmptySeq DEF PendingRule
  <2>4. Whole(p) /\ Correct(pr, p)
    <3>1. p.left = answer /\ p.said = <<>> /\ p.read = 0
      OBVIOUS
    <3>2. pr.rule = rule /\ pr.manage = rule
      OBVIOUS
    <3> HIDE DEF p, pr
    <3> QED BY <3>1, <3>2, NothingSaid
  <2> HIDE DEF pr, p, w
  <2>5. \A i \in 1..Len(pending') :
          pending'[i] = pr \/ \E j \in 1..Len(pending) : pending'[i] = pending[j]
    BY <2>1, <2>3, AppendFacts DEF Lists, Known
  <2>6. program'[w] = p /\ \A v \in Window : v # w => program'[v] = program[v]
    BY <1>3, <2>1, <2>2
  <2>7. Pieces'
    BY <1>1, <2>4, <2>6
  <2>8. ASSUME NEW i \in 1..Len(pending')
        PROVE  Correct(pending'[i], program'[pending'[i].win])
    <3>1. CASE pending'[i] = pr
      BY <2>3, <2>4, <2>6, <3>1
    <3>2. ASSUME NEW j \in 1..Len(pending), pending'[i] = pending[j]
          PROVE  Correct(pending'[i], program'[pending'[i].win])
      <4>1. pending[j].win # w
        BY <2>1 DEF Known, Waiting
      <4>2. program'[pending[j].win] = program[pending[j].win]
        BY <1>4, <2>6, <4>1
      <4> QED BY <1>1, <3>2, <4>2
    <3> QED BY <2>5, <3>1, <3>2
  <2> QED BY <2>7, <2>8
<1>10. CASE ClientMessage
  <2> DEFINE w == First
             n == Head(Incoming).serial
  <2>1. n \in 1..MaxSent
    BY <1>10, TakeFacts, KindFacts, IncomingFacts DEF ClientMessage
  <2>2. UNCHANGED pending \/ (Waiting(w) /\ Postpones(w, n))
    BY <1>10 DEF ClientMessage, Postpones
  <2>3. program' = program
    BY <1>10 DEF ClientMessage
  <2> HIDE DEF w, n
  <2>4. CASE Waiting(w) /\ Postpones(w, n)
    <3>1. /\ Len(pending') = Len(pending)
          /\ \A i \in 1..Len(pending) : /\ pending'[i].win = pending[i].win
                                       /\ pending'[i].rule = pending[i].rule
                                       /\ pending'[i].manage = pending[i].manage
      BY <2>1, <2>4, PostponeFacts
    <3> QED BY <1>1, <2>3, <3>1 DEF Correct
  <2> QED BY <1>5, <2>2, <2>3, <2>4
<1>11. CASE Aside /\ ~(\E w \in Window : ProgramWrites(w) \/ ProgramEnds(w))
  <2>1. UNCHANGED <<pending, program>>
    BY <1>11 DEF Aside, Serve, Nudge, Query, UserReleases, ClientMaps, ClientWithdraws,
                 ClientDestroys, ClientWrites, UserPresses, Asks, MapKnown, ButtonPress,
                 ButtonRelease, OtherEvent, Select, HandleMessage, SkipSocket, EventsDone,
                 vars
  <2> QED BY <1>5, <2>1
<1>12. ASSUME NEW w \in Window, ManagePending(w)  PROVE Pieces' /\ Read'
  BY <1>8, <1>12 DEF ManagePending, Reported, Lists
<1>13. CASE UnmapNotify \/ DestroyNotify
  <2>1. PICK kind \in {"unmap", "destroy"} : Take(kind)
    BY <1>13 DEF UnmapNotify, DestroyNotify
  <2>2. First \in Window
    BY <2>1, TakeFacts, KindFacts, IncomingFacts DEF First
  <2>3. UNCHANGED <<pending, program>> \/ Unmanage(First)
    BY <1>13 DEF UnmapNotify, DestroyNotify
  <2> QED BY <1>5, <1>8, <2>2, <2>3 DEF Unmanage
<1>14. ASSUME NEW rule \in BOOLEAN, ManageAtOnce(rule)  PROVE Pieces' /\ Read'
  BY <1>5, <1>14 DEF ManageAtOnce
<1> QED BY StepCases, <1>6, <1>7, <1>9, <1>10, <1>11, <1>12, <1>13, <1>14

(* However the read() calls of parse_rule_consequence() cut the answer of  *)
(* a rule program that writes whole pairs, bspwm understands what it says. *)
THEOREM AnswerReadHolds ==
  ASSUME WholePairs
  PROVE  Spec => []AnswerRead
<1>1. Init => Answered
  <2> SUFFICES ASSUME Init  PROVE Answered
    OBVIOUS
  <2>1. Len(pending) = 0 /\ \A w \in Window : program[w] = NoProgram
    BY DEF Init
  <2> QED BY <2>1, NoProgramWhole DEF Answered
<1>2. Inv /\ Answered /\ [Next]_vars => Answered'
  BY AnswersStep DEF Inv
<1>3. Answered => AnswerRead
  BY DEF Answered, AnswerRead, Correct
<1> QED BY <1>1, <1>2, <1>3, InvHolds, PTL DEF Spec
=============================================================================
