--------------------------- MODULE StackingProofs ---------------------------
(***************************************************************************)
(* For any number of windows and any desktops, whatever the handlers call  *)
(* each other for: the stacking list has every client, once, and nothing   *)
(* else, and a window changes state without a command of its own only by   *)
(* leaving the fullscreen state.                                           *)
(*                                                                         *)
(* Every operator of Stacking that stands for a function of the code is    *)
(* shown to take a sound world to one that follows it; a handler is a      *)
(* chain of them.                                                          *)
(***************************************************************************)
EXTENDS Stacking, ListFacts, FiniteSetTheorems

Worlds ==
  [desk : [Window -> Desktop \union {None}], layer : [Window -> Layers],
   state : [Window -> State], last : [Window -> State], stacking : Seq(Window),
   focus : [Desktop -> SUBSET Window], cur : Desktop, autoRaise : BOOLEAN]

Managed(s) == {w \in Window : s.desk[w] # None}

(* No window twice in the list, none that is not managed; and the focus of *)
(* a desktop is made of its windows, so that stack() gets no other leaves. *)
Sound(s) ==
  /\ s \in Worlds
  /\ Unique(s.stacking)
  /\ Listed(s.stacking) \subseteq Managed(s)
  /\ \A d \in Desktop : s.focus[d] \subseteq Root(s, d)

(* From s to t the window keeps its state, or leaves the fullscreen one.   *)
DemotedAt(s, t, w) ==
  \/ t.state[w] = s.state[w] /\ t.last[w] = s.last[w]
  \/ /\ s.state[w] = "fullscreen" /\ s.last[w] # "fullscreen"
     /\ t.state[w] = s.last[w] /\ t.last[w] = "fullscreen"

(* What the functions that restack keep.                                   *)
Follows(s, t) ==
  /\ Sound(t)
  /\ t.desk = s.desk /\ t.autoRaise = s.autoRaise
  /\ Listed(s.stacking) \subseteq Listed(t.stacking)
  /\ \A w \in Window : DemotedAt(s, t, w)

LEMMA FollowsSelf ==
  ASSUME NEW s, Sound(s)
  PROVE  Follows(s, s)
BY DEF Follows, DemotedAt

LEMMA FollowsOn ==
  ASSUME NEW s, NEW t, NEW u, Follows(s, t), Follows(t, u)
  PROVE  Follows(s, u)
<1>1. ASSUME NEW w \in Window  PROVE DemotedAt(s, u, w)
  <2>1. DemotedAt(s, t, w) /\ DemotedAt(t, u, w)
    BY DEF Follows
  <2> QED BY <2>1 DEF DemotedAt
<1>2. /\ Sound(u) /\ u.desk = s.desk /\ u.autoRaise = s.autoRaise
      /\ Listed(s.stacking) \subseteq Listed(u.stacking)
  BY DEF Follows
<1> QED BY <1>1, <1>2 DEF Follows

-----------------------------------------------------------------------------
(* stack().                                                                *)

(* One turn of the loop of stack().                                        *)
LEMMA StackListKept ==
  ASSUME NEW x \in Seq(Window), Unique(x), NEW lv \in [Window -> Int],
         NEW w \in Window, NEW focused \in BOOLEAN
  PROVE  /\ StackList(x, lv, w, focused) \in Seq(Window)
         /\ Unique(StackList(x, lv, w, focused))
         /\ Listed(StackList(x, lv, w, focused)) = Listed(x) \union {w}
BY StackListSound

(* The loop of stack(), one leaf after the other.                          *)
LEMMA LoopOfStack ==
  ASSUME StackingAssumption, NEW s, Sound(s), NEW n \in SUBSET Window,
         NEW focused \in BOOLEAN
  PROVE  LET l == Stack(s, n, focused).stacking
         IN /\ l \in Seq(Window) /\ Unique(l)
            /\ Listed(s.stacking) \subseteq Listed(l)
            /\ Listed(l) \subseteq Listed(s.stacking) \union n
            /\ \A w \in n : ~Skipped(s, w) => w \in Listed(l)
<1> DEFINE lv == Level(s)
           a == s.stacking
           Step(x, w) == IF w \in n /\ ~Skipped(s, w) THEN StackList(x, lv, w, focused) ELSE x
           R == {x \in Seq(Window) : /\ Unique(x) /\ Listed(a) \subseteq Listed(x)
                                     /\ Listed(x) \subseteq Listed(a) \union n}
           F == [w \in 1..Windows |-> [x \in R |-> Step(x, w)]]
           Rec(f) == f = [w \in 0..Windows |->
                            IF w = 0 THEN a
                            ELSE IF w \in n /\ ~Skipped(s, w)
                                 THEN StackList(f[w - 1], lv, w, focused)
                                 ELSE f[w - 1]]
<1>1. Windows \in Nat /\ Window = 1..Windows
  BY DEF StackingAssumption, Window
<1>2. lv \in [Window -> Int]
  <2>1. \A ly, st : StackLevel(ly, st) \in Int
    BY DEF StackLevel
  <2> QED BY <2>1 DEF Level
<1>3. a \in R
  BY DEF Sound, Worlds
<1>4. ASSUME NEW w \in 1..Windows, NEW x \in R
      PROVE  /\ Step(x, w) \in R
             /\ Listed(x) \subseteq Listed(Step(x, w))
             /\ w \in n /\ ~Skipped(s, w) => w \in Listed(Step(x, w))
  <2> DEFINE y == StackList(x, lv, w, focused)
  <2> HIDE DEF lv
  <2>1. y \in Seq(Window) /\ Unique(y) /\ Listed(y) = Listed(x) \union {w}
    <3>1. x \in Seq(Window) /\ Unique(x) /\ w \in Window /\ lv \in [Window -> Int]
      BY <1>1, <1>2
    <3> HIDE DEF R, Step, Rec, F
    <3> QED BY <3>1, StackListKept
  <2> HIDE DEF y
  <2>2. CASE w \in n /\ ~Skipped(s, w)
    BY <2>1, <2>2 DEF y
  <2>3. CASE ~(w \in n /\ ~Skipped(s, w))
    BY <2>3
  <2> QED BY <2>2, <2>3
<1> DEFINE N == Windows
<1> HIDE DEF N
<1>5. F \in [1..N -> [R -> R]]
  BY <1>4 DEF N
<1> HIDE DEF R
<1>6. PICK f \in [0..N -> R] : f[0] = a /\ \A w \in 1..N : f[w] = F[w][f[w - 1]]
  <2> HIDE DEF F, a
  <2> DEFINE f == Iterated(N, R, a, F)
  <2>1. f \in [0..N -> R] /\ f[0] = a /\ \A w \in 1..N : f[w] = F[w][f[w - 1]]
    BY <1>1, <1>3, <1>5, Recursion DEF N
  <2> QED BY <2>1
<1>7. \E g : Rec(g)
  <2>1. ASSUME NEW w \in 1..N  PROVE f[w] = Step(f[w - 1], w)
    <3>1. w - 1 \in 0..N /\ w \in 1..Windows
      BY <1>1 DEF N
    <3>2. f[w - 1] \in R
      BY <1>6, <3>1
    <3>3. f[w] = F[w][f[w - 1]]
      BY <1>6
    <3> HIDE DEF Step
    <3> QED BY <3>1, <3>2, <3>3 DEF F
  <2>2. \A w \in 0..N : w # 0 => w \in 1..N
    BY <1>1 DEF N
  <2> HIDE DEF F, a
  <2>3. Rec(f)
    BY <1>6, <2>1, <2>2 DEF N
  <2> QED BY <2>3
<1> DEFINE g == CHOOSE g : Rec(g)
<1>8. Rec(g)
  <2> HIDE DEF Rec
  <2> QED BY <1>7
<1>9. Stack(s, n, focused).stacking = g[Windows]
  BY DEF Stack, Sound, Worlds
<1> HIDE DEF g
<1>10. /\ g[0] = a
       /\ \A w \in 0..(N - 1) : w + 1 \in 1..N /\ g[w + 1] = Step(g[w], w + 1)
  <2>1. \A w \in 0..(N - 1) : w + 1 \in 1..N /\ w + 1 \in 0..N /\ w + 1 # 0 /\ (w + 1) - 1 = w
    BY <1>1 DEF N
  <2>2. 0 \in 0..N
    BY <1>1 DEF N
  <2> HIDE DEF a
  <2> QED BY <1>8, <2>1, <2>2 DEF N
<1> HIDE DEF Step, Rec, F
<1> DEFINE S == {i \in 0..N : /\ g[i] \in R
                              /\ \A w \in 1..i : w \in n /\ ~Skipped(s, w) => w \in Listed(g[i])}
<1>11. 0 \in S
  BY <1>1, <1>3, <1>10 DEF N
<1>12. ASSUME NEW i \in 0..(N - 1), i \in S  PROVE i + 1 \in S
  <2>1. i + 1 \in 1..N /\ i + 1 \in 0..N /\ g[i] \in R /\ g[i + 1] = Step(g[i], i + 1)
    BY <1>1, <1>10, <1>12 DEF N
  <2>2. /\ g[i + 1] \in R /\ Listed(g[i]) \subseteq Listed(g[i + 1])
        /\ i + 1 \in n /\ ~Skipped(s, i + 1) => i + 1 \in Listed(g[i + 1])
    BY <1>4, <2>1 DEF N
  <2>3. \A w \in 1..(i + 1) : w = i + 1 \/ w \in 1..i
    BY <1>1
  <2> QED BY <1>12, <2>1, <2>2, <2>3
<1> HIDE DEF S
<1>13. N \in S
  <2>1. \A i \in 0..N : i \in S
    BY <1>1, <1>11, <1>12, Induction DEF N
  <2> QED BY <1>1, <2>1 DEF N
<1>14. /\ g[Windows] \in R
       /\ \A w \in Window : w \in n /\ ~Skipped(s, w) => w \in Listed(g[Windows])
  BY <1>1, <1>13 DEF S, N
<1> QED BY <1>9, <1>14 DEF R

LEMMA StackFacts ==
  ASSUME StackingAssumption, NEW s, Sound(s), NEW n, n \subseteq Managed(s),
         NEW focused \in BOOLEAN
  PROVE  LET t == Stack(s, n, focused)
         IN /\ Follows(s, t)
            /\ t.state = s.state /\ t.last = s.last
            /\ s.autoRaise => n \subseteq Listed(t.stacking)
<1> DEFINE t == Stack(s, n, focused)
           l == t.stacking
<1>1. n \in SUBSET Window
  BY DEF Managed
<1>2. /\ l \in Seq(Window) /\ Unique(l)
      /\ Listed(s.stacking) \subseteq Listed(l)
      /\ Listed(l) \subseteq Listed(s.stacking) \union n
      /\ \A w \in n : ~Skipped(s, w) => w \in Listed(l)
  BY <1>1, LoopOfStack
<1>3. t = [s EXCEPT !.stacking = l]
  BY DEF Stack, Sound, Worlds
<1> HIDE DEF t, l
<1>4. /\ t.stacking = l /\ t.desk = s.desk /\ t.layer = s.layer /\ t.state = s.state
      /\ t.last = s.last /\ t.focus = s.focus /\ t.cur = s.cur
  BY <1>3 DEF Sound, Worlds
<1>5. t.autoRaise = s.autoRaise
  BY <1>3 DEF Sound, Worlds
<1>6. t \in Worlds
  BY <1>2, <1>3 DEF Sound, Worlds
<1>7. Sound(t)
  BY <1>2, <1>4, <1>6 DEF Sound, Managed, Root
<1>8. \A w \in Window : DemotedAt(s, t, w)
  BY <1>4 DEF DemotedAt
<1>9. s.autoRaise => n \subseteq Listed(l)
  BY <1>2 DEF Skipped
<1>10. Follows(s, t)
  BY <1>2, <1>4, <1>5, <1>7, <1>8 DEF Follows
<1> QED BY <1>4, <1>9, <1>10 DEF t

LEMMA RestackFacts ==
  ASSUME StackingAssumption, NEW s, Sound(s), NEW d, NEW w \in Managed(s)
  PROVE  LET t == Restack(s, d, w)
         IN /\ Follows(s, t)
            /\ t.state = s.state /\ t.last = s.last
<1>1. {w} \subseteq Managed(s) /\ (s.focus[d] = {w}) \in BOOLEAN
  OBVIOUS
<1> QED BY <1>1, StackFacts DEF Restack

-----------------------------------------------------------------------------
(* set_state() and neutralize_occluding_windows().                         *)

LEMMA NewStateFacts ==
  ASSUME NEW s, Sound(s), NEW w \in Window, NEW v \in State
  PROVE  LET t == NewState(s, w, v)
         IN /\ Sound(t)
            /\ t.desk = s.desk /\ t.autoRaise = s.autoRaise /\ t.stacking = s.stacking
            /\ t.state = [s.state EXCEPT ![w] = v]
            /\ t.last = [s.last EXCEPT ![w] = s.state[w]]
<1> DEFINE t == NewState(s, w, v)
<1>1. s \in Worlds /\ s.state \in [Window -> State] /\ s.state[w] \in State
  BY DEF Sound, Worlds
<1>2. /\ t.stacking = s.stacking /\ t.desk = s.desk /\ t.focus = s.focus
      /\ t.state = [s.state EXCEPT ![w] = v]
      /\ t.last = [s.last EXCEPT ![w] = s.state[w]]
  BY <1>1 DEF NewState, Worlds
<1>3. t.autoRaise = s.autoRaise
  BY <1>1 DEF NewState, Worlds
<1>4. t \in Worlds
  BY <1>1 DEF NewState, Worlds
<1> HIDE DEF t
<1>5. Sound(t)
  BY <1>2, <1>4 DEF Sound, Managed, Root
<1> QED BY <1>2, <1>3, <1>5 DEF t

(* From s to t the window goes to the state v; the others may be demoted.  *)
SetTo(s, t, w, v) ==
  /\ Follows(NewState(s, w, v), t)
  /\ t.state[w] = v
  /\ t.last[w] = s.state[w]

(* What a change of state of w leaves of the other windows.                *)
LEMMA SetToOthers ==
  ASSUME NEW s, Sound(s), NEW w \in Window, NEW v \in State, NEW t, SetTo(s, t, w, v)
  PROVE  /\ Sound(t) /\ t.desk = s.desk /\ t.autoRaise = s.autoRaise
         /\ Listed(s.stacking) \subseteq Listed(t.stacking)
         /\ \A x \in Window : x # w => DemotedAt(s, t, x)
<1> DEFINE m == NewState(s, w, v)
<1>1. /\ m.desk = s.desk /\ m.autoRaise = s.autoRaise /\ m.stacking = s.stacking
      /\ m.state = [s.state EXCEPT ![w] = v]
      /\ m.last = [s.last EXCEPT ![w] = s.state[w]]
  BY NewStateFacts
<1>2. Follows(m, t)
  BY DEF SetTo
<1> HIDE DEF m
<1>3. ASSUME NEW x \in Window, x # w  PROVE DemotedAt(s, t, x)
  <2>1. m.state[x] = s.state[x] /\ m.last[x] = s.last[x]
    BY <1>1, <1>3 DEF Sound, Worlds
  <2>2. DemotedAt(m, t, x)
    BY <1>2 DEF Follows
  <2> QED BY <2>1, <2>2 DEF DemotedAt
<1>4. /\ Sound(t) /\ t.desk = s.desk
      /\ Listed(s.stacking) \subseteq Listed(t.stacking)
  BY <1>1, <1>2 DEF Follows
<1>5. t.autoRaise = s.autoRaise
  BY <1>1, <1>2 DEF Follows
<1> QED BY <1>3, <1>4, <1>5

(* A fullscreen window that goes back to its last state is demoted.        *)
LEMMA SetToDemotes ==
  ASSUME NEW s, Sound(s), NEW w \in Window, s.state[w] = "fullscreen",
         s.last[w] # "fullscreen", NEW t, SetTo(s, t, w, s.last[w])
  PROVE  Follows(s, t)
<1>1. s.last[w] \in State
  BY DEF Sound, Worlds
<1>2. /\ Sound(t) /\ t.desk = s.desk /\ t.autoRaise = s.autoRaise
      /\ Listed(s.stacking) \subseteq Listed(t.stacking)
      /\ \A x \in Window : x # w => DemotedAt(s, t, x)
  BY <1>1, SetToOthers
<1>3. DemotedAt(s, t, w)
  BY DEF SetTo, DemotedAt
<1> QED BY <1>2, <1>3 DEF Follows

LEMMA StateSetFacts ==
  ASSUME StackingAssumption, NEW s, Sound(s), NEW d, NEW w \in Managed(s),
         NEW v \in State, v # s.state[w],
         NEW cleared, SetTo(s, cleared, w, v)
  PROVE  LET t == StateSet(s, cleared, d, w, v)
             m == NewState(s, w, v)
         IN /\ SetTo(s, t, w, v)
            /\ \/ t.state = m.state /\ t.last = m.last
               \/ t.state = cleared.state /\ t.last = cleared.last
<1> DEFINE m == NewState(s, w, v)
           off == IF IsTiled(s.state[w]) THEN m ELSE Restack(cleared, d, w)
           t == IF IsTiled(v) THEN off ELSE Restack(off, d, w)
           Same(a, b) == a.state = b.state /\ a.last = b.last
<1>1. w \in Window
  BY DEF Managed
<1>2. /\ Sound(m) /\ m.desk = s.desk
      /\ m.state = [s.state EXCEPT ![w] = v]
      /\ m.last = [s.last EXCEPT ![w] = s.state[w]]
  BY <1>1, NewStateFacts
<1>3. Follows(m, cleared) /\ Sound(cleared) /\ cleared.desk = s.desk
      /\ cleared.state[w] = v /\ cleared.last[w] = s.state[w]
  BY <1>2 DEF SetTo, Follows
<1>4. m.state[w] = v /\ m.last[w] = s.state[w]
  BY <1>1, <1>2 DEF Sound, Worlds
<1>5. StateSet(s, cleared, d, w, v) = t
  BY DEF StateSet, OldStateLeft, NewStateEntered
<1>6. Follows(m, m)
  BY <1>2, FollowsSelf
<1> DEFINE Good(x) == Follows(m, x) /\ (Same(x, m) \/ Same(x, cleared))
<1>7. ASSUME NEW x, Good(x)  PROVE Good(Restack(x, d, w))
  <2>1. Sound(x) /\ w \in Managed(x)
    BY <1>2, <1>7 DEF Follows, Managed
  <2> HIDE DEF m
  <2> DEFINE r == Restack(x, d, w)
  <2>2. Follows(x, r) /\ Same(r, x)
    BY <2>1, RestackFacts
  <2> HIDE DEF r
  <2>3. Follows(m, r)
    BY <1>7, <2>2, FollowsOn
  <2>4. Good(r)
    BY <1>7, <2>2, <2>3
  <2> QED BY <2>4 DEF r
<1>8. Good(m) /\ Good(cleared)
  BY <1>3, <1>6
<1> HIDE DEF m, Good
<1>9. Good(off)
  <2>1. CASE IsTiled(s.state[w])
    BY <1>8, <2>1
  <2>2. CASE ~IsTiled(s.state[w])
    <3>1. Good(Restack(cleared, d, w))
      BY <1>7, <1>8
    <3> QED BY <2>2, <3>1
  <2> QED BY <2>1, <2>2
<1> HIDE DEF off
<1>10. Good(t)
  <2>1. CASE IsTiled(v)
    BY <1>9, <2>1
  <2>2. CASE ~IsTiled(v)
    <3>1. Good(Restack(off, d, w))
      BY <1>7, <1>9
    <3> QED BY <2>2, <3>1
  <2> QED BY <2>1, <2>2
<1> HIDE DEF t
<1>11. t.state[w] = v /\ t.last[w] = s.state[w]
  BY <1>3, <1>4, <1>10 DEF Good
<1>12. SetTo(s, t, w, v)
  BY <1>10, <1>11 DEF SetTo, Good, m
<1> QED BY <1>5, <1>10, <1>12 DEF Good, m

(* A leaf that occludes the focused one goes back to its last state.       *)
LEMMA DemoteOtherFacts ==
  ASSUME StackingAssumption, NEW s, Sound(s), NEW d \in Desktop,
         NEW f \in Window, NEW a \in Window
  PROVE  LET t == DemoteOther(s, d, f, a)
         IN Follows(s, t) /\ t.state[f] = s.state[f] /\ t.last[f] = s.last[f]
<1> DEFINE v == s.last[a]
           m == NewState(s, a, v)
           t == StateSet(s, m, d, a, v)
<1>1. CASE ~Occludes(s, d, f, a)
  BY <1>1, FollowsSelf DEF DemoteOther
<1>2. CASE Occludes(s, d, f, a) /\ v = s.state[a]
  BY <1>2, FollowsSelf DEF DemoteOther, StateSet
<1>3. CASE Occludes(s, d, f, a) /\ v # s.state[a]
  <2>1. a \in Managed(s) /\ a # f /\ s.state[a] = "fullscreen" /\ v # "fullscreen"
    BY <1>3 DEF Occludes, Managed, StackingAssumption
  <2>2. v \in State
    BY DEF Sound, Worlds
  <2>3. /\ Sound(m)
        /\ m.state = [s.state EXCEPT ![a] = v]
        /\ m.last = [s.last EXCEPT ![a] = s.state[a]]
    BY <2>2, NewStateFacts
  <2>4. /\ m.state[a] = v /\ m.last[a] = s.state[a]
        /\ m.state[f] = s.state[f] /\ m.last[f] = s.last[f]
    BY <2>1, <2>3 DEF Sound, Worlds
  <2>5. SetTo(s, m, a, v)
    BY <2>3, <2>4, FollowsSelf DEF SetTo
  <2>6. SetTo(s, t, a, v) /\ t.state = m.state /\ t.last = m.last
    BY <1>3, <2>1, <2>2, <2>5, StateSetFacts
  <2>7. DemoteOther(s, d, f, a) = t
    BY <1>3 DEF DemoteOther
  <2> HIDE DEF m, t
  <2>8. Follows(s, t)
    BY <2>1, <2>6, SetToDemotes
  <2> QED BY <2>4, <2>6, <2>7, <2>8
<1> QED BY <1>1, <1>2, <1>3

LEMMA NeutralizeFocusFacts ==
  ASSUME StackingAssumption, NEW s, Sound(s), NEW d \in Desktop, NEW f \in Window
  PROVE  LET t == NeutralizeFocus(s, d, f)
         IN Follows(s, t) /\ t.state[f] = s.state[f] /\ t.last[f] = s.last[f]
<1> DEFINE N == Windows
           Step(x, i) == DemoteOther(x, d, f, i)
           R == {x \in Worlds : Follows(s, x) /\ x.state[f] = s.state[f] /\ x.last[f] = s.last[f]}
           F == [i \in 1..N |-> [x \in R |-> Step(x, i)]]
           Rec(g) == g = [i \in 0..Windows |-> IF i = 0 THEN s ELSE DemoteOther(g[i - 1], d, f, i)]
<1>1. N \in Nat /\ Window = 1..N
  BY DEF StackingAssumption, Window
<1>2. s \in R
  BY FollowsSelf DEF Sound
<1>3. ASSUME NEW i \in 1..N, NEW x \in R  PROVE Step(x, i) \in R
  <2> DEFINE y == Step(x, i)
  <2>1. Sound(x) /\ i \in Window
    BY <1>1 DEF Follows
  <2>2. Follows(x, y) /\ y.state[f] = x.state[f] /\ y.last[f] = x.last[f]
    BY <2>1, DemoteOtherFacts
  <2> HIDE DEF y
  <2>3. Follows(s, y)
    BY <2>2, FollowsOn
  <2>4. y \in Worlds
    BY <2>3 DEF Follows, Sound
  <2>5. y \in R
    BY <2>2, <2>3, <2>4
  <2> QED BY <2>5 DEF y
<1> HIDE DEF N
<1>4. F \in [1..N -> [R -> R]]
  BY <1>3
<1> HIDE DEF R
<1>5. PICK h \in [0..N -> R] : h[0] = s /\ \A i \in 1..N : h[i] = F[i][h[i - 1]]
  <2> HIDE DEF F
  <2> DEFINE h == Iterated(N, R, s, F)
  <2>1. h \in [0..N -> R] /\ h[0] = s /\ \A i \in 1..N : h[i] = F[i][h[i - 1]]
    BY <1>1, <1>2, <1>4, Recursion
  <2> QED BY <2>1
<1>6. \E g : Rec(g)
  <2>1. ASSUME NEW i \in 1..N  PROVE h[i] = Step(h[i - 1], i)
    <3>1. i - 1 \in 0..N
      BY <1>1
    <3>2. h[i - 1] \in R
      BY <1>5, <3>1
    <3>3. h[i] = F[i][h[i - 1]]
      BY <1>5
    <3> HIDE DEF Step
    <3> QED BY <3>2, <3>3 DEF F
  <2>2. \A i \in 0..N : i # 0 => i \in 1..N
    BY <1>1
  <2>3. Rec(h)
    BY <1>5, <2>1, <2>2 DEF N
  <2> QED BY <2>3
<1> DEFINE g == CHOOSE g : Rec(g)
<1>7. Rec(g)
  <2> HIDE DEF Rec
  <2> QED BY <1>6
<1>8. NeutralizeFocus(s, d, f) = g[N]
  BY DEF N, NeutralizeFocus
<1> HIDE DEF g
<1>9. /\ g[0] = s
      /\ \A i \in 0..(N - 1) : i + 1 \in 1..N /\ g[i + 1] = Step(g[i], i + 1)
  <2>1. \A i \in 0..(N - 1) : i + 1 \in 1..N /\ i + 1 \in 0..N /\ i + 1 # 0 /\ (i + 1) - 1 = i
    BY <1>1
  <2>2. 0 \in 0..N
    BY <1>1
  <2> QED BY <1>7, <2>1, <2>2 DEF N
<1> HIDE DEF Step, Rec, F
<1> DEFINE S == {i \in 0..N : g[i] \in R}
<1>10. 0 \in S
  BY <1>1, <1>2, <1>9
<1>11. ASSUME NEW i \in 0..(N - 1), i \in S  PROVE i + 1 \in S
  <2>1. i + 1 \in 1..N /\ i + 1 \in 0..N /\ g[i] \in R /\ g[i + 1] = Step(g[i], i + 1)
    BY <1>1, <1>9, <1>11
  <2>2. g[i + 1] \in R
    BY <1>3, <2>1
  <2> QED BY <2>1, <2>2
<1> HIDE DEF S
<1>12. N \in S
  <2>1. \A i \in 0..N : i \in S
    BY <1>1, <1>10, <1>11, Induction
  <2> QED BY <1>1, <2>1
<1>13. g[N] \in R
  BY <1>12 DEF S
<1> QED BY <1>8, <1>13 DEF R

LEMMA NeutralizeIfFocusedFacts ==
  ASSUME StackingAssumption, NEW s, Sound(s), NEW d \in Desktop, NEW w \in Window
  PROVE  LET t == NeutralizeIfFocused(s, d, w)
         IN Follows(s, t) /\ t.state[w] = s.state[w] /\ t.last[w] = s.last[w]
BY NeutralizeFocusFacts, FollowsSelf DEF NeutralizeIfFocused

LEMMA SetStateFacts ==
  ASSUME StackingAssumption, NEW s, Sound(s), NEW d \in Desktop,
         NEW w \in Managed(s), NEW v \in State, v # s.state[w]
  PROVE  SetTo(s, SetState(s, d, w, v), w, v)
<1> DEFINE m == NewState(s, w, v)
           cleared == NeutralizeIfFocused(m, d, w)
<1>1. w \in Window
  BY DEF Managed
<1>2. /\ Sound(m)
      /\ m.state = [s.state EXCEPT ![w] = v]
      /\ m.last = [s.last EXCEPT ![w] = s.state[w]]
  BY <1>1, NewStateFacts
<1>3. m.state[w] = v /\ m.last[w] = s.state[w]
  BY <1>1, <1>2 DEF Sound, Worlds
<1> HIDE DEF m
<1>4. /\ Follows(m, cleared)
      /\ cleared.state[w] = v /\ cleared.last[w] = s.state[w]
  <2>1. /\ Follows(m, NeutralizeIfFocused(m, d, w))
        /\ NeutralizeIfFocused(m, d, w).state[w] = m.state[w]
        /\ NeutralizeIfFocused(m, d, w).last[w] = m.last[w]
    <3>1. Sound(m)
      BY <1>2
    <3> QED BY <1>1, <3>1, NeutralizeIfFocusedFacts
  <2> QED BY <1>3, <2>1
<1> HIDE DEF cleared
<1>5. SetTo(s, cleared, w, v)
  BY <1>4 DEF SetTo, m
<1>6. SetTo(s, StateSet(s, cleared, d, w, v), w, v)
  BY <1>5, StateSetFacts
<1> QED BY <1>6 DEF SetState, cleared, m

(* A leaf that occludes f, with the ones that occlude it.                  *)
LEMMA DemoteFacts ==
  ASSUME StackingAssumption, NEW s, Sound(s), NEW d \in Desktop,
         NEW f \in Window, NEW a \in Window
  PROVE  Follows(s, Demote(s, d, f, a))
<1> DEFINE v == s.last[a]
           t == SetState(s, d, a, v)
<1>1. CASE ~Occludes(s, d, f, a)
  BY <1>1, FollowsSelf DEF Demote
<1>2. CASE Occludes(s, d, f, a) /\ v = s.state[a]
  BY <1>2, FollowsSelf DEF Demote, SetState, StateSet
<1>3. CASE Occludes(s, d, f, a) /\ v # s.state[a]
  <2>1. a \in Managed(s) /\ s.state[a] = "fullscreen" /\ v # "fullscreen"
    BY <1>3 DEF Occludes, Managed, StackingAssumption
  <2>2. v \in State
    BY DEF Sound, Worlds
  <2>3. SetTo(s, t, a, v)
    BY <1>3, <2>1, <2>2, SetStateFacts
  <2> HIDE DEF t
  <2>4. Follows(s, t)
    BY <2>1, <2>3, SetToDemotes
  <2> QED BY <1>3, <2>4 DEF Demote, t
<1> QED BY <1>1, <1>2, <1>3

LEMMA NeutralizeLeafFacts ==
  ASSUME StackingAssumption, NEW s, Sound(s), NEW d \in Desktop, NEW f \in Window
  PROVE  Follows(s, NeutralizeLeaf(s, d, f))
<1> DEFINE N == Windows
           Step(x, i) == Demote(x, d, f, i)
           R == {x \in Worlds : Follows(s, x)}
           F == [i \in 1..N |-> [x \in R |-> Step(x, i)]]
           Rec(g) == g = [i \in 0..Windows |-> IF i = 0 THEN s ELSE Demote(g[i - 1], d, f, i)]
<1>1. N \in Nat /\ Window = 1..N
  BY DEF StackingAssumption, Window
<1>2. s \in R
  BY FollowsSelf DEF Sound
<1>3. ASSUME NEW i \in 1..N, NEW x \in R  PROVE Step(x, i) \in R
  <2> DEFINE y == Step(x, i)
  <2>1. Sound(x) /\ i \in Window
    BY <1>1 DEF Follows
  <2>2. Follows(x, y)
    BY <2>1, DemoteFacts
  <2> HIDE DEF y
  <2>3. Follows(s, y)
    BY <2>2, FollowsOn
  <2>4. y \in R
    BY <2>3 DEF Follows, Sound
  <2> QED BY <2>4 DEF y
<1> HIDE DEF N
<1>4. F \in [1..N -> [R -> R]]
  BY <1>3
<1> HIDE DEF R
<1>5. PICK h \in [0..N -> R] : h[0] = s /\ \A i \in 1..N : h[i] = F[i][h[i - 1]]
  <2> HIDE DEF F
  <2> DEFINE h == Iterated(N, R, s, F)
  <2>1. h \in [0..N -> R] /\ h[0] = s /\ \A i \in 1..N : h[i] = F[i][h[i - 1]]
    BY <1>1, <1>2, <1>4, Recursion
  <2> QED BY <2>1
<1>6. \E g : Rec(g)
  <2>1. ASSUME NEW i \in 1..N  PROVE h[i] = Step(h[i - 1], i)
    <3>1. i - 1 \in 0..N
      BY <1>1
    <3>2. h[i - 1] \in R
      BY <1>5, <3>1
    <3>3. h[i] = F[i][h[i - 1]]
      BY <1>5
    <3> HIDE DEF Step
    <3> QED BY <3>2, <3>3 DEF F
  <2>2. \A i \in 0..N : i # 0 => i \in 1..N
    BY <1>1
  <2>3. Rec(h)
    BY <1>5, <2>1, <2>2 DEF N
  <2> QED BY <2>3
<1> DEFINE g == CHOOSE g : Rec(g)
<1>7. Rec(g)
  <2> HIDE DEF Rec
  <2> QED BY <1>6
<1>8. NeutralizeLeaf(s, d, f) = g[N]
  BY DEF N, NeutralizeLeaf
<1> HIDE DEF g
<1>9. /\ g[0] = s
      /\ \A i \in 0..(N - 1) : i + 1 \in 1..N /\ g[i + 1] = Step(g[i], i + 1)
  <2>1. \A i \in 0..(N - 1) : i + 1 \in 1..N /\ i + 1 \in 0..N /\ i + 1 # 0 /\ (i + 1) - 1 = i
    BY <1>1
  <2>2. 0 \in 0..N
    BY <1>1
  <2> QED BY <1>7, <2>1, <2>2 DEF N
<1> HIDE DEF Step, Rec, F
<1> DEFINE S == {i \in 0..N : g[i] \in R}
<1>10. 0 \in S
  BY <1>1, <1>2, <1>9
<1>11. ASSUME NEW i \in 0..(N - 1), i \in S  PROVE i + 1 \in S
  <2>1. i + 1 \in 1..N /\ i + 1 \in 0..N /\ g[i] \in R /\ g[i + 1] = Step(g[i], i + 1)
    BY <1>1, <1>9, <1>11
  <2>2. g[i + 1] \in R
    BY <1>3, <2>1
  <2> QED BY <2>1, <2>2
<1> HIDE DEF S
<1>12. N \in S
  <2>1. \A i \in 0..N : i \in S
    BY <1>1, <1>10, <1>11, Induction
  <2> QED BY <1>1, <2>1
<1>13. g[N] \in R
  BY <1>12 DEF S
<1> QED BY <1>8, <1>13 DEF R

LEMMA NeutralizeFacts ==
  ASSUME StackingAssumption, NEW s, Sound(s), NEW d \in Desktop, NEW n
  PROVE  Follows(s, Neutralize(s, d, n))
<1> DEFINE N == Windows
           Step(x, i) == IF i \in n THEN NeutralizeLeaf(x, d, i) ELSE x
           R == {x \in Worlds : Follows(s, x)}
           F == [i \in 1..N |-> [x \in R |-> Step(x, i)]]
           Rec(g) == g = [i \in 0..Windows |-> IF i = 0 THEN s ELSE IF i \in n THEN NeutralizeLeaf(g[i - 1], d, i) ELSE g[i - 1]]
<1>1. N \in Nat /\ Window = 1..N
  BY DEF StackingAssumption, Window
<1>2. s \in R
  BY FollowsSelf DEF Sound
<1>3. ASSUME NEW i \in 1..N, NEW x \in R  PROVE Step(x, i) \in R
  <2> DEFINE y == NeutralizeLeaf(x, d, i)
  <2>1. Sound(x) /\ i \in Window
    BY <1>1 DEF Follows
  <2>2. Follows(x, y)
    BY <2>1, NeutralizeLeafFacts
  <2> HIDE DEF y
  <2>3. Follows(s, y)
    BY <2>2, FollowsOn
  <2>4. y \in R
    BY <2>3 DEF Follows, Sound
  <2> QED BY <2>4 DEF y
<1> HIDE DEF N
<1>4. F \in [1..N -> [R -> R]]
  BY <1>3
<1> HIDE DEF R
<1>5. PICK h \in [0..N -> R] : h[0] = s /\ \A i \in 1..N : h[i] = F[i][h[i - 1]]
  <2> HIDE DEF F
  <2> DEFINE h == Iterated(N, R, s, F)
  <2>1. h \in [0..N -> R] /\ h[0] = s /\ \A i \in 1..N : h[i] = F[i][h[i - 1]]
    BY <1>1, <1>2, <1>4, Recursion
  <2> QED BY <2>1
<1>6. \E g : Rec(g)
  <2>1. ASSUME NEW i \in 1..N  PROVE h[i] = Step(h[i - 1], i)
    <3>1. i - 1 \in 0..N
      BY <1>1
    <3>2. h[i - 1] \in R
      BY <1>5, <3>1
    <3>3. h[i] = F[i][h[i - 1]]
      BY <1>5
    <3> HIDE DEF Step
    <3> QED BY <3>2, <3>3 DEF F
  <2>2. \A i \in 0..N : i # 0 => i \in 1..N
    BY <1>1
  <2>3. Rec(h)
    BY <1>5, <2>1, <2>2 DEF N
  <2> QED BY <2>3
<1> DEFINE g == CHOOSE g : Rec(g)
<1>7. Rec(g)
  <2> HIDE DEF Rec
  <2> QED BY <1>6
<1>8. Neutralize(s, d, n) = g[N]
  BY DEF N, Neutralize
<1> HIDE DEF g
<1>9. /\ g[0] = s
      /\ \A i \in 0..(N - 1) : i + 1 \in 1..N /\ g[i + 1] = Step(g[i], i + 1)
  <2>1. \A i \in 0..(N - 1) : i + 1 \in 1..N /\ i + 1 \in 0..N /\ i + 1 # 0 /\ (i + 1) - 1 = i
    BY <1>1
  <2>2. 0 \in 0..N
    BY <1>1
  <2> QED BY <1>7, <2>1, <2>2 DEF N
<1> HIDE DEF Step, Rec, F
<1> DEFINE S == {i \in 0..N : g[i] \in R}
<1>10. 0 \in S
  BY <1>1, <1>2, <1>9
<1>11. ASSUME NEW i \in 0..(N - 1), i \in S  PROVE i + 1 \in S
  <2>1. i + 1 \in 1..N /\ i + 1 \in 0..N /\ g[i] \in R /\ g[i + 1] = Step(g[i], i + 1)
    BY <1>1, <1>9, <1>11
  <2>2. g[i + 1] \in R
    BY <1>3, <2>1
  <2> QED BY <2>1, <2>2
<1> HIDE DEF S
<1>12. N \in S
  <2>1. \A i \in 0..N : i \in S
    BY <1>1, <1>10, <1>11, Induction
  <2> QED BY <1>1, <2>1
<1>13. g[N] \in R
  BY <1>12 DEF S
<1> QED BY <1>8, <1>13 DEF R

-----------------------------------------------------------------------------
(* set_layer(), focus_node() and activate_node().                          *)

LEMMA SetLayerFacts ==
  ASSUME StackingAssumption, NEW s, Sound(s), NEW d \in Desktop,
         NEW w \in Managed(s), NEW ly \in Layer
  PROVE  Follows(s, SetLayer(s, d, w, ly))
<1> DEFINE m == [s EXCEPT !.layer[w] = ly]
           t == NeutralizeIfFocused(m, d, w)
           r == Restack(t, d, w)
<1>1. w \in Window /\ ly \in Layers
  BY DEF Managed, StackingAssumption
<1>2. /\ m.stacking = s.stacking /\ m.desk = s.desk /\ m.focus = s.focus
      /\ m.state = s.state /\ m.last = s.last
  BY DEF Sound, Worlds
<1>3. m.autoRaise = s.autoRaise
  BY DEF Sound, Worlds
<1>4. m \in Worlds
  BY <1>1 DEF Sound, Worlds
<1>5. SetLayer(s, d, w, ly) = r
  BY DEF SetLayer
<1> HIDE DEF m
<1>6. Sound(m)
  BY <1>2, <1>4 DEF Sound, Managed, Root
<1>7. Follows(s, m)
  BY <1>2, <1>3, <1>6 DEF Follows, DemotedAt
<1>8. Follows(m, t)
  BY <1>1, <1>6, NeutralizeIfFocusedFacts
<1> HIDE DEF t
<1>9. Sound(t) /\ w \in Managed(t)
  BY <1>2, <1>8 DEF Follows, Managed
<1>10. Follows(t, r)
  BY <1>9, RestackFacts
<1> HIDE DEF r
<1>11. Follows(s, t)
  BY <1>7, <1>8, FollowsOn
<1>12. Follows(s, r)
  BY <1>10, <1>11, FollowsOn
<1> QED BY <1>5, <1>12

LEMMA RevealFacts ==
  ASSUME StackingAssumption, NEW s, Sound(s), NEW d \in Desktop, NEW n
  PROVE  Follows(s, Reveal(s, d, n))
BY NeutralizeFacts, FollowsSelf DEF Reveal

(* A desktop gets a focus among its windows, and may become the current    *)
(* one.                                                                    *)
LEMMA NewFocus ==
  ASSUME NEW s, Sound(s), NEW d \in Desktop, NEW n, n \subseteq Root(s, d),
         NEW t, t = [s EXCEPT !.focus[d] = n] \/ t = [s EXCEPT !.cur = d, !.focus[d] = n]
  PROVE  Follows(s, t)
<1>1. n \in SUBSET Window
  BY DEF Root
<1>2. /\ t.stacking = s.stacking /\ t.desk = s.desk
      /\ t.state = s.state /\ t.last = s.last
      /\ t.focus = [s.focus EXCEPT ![d] = n]
  BY DEF Sound, Worlds
<1>3. t.autoRaise = s.autoRaise
  BY DEF Sound, Worlds
<1>4. t \in Worlds
  <2>1. CASE t = [s EXCEPT !.focus[d] = n]
    BY <1>1, <2>1 DEF Sound, Worlds
  <2>2. CASE t = [s EXCEPT !.cur = d, !.focus[d] = n]
    BY <1>1, <2>2 DEF Sound, Worlds
  <2> QED BY <2>1, <2>2
<1>5. \A e \in Desktop : t.focus[e] \subseteq Root(t, e)
  <2>1. ASSUME NEW e \in Desktop  PROVE t.focus[e] \subseteq Root(s, e)
    BY <1>2 DEF Sound, Worlds
  <2> QED BY <1>2, <2>1 DEF Root
<1>6. Sound(t)
  BY <1>2, <1>4, <1>5 DEF Sound, Managed
<1> QED BY <1>2, <1>3, <1>6 DEF Follows, DemotedAt

(* The windows of a desktop are managed.                                   *)
LEMMA RootManaged ==
  ASSUME StackingAssumption, NEW s, NEW d \in Desktop
  PROVE  Root(s, d) \subseteq Managed(s)
BY DEF StackingAssumption, Root, Managed

LEMMA FocusNodeFacts ==
  ASSUME StackingAssumption, NEW s, Sound(s), NEW d \in Desktop,
         NEW n, n \subseteq Root(s, d)
  PROVE  LET t == FocusNode(s, d, n)
         IN Follows(s, t) /\ (s.autoRaise => n \subseteq Listed(t.stacking))
<1> DEFINE r == Reveal(s, d, n)
           f == [r EXCEPT !.cur = d, !.focus[d] = n]
           t == Stack(f, n, TRUE)
<1>1. FocusNode(s, d, n) = t
  BY DEF FocusNode
<1>2. Follows(s, r)
  BY RevealFacts
<1> HIDE DEF r
<1>3. Sound(r) /\ n \subseteq Root(r, d)
  BY <1>2 DEF Follows, Root
<1>4. Follows(r, f)
  BY <1>3, NewFocus
<1> HIDE DEF f
<1>5. Follows(s, f)
  BY <1>2, <1>4, FollowsOn
<1>6. Sound(f) /\ n \subseteq Root(f, d)
  BY <1>5 DEF Follows, Root
<1>7. n \subseteq Managed(f)
  BY <1>6, RootManaged
<1>8. Follows(f, t) /\ (f.autoRaise => n \subseteq Listed(t.stacking))
  BY <1>6, <1>7, StackFacts
<1> HIDE DEF t
<1>9. Follows(s, t)
  BY <1>5, <1>8, FollowsOn
<1>10. f.autoRaise = s.autoRaise
  BY <1>5 DEF Follows
<1> QED BY <1>1, <1>8, <1>9, <1>10

LEMMA ActivateNodeFacts ==
  ASSUME StackingAssumption, NEW s, Sound(s), NEW d \in Desktop,
         NEW n, n \subseteq Root(s, d)
  PROVE  LET t == ActivateNode(s, d, n)
         IN /\ Follows(s, t)
            /\ d # s.cur /\ s.autoRaise => n \subseteq Listed(t.stacking)
<1> DEFINE r == Reveal(s, d, n)
           f == Stack(r, n, TRUE)
           t == [f EXCEPT !.focus[d] = n]
<1>1. CASE d = s.cur
  BY <1>1, FollowsSelf DEF ActivateNode
<1>2. CASE d # s.cur
  <2>1. ActivateNode(s, d, n) = t
    BY <1>2 DEF ActivateNode
  <2>2. Follows(s, r)
    BY RevealFacts
  <2> HIDE DEF r
  <2>3. Sound(r) /\ n \subseteq Root(r, d)
    BY <2>2 DEF Follows, Root
  <2>4. n \subseteq Managed(r)
    BY <2>3, RootManaged
  <2>5. Follows(r, f) /\ (r.autoRaise => n \subseteq Listed(f.stacking))
    BY <2>3, <2>4, StackFacts
  <2> HIDE DEF f
  <2>6. Sound(f) /\ n \subseteq Root(f, d)
    BY <2>3, <2>5 DEF Follows, Root
  <2>7. Follows(f, t)
    BY <2>6, NewFocus
  <2> HIDE DEF t
  <2>8. Follows(s, f)
    BY <2>2, <2>5, FollowsOn
  <2>9. Follows(s, t)
    BY <2>7, <2>8, FollowsOn
  <2>10. r.autoRaise = s.autoRaise
    BY <2>2 DEF Follows
  <2>11. Listed(f.stacking) \subseteq Listed(t.stacking)
    BY <2>7 DEF Follows
  <2> QED BY <2>1, <2>5, <2>9, <2>10, <2>11
<1> QED BY <1>1, <1>2

LEMMA FocusOrActivateFacts ==
  ASSUME StackingAssumption, NEW s, Sound(s), NEW d \in Desktop,
         NEW n, n \subseteq Root(s, d)
  PROVE  LET t == FocusOrActivate(s, d, n)
         IN Follows(s, t) /\ (s.autoRaise => n \subseteq Listed(t.stacking))
<1>1. CASE d = s.cur
  BY <1>1, FocusNodeFacts DEF FocusOrActivate
<1>2. CASE d # s.cur
  BY <1>2, ActivateNodeFacts DEF FocusOrActivate
<1> QED BY <1>1, <1>2

-----------------------------------------------------------------------------
(* insert_node(), unlink_node() and transfer_node().                       *)

LEMMA InsertFacts ==
  ASSUME StackingAssumption, NEW s, Sound(s), NEW d \in Desktop,
         NEW w \in Window, s.desk[w] = None
  PROVE  LET t == Insert(s, d, {w})
         IN /\ Sound(t) /\ t.autoRaise = s.autoRaise /\ t.stacking = s.stacking
            /\ t.desk = [s.desk EXCEPT ![w] = d]
            /\ t.state = s.state /\ t.last = s.last
<1> DEFINE t == Insert(s, d, {w})
           in == IF s.focus[d] = {} THEN {w} ELSE s.focus[d]
           at == [x \in Window |-> IF x \in {w} THEN d ELSE s.desk[x]]
<1>1. in \in SUBSET Window /\ at \in [Window -> Desktop \union {None}]
  BY DEF Sound, Worlds
<1>2. t = [s EXCEPT !.desk = at, !.focus[d] = in]
  BY DEF Insert, Sound, Worlds
<1>3. at = [s.desk EXCEPT ![w] = d]
  BY DEF Sound, Worlds
<1>4. in \subseteq {w} \union Root(s, d)
  BY DEF Sound
<1> HIDE DEF t, at, in
<1>5. /\ t.stacking = s.stacking /\ t.desk = at
      /\ t.state = s.state /\ t.last = s.last
      /\ t.focus = [s.focus EXCEPT ![d] = in]
  BY <1>2 DEF Sound, Worlds
<1>6. t.autoRaise = s.autoRaise
  BY <1>2 DEF Sound, Worlds
<1>7. t \in Worlds
  BY <1>1, <1>2 DEF Sound, Worlds
<1>8. \A x \in Window : x # w => at[x] = s.desk[x]
  BY <1>3 DEF Sound, Worlds
<1>9. at[w] = d /\ d # None
  BY <1>3 DEF Sound, Worlds, StackingAssumption
<1>10. ASSUME NEW e \in Desktop  PROVE t.focus[e] \subseteq Root(t, e)
  <2>1. s.focus[e] \subseteq Root(s, e)
    BY DEF Sound
  <2>2. Root(s, e) \subseteq Root(t, e)
    BY <1>5, <1>8 DEF Root, StackingAssumption
  <2>3. e = d => w \in Root(t, e)
    BY <1>5, <1>9 DEF Root
  <2>4. CASE e = d
    <3>1. t.focus[e] = in
      BY <1>5, <2>4 DEF Sound, Worlds
    <3> QED BY <1>4, <2>2, <2>3, <2>4, <3>1
  <2>5. CASE e # d
    <3>1. t.focus[e] = s.focus[e]
      BY <1>5, <2>5 DEF Sound, Worlds
    <3> QED BY <2>1, <2>2, <3>1
  <2> QED BY <2>4, <2>5
<1>11. Managed(s) \subseteq Managed(t)
  BY <1>5, <1>8, <1>9 DEF Managed
<1>12. Sound(t)
  BY <1>5, <1>7, <1>10, <1>11 DEF Sound
<1> QED BY <1>3, <1>5, <1>6, <1>12 DEF t

(* unlink_node() leaves no window of the node in the focus.                *)
LEMMA FocusLeft ==
  ASSUME StackingAssumption, NEW s, Sound(s), NEW d \in Desktop, NEW n,
         n \intersect s.focus[d] \in {{}, n, s.focus[d]},
         NEW left \in FocusWithout(s, d, n)
  PROVE  left \subseteq Root(s, d) \ n
<1> DEFINE f == s.focus[d]
<1>1. f \subseteq Root(s, d) /\ f \subseteq Window
  BY DEF Sound, Root
<1>2. n \subseteq f /\ ~(f \subseteq n) => Cardinality(f \ n) \in Nat \ {0}
  <2>1. IsFiniteSet(Window)
    BY FS_Interval DEF StackingAssumption, Window
  <2>2. IsFiniteSet(f \ n)
    BY <1>1, <2>1, FS_Subset
  <2>3. Cardinality(f \ n) \in Nat /\ (Cardinality(f \ n) = 0 <=> f \ n = {})
    BY <2>2, FS_CardinalityType, FS_EmptySet
  <2> QED BY <2>3
<1>3. left = {} \/ left = f \ n \/ (left = f /\ ~(f \subseteq n) /\ ~(n \subseteq f))
  <2> DEFINE c == Cardinality(f \ n)
  <2> HIDE DEF f, c
  <2>1. left \in CASE f \subseteq n \/ (n \subseteq f /\ c = 1) -> {{}}
                 [] n \subseteq f /\ c > 1 -> {{}, f \ n}
                 [] OTHER -> {f}
    BY DEF FocusWithout, f, c
  <2>2. n \subseteq f /\ ~(f \subseteq n) => c = 1 \/ c > 1
    BY <1>2 DEF c
  <2> QED BY <2>1, <2>2
<1>4. ~(f \subseteq n) /\ ~(n \subseteq f) => n \intersect f = {}
  OBVIOUS
<1> QED BY <1>1, <1>3, <1>4

(* What a transfer keeps; the windows of n go to the desktop d.            *)
Transferred(s, t, n, d) ==
  /\ Sound(t) /\ t.autoRaise = s.autoRaise
  /\ t.desk = [w \in Window |-> IF w \in n THEN d ELSE s.desk[w]]
  /\ Listed(s.stacking) \subseteq Listed(t.stacking)
  /\ \A w \in Window : DemotedAt(s, t, w)

LEMMA TransferredOn ==
  ASSUME NEW s, NEW n, NEW d, NEW t, Transferred(s, t, n, d), NEW u, Follows(t, u)
  PROVE  Transferred(s, u, n, d)
<1>1. ASSUME NEW w \in Window  PROVE DemotedAt(s, u, w)
  <2>1. DemotedAt(s, t, w) /\ DemotedAt(t, u, w)
    BY DEF Transferred, Follows
  <2> QED BY <2>1 DEF DemotedAt
<1>2. Sound(u) /\ u.autoRaise = s.autoRaise
  BY DEF Transferred, Follows
<1>3. u.desk = t.desk /\ Listed(s.stacking) \subseteq Listed(u.stacking)
  BY DEF Transferred, Follows
<1> QED BY <1>1, <1>2, <1>3 DEF Transferred

LEMMA RelinkFacts ==
  ASSUME StackingAssumption, NEW s, Sound(s), NEW ds \in Desktop, NEW dd \in Desktop,
         NEW n, n \subseteq Root(s, ds), NEW left, left \subseteq Root(s, ds) \ n
  PROVE  Transferred(s, Relink(s, ds, n, dd, left), n, dd)
<1> DEFINE u == Unlink(s, ds, n, left)
           off == [x \in Window |-> IF x \in n THEN None ELSE s.desk[x]]
           in == IF u.focus[dd] = {} THEN n ELSE u.focus[dd]
           at == [x \in Window |-> IF x \in n THEN dd ELSE u.desk[x]]
           t == Insert(u, dd, n)
           r == Stack(t, n, FALSE)
<1>1. Relink(s, ds, n, dd, left) = r
  BY DEF Relink
<1>2. /\ off \in [Window -> Desktop \union {None}]
      /\ left \in SUBSET Window /\ n \in SUBSET Window
  BY DEF Sound, Worlds, Root
<1>3. u = [s EXCEPT !.desk = off, !.focus[ds] = left]
  BY DEF Unlink, Sound, Worlds
<1> HIDE DEF u
<1>4. /\ u.stacking = s.stacking /\ u.desk = off
      /\ u.state = s.state /\ u.last = s.last
      /\ u.focus = [s.focus EXCEPT ![ds] = left]
  BY <1>3 DEF Sound, Worlds
<1>5. u.autoRaise = s.autoRaise
  BY <1>3 DEF Sound, Worlds
<1> HIDE DEF off
<1>6. u \in Worlds
  BY <1>2, <1>3 DEF Sound, Worlds
<1>7. in \in SUBSET Window /\ at \in [Window -> Desktop \union {None}]
  BY <1>2, <1>6 DEF Worlds
<1>8. t = [u EXCEPT !.desk = at, !.focus[dd] = in]
  BY <1>6 DEF Insert, Worlds
<1>9. at = [w \in Window |-> IF w \in n THEN dd ELSE s.desk[w]]
  BY <1>4 DEF off
<1> HIDE DEF t, at, in
<1>10. /\ t.stacking = s.stacking /\ t.desk = at
       /\ t.state = s.state /\ t.last = s.last
       /\ t.focus = [u.focus EXCEPT ![dd] = in]
  BY <1>4, <1>6, <1>8 DEF Worlds
<1>11. t.autoRaise = s.autoRaise
  BY <1>5, <1>6, <1>8 DEF Worlds
<1>12. t \in Worlds
  BY <1>6, <1>7, <1>8 DEF Worlds
<1>13. \A e \in Desktop : Root(s, e) \ n \subseteq Root(t, e)
  BY <1>9, <1>10 DEF Root
<1>14. n \subseteq Root(t, dd)
  BY <1>2, <1>9, <1>10 DEF Root
<1>15. ASSUME NEW e \in Desktop  PROVE u.focus[e] \subseteq Root(t, e)
  <2>1. CASE e = ds
    <3>1. u.focus[e] = left
      BY <1>4, <2>1 DEF Sound, Worlds
    <3> QED BY <1>13, <2>1, <3>1
  <2>2. CASE e # ds
    <3>1. u.focus[e] = s.focus[e]
      BY <1>4, <2>2 DEF Sound, Worlds
    <3>2. s.focus[e] \subseteq Root(s, e)
      BY DEF Sound
    <3>3. Root(s, e) \intersect n = {}
      BY <2>2 DEF Root
    <3> QED BY <1>13, <3>1, <3>2, <3>3
  <2> QED BY <2>1, <2>2
<1>16. ASSUME NEW e \in Desktop  PROVE t.focus[e] \subseteq Root(t, e)
  <2>1. CASE e = dd
    <3>1. t.focus[e] = in
      BY <1>6, <1>10, <2>1 DEF Worlds
    <3> QED BY <1>14, <1>15, <2>1, <3>1 DEF in
  <2>2. CASE e # dd
    <3>1. t.focus[e] = u.focus[e]
      BY <1>6, <1>10, <2>2 DEF Worlds
    <3> QED BY <1>15, <3>1
  <2> QED BY <2>1, <2>2
<1>17. Managed(s) \subseteq Managed(t)
  BY <1>9, <1>10 DEF Managed, StackingAssumption
<1>18. Sound(t)
  BY <1>10, <1>12, <1>16, <1>17 DEF Sound
<1>19. Transferred(s, t, n, dd)
  BY <1>9, <1>10, <1>11, <1>18 DEF Transferred, DemotedAt
<1>20. n \subseteq Managed(t)
  BY <1>14, RootManaged
<1>21. Follows(t, r)
  BY <1>18, <1>20, StackFacts
<1> HIDE DEF r
<1> QED BY <1>1, <1>19, <1>21, TransferredOn

(* The windows of the desktops after a transfer.                           *)
LEMMA TransferredRoots ==
  ASSUME NEW s, NEW ds \in Desktop, NEW dd \in Desktop, NEW n, n \subseteq Root(s, ds),
         NEW t, Transferred(s, t, n, dd)
  PROVE  n \subseteq Root(t, dd) /\ Root(s, ds) \ n \subseteq Root(t, ds)
BY DEF Transferred, Root

LEMMA TransferWithinFacts ==
  ASSUME StackingAssumption, NEW s, Sound(s), NEW d \in Desktop,
         NEW n, n \subseteq Root(s, d), NEW left, left \subseteq Root(s, d) \ n
  PROVE  Transferred(s, TransferWithin(s, d, n, left), n, d)
<1> DEFINE in == Relink(s, d, n, d, left)
           f == s.focus[d]
           t == FocusOrActivate(in, d, f)
<1>1. TransferWithin(s, d, n, left) = IF Held(s, d, n) THEN t ELSE in
  BY DEF TransferWithin
<1>2. Transferred(s, in, n, d)
  BY RelinkFacts
<1> HIDE DEF in
<1>3. CASE ~Held(s, d, n)
  BY <1>1, <1>2, <1>3
<1>4. CASE Held(s, d, n)
  <2>1. n \subseteq Root(in, d)
    BY <1>2, TransferredRoots
  <2>2. Sound(in) /\ f \subseteq Root(in, d)
    BY <1>2, <1>4, <2>1 DEF Transferred, Held
  <2>3. Follows(in, t)
    BY <2>2, FocusOrActivateFacts
  <2> HIDE DEF t
  <2>4. Transferred(s, t, n, d)
    BY <1>2, <2>3, TransferredOn
  <2> QED BY <1>1, <1>4, <2>4
<1> QED BY <1>3, <1>4

LEMMA TransferAcrossFacts ==
  ASSUME StackingAssumption, NEW s, Sound(s), NEW ds \in Desktop, NEW dd \in Desktop,
         NEW n, n \subseteq Root(s, ds), NEW left, left \subseteq Root(s, ds) \ n,
         NEW follow \in BOOLEAN, NEW g, g \subseteq Root(s, ds) \ n
  PROVE  Transferred(s, TransferAcross(s, ds, n, dd, follow, left, g), n, dd)
<1> DEFINE held == Held(s, ds, n)
           in == Relink(s, ds, n, dd, left)
           b == Fallback(in, ds, g)
           quit == FocusOrActivate(in, ds, b)
           to == IF ds = s.cur THEN FocusNode(in, dd, s.focus[ds]) ELSE in
           with == ActivateNode(to, ds, b)
           gone == IF ~held THEN in ELSE IF ~follow THEN quit ELSE with
           m == IF held THEN s.focus[ds] ELSE n
           end == FocusOrActivate(gone, dd, m)
           t == TransferAcross(s, ds, n, dd, follow, left, g)
<1>1. t = end \/ t = gone
  BY DEF TransferAcross, LeaveOld, ReachNew
<1> HIDE DEF t
<1>2. Transferred(s, in, n, dd)
  BY RelinkFacts
<1> HIDE DEF in
<1>3. Sound(in) /\ n \subseteq Root(in, dd) /\ Root(s, ds) \ n \subseteq Root(in, ds)
  BY <1>2, TransferredRoots DEF Transferred
<1>4. b \subseteq Root(in, ds)
  BY <1>3 DEF Fallback, Sound
<1> HIDE DEF b
<1>5. m \subseteq n
  BY DEF Held
<1>6. Follows(in, quit)
  BY <1>3, <1>4, FocusOrActivateFacts
<1> HIDE DEF quit
<1>7. held => Follows(in, to)
  <2>1. CASE held /\ ds = s.cur
    <3>1. s.focus[ds] \subseteq Root(in, dd)
      BY <1>3, <2>1 DEF Held
    <3> QED BY <1>3, <2>1, <3>1, FocusNodeFacts
  <2>2. CASE ds # s.cur
    BY <1>3, <2>2, FollowsSelf
  <2> QED BY <2>1, <2>2
<1> HIDE DEF to
<1>8. held => Follows(in, with)
  <2> SUFFICES ASSUME held  PROVE Follows(in, with)
    OBVIOUS
  <2>1. Sound(to) /\ b \subseteq Root(to, ds)
    BY <1>4, <1>7 DEF Follows, Root
  <2>2. Follows(to, with)
    BY <2>1, ActivateNodeFacts
  <2> HIDE DEF with
  <2> QED BY <1>7, <2>2, FollowsOn
<1> HIDE DEF with
<1>9. Follows(in, gone)
  <2>1. Follows(in, in)
    BY <1>3, FollowsSelf
  <2> HIDE DEF held
  <2> QED BY <1>6, <1>8, <2>1
<1> HIDE DEF gone, m
<1>10. Sound(gone) /\ m \subseteq Root(gone, dd)
  BY <1>3, <1>5, <1>9 DEF Follows, Root
<1>11. Follows(gone, end)
  BY <1>10, FocusOrActivateFacts
<1> HIDE DEF end
<1>12. Transferred(s, gone, n, dd)
  BY <1>2, <1>9, TransferredOn
<1>13. Transferred(s, end, n, dd)
  BY <1>11, <1>12, TransferredOn
<1> QED BY <1>1, <1>12, <1>13 DEF t

-----------------------------------------------------------------------------
(* The invariant, the steps and the theorems.                              *)

(* ListComplete, with what the handlers need of the focus: were it left on *)
(* a window of another desktop, or on one that is gone, the next handler   *)
(* would put that window in the list.                                      *)
Inv ==
  /\ ListComplete
  /\ \A d \in Desktop : focus[d] \subseteq Root(World, d)

(* The window has the same state, or leaves the fullscreen one.            *)
KeptAt(w) ==
  \/ state'[w] = state[w]
  \/ state[w] = "fullscreen" /\ state'[w] = last[w] /\ last'[w] = "fullscreen"

Keeps == \A w \in Window : desk[w] # None /\ desk'[w] # None => KeptAt(w)

(* A world that the variables are the fields of.                           *)
Now(s) ==
  /\ s.desk = desk /\ s.state = state /\ s.last = last
  /\ s.stacking = stacking /\ s.focus = focus

LEMMA WorldSound ==
  ASSUME Inv
  PROVE  /\ Sound(World) /\ Now(World) /\ World.autoRaise
         /\ Managed(World) = Listed(stacking)
         /\ World.cur = cur /\ World.layer = layer
<1>1. /\ World.desk = desk /\ World.state = state /\ World.last = last
      /\ World.stacking = stacking /\ World.focus = focus /\ World.cur = cur
      /\ World.layer = layer
  BY DEF World
<1>2. World.autoRaise
  BY DEF World
<1>3. World \in Worlds
  BY DEF Inv, ListComplete, TypeOK, World, Worlds
<1>4. \A w \in Listed(stacking) : w \in Window
  BY ElementOfSeq DEF Inv, ListComplete, TypeOK, Listed
<1>5. Managed(World) = Listed(stacking)
  BY <1>1, <1>4 DEF Managed, Inv, ListComplete
<1>6. Sound(World)
  BY <1>1, <1>3, <1>5 DEF Sound, Inv, ListComplete
<1> QED BY <1>1, <1>2, <1>5, <1>6 DEF Now

(* A handler that ends in a sound world with all its clients in the list.  *)
LEMMA BecomesInv ==
  ASSUME NEW t, Becomes(t), Sound(t), Managed(t) \subseteq Listed(t.stacking)
  PROVE  Inv'
<1>1. TypeOK'
  BY DEF TypeOK, Becomes, Sound, Worlds
<1>2. Unique(stacking')
  BY DEF Becomes, Sound
<1>3. \A w \in Window : w \in Listed(stacking') <=> desk'[w] # None
  BY DEF Becomes, Sound, Managed
<1>4. \A d \in Desktop : focus'[d] \subseteq {w \in Window : desk'[w] = d}
  BY DEF Becomes, Sound, Root
<1>5. ListComplete'
  BY <1>1, <1>2, <1>3 DEF ListComplete
<1>6. \A d \in Desktop : Root(World, d)' = {w \in Window : desk'[w] = d}
  BY DEF Root, World
<1> QED BY <1>4, <1>5, <1>6 DEF Inv

LEMMA BecomesKept ==
  ASSUME NEW s, Now(s), NEW t, Becomes(t), NEW w \in Window, DemotedAt(s, t, w)
  PROVE  KeptAt(w)
BY DEF Now, Becomes, DemotedAt, KeptAt

(* The handlers that move no window.                                       *)
LEMMA StepFollows ==
  ASSUME Inv, NEW s, Now(s), NEW t, Becomes(t), Follows(s, t)
  PROVE  Inv' /\ Keeps
<1>1. Sound(t) /\ t.desk = desk /\ Listed(stacking) \subseteq Listed(t.stacking)
  BY DEF Follows, Now
<1>2. Managed(t) \subseteq Listed(stacking)
  BY <1>1 DEF Managed, Inv, ListComplete
<1>3. Inv'
  BY <1>1, <1>2, BecomesInv
<1>4. \A w \in Window : KeptAt(w)
  BY BecomesKept DEF Follows
<1> QED BY <1>3, <1>4 DEF Keeps

(* The handlers that move the windows of a node to a desktop.              *)
LEMMA StepTransferred ==
  ASSUME Inv, NEW s, Now(s), NEW n, NEW d, n \subseteq Managed(s),
         NEW t, Becomes(t), Transferred(s, t, n, d)
  PROVE  Inv' /\ Keeps
<1>1. /\ Sound(t) /\ Listed(stacking) \subseteq Listed(t.stacking)
      /\ t.desk = [w \in Window |-> IF w \in n THEN d ELSE desk[w]]
  BY DEF Transferred, Now
<1>2. Managed(t) \subseteq Listed(stacking)
  BY <1>1 DEF Managed, Inv, ListComplete, Now
<1>3. Inv'
  BY <1>1, <1>2, BecomesInv
<1>4. \A w \in Window : KeptAt(w)
  BY BecomesKept DEF Transferred
<1> QED BY <1>3, <1>4 DEF Keeps

LEMMA NewestInRoot ==
  ASSUME NEW s, NEW d, NEW n \in Newest(s, d)
  PROVE  n \subseteq Root(s, d)
BY DEF Newest, Nodes

LEMMA ChangeLayerStep ==
  ASSUME StackingAssumption, Inv, NEW w \in Window, NEW ly \in Layer, ChangeLayer(w, ly)
  PROVE  Inv' /\ Keeps
<1> DEFINE t == SetLayer(World, desk[w], w, ly)
<1>1. Sound(World) /\ Now(World) /\ Becomes(t)
  BY WorldSound DEF ChangeLayer
<1>2. desk[w] \in Desktop /\ w \in Managed(World)
  BY <1>1 DEF ChangeLayer, Inv, ListComplete, TypeOK, Managed, Now
<1>3. Follows(World, t)
  BY <1>1, <1>2, SetLayerFacts
<1> HIDE DEF t
<1> QED BY <1>1, <1>3, StepFollows

LEMMA ChangeStateStep ==
  ASSUME StackingAssumption, Inv, NEW w \in Window, NEW v \in State, ChangeState(w, v)
  PROVE  /\ Inv'
         /\ state'[w] = v
         /\ \A x \in Window : x # w => KeptAt(x)
<1> DEFINE s == World
           t == SetState(s, desk[w], w, v)
<1>1. Sound(s) /\ Now(s) /\ Becomes(t)
  BY WorldSound DEF ChangeState
<1> HIDE DEF s
<1>2. desk[w] \in Desktop /\ w \in Managed(s) /\ v # s.state[w]
  BY <1>1 DEF ChangeState, Inv, ListComplete, TypeOK, Managed, Now
<1>3. SetTo(s, t, w, v)
  BY <1>1, <1>2, SetStateFacts
<1> HIDE DEF t
<1>4. /\ Sound(t) /\ t.desk = desk /\ Listed(stacking) \subseteq Listed(t.stacking)
      /\ \A x \in Window : x # w => DemotedAt(s, t, x)
  BY <1>1, <1>3, SetToOthers DEF Now
<1>5. Managed(t) \subseteq Listed(stacking)
  BY <1>4 DEF Managed, Inv, ListComplete
<1>6. Inv'
  BY <1>1, <1>4, <1>5, BecomesInv
<1>7. state'[w] = v
  BY <1>1, <1>3 DEF SetTo, Becomes
<1> QED BY <1>1, <1>4, <1>6, <1>7, BecomesKept

LEMMA FocusStep ==
  ASSUME StackingAssumption, Inv, NEW d \in Desktop, NEW n, Focus(d, n)
  PROVE  Inv' /\ Keeps
<1> DEFINE t == FocusNode(World, d, n)
<1>1. Sound(World) /\ Now(World) /\ Becomes(t) /\ n \subseteq Root(World, d)
  BY WorldSound, NewestInRoot DEF Focus
<1>2. Follows(World, t)
  BY <1>1, FocusNodeFacts
<1> HIDE DEF t
<1> QED BY <1>1, <1>2, StepFollows

LEMMA ActivateStep ==
  ASSUME StackingAssumption, Inv, NEW d \in Desktop, NEW n, Activate(d, n)
  PROVE  Inv' /\ Keeps
<1> DEFINE t == ActivateNode(World, d, n)
<1>1. Sound(World) /\ Now(World) /\ Becomes(t) /\ n \subseteq Root(World, d)
  BY WorldSound, NewestInRoot DEF Activate
<1>2. Follows(World, t)
  BY <1>1, ActivateNodeFacts
<1> HIDE DEF t
<1> QED BY <1>1, <1>2, StepFollows

LEMMA PointerMoveStep ==
  ASSUME StackingAssumption, Inv, NEW d \in Desktop, PointerMove(d)
  PROVE  Inv' /\ Keeps
<1> DEFINE quiet == [World EXCEPT !.autoRaise = FALSE]
<1>1. Sound(World) /\ Now(World)
  BY WorldSound
<1>2. /\ quiet.desk = desk /\ quiet.state = state /\ quiet.last = last
      /\ quiet.stacking = stacking /\ quiet.focus = focus
  BY DEF World
<1>3. quiet \in Worlds
  BY <1>1 DEF Sound, Worlds
<1>4. PICK n : n \subseteq Root(World, d) /\ Becomes(FocusNode(quiet, d, n))
  <2>1. CASE \E w \in Root(World, d) : Becomes(FocusNode(quiet, d, {w}))
    <3>1. PICK w \in Root(World, d) : Becomes(FocusNode(quiet, d, {w}))
      BY <2>1
    <3> QED BY <3>1
  <2>2. CASE \E g \in Newest(World, d) : Becomes(FocusNode(quiet, d, Fallback(World, d, g)))
    <3>1. PICK g \in Newest(World, d) : Becomes(FocusNode(quiet, d, Fallback(World, d, g)))
      BY <2>2
    <3>2. Fallback(World, d, g) \subseteq Root(World, d)
      BY <1>1, NewestInRoot DEF Fallback, Sound
    <3> HIDE DEF quiet
    <3> QED BY <3>1, <3>2
  <2> QED BY <2>1, <2>2 DEF PointerMove
<1> HIDE DEF quiet
<1>5. Now(quiet)
  BY <1>2 DEF Now
<1>6. Sound(quiet) /\ n \subseteq Root(quiet, d)
  BY <1>1, <1>2, <1>3, <1>4 DEF Sound, Now, Managed, Root
<1> DEFINE t == FocusNode(quiet, d, n)
<1>7. Becomes(t) /\ Follows(quiet, t)
  BY <1>4, <1>6, FocusNodeFacts
<1> HIDE DEF t
<1> QED BY <1>5, <1>7, StepFollows

LEMMA ManageStep ==
  ASSUME StackingAssumption, Inv, NEW w \in Window, NEW d \in Desktop,
         NEW ly \in Layer, NEW v \in State,
         NEW takesFocus \in BOOLEAN, NEW follow \in BOOLEAN,
         Manage(w, d, ly, v, takesFocus, follow)
  PROVE  Inv' /\ Keeps
<1> DEFINE s0 == [World EXCEPT !.layer[w] = ly]
           s1 == Insert(s0, d, {w})
           s2 == SetState(s1, d, w, v)
           t == IF ~takesFocus THEN Stack(s2, {w}, FALSE)
                ELSE IF follow THEN FocusNode(s2, d, {w})
                ELSE FocusOrActivate(s2, d, {w})
<1>1. Becomes(t) /\ desk[w] = None
  BY DEF Manage
<1>2. Sound(World) /\ Now(World) /\ World.autoRaise
  BY WorldSound
<1>3. /\ s0.desk = desk /\ s0.state = state /\ s0.last = last
      /\ s0.stacking = stacking /\ s0.focus = focus
  BY <1>2 DEF World
<1>4. s0.autoRaise
  BY DEF World
<1>5. s0 \in Worlds
  BY <1>2 DEF Sound, Worlds, StackingAssumption
<1> HIDE DEF s0
<1>6. Sound(s0)
  BY <1>2, <1>3, <1>5 DEF Sound, Now, Managed, Root
<1>7. /\ Sound(s1) /\ s1.autoRaise = s0.autoRaise /\ s1.stacking = stacking
      /\ s1.desk = [desk EXCEPT ![w] = d] /\ s1.state = state /\ s1.last = last
  <2>1. s0.desk[w] = None
    BY <1>1, <1>3
  <2> QED BY <1>3, <1>6, <2>1, InsertFacts
<1> HIDE DEF s1
<1>8. s1.desk[w] = d /\ \A x \in Window : x # w => s1.desk[x] = desk[x]
  BY <1>7 DEF Inv, ListComplete, TypeOK
<1>9. w \in Managed(s1)
  BY <1>8 DEF Managed, StackingAssumption
<1>10. /\ Sound(s2) /\ s2.desk = s1.desk /\ s2.autoRaise = s1.autoRaise
       /\ Listed(s1.stacking) \subseteq Listed(s2.stacking)
       /\ \A x \in Window : x # w => DemotedAt(s1, s2, x)
  <2>1. CASE v = s1.state[w]
    <3>1. s2 = s1
      BY <2>1 DEF SetState, StateSet
    <3> QED BY <1>7, <3>1 DEF DemotedAt
  <2>2. CASE v # s1.state[w]
    <3>1. SetTo(s1, s2, w, v)
      BY <1>7, <1>9, <2>2, SetStateFacts
    <3> HIDE DEF s2
    <3> QED BY <1>7, <3>1, SetToOthers
  <2> QED BY <2>1, <2>2
<1> HIDE DEF s2
<1>11. s2.autoRaise
  BY <1>4, <1>7, <1>10
<1>12. {w} \subseteq Root(s2, d) /\ {w} \subseteq Managed(s2)
  BY <1>8, <1>9, <1>10 DEF Root, Managed
<1>13. Follows(s2, t) /\ {w} \subseteq Listed(t.stacking)
  <2>1. CASE ~takesFocus
    BY <1>10, <1>11, <1>12, <2>1, StackFacts
  <2>2. CASE takesFocus /\ follow
    BY <1>10, <1>11, <1>12, <2>2, FocusNodeFacts
  <2>3. CASE takesFocus /\ ~follow
    BY <1>10, <1>11, <1>12, <2>3, FocusOrActivateFacts
  <2> QED BY <2>1, <2>2, <2>3
<1> HIDE DEF t
<1>14. /\ Sound(t) /\ t.desk = s1.desk
       /\ Listed(stacking) \union {w} \subseteq Listed(t.stacking)
  BY <1>7, <1>10, <1>13 DEF Follows
<1>15. Managed(t) \subseteq Listed(t.stacking)
  BY <1>8, <1>14 DEF Managed, Inv, ListComplete
<1>16. Inv'
  BY <1>1, <1>14, <1>15, BecomesInv
<1>17. ASSUME NEW x \in Window, x # w  PROVE KeptAt(x)
  <2>1. DemotedAt(s1, s2, x) /\ DemotedAt(s2, t, x)
    BY <1>10, <1>13, <1>17 DEF Follows
  <2>2. DemotedAt(World, t, x)
    BY <1>2, <1>7, <2>1 DEF DemotedAt, Now
  <2> QED BY <1>1, <1>2, <2>2, BecomesKept
<1> QED BY <1>1, <1>16, <1>17 DEF Keeps

LEMMA UnmanageStep ==
  ASSUME StackingAssumption, Inv, NEW w \in Window, Unmanage(w)
  PROVE  Inv' /\ Keeps
<1> DEFINE d == desk[w]
           gone(left) == [Unlink(World, d, {w}, left) EXCEPT
                            !.stacking = Without(@, w), !.layer[w] = "normal",
                            !.state[w] = "tiled", !.last[w] = "tiled"]
           end(left, g) == IF left = {} THEN FocusOrActivate(gone(left), d, g) ELSE gone(left)
<1>1. PICK left \in FocusWithout(World, d, {w}) :
        \E g \in Newest(gone(left), d) : Becomes(end(left, g))
  BY DEF Unmanage
<1>2. PICK g \in Newest(gone(left), d) : Becomes(end(left, g))
  BY <1>1
<1>3. Sound(World) /\ Now(World)
  BY WorldSound
<1>4. d \in Desktop
  BY DEF Unmanage, Inv, ListComplete, TypeOK
<1>5. left \subseteq Root(World, d) \ {w}
  <2> DEFINE s == World
  <2> HIDE DEF s
  <2>1. {w} \intersect s.focus[d] \in {{}, {w}, s.focus[d]}
    OBVIOUS
  <2>2. left \in FocusWithout(s, d, {w}) /\ Sound(s)
    BY <1>1, <1>3 DEF s
  <2>3. left \subseteq Root(s, d) \ {w}
    BY <1>4, <2>1, <2>2, FocusLeft
  <2> QED BY <2>3 DEF s
<1> DEFINE s == gone(left)
           off == [x \in Window |-> IF x \in {w} THEN None ELSE desk[x]]
           l == Without(stacking, w)
           t == end(left, g)
<1>6. /\ off \in [Window -> Desktop \union {None}]
      /\ left \in SUBSET Window
  BY <1>5 DEF Root, Inv, ListComplete, TypeOK
<1>7. l \in Seq(Window) /\ Unique(l) /\ Listed(l) = Listed(stacking) \ {w}
  <2>1. stacking \in Seq(Window) /\ Unique(stacking)
    BY DEF Inv, ListComplete, TypeOK
  <2> QED BY <2>1, WithoutOrder
<1> HIDE DEF l
<1> DEFINE u == [World EXCEPT !.desk = off, !.focus[d] = left]
<1>8. Unlink(World, d, {w}, left) = u
  BY DEF Unlink, World
<1>9. /\ u \in Worlds /\ u.stacking = stacking /\ u.desk = off
      /\ u.focus = [focus EXCEPT ![d] = left]
      /\ u.state = state /\ u.last = last
  <2>1. u \in Worlds
    BY <1>3, <1>6 DEF Sound, Worlds
  <2> QED BY <1>3, <2>1 DEF Sound, Worlds, Now
<1>10. s = [u EXCEPT !.stacking = l, !.layer[w] = "normal",
                     !.state[w] = "tiled", !.last[w] = "tiled"]
  BY <1>8, <1>9 DEF l
<1> HIDE DEF u
<1>11. s \in Worlds
  <2>1. "tiled" \in State /\ "normal" \in Layers
    BY DEF State, States, Layers
  <2> HIDE DEF s
  <2> QED BY <1>7, <1>9, <1>10, <2>1 DEF Worlds
<1>12. /\ s.stacking = l /\ s.desk = off /\ s.focus = [focus EXCEPT ![d] = left]
       /\ s.state = [state EXCEPT ![w] = "tiled"]
       /\ s.last = [last EXCEPT ![w] = "tiled"]
  <2> HIDE DEF s
  <2> QED BY <1>9, <1>10 DEF Worlds
<1> HIDE DEF off, gone, s
<1>13. off[w] = None /\ \A x \in Window : x # w => off[x] = desk[x]
  BY DEF off
<1>14. \A e \in Desktop : Root(s, e) = Root(World, e) \ {w}
  BY <1>3, <1>12, <1>13 DEF Root, Now, StackingAssumption
<1>15. Managed(s) = Listed(stacking) \ {w}
  <2>1. Managed(World) = Listed(stacking)
    BY WorldSound
  <2> QED BY <1>3, <1>12, <1>13, <2>1 DEF Managed, Now
<1>16. ASSUME NEW e \in Desktop  PROVE s.focus[e] \subseteq Root(s, e)
  <2>1. CASE e = d
    <3>1. s.focus[e] = left
      BY <1>12, <2>1 DEF Inv, ListComplete, TypeOK
    <3> QED BY <1>5, <1>14, <2>1, <3>1
  <2>2. CASE e # d
    <3>1. s.focus[e] = focus[e]
      BY <1>12, <2>2 DEF Inv, ListComplete, TypeOK
    <3>2. focus[e] \subseteq Root(World, e)
      BY DEF Inv
    <3>3. w \notin Root(World, e)
      BY <1>3, <2>2 DEF Root, Now
    <3> QED BY <1>14, <3>1, <3>2, <3>3
  <2> QED BY <2>1, <2>2
<1>17. Sound(s)
  BY <1>7, <1>11, <1>12, <1>15, <1>16 DEF Sound
<1>18. Follows(s, t)
  <2>1. CASE left = {}
    <3>1. g \subseteq Root(s, d)
      BY <1>2, NewestInRoot DEF s
    <3>2. t = FocusOrActivate(s, d, g)
      BY <2>1 DEF s
    <3> HIDE DEF t
    <3> QED BY <1>4, <1>17, <3>1, <3>2, FocusOrActivateFacts
  <2>2. CASE left # {}
    BY <1>17, <2>2, FollowsSelf DEF s
  <2> QED BY <2>1, <2>2
<1>19. Becomes(t)
  BY <1>2
<1> HIDE DEF t
<1>20. Sound(t) /\ t.desk = off /\ Listed(l) \subseteq Listed(t.stacking)
  BY <1>12, <1>18 DEF Follows
<1>21. Managed(t) \subseteq Listed(t.stacking)
  BY <1>7, <1>12, <1>15, <1>20 DEF Managed
<1>22. Inv'
  BY <1>19, <1>20, <1>21, BecomesInv
<1>23. desk'[w] = None
  BY <1>13, <1>19, <1>20 DEF Becomes
<1>24. ASSUME NEW x \in Window, x # w  PROVE KeptAt(x)
  <2>1. s.state[x] = state[x] /\ s.last[x] = last[x]
    BY <1>12, <1>24 DEF Inv, ListComplete, TypeOK
  <2>2. DemotedAt(s, t, x)
    BY <1>18 DEF Follows
  <2>3. DemotedAt(World, t, x)
    BY <1>3, <2>1, <2>2 DEF DemotedAt, Now
  <2> QED BY <1>3, <1>19, <2>3, BecomesKept
<1> QED BY <1>22, <1>23, <1>24 DEF Keeps

LEMMA MoveStep ==
  ASSUME StackingAssumption, Inv, NEW d \in Desktop, NEW n, Move(d, n)
  PROVE  Inv' /\ Keeps
<1> DEFINE s == World
<1>1. PICK left \in FocusWithout(s, d, n) : Becomes(TransferWithin(s, d, n, left))
  BY DEF Move
<1>2. n \in Nodes(s, d)
  BY DEF Move
<1>3. Sound(s) /\ Now(s)
  BY WorldSound
<1> HIDE DEF s
<1>4. n \subseteq Root(s, d) /\ n \subseteq Managed(s)
  BY <1>2, RootManaged DEF Nodes
<1>5. left \subseteq Root(s, d) \ n
  <2>1. n \intersect s.focus[d] \in {{}, n, s.focus[d]}
    BY <1>2 DEF Nodes
  <2> QED BY <1>1, <1>3, <2>1, FocusLeft
<1> DEFINE t == TransferWithin(s, d, n, left)
<1>6. Becomes(t) /\ Transferred(s, t, n, d)
  BY <1>1, <1>3, <1>4, <1>5, TransferWithinFacts
<1> HIDE DEF t
<1> QED BY <1>3, <1>4, <1>6, StepTransferred

LEMMA SendStep ==
  ASSUME StackingAssumption, Inv, NEW ds \in Desktop, NEW dd \in Desktop, NEW n,
         NEW follow \in BOOLEAN, Send(ds, n, dd, follow)
  PROVE  Inv' /\ Keeps
<1> DEFINE s == World
<1>1. PICK left \in FocusWithout(s, ds, n) :
        \E g \in Newest(Unlink(s, ds, n, left), ds) :
          Becomes(TransferAcross(s, ds, n, dd, follow, left, g))
  BY DEF Send
<1>2. PICK g \in Newest(Unlink(s, ds, n, left), ds) :
        Becomes(TransferAcross(s, ds, n, dd, follow, left, g))
  BY <1>1
<1>3. n \in Nodes(s, ds)
  BY DEF Send
<1>4. Sound(s) /\ Now(s)
  BY WorldSound
<1> HIDE DEF s
<1>5. n \subseteq Root(s, ds) /\ n \subseteq Managed(s)
  BY <1>3, RootManaged DEF Nodes
<1>6. left \subseteq Root(s, ds) \ n
  <2>1. n \intersect s.focus[ds] \in {{}, n, s.focus[ds]}
    BY <1>3 DEF Nodes
  <2> QED BY <1>1, <1>4, <2>1, FocusLeft
<1>7. g \subseteq Root(s, ds) \ n
  <2> DEFINE u == Unlink(s, ds, n, left)
             off == [x \in Window |-> IF x \in n THEN None ELSE s.desk[x]]
  <2>1. g \subseteq Root(u, ds)
    BY <1>2, NewestInRoot
  <2>2. u.desk = off
    BY <1>4 DEF Unlink, Sound, Worlds
  <2> HIDE DEF u
  <2>3. Root(u, ds) \subseteq Root(s, ds) \ n
    BY <2>2 DEF Root, StackingAssumption
  <2> QED BY <2>1, <2>3
<1> DEFINE t == TransferAcross(s, ds, n, dd, follow, left, g)
<1>8. Becomes(t) /\ Transferred(s, t, n, dd)
  BY <1>2, <1>4, <1>5, <1>6, <1>7, TransferAcrossFacts
<1> HIDE DEF t
<1> QED BY <1>4, <1>5, <1>8, StepTransferred

LEMMA InvInit ==
  ASSUME StackingAssumption, Init
  PROVE  Inv
<1>1. TypeOK
  BY DEF Init, TypeOK, State, States, Layers
<1>2. Listed(stacking) = {} /\ Unique(stacking)
  BY DEF Init, Listed, Unique
<1>3. \A d \in Desktop : focus[d] = {}
  BY DEF Init
<1> QED BY <1>1, <1>2, <1>3 DEF Inv, ListComplete, Init

(* What a step does: every action but ChangeState keeps all the states.    *)
LEMMA Steps ==
  ASSUME StackingAssumption, Inv, [Next]_vars
  PROVE  /\ Inv'
         /\ \A w \in Window :
              desk[w] # None /\ desk'[w] # None => KeptAt(w) \/ ChangeState(w, state'[w])
<1>1. CASE \E w \in Window, ly \in Layer : ChangeLayer(w, ly)
  BY <1>1, ChangeLayerStep DEF Keeps
<1>2. CASE \E w \in Window, v \in State : ChangeState(w, v)
  <2>1. PICK w \in Window, v \in State : ChangeState(w, v)
    BY <1>2
  <2>2. Inv' /\ state'[w] = v /\ \A x \in Window : x # w => KeptAt(x)
    BY <2>1, ChangeStateStep
  <2>3. ChangeState(w, state'[w])
    BY <2>1, <2>2
  <2> QED BY <2>2, <2>3
<1>3. CASE \E d \in Desktop, n \in SUBSET Window : Focus(d, n)
  BY <1>3, FocusStep DEF Keeps
<1>4. CASE \E d \in Desktop, n \in SUBSET Window : Activate(d, n)
  BY <1>4, ActivateStep DEF Keeps
<1>5. CASE \E d \in Desktop : PointerMove(d)
  BY <1>5, PointerMoveStep DEF Keeps
<1>6. CASE \E w \in Window, d \in Desktop, ly \in Layer, v \in State,
              takesFocus, follow \in BOOLEAN : Manage(w, d, ly, v, takesFocus, follow)
  BY <1>6, ManageStep DEF Keeps
<1>7. CASE \E w \in Window : Unmanage(w)
  BY <1>7, UnmanageStep DEF Keeps
<1>8. CASE \E d \in Desktop, n \in SUBSET Window : Move(d, n)
  BY <1>8, MoveStep DEF Keeps
<1>9. CASE \E ds, dd \in Desktop, n \in SUBSET Window, follow \in BOOLEAN :
             Send(ds, n, dd, follow)
  BY <1>9, SendStep DEF Keeps
<1>10. CASE UNCHANGED vars
  <2>1. /\ desk' = desk /\ layer' = layer /\ state' = state /\ last' = last
        /\ stacking' = stacking /\ focus' = focus /\ cur' = cur
    BY <1>10 DEF vars
  <2>2. Inv'
    BY <2>1 DEF Inv, ListComplete, TypeOK, Root, World
  <2> QED BY <2>1, <2>2 DEF KeptAt
<1> QED BY <1>1, <1>2, <1>3, <1>4, <1>5, <1>6, <1>7, <1>8, <1>9, <1>10 DEF Next

THEOREM InvHolds == Spec => []Inv
<1>1. Init => Inv
  BY InvInit, StackingAssumption
<1>2. Inv /\ [Next]_vars => Inv'
  BY Steps, StackingAssumption
<1> QED BY <1>1, <1>2, PTL DEF Spec

(* stack(), unmanage_window() and every handler that calls them: when a    *)
(* handler has ended, the stacking list holds every client of every        *)
(* desktop, once, and nothing else.                                        *)
THEOREM ListCompleteHolds == Spec => []ListComplete
<1>1. Inv => ListComplete
  BY DEF Inv
<1> QED BY <1>1, InvHolds, PTL

(* set_state() and neutralize_occluding_windows(): a window changes state  *)
(* without a command of its own only by leaving the fullscreen state for   *)
(* the one it had before.                                                  *)
THEOREM OnlyFullscreenDemotedHolds == Spec => OnlyFullscreenDemoted
<1> DEFINE A == \A w \in Window :
                  desk[w] # None /\ desk'[w] # None /\ state'[w] # state[w] =>
                    \/ ChangeState(w, state'[w])
                    \/ /\ state[w] = "fullscreen"
                       /\ state'[w] = last[w]
                       /\ last'[w] = "fullscreen"
<1>1. Inv /\ [Next]_vars => A
  BY Steps, StackingAssumption DEF KeptAt
<1> HIDE DEF A
<1>2. Inv /\ [Next]_vars => [A]_vars
  BY <1>1
<1>3. Spec => [][A]_vars
  BY <1>2, InvHolds, PTL DEF Spec
<1> QED BY <1>3 DEF OnlyFullscreenDemoted, A
=============================================================================
