--------------------------- MODULE HistoryProofs ---------------------------
(***************************************************************************)
(* For any nodes, desktops and length of the list, the focus history has   *)
(* no cell of a node that was freed or has moved, and the latest mark is   *)
(* on the newest cell only.                                                *)
(*                                                                         *)
(* The two go together: history_add() may put a cell in the middle of the  *)
(* list, and no newer cell names its node because the cells of a node are  *)
(* all of one desktop.                                                     *)
(***************************************************************************)
EXTENDS History, ListFacts

(* No newer cell names what a latest cell names.                           *)
Newest(cells) ==
  \A i, j \in 1..Len(cells) :
    i < j /\ cells[i].latest => ~Same(cells[j].desk, cells[j].node, cells[i])

(* The cells that may be: their node, if any, is on their desktop.         *)
Valid == {cell \in Cell : cell.node # None => home[cell.node] = cell.desk}

Inv ==
  /\ TypeOK
  /\ list \in Seq(Valid)
  /\ Len(list) <= MaxEntries
  /\ Newest(list)

-----------------------------------------------------------------------------
(* The loop of history_remove().                                           *)

(* The loop goes on below the cell it removes.                             *)
LEMMA OlderFacts ==
  ASSUME NEW cells \in Seq(Cell), NEW b \in 1..Len(cells)
  PROVE  /\ Older(cells, b) \in 0..(b - 1)
         /\ b = Len(cells) => Older(cells, b) = b - 1
<1>0. Len(cells) \in Nat
  BY LenProperties
<1>1. CASE b < Len(cells)
  <2> DEFINE a == cells[b + 1]
             S == {0} \union {i \in 1..(b - 1) : ~Same(a.desk, a.node, cells[i])}
  <2>1. Older(cells, b) = Max(S)
    BY <1>1 DEF Older
  <2>2. S \subseteq 0..(b - 1) /\ S # {} /\ b - 1 \in Nat
    OBVIOUS
  <2> HIDE DEF S
  <2>3. Max(S) \in S
    BY <2>2, GreatestPlace
  <2>4. Older(cells, b) \in 0..(b - 1)
    BY <2>1, <2>2, <2>3
  <2>5. b # Len(cells)
    BY <1>0, <1>1
  <2> QED BY <2>4, <2>5
<1>2. CASE ~(b < Len(cells))
  BY <1>0, <1>2 DEF Older
<1> QED BY <1>1, <1>2

(* A pointer leads to a cell that stays.                                   *)
LEMMA SettleFacts ==
  ASSUME HistoryAssumption, NEW tail \in Nat, tail <= MaxEntries, NEW b \in 1..tail,
         NEW c \in 0..(b - 1), b = tail => c = b - 1,
         NEW p \in 0..tail \union {Lost}, NEW onB,
         onB = c \/ onB = IF b < tail THEN b + 1 ELSE 0
  PROVE  /\ p # Lost => Settle(p, onB, b, c, tail) \in 0..(tail - (b - c))
         /\ p = Lost => Settle(p, onB, b, c, tail) = Lost
<1> DEFINE q == IF c < p /\ p < b THEN tail ELSE IF p = b THEN onB ELSE p
<1>1. Lost \in Nat /\ Lost > tail
  BY DEF Lost, HistoryAssumption
<1>2. CASE p = Lost
  <2>1. q = Lost
    BY <1>1, <1>2
  <2> QED BY <1>2, <2>1 DEF Settle
<1>3. CASE p # Lost
  <2>1. p \in 0..tail /\ q \in 0..tail /\ q # b /\ (q < b => q <= c)
    BY <1>3
  <2>2. Settle(p, onB, b, c, tail) = IF q > b /\ q # Lost THEN q - (b - c) ELSE q
    BY DEF Settle
  <2> HIDE DEF q
  <2> QED BY <1>1, <1>3, <2>1, <2>2
<1> QED BY <1>2, <1>3

(* What holds between the rounds: the cells newer than the place at are    *)
(* not among those that go.                                                *)
Sound(h, K) ==
  /\ h \in [list : Seq(K), head : Nat, needle : Nat, at : Nat]
  /\ Len(h.list) <= MaxEntries
  /\ h.head \in 0..Len(h.list)
  /\ h.needle \in 0..Len(h.list) \union {Lost}
  /\ Newest(h.list)

Removing(K, nodes, desks) ==
  {h \in [list : Seq(K), head : Nat, needle : Nat, at : Nat] :
     /\ Sound(h, K)
     /\ h.at \in 0..Len(h.list)
     /\ \A i \in 1..Len(h.list) :
          h.at < i => h.list[i].node \notin nodes /\ h.list[i].desk \notin desks}

LEMMA RoundFacts ==
  ASSUME NEW K \in SUBSET Cell, NEW nodes, NEW desks, NEW h \in Removing(K, nodes, desks)
  PROVE  /\ Round(h, nodes, desks) \in Removing(K, nodes, desks)
         /\ h.at = 0 => Round(h, nodes, desks).at = 0
         /\ h.at # 0 => Round(h, nodes, desks).at < h.at
<1> DEFINE b == h.at
           c == Older(h.list, b)
           tail == Len(h.list)
           r == Round(h, nodes, desks)
<1>1. /\ h \in [list : Seq(K), head : Nat, needle : Nat, at : Nat] /\ Sound(h, K)
      /\ h.list \in Seq(K) /\ h.list \in Seq(Cell) /\ tail \in Nat
      /\ b \in 0..tail
      /\ \A i \in 1..tail : b < i => h.list[i].node \notin nodes /\ h.list[i].desk \notin desks
  <2>1. h.list \in Seq(K)
    BY DEF Removing
  <2>2. h.list \in Seq(Cell)
    BY <2>1, SeqMonotonic
  <2> QED BY <2>1, <2>2, LenProperties DEF Removing
<1>2. CASE b = 0
  BY <1>2 DEF Round
<1>3. CASE b # 0 /\ h.list[b].node \notin nodes /\ h.list[b].desk \notin desks
  <2>1. r = [h EXCEPT !.at = b - 1]
    BY <1>3 DEF Round
  <2>2. /\ r \in [list : Seq(K), head : Nat, needle : Nat, at : Nat]
        /\ r.list = h.list /\ r.head = h.head /\ r.needle = h.needle /\ r.at = b - 1
    BY <1>1, <1>3, <2>1
  <2>3. \A i \in 1..tail : b - 1 < i => i = b \/ b < i
    BY <1>1
  <2> HIDE DEF r
  <2> QED BY <1>1, <1>3, <2>2, <2>3 DEF Removing, Sound, r
<1>4. CASE b # 0 /\ ~(h.list[b].node \notin nodes /\ h.list[b].desk \notin desks)
  <2> DEFINE s == h.list
             t == SubSeq(s, 1, c) \o SubSeq(s, b + 1, Len(s))
             onB == IF b < tail THEN b + 1 ELSE 0
             newHead == Settle(h.head, onB, b, c, tail)
             newNeedle == Settle(h.needle, c, b, c, tail)
  <2>1. r = [list |-> t, head |-> newHead, needle |-> newNeedle, at |-> c]
    BY <1>4 DEF Round
  <2>2. b \in 1..tail /\ c \in 0..(b - 1) /\ (b = tail => c = b - 1) /\ s \in Seq(K)
    BY <1>1, <1>4, OlderFacts
  <2>3. /\ newHead \in 0..(tail - (b - c))
        /\ newNeedle \in 0..(tail - (b - c)) \union {Lost}
    <3>1. tail <= MaxEntries /\ h.head \in 0..tail /\ h.needle \in 0..tail \union {Lost}
      BY <1>1 DEF Sound
    <3>2. h.head # Lost
      BY <1>1, <3>1, HistoryAssumption DEF Lost, HistoryAssumption
    <3> QED BY <1>1, <2>2, <3>1, <3>2, SettleFacts, HistoryAssumption
  <2> HIDE DEF newHead, newNeedle, c, r, s
  <2>4. /\ t \in Seq(K)
        /\ Len(t) = Len(s) - (b - c)
        /\ \A i \in 1..Len(t) : t[i] = IF i <= c THEN s[i] ELSE s[i + (b - c)]
    BY <2>2, CutFacts DEF s
  <2> HIDE DEF t
  <2>5. ASSUME NEW i \in 1..Len(t), NEW j \in 1..Len(t), i < j, t[i].latest
        PROVE  ~Same(t[j].desk, t[j].node, t[i])
    <3> DEFINE old(k) == IF k <= c THEN k ELSE k + (b - c)
    <3>0. Len(s) = tail /\ c \in Nat /\ b \in Nat /\ c < b /\ i \in Nat /\ j \in Nat
      BY <1>1, <2>2, <2>4 DEF s
    <3>1. t[i] = s[old(i)] /\ t[j] = s[old(j)]
      BY <2>4
    <3> HIDE DEF tail, b
    <3>2. old(i) \in 1..tail /\ old(j) \in 1..tail /\ old(i) < old(j)
      BY <1>1, <2>2, <2>4, <2>5, <3>0
    <3> HIDE DEF old
    <3> QED BY <1>1, <2>5, <3>1, <3>2 DEF Sound, Newest, s, tail
  <2>6. ASSUME NEW i \in 1..Len(t), c < i
        PROVE  t[i].node \notin nodes /\ t[i].desk \notin desks
    <3>1. i + (b - c) \in 1..tail /\ b < i + (b - c) /\ t[i] = s[i + (b - c)]
      BY <1>1, <2>2, <2>4, <2>6 DEF s
    <3> QED BY <1>1, <3>1 DEF s
  <2>7. Len(t) \in Nat /\ Len(t) = tail - (b - c) /\ Len(t) <= tail /\ c \in 0..Len(t) /\ Lost \in Nat
    BY <1>1, <2>2, <2>4, HistoryAssumption DEF s, Lost, HistoryAssumption
  <2>8. /\ r \in [list : Seq(K), head : Nat, needle : Nat, at : Nat]
        /\ r.list = t /\ r.head = newHead /\ r.needle = newNeedle /\ r.at = c
    BY <2>1, <2>2, <2>3, <2>4, <2>7
  <2>9. Sound(r, K)
    <3>1. Len(t) <= MaxEntries
      BY <1>1, <2>7, HistoryAssumption DEF Sound, HistoryAssumption
    <3>2. Newest(t)
      BY <2>5 DEF Newest
    <3> QED BY <2>3, <2>7, <2>8, <3>1, <3>2 DEF Sound
  <2>10. r \in Removing(K, nodes, desks)
    BY <2>6, <2>7, <2>8, <2>9 DEF Removing
  <2> QED BY <1>4, <2>2, <2>8, <2>10 DEF r
<1> QED BY <1>2, <1>3, <1>4

(* history_remove() keeps what holds of all the cells, and the cells that  *)
(* stay are not among those it is called for.                              *)
LEMMA UnlistFacts ==
  ASSUME NEW K \in SUBSET Cell, NEW nodes, NEW desks, NEW h, Sound(h, K)
  PROVE  LET r == Unlist(h, nodes, desks)
         IN /\ Sound(r, K)
            /\ \A i \in 1..Len(r.list) :
                 r.list[i].node \notin nodes /\ r.list[i].desk \notin desks
<1> DEFINE n == Len(h.list)
           R == Removing(K, nodes, desks)
           a == [h EXCEPT !.at = n]
           F == [i \in 1..n |-> [g \in R |-> Round(g, nodes, desks)]]
           Rec(f) == f = [i \in 0..n |-> IF i = 0 THEN a ELSE Round(f[i - 1], nodes, desks)]
<1>1. n \in Nat /\ h \in [list : Seq(K), head : Nat, needle : Nat, at : Nat]
  BY LenProperties DEF Sound
<1>2. a \in R /\ a.at = n
  <2>1. /\ a \in [list : Seq(K), head : Nat, needle : Nat, at : Nat] /\ a.at = n
        /\ a.list = h.list /\ a.head = h.head /\ a.needle = h.needle
    BY <1>1
  <2> HIDE DEF a
  <2>2. Sound(a, K)
    BY <2>1 DEF Sound
  <2> QED BY <1>1, <2>1, <2>2 DEF Removing
<1>3. F \in [1..n -> [R -> R]]
  BY RoundFacts
<1>4. PICK f \in [0..n -> R] : f[0] = a /\ \A i \in 1..n : f[i] = F[i][f[i - 1]]
  <2> HIDE DEF n, F, R, a
  <2> DEFINE f == Iterated(n, R, a, F)
  <2>1. f \in [0..n -> R] /\ f[0] = a /\ \A i \in 1..n : f[i] = F[i][f[i - 1]]
    BY <1>1, <1>2, <1>3, Recursion
  <2> QED BY <2>1
<1>5. \A i \in 1..n : i - 1 \in 0..n /\ f[i - 1] \in R /\ f[i] = Round(f[i - 1], nodes, desks)
  <2> TAKE i \in 1..n
  <2>1. i - 1 \in 0..n
    BY <1>1
  <2> HIDE DEF R, n
  <2> QED BY <1>4, <2>1
<1> HIDE DEF F
<1>6. Rec(f)
  <2>1. \A i \in 0..n : i # 0 => i \in 1..n
    BY <1>1
  <2> HIDE DEF n, R, a
  <2> QED BY <1>4, <1>5, <2>1
<1> DEFINE g == CHOOSE g : Rec(g)
<1>7. Rec(g)
  <2> HIDE DEF Rec
  <2> QED BY <1>6
<1>8. Unlist(h, nodes, desks) = g[n]
  BY DEF Unlist
<1> HIDE DEF g, a, R
<1>9. \A i \in 0..n : g[i] = f[i]
  <2> DEFINE S == {i \in 0..n : g[i] = f[i]}
  <2>1. 0 \in S
    <3>1. 0 \in 0..n
      BY <1>1
    <3> HIDE DEF n
    <3> QED BY <1>6, <1>7, <3>1
  <2>2. ASSUME NEW i \in 0..(n - 1), i \in S  PROVE i + 1 \in S
    <3>1. i + 1 \in 0..n /\ i + 1 # 0 /\ (i + 1) - 1 = i
      BY <1>1
    <3>2. g[i] = f[i]
      BY <2>2
    <3> HIDE DEF n
    <3>3. f[i + 1] = Round(f[i], nodes, desks)
      <4>1. f[i + 1] = Round(f[(i + 1) - 1], nodes, desks)
        BY <1>6, <3>1
      <4> QED BY <3>1, <4>1
    <3>4. g[i + 1] = Round(g[i], nodes, desks)
      <4>1. g[i + 1] = Round(g[(i + 1) - 1], nodes, desks)
        BY <1>7, <3>1
      <4> QED BY <3>1, <4>1
    <3> QED BY <3>1, <3>2, <3>3, <3>4
  <2> HIDE DEF S
  <2>3. \A i \in 0..n : i \in S
    BY <1>1, <2>1, <2>2, Induction
  <2> QED BY <2>3 DEF S
<1>10. \A i \in 0..n : f[i].at <= n - i
  <2> DEFINE S == {i \in 0..n : f[i].at <= n - i}
  <2>1. 0 \in S
    BY <1>1, <1>2, <1>4
  <2>2. ASSUME NEW i \in 0..(n - 1), i \in S  PROVE i + 1 \in S
    <3>1. i + 1 \in 1..n /\ i + 1 \in 0..n /\ (i + 1) - 1 = i
      BY <1>1
    <3>2. f[i] \in R /\ f[i + 1] = Round(f[i], nodes, desks)
      BY <1>5, <3>1
    <3>3. f[i].at \in Nat /\ f[i + 1].at \in Nat /\ f[i].at <= n - i
      <4>1. f[i + 1] \in R
        BY <3>2, RoundFacts DEF R
      <4> QED BY <2>2, <3>2, <4>1 DEF R, Removing
    <3>4. /\ f[i].at = 0 => f[i + 1].at = 0
          /\ f[i].at # 0 => f[i + 1].at < f[i].at
      BY <3>2, RoundFacts DEF R
    <3>5. f[i + 1].at <= n - (i + 1)
      <4> DEFINE x == f[i].at
                 y == f[i + 1].at
      <4> HIDE DEF x, y, n
      <4>1. x \in Nat /\ y \in Nat /\ x <= n - i /\ (x = 0 => y = 0) /\ (x # 0 => y < x)
        BY <3>3, <3>4 DEF x, y
      <4>2. y <= n - (i + 1)
        BY <1>1, <3>1, <4>1
      <4> QED BY <4>2 DEF y
    <3> QED BY <3>1, <3>5
  <2> HIDE DEF S
  <2>3. \A i \in 0..n : i \in S
    BY <1>1, <2>1, <2>2, Induction
  <2> QED BY <2>3 DEF S
<1>11. f[n] \in R /\ f[n].at <= 0 /\ g[n] = f[n]
  <2>1. n \in 0..n /\ n - n = 0
    BY <1>1
  <2> QED BY <1>4, <1>9, <1>10, <2>1
<1> DEFINE r == Unlist(h, nodes, desks)
<1>12. r \in R /\ r.at <= 0
  BY <1>8, <1>11
<1> HIDE DEF r
<1>13. Sound(r, K) /\ r.at = 0
       /\ \A i \in 1..Len(r.list) :
            r.at < i => r.list[i].node \notin nodes /\ r.list[i].desk \notin desks
  BY <1>12 DEF R, Removing
<1>14. \A i \in 1..Len(r.list) : 0 < i
  OBVIOUS
<1> QED BY <1>13, <1>14 DEF r
-----------------------------------------------------------------------------
(* history_add().                                                          *)

LEMMA AgedCell ==
  ASSUME NEW c \in Valid, NEW x \in BOOLEAN, NEW a, a = [c EXCEPT !.latest = @ /\ x]
  PROVE  /\ a \in Valid
         /\ a.node = c.node /\ a.desk = c.desk
         /\ a.latest => c.latest /\ x
<1>1. a \in Cell /\ a.node = c.node /\ a.desk = c.desk
  BY DEF Valid, Cell
<1>2. a.latest <=> c.latest /\ x
  BY DEF Valid, Cell
<1> QED BY <1>1, <1>2 DEF Valid

LEMMA AgedFacts ==
  ASSUME list \in Seq(Valid), NEW d, NEW n
  PROVE  /\ Aged(d, n) \in Seq(Valid)
         /\ Len(Aged(d, n)) = Len(list)
         /\ \A i \in 1..Len(list) :
              /\ Aged(d, n)[i].node = list[i].node
              /\ Aged(d, n)[i].desk = list[i].desk
              /\ Aged(d, n)[i].latest => list[i].latest /\ ~Same(d, n, list[i])
<1> DEFINE m == Len(list)
           v(i) == [list[i] EXCEPT !.latest = @ /\ ~Same(d, n, list[i])]
           s == [i \in 1..m |-> v(i)]
<1>1. m \in Nat /\ \A i \in 1..m : list[i] \in Valid
  BY ElementOfSeq, LenProperties
<1>2. Aged(d, n) = s
  BY DEF Aged
<1>3. ASSUME NEW i \in 1..m
      PROVE  /\ v(i) \in Valid
             /\ v(i).node = list[i].node /\ v(i).desk = list[i].desk
             /\ v(i).latest => list[i].latest /\ ~Same(d, n, list[i])
  <2> DEFINE x == ~Same(d, n, list[i])
             c == list[i]
             a == v(i)
  <2>1. x \in BOOLEAN
    BY DEF Same
  <2>2. c \in Valid
    BY <1>1
  <2>3. a = [c EXCEPT !.latest = @ /\ x]
    OBVIOUS
  <2> HIDE DEF v, x, c, a
  <2>4. a \in Valid /\ a.node = c.node /\ a.desk = c.desk
    BY <2>1, <2>2, <2>3, AgedCell
  <2>5. a.latest => c.latest /\ x
    BY <2>1, <2>2, <2>3, AgedCell
  <2> QED BY <2>4, <2>5 DEF x, c, a
<1> HIDE DEF v, m
<1>4. s \in Seq(Valid) /\ Len(s) = m /\ \A i \in 1..m : s[i] = v(i)
  <2>1. s \in [1..m -> Valid]
    BY <1>3
  <2>2. s \in Seq(Valid)
    BY <1>1, <2>1
  <2> QED BY <1>1, <2>1, <2>2, LenProperties
<1> HIDE DEF s
<1> QED BY <1>2, <1>3, <1>4 DEF m

(* A new cell of the desktop d goes where no newer cell names it.          *)
LEMMA InsertFacts ==
  ASSUME Inv, HistoryAssumption, Len(list) < MaxEntries,
         NEW d, NEW n, NEW cell \in Valid, cell.node = n, cell.desk = d,
         NEW k \in 1..(Len(list) + 1),
         \A m \in k..Len(list) : ~Same(list[m].desk, list[m].node, cell),
         NEW cells, cells = InsertAt(Aged(d, n), k, cell)
  PROVE  cells \in Seq(Valid) /\ Len(cells) = Len(list) + 1 /\ Newest(cells)
<1> DEFINE s == Aged(d, n)
           l == Len(list)
           old(i) == IF i < k THEN i ELSE i - 1
<1>1. /\ s \in Seq(Valid) /\ Len(s) = l /\ l \in Nat
      /\ \A i \in 1..l : /\ s[i].node = list[i].node
                         /\ s[i].desk = list[i].desk
                         /\ s[i].latest => list[i].latest /\ ~Same(d, n, list[i])
  <2>1. list \in Seq(Valid)
    BY DEF Inv
  <2> QED BY <2>1, AgedFacts, LenProperties
<1>2. \A i, j \in 1..l : i < j /\ list[i].latest => ~Same(list[j].desk, list[j].node, list[i])
  BY DEF Inv, Newest
<1> HIDE DEF s, l
<1>3. /\ cells \in Seq(Valid)
      /\ Len(cells) = l + 1
      /\ cells[k] = cell
      /\ \A i \in 1..(k - 1) : cells[i] = s[i]
      /\ \A i \in k..l : cells[i + 1] = s[i]
  BY <1>1, InsertAtFacts DEF s, l
<1>4. ASSUME NEW i \in 1..(l + 1), i # k
      PROVE  old(i) \in 1..l /\ cells[i] = s[old(i)] /\ (k < i => old(i) \in k..l)
  <2>1. CASE i < k
    BY <1>1, <1>3, <2>1 DEF l
  <2>2. CASE k < i
    <3>1. i - 1 \in k..l /\ (i - 1) + 1 = i /\ i - 1 \in 1..l
      BY <1>1, <2>2
    <3> QED BY <1>3, <2>2, <3>1
  <2> QED BY <1>1, <1>4, <2>1, <2>2
<1>5. ASSUME NEW i \in 1..(l + 1), NEW j \in 1..(l + 1), i < j, cells[i].latest
      PROVE  ~Same(cells[j].desk, cells[j].node, cells[i])
  <2>1. CASE j = k
    <3>1. i # k /\ old(i) \in 1..l /\ cells[i] = s[old(i)]
      BY <1>1, <1>4, <1>5, <2>1
    <3> HIDE DEF old
    <3>2. s[old(i)].latest
      BY <1>5, <3>1
    <3>3. ~Same(d, n, list[old(i)])
      BY <1>1, <3>1, <3>2
    <3> QED BY <1>1, <1>3, <2>1, <3>1, <3>3 DEF Same
  <2>2. CASE i = k
    <3>1. j # k /\ old(j) \in 1..l /\ cells[j] = s[old(j)] /\ old(j) \in k..l
      BY <1>1, <1>4, <1>5, <2>2
    <3> HIDE DEF old
    <3>2. ~Same(list[old(j)].desk, list[old(j)].node, cell)
      BY <3>1 DEF l
    <3> QED BY <1>1, <1>3, <2>2, <3>1, <3>2
  <2>3. CASE i # k /\ j # k
    <3>1. /\ old(i) \in 1..l /\ cells[i] = s[old(i)]
          /\ old(j) \in 1..l /\ cells[j] = s[old(j)]
      BY <1>4, <2>3
    <3>2. old(i) < old(j)
      BY <1>1, <1>5, <2>3
    <3> HIDE DEF old
    <3>3. list[old(i)].latest
      BY <1>1, <1>5, <3>1
    <3>4. ~Same(list[old(j)].desk, list[old(j)].node, list[old(i)])
      BY <1>2, <3>1, <3>2, <3>3
    <3> QED BY <1>1, <3>1, <3>4 DEF Same
  <2> QED BY <2>1, <2>2, <2>3
<1>6. Newest(cells)
  BY <1>1, <1>3, <1>5 DEF Newest
<1> QED BY <1>1, <1>3, <1>6 DEF l
-----------------------------------------------------------------------------
(* The steps.                                                              *)

LEMMA InvParts ==
  ASSUME home' \in [Node -> Desktop \union {None}],
         list' \in Seq(Valid'), Len(list') <= MaxEntries, Newest(list'),
         head' \in 0..Len(list'), needle' \in 0..Len(list') \union {Lost},
         record' \in BOOLEAN
  PROVE  Inv'
<1>1. Valid' \subseteq Cell
  BY DEF Valid
<1>2. list' \in Seq(Cell)
  BY <1>1, SeqMonotonic
<1>3. TypeOK'
  BY <1>2 DEF TypeOK
<1>4. Newest(list)'
  BY DEF Newest, Same
<1> QED BY <1>3, <1>4 DEF Inv

LEMMA VisitStep ==
  ASSUME HistoryAssumption, Inv, NEW d \in Desktop, NEW n \in Node \union {None},
         NEW focused \in BOOLEAN, Visit(d, n, focused)
  PROVE  Inv'
<1> DEFINE cell == [node |-> n, desk |-> d, latest |-> TRUE]
           l == Len(list)
           ndl == IF focused THEN 0 ELSE needle
           near == {i \in 1..l : IF n # None THEN list[i].desk = d
                                             ELSE Monitor[list[i].desk] = Monitor[d]}
           older == {i \in head..l :
                       n # None /\ Aged(d, n)[i].latest /\ Monitor[list[i].desk] = Monitor[d]}
           place == IF focused THEN l ELSE Max(near)
           low == IF older # {} THEN Min(older) ELSE head
<1>1. /\ home \in [Node -> Desktop \union {None}] /\ list \in Seq(Valid) /\ l \in Nat
      /\ head \in 0..l /\ needle \in 0..l \union {Lost} /\ record \in BOOLEAN
      /\ Lost = MaxEntries + 1 /\ MaxEntries \in Nat
      /\ \A i \in 1..l : list[i] \in Valid
  BY LenProperties, ElementOfSeq DEF Inv, TypeOK, Lost, HistoryAssumption
<1>2. l < MaxEntries /\ home' = home /\ record' = record
  BY DEF Visit, Add
<1>3. cell \in Cell /\ cell.node = n /\ cell.desk = d /\ cell.latest
  BY DEF Cell
<1>4. cell \in Valid
  BY <1>3 DEF Visit, Valid
<1>5. Valid' = Valid
  BY <1>2 DEF Valid
<1>6. ndl \in 0..l \union {Lost}
  BY <1>1
<1>7. SUFFICES /\ list' \in Seq(Valid) /\ Len(list') <= MaxEntries /\ Newest(list')
               /\ head' \in 0..Len(list') /\ needle' \in 0..Len(list') \union {Lost}
  BY <1>1, <1>2, <1>5, InvParts
<1> HIDE DEF ndl, cell
<1>8. \/ head = 0 /\ list' = <<cell>> /\ head' = 1
         /\ needle' = IF ndl = 0 THEN 0 ELSE Lost
      \/ needle' = ndl /\ UNCHANGED <<list, head>>
      \/ (focused \/ near # {})
         /\ InsertCell(Aged(d, n), place + 1, cell, Shift(head, place + 1), ndl)
      \/ ~focused /\ near = {} /\ head # 0
         /\ InsertCell(Aged(d, n), low, cell, head, ndl)
  BY DEF Visit, Add, cell, ndl
<1>9. CASE head = 0 /\ list' = <<cell>> /\ head' = 1 /\ needle' = IF ndl = 0 THEN 0 ELSE Lost
  <2>1. list' \in Seq(Valid) /\ Len(list') = 1
    BY <1>4, <1>9
  <2>2. Newest(list')
    BY <2>1 DEF Newest
  <2> QED BY <1>1, <1>2, <1>9, <2>1, <2>2
<1>10. CASE needle' = ndl /\ UNCHANGED <<list, head>>
  <2>1. Newest(list')
    BY <1>10 DEF Inv
  <2> QED BY <1>1, <1>2, <1>6, <1>10, <2>1
<1>11. ASSUME NEW k \in 1..(l + 1), NEW h \in 0..(l + 1),
              \A m \in k..l : list[m].desk # d,
              InsertCell(Aged(d, n), k, cell, h, ndl)
       PROVE  /\ list' \in Seq(Valid) /\ Len(list') <= MaxEntries /\ Newest(list')
              /\ head' \in 0..Len(list') /\ needle' \in 0..Len(list') \union {Lost}
  <2>1. list' = InsertAt(Aged(d, n), k, cell) /\ head' = h /\ needle' = Shift(ndl, k)
    BY <1>11 DEF InsertCell
  <2>2. ASSUME NEW m \in k..l  PROVE ~Same(list[m].desk, list[m].node, cell)
    <3>1. list[m] \in Valid /\ list[m].desk # d
      BY <1>1, <1>11
    <3>2. list[m].node # None => home[list[m].node] # d
      BY <3>1 DEF Valid
    <3>3. n # None => home[n] = d
      BY DEF Visit
    <3> QED BY <1>3, <3>1, <3>2, <3>3 DEF Same
  <2>3. list' \in Seq(Valid) /\ Len(list') = l + 1 /\ Newest(list')
    BY <1>2, <1>3, <1>4, <2>1, <2>2, InsertFacts
  <2>4. Shift(ndl, k) \in 0..(l + 1) \union {Lost}
    BY <1>1, <1>2, <1>6 DEF Shift
  <2> QED BY <1>1, <1>2, <2>1, <2>3, <2>4
<1>12. CASE (focused \/ near # {})
            /\ InsertCell(Aged(d, n), place + 1, cell, Shift(head, place + 1), ndl)
  <2>1. place \in 0..l /\ \A m \in (place + 1)..l : list[m].desk # d
    <3>1. CASE focused
      BY <1>1, <3>1
    <3>2. CASE ~focused
      <4>1. near \subseteq 0..l /\ near # {}
        BY <1>12, <3>2
      <4>2. ASSUME NEW m \in 1..l, m \notin near  PROVE list[m].desk # d
        BY <4>2
      <4> HIDE DEF near
      <4>3. Max(near) \in 0..l /\ \A y \in near : Max(near) >= y
        BY <1>1, <4>1, GreatestPlace
      <4>4. \A m \in (Max(near) + 1)..l : m \in 1..l /\ m \notin near
        BY <1>1, <4>3
      <4> QED BY <3>2, <4>2, <4>3, <4>4
    <3> QED BY <3>1, <3>2
  <2> DEFINE k == place + 1
             h == Shift(head, k)
  <2>2. InsertCell(Aged(d, n), k, cell, h, ndl)
    BY <1>12
  <2> HIDE DEF place
  <2>3. k \in 1..(l + 1) /\ \A m \in k..l : list[m].desk # d
    BY <1>1, <2>1
  <2>4. h \in 0..(l + 1)
    BY <1>1, <1>2, <2>3 DEF Shift
  <2> HIDE DEF k, h
  <2> QED BY <1>11, <2>2, <2>3, <2>4
<1>13. CASE ~focused /\ near = {} /\ head # 0 /\ InsertCell(Aged(d, n), low, cell, head, ndl)
  <2>1. \A m \in 1..l : list[m].desk # d
    <3>1. \A m \in 1..l : m \notin near
      BY <1>13
    <3> QED BY <3>1
  <2>2. low \in head..l
    <3>1. older \subseteq Nat /\ older \subseteq head..l
      BY <1>1
    <3> HIDE DEF older
    <3>2. CASE older # {}
      <4>1. Min(older) \in older
        BY <3>1, <3>2, LeastPlace
      <4>2. low = Min(older)
        BY <3>2
      <4> QED BY <3>1, <4>1, <4>2
    <3>3. CASE older = {}
      <4>1. low = head
        BY <3>3
      <4> QED BY <1>1, <4>1
    <3> QED BY <3>2, <3>3
  <2>3. InsertCell(Aged(d, n), low, cell, head, ndl)
    BY <1>13
  <2> HIDE DEF low
  <2>4. low \in 1..(l + 1) /\ head \in 0..(l + 1) /\ \A m \in low..l : list[m].desk # d
    BY <1>1, <1>13, <2>1, <2>2
  <2> QED BY <1>11, <2>3, <2>4
<1> QED BY <1>8, <1>9, <1>10, <1>12, <1>13
LEMMA Narrowed ==
  ASSUME NEW R, NEW K, NEW s \in Seq(R), \A i \in 1..Len(s) : s[i] \in K
  PROVE  s \in Seq(K)
<1> DEFINE l == Len(s)
<1>1. l \in Nat /\ s \in [1..l -> R]
  BY LenProperties
<1>2. s \in [1..l -> K]
  BY <1>1
<1> HIDE DEF l
<1> QED BY <1>1, <1>2

LEMMA PointersSound ==
  ASSUME HistoryAssumption, Inv
  PROVE  Sound(Pointers, Valid)
<1>1. /\ list \in Seq(Valid) /\ Len(list) \in Nat /\ Len(list) <= MaxEntries
      /\ head \in 0..Len(list) /\ needle \in 0..Len(list) \union {Lost} /\ Lost \in Nat
      /\ Newest(list)
  BY LenProperties DEF Inv, TypeOK, Lost, HistoryAssumption
<1>2. /\ Pointers \in [list : Seq(Valid), head : Nat, needle : Nat, at : Nat]
      /\ Pointers.list = list /\ Pointers.head = head /\ Pointers.needle = needle
  BY <1>1 DEF Pointers
<1> QED BY <1>1, <1>2 DEF Sound

LEMMA CreateStep ==
  ASSUME HistoryAssumption, Inv, NEW n \in Node, NEW d \in Desktop, Create(n, d)
  PROVE  Inv'
<1>1. /\ home \in [Node -> Desktop \union {None}] /\ home[n] = None /\ None \notin Desktop
      /\ home' = [home EXCEPT ![n] = d]
      /\ UNCHANGED <<list, head, needle, record>>
  BY DEF Create, Inv, TypeOK, HistoryAssumption
<1>2. home' \in [Node -> Desktop \union {None}] /\ \A m \in Node \ {n} : home'[m] = home[m]
  BY <1>1
<1>3. ASSUME NEW c \in Valid  PROVE c \in Valid'
  <2>1. c \in Cell /\ c.node \in Node \union {None} /\ c.desk \in Desktop
        /\ (c.node # None => home[c.node] = c.desk)
    BY DEF Valid, Cell
  <2>2. c.node # None => c.node \in Node \ {n}
    BY <1>1, <2>1
  <2>3. c.node # None => home'[c.node] = c.desk
    BY <1>2, <2>1, <2>2
  <2> QED BY <2>1, <2>3 DEF Valid
<1>4. list \in Seq(Valid')
  <2>1. Valid \subseteq Valid'
    BY <1>3
  <2> QED BY <2>1, SeqMonotonic DEF Inv
<1> QED BY <1>1, <1>2, <1>4, InvParts DEF Inv, TypeOK

(* What history_remove() leaves keeps the invariant, if the cells it leaves *)
(* are on the desktops that hold their nodes after the step.               *)
LEMMA RemovalStep ==
  ASSUME HistoryAssumption, Inv, NEW K \in SUBSET Cell, NEW r, Sound(r, K), Becomes(r),
         UNCHANGED record, home' \in [Node -> Desktop \union {None}],
         \A i \in 1..Len(r.list) : r.list[i] \in Valid'
  PROVE  Inv'
<1>1. list' = r.list /\ head' = r.head /\ needle' = r.needle /\ r.list \in Seq(K)
  BY DEF Becomes, Sound
<1>2. r.list \in Seq(Valid')
  BY <1>1, Narrowed
<1> QED BY <1>1, <1>2, InvParts DEF Sound, Inv, TypeOK

LEMMA LeaveStep ==
  ASSUME HistoryAssumption, Inv, NEW nodes \in SUBSET Node, NEW parent \in Node \union {None},
         NEW d \in Desktop \union {None}, Leave(nodes, parent, d)
  PROVE  Inv'
<1> DEFINE gone == {parent} \ {None}
           h == Unlist(Pointers, gone, {})
           K == {c \in Valid : c.node \notin gone}
           r == Unlist(h, nodes, {})
<1>1. Becomes(r) /\ UNCHANGED record
      /\ home' = [n \in Node |-> IF n \in nodes THEN d ELSE IF n = parent THEN None ELSE home[n]]
  BY DEF Leave
<1>2. home' \in [Node -> Desktop \union {None}]
  BY <1>1 DEF Inv, TypeOK
<1>3. Valid \in SUBSET Cell /\ K \in SUBSET Cell
  BY DEF Valid
<1> DEFINE V == Valid
<1>4. Sound(Pointers, V)
  BY PointersSound
<1> HIDE DEF V, gone, h, r
<1>5. Sound(h, V) /\ \A i \in 1..Len(h.list) : h.list[i].node \notin gone
  <2>1. V \in SUBSET Cell
    BY <1>3 DEF V
  <2> QED BY <1>4, <2>1, UnlistFacts DEF h
<1>6. Sound(h, K)
  <2>1. h \in [list : Seq(V), head : Nat, needle : Nat, at : Nat] /\ h.list \in Seq(V)
    BY <1>5 DEF Sound
  <2>2. \A i \in 1..Len(h.list) : h.list[i] \in K
    BY <1>5, <2>1, ElementOfSeq DEF V
  <2> HIDE DEF K
  <2>3. h.list \in Seq(K)
    BY <2>1, <2>2, Narrowed
  <2>4. h \in [list : Seq(K), head : Nat, needle : Nat, at : Nat]
    BY <2>1, <2>3
  <2> QED BY <1>5, <2>4 DEF Sound
<1> HIDE DEF K
<1>7. Sound(r, K) /\ \A i \in 1..Len(r.list) : r.list[i].node \notin nodes
  BY <1>3, <1>6, UnlistFacts DEF r
<1>8. ASSUME NEW i \in 1..Len(r.list)  PROVE r.list[i] \in Valid'
  <2> DEFINE c == r.list[i]
  <2>1. r.list \in Seq(K)
    BY <1>7 DEF Sound
  <2>2. c \in K /\ c.node \notin nodes
    BY <1>7, <2>1, ElementOfSeq
  <2> HIDE DEF c
  <2>3. c \in Cell /\ c.node \in Node \union {None} /\ c.node \notin gone
        /\ (c.node # None => home[c.node] = c.desk)
    BY <2>2 DEF K, Valid, Cell
  <2>4. c.node # None => c.node \in Node /\ c.node # parent
    BY <2>3 DEF gone
  <2>5. c.node # None => home'[c.node] = c.desk
    BY <1>1, <2>2, <2>3, <2>4
  <2>6. c \in Valid'
    BY <2>3, <2>5 DEF Valid
  <2> QED BY <2>6 DEF c
<1> QED BY <1>1, <1>2, <1>3, <1>7, <1>8, RemovalStep

LEMMA ForgetDesktopStep ==
  ASSUME HistoryAssumption, Inv, NEW d \in Desktop, ForgetDesktop(d)
  PROVE  Inv'
<1> DEFINE r == Unlist(Pointers, {}, {d})
           V == Valid
<1>1. Becomes(r) /\ UNCHANGED record /\ home' = home
  BY DEF ForgetDesktop
<1>2. V \in SUBSET Cell /\ Sound(Pointers, V)
  BY PointersSound DEF Valid
<1>3. Valid' = V
  BY <1>1 DEF Valid
<1> HIDE DEF V, r
<1>4. Sound(r, V)
  BY <1>2, UnlistFacts DEF r
<1>5. \A i \in 1..Len(r.list) : r.list[i] \in V
  BY <1>4, ElementOfSeq DEF Sound
<1> QED BY <1>1, <1>2, <1>3, <1>4, <1>5, RemovalStep DEF Inv, TypeOK

LEMMA FindStep ==
  ASSUME HistoryAssumption, Inv, NEW older \in BOOLEAN, NEW eligible, Find(older, eligible)
  PROVE  Inv'
<1> DEFINE l == Len(list)
           start == IF needle = 0 \/ record THEN l ELSE needle
           places == {i \in (IF older THEN 1..start ELSE start..l) :
                        list[i].latest /\ list[i].node \in eligible}
           found == Found(list, start, older, eligible)
<1>1. l \in Nat /\ needle \in 0..l \union {Lost} /\ list \in Seq(Valid) /\ record \in BOOLEAN
  BY LenProperties DEF Inv, TypeOK
<1>2. /\ start # Lost /\ UNCHANGED <<home, list, head, record>>
      /\ needle' = IF record \/ found = 0 THEN start ELSE found
  BY DEF Find
<1>3. start \in 0..l
  BY <1>1, <1>2
<1>4. /\ start = 0 \/ places = {} => found = 0
      /\ start # 0 /\ places # {} /\ older => found = Max(places)
      /\ start # 0 /\ places # {} /\ ~older => found = Min(places)
  BY DEF Found
<1>5. places \subseteq 0..l /\ places \subseteq Nat
  BY <1>1, <1>3
<1> HIDE DEF start, found, places, l
<1>6. places # {} => Max(places) \in 0..l /\ Min(places) \in 0..l
  BY <1>1, <1>5, GreatestPlace, LeastPlace
<1>7. found \in 0..l
  BY <1>1, <1>4, <1>6
<1>8. needle' \in 0..l
  BY <1>2, <1>3, <1>7
<1>9. Valid' = Valid
  BY <1>2 DEF Valid
<1> QED BY <1>1, <1>2, <1>8, <1>9, InvParts DEF Inv, TypeOK, l

LEMMA SameStep ==
  ASSUME Inv, UNCHANGED <<home, list, head, needle>>, record' \in BOOLEAN
  PROVE  Inv'
<1>1. Valid' = Valid
  BY DEF Valid
<1> QED BY <1>1, InvParts DEF Inv, TypeOK

(* The inductive invariant.  LatestIsNewest alone is not kept by           *)
(* history_add(), which needs that the cells name no node of another       *)
(* desktop; and that they do not is NoStaleCell.                           *)
THEOREM InvHolds == Spec => []Inv
<1>1. Init => Inv
  <2> SUFFICES ASSUME Init  PROVE Inv
    OBVIOUS
  <2>1. list = <<>> /\ Len(list) = 0 /\ list \in Seq(Valid) /\ list \in Seq(Cell)
    BY DEF Init
  <2>2. home \in [Node -> Desktop \union {None}] /\ head = 0 /\ needle = 0 /\ record \in BOOLEAN
    BY DEF Init
  <2>3. TypeOK
    BY <2>1, <2>2 DEF TypeOK
  <2>4. Newest(list)
    BY <2>1 DEF Newest
  <2> QED BY <2>1, <2>3, <2>4, HistoryAssumption DEF Inv, HistoryAssumption
<1>2. Inv /\ [Next]_vars => Inv'
  <2> SUFFICES ASSUME Inv, [Next]_vars  PROVE Inv'
    OBVIOUS
  <2>1. ASSUME NEW n \in Node, NEW d \in Desktop, Create(n, d)  PROVE Inv'
    BY <2>1, CreateStep, HistoryAssumption
  <2>2. ASSUME NEW d \in Desktop, NEW n \in Node \union {None}, NEW focused \in BOOLEAN,
               Visit(d, n, focused)
        PROVE  Inv'
    BY <2>2, VisitStep, HistoryAssumption
  <2>3. ASSUME NEW nodes \in SUBSET Node, NEW parent \in Node \union {None},
               NEW d \in Desktop \union {None}, Leave(nodes, parent, d)
        PROVE  Inv'
    BY <2>3, LeaveStep, HistoryAssumption
  <2>4. ASSUME NEW d \in Desktop, ForgetDesktop(d)  PROVE Inv'
    BY <2>4, ForgetDesktopStep, HistoryAssumption
  <2>5. ASSUME NEW older \in BOOLEAN, NEW eligible \in SUBSET Node, Find(older, eligible)
        PROVE  Inv'
    BY <2>5, FindStep, HistoryAssumption
  <2>6. ASSUME NEW b \in BOOLEAN, SetRecord(b)  PROVE Inv'
    BY <2>6, SameStep DEF SetRecord
  <2>7. CASE UNCHANGED vars
    <3>1. record' \in BOOLEAN
      BY <2>7 DEF vars, Inv, TypeOK
    <3> QED BY <2>7, <3>1, SameStep DEF vars
  <2> QED BY <2>1, <2>2, <2>3, <2>4, <2>5, <2>6, <2>7 DEF Next
<1> QED BY <1>1, <1>2, PTL DEF Spec

(* The variables have their types, and no cell names a node that was freed *)
(* or has moved: history_remove() is called for every one of them.         *)
THEOREM NoStaleCellHolds == Spec => []NoStaleCell
<1>1. Inv => NoStaleCell
  <2> SUFFICES ASSUME Inv  PROVE NoStaleCell
    OBVIOUS
  <2>1. \A i \in 1..Len(list) : list[i] \in Valid
    BY ElementOfSeq DEF Inv
  <2>2. TypeOK
    BY DEF Inv
  <2> QED BY <2>1, <2>2 DEF NoStaleCell, Valid
<1> QED BY <1>1, InvHolds, PTL

(* A node, and a desktop without one, has at most one latest cell, which   *)
(* no newer cell names, whatever history_add() inserts out of order and    *)
(* history_remove() drops.                                                 *)
THEOREM LatestIsNewestHolds == Spec => []LatestIsNewest
<1>1. Inv => LatestIsNewest
  BY DEF Inv, Newest, LatestIsNewest
<1> QED BY <1>1, InvHolds, PTL
=============================================================================
