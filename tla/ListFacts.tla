----------------------------- MODULE ListFacts -----------------------------
(***************************************************************************)
(* The lemmas about lists that the proofs about the components share.      *)
(*                                                                         *)
(* First, facts about natural numbers, recursive functions and sequences.  *)
(* What an induction theorem of the library says of a predicate is said    *)
(* here of a set, which the provers can choose.  Then, what the list       *)
(* operations of stack.c do to a list of any windows: these speak of the   *)
(* relation "w1 lies under w2", not of positions.                          *)
(***************************************************************************)
EXTENDS StackOrder, TLAPS, SequenceTheorems, WellFoundedInduction

(* Every nonempty set of numbers has a least one.                          *)
LEMMA LeastNumber ==
  ASSUME NEW S \in SUBSET Nat, S # {}
  PROVE  \E x \in S : \A y \in S : x <= y
<1> DEFINE Less == {p \in Nat \X Nat : p[1] < p[2]}
<1>1. IsWellFoundedOn(Less, Nat)
  BY NatLessThanWellFounded, Zenon DEF OpToRel
<1> HIDE DEF Less
<1>2. PICK x \in S : \A y \in S : ~(<<y, x>> \in Less)
  BY <1>1, WFMin
<1>3. ASSUME NEW y \in S  PROVE x <= y
  <2>1. x \in Nat /\ y \in Nat
    OBVIOUS
  <2>2. y < x => <<y, x>> \in Less
    BY <2>1 DEF Less
  <2> QED  BY <2>1, <2>2, <1>2
<1> QED  BY <1>3

(* Min and Max of sets of places.                                          *)
LEMMA LeastPlace ==
  ASSUME NEW S, S \subseteq Nat, S # {}
  PROVE  Min(S) \in S /\ \A y \in S : Min(S) <= y
<1>1. PICK x \in S : \A y \in S : x <= y
  BY LeastNumber
<1> QED BY <1>1 DEF Min

LEMMA GreatestPlace ==
  ASSUME NEW n \in Nat, NEW S, S \subseteq 0..n, S # {}
  PROVE  Max(S) \in S /\ \A y \in S : Max(S) >= y
<1> DEFINE T == {n - x : x \in S}
<1>1. T \subseteq Nat
  OBVIOUS
<1>2. PICK z \in S : TRUE
  OBVIOUS
<1>3. n - z \in T
  OBVIOUS
<1>4. PICK x \in S : n - x = Min(T)
  BY <1>1, <1>3, LeastPlace
<1>5. \A y \in S : n - y \in T
  OBVIOUS
<1>6. \A y \in S : n - x <= n - y
  BY <1>1, <1>4, <1>5, LeastPlace
<1>7. \A y \in S : x >= y
  BY <1>6
<1> QED  BY <1>7 DEF Max

(* Induction: a set that holds 0 and the successor of each of its numbers  *)
(* up to n holds all the numbers up to n.                                  *)
LEMMA Induction ==
  ASSUME NEW n \in Nat, NEW S, 0 \in S,
         \A i \in 0..(n - 1) : i \in S => i + 1 \in S
  PROVE  \A i \in 0..n : i \in S
<1> SUFFICES ASSUME NEW i \in 0..n, i \notin S  PROVE FALSE
  OBVIOUS
<1> DEFINE T == {j \in 0..n : j \notin S}
<1>1. PICK x \in T : \A y \in T : x <= y
  <2>1. T \in SUBSET Nat /\ i \in T
    OBVIOUS
  <2> HIDE DEF T
  <2> QED BY <2>1, LeastNumber
<1>2. x \in 0..n /\ x # 0 /\ x \notin S
  OBVIOUS
<1>3. x - 1 \in 0..(n - 1) /\ x - 1 \in 0..n /\ ~(x <= x - 1) /\ (x - 1) + 1 = x
  BY <1>2
<1>4. x - 1 \in S
  BY <1>1, <1>3
<1> QED BY <1>2, <1>3, <1>4

(* A recursion over 0..n: F gives, for i, the value at i from the value    *)
(* before it.                                                              *)
Iterated(n, R, a, F) ==
  CHOOSE f : f \in [0..n -> R] /\ f[0] = a /\ \A i \in 1..n : f[i] = F[i][f[i - 1]]

LEMMA Recursion ==
  ASSUME NEW n \in Nat, NEW R, NEW a \in R, NEW F \in [1..n -> [R -> R]]
  PROVE  /\ Iterated(n, R, a, F) \in [0..n -> R]
         /\ Iterated(n, R, a, F)[0] = a
         /\ \A i \in 1..n : Iterated(n, R, a, F)[i] = F[i][Iterated(n, R, a, F)[i - 1]]
<1> DEFINE Good(k, f) == f \in [0..k -> R] /\ f[0] = a /\ \A i \in 1..k : f[i] = F[i][f[i - 1]]
           S == {k \in 0..n : \E f : Good(k, f)}
<1>1. 0 \in S
  <2> DEFINE f == [i \in 0..0 |-> a]
  <2>1. f \in [0..0 -> R] /\ f[0] = a
    OBVIOUS
  <2>2. Good(0, f)
    BY <2>1
  <2> HIDE DEF f, Good
  <2> QED BY <2>2
<1>2. ASSUME NEW k \in 0..(n - 1), k \in S  PROVE k + 1 \in S
  <2>1. PICK f : Good(k, f)
    BY <1>2
  <2> DEFINE v == F[k + 1][f[k]]
             g == [i \in 0..(k + 1) |-> IF i = k + 1 THEN v ELSE f[i]]
  <2>2. k \in Nat /\ k \in 0..k /\ k + 1 \in 1..n /\ k + 1 \in 0..n
    OBVIOUS
  <2>3. v \in R
    BY <2>1, <2>2
  <2> HIDE DEF v
  <2>4. g \in [0..(k + 1) -> R]
    <3>1. \A i \in 0..(k + 1) : i = k + 1 \/ i \in 0..k
      OBVIOUS
    <3> QED BY <2>1, <2>3, <3>1
  <2>5. g[0] = a
    BY <2>1, <2>2
  <2>6. ASSUME NEW i \in 1..(k + 1)  PROVE g[i] = F[i][g[i - 1]]
    <3>1. i - 1 \in 0..(k + 1) /\ i - 1 # k + 1 /\ i \in 0..(k + 1)
      BY <2>2
    <3>2. g[i - 1] = f[i - 1]
      BY <3>1
    <3>3. CASE i = k + 1
      <4>1. g[i] = v /\ i - 1 = k
        BY <2>2, <3>1, <3>3
      <4> QED BY <3>2, <3>3, <4>1 DEF v
    <3>4. CASE i # k + 1
      <4>1. i \in 1..k
        BY <2>2, <3>4
      <4>2. f[i] = F[i][f[i - 1]]
        BY <2>1, <4>1
      <4> QED BY <3>1, <3>2, <3>4, <4>2
    <3> QED BY <3>3, <3>4
  <2> HIDE DEF g
  <2>7. Good(k + 1, g)
    BY <2>4, <2>5, <2>6
  <2> HIDE DEF Good
  <2> QED BY <2>2, <2>7
<1> HIDE DEF S
<1>3. n \in S
  BY <1>1, <1>2, Induction, n \in 0..n
<1>4. \E f : Good(n, f)
  BY <1>3 DEF S
<1>5. Iterated(n, R, a, F) = CHOOSE f : Good(n, f)
  BY DEF Iterated
<1> HIDE DEF Good
<1>6. Good(n, Iterated(n, R, a, F))
  BY <1>4, <1>5
<1> QED BY <1>6 DEF Good

(* A sequence without the places after c up to b.                          *)
LEMMA CutFacts ==
  ASSUME NEW R, NEW s \in Seq(R), NEW b \in 1..Len(s), NEW c \in 0..(b - 1)
  PROVE  LET u == SubSeq(s, 1, c) \o SubSeq(s, b + 1, Len(s))
         IN /\ u \in Seq(R)
            /\ Len(u) = Len(s) - (b - c)
            /\ \A i \in 1..Len(u) : u[i] = IF i <= c THEN s[i] ELSE s[i + (b - c)]
<1> DEFINE v == SubSeq(s, 1, c)
           w == SubSeq(s, b + 1, Len(s))
<1>0. Len(s) \in Nat /\ \A i \in 1..Len(s) : s[i] \in R
  BY ElementOfSeq, LenProperties
<1>1. v \in Seq(R) /\ Len(v) = c /\ \A i \in 1..c : v[i] = s[i]
  <2>1. \A i \in 1..c : s[i] \in R
    BY <1>0
  <2> QED  BY <1>0, <2>1, SubSeqProperties
<1>2. /\ w \in Seq(R)
      /\ Len(w) = Len(s) - b
      /\ \A i \in 1..(Len(s) - b) : w[i] = s[b + i]
  <2>1. \A i \in (b + 1)..Len(s) : s[i] \in R
    BY <1>0
  <2> QED  BY <1>0, <2>1, SubSeqProperties
<1> HIDE DEF v, w
<1> DEFINE u == v \o w
<1>3. /\ u \in Seq(R)
      /\ Len(u) = Len(v) + Len(w)
      /\ \A i \in 1..(Len(v) + Len(w)) :
           u[i] = IF i <= Len(v) THEN v[i] ELSE w[i - Len(v)]
  BY <1>1, <1>2, ConcatProperties
<1>4. SubSeq(s, 1, c) \o SubSeq(s, b + 1, Len(s)) = u
  BY DEF v, w
<1> HIDE DEF u
<1>5. Len(u) = Len(s) - (b - c)
  BY <1>0, <1>1, <1>2, <1>3
<1>6. ASSUME NEW i \in 1..Len(u)  PROVE u[i] = IF i <= c THEN s[i] ELSE s[i + (b - c)]
  <2>1. i \in 1..(Len(v) + Len(w))
    BY <1>3
  <2>2. CASE i <= c
    BY <1>1, <1>3, <2>1, <2>2
  <2>3. CASE ~(i <= c)
    <3>1. i - c \in 1..(Len(s) - b) /\ b + (i - c) = i + (b - c)
      BY <1>0, <1>1, <1>2, <2>1, <2>3
    <3> QED BY <1>1, <1>2, <1>3, <2>1, <2>3, <3>1
  <2> QED BY <2>2, <2>3
<1> QED BY <1>3, <1>4, <1>5, <1>6

(* RemoveAt, place by place.                                               *)
LEMMA RemoveAtFacts ==
  ASSUME NEW R, NEW s \in Seq(R), NEW k \in 1..Len(s)
  PROVE  /\ RemoveAt(s, k) \in Seq(R)
         /\ Len(RemoveAt(s, k)) = Len(s) - 1
         /\ \A i \in 1..(Len(s) - 1) :
              RemoveAt(s, k)[i] = IF i < k THEN s[i] ELSE s[i + 1]
<1> DEFINE c == k - 1
           u == SubSeq(s, 1, c) \o SubSeq(s, k + 1, Len(s))
<1>1. c \in 0..(k - 1) /\ k - c = 1 /\ Len(s) \in Nat /\ \A i \in Nat : i <= c <=> i < k
  OBVIOUS
<1>2. RemoveAt(s, k) = u
  BY DEF RemoveAt
<1> HIDE DEF c
<1>3. /\ u \in Seq(R)
      /\ Len(u) = Len(s) - (k - c)
      /\ \A i \in 1..Len(u) : u[i] = IF i <= c THEN s[i] ELSE s[i + (k - c)]
  BY <1>1, CutFacts
<1> HIDE DEF u
<1> QED BY <1>1, <1>2, <1>3

(* InsertAt, place by place.                                               *)
LEMMA InsertAtFacts ==
  ASSUME NEW R, NEW t \in Seq(R), NEW k \in 1..(Len(t) + 1), NEW w \in R
  PROVE  /\ InsertAt(t, k, w) \in Seq(R)
         /\ Len(InsertAt(t, k, w)) = Len(t) + 1
         /\ InsertAt(t, k, w)[k] = w
         /\ \A i \in 1..(k - 1) : InsertAt(t, k, w)[i] = t[i]
         /\ \A i \in k..Len(t) : InsertAt(t, k, w)[i + 1] = t[i]
<1> DEFINE a == SubSeq(t, 1, k - 1)
           b == SubSeq(t, k, Len(t))
           e == <<w>>
           c == a \o e
           r == c \o b
<1>0. Len(t) \in Nat /\ \A i \in 1..Len(t) : t[i] \in R
  BY ElementOfSeq, LenProperties
<1>1. /\ a \in Seq(R)
      /\ Len(a) = k - 1
      /\ \A i \in 1..(k - 1) : a[i] = t[i]
  <2>1. \A i \in 1..(k - 1) : t[i] \in R
    BY <1>0
  <2> QED  BY <2>1, SubSeqProperties
<1>2. /\ b \in Seq(R)
      /\ Len(b) = Len(t) - k + 1
      /\ \A i \in 1..(Len(t) - k + 1) : b[i] = t[k + i - 1]
  <2>1. \A i \in k..Len(t) : t[i] \in R
    BY <1>0
  <2> QED  BY <2>1, <1>0, SubSeqProperties
<1>3. InsertAt(t, k, w) = r
  BY DEF InsertAt
<1> HIDE DEF a, b
<1>4. /\ c \in Seq(R)
      /\ Len(c) = k
      /\ c[k] = w
      /\ \A i \in 1..(k - 1) : c[i] = t[i]
  <2>1. e \in Seq(R) /\ Len(e) = 1 /\ e[1] = w
    OBVIOUS
  <2> HIDE DEF e
  <2>2. /\ c \in Seq(R)
        /\ Len(c) = Len(a) + 1
        /\ \A i \in 1..(Len(a) + 1) :
             c[i] = IF i <= Len(a) THEN a[i] ELSE e[i - Len(a)]
    <3>1. /\ c \in Seq(R)
          /\ Len(c) = Len(a) + Len(e)
          /\ \A i \in 1..(Len(a) + Len(e)) :
               c[i] = IF i <= Len(a) THEN a[i] ELSE e[i - Len(a)]
      BY <1>1, <2>1, ConcatProperties
    <3> QED BY <2>1, <3>1
  <2> HIDE DEF c
  <2> QED  BY <1>1, <2>1, <2>2
<1> HIDE DEF c
<1>5. /\ r \in Seq(R)
      /\ Len(r) = Len(c) + Len(b)
      /\ \A i \in 1..(Len(c) + Len(b)) :
           r[i] = IF i <= Len(c) THEN c[i] ELSE b[i - Len(c)]
  BY <1>2, <1>4, ConcatProperties
<1> HIDE DEF r
<1>6. ASSUME NEW i \in k..Len(t)  PROVE r[i + 1] = t[i]
  <2>1. i + 1 - k \in 1..(Len(t) - k + 1) /\ k + (i + 1 - k) - 1 = i
    BY <1>0
  <2>2. b[i + 1 - k] = t[i]
    BY <2>1, <1>2
  <2>3. i + 1 \in 1..(Len(c) + Len(b)) /\ ~(i + 1 <= Len(c))
    BY <1>0, <1>4, <1>2
  <2> QED  BY <2>2, <2>3, <1>4, <1>5
<1>7. ASSUME NEW i \in 1..k  PROVE r[i] = c[i]
  BY <1>0, <1>4, <1>2, <1>5
<1> QED  BY <1>0, <1>2, <1>3, <1>4, <1>5, <1>6, <1>7

-----------------------------------------------------------------------------
(* The order of a list without duplicates is strict and total.             *)
LEMMA UnderOrder ==
  ASSUME NEW R, NEW s \in Seq(R), Unique(s)
  PROVE  /\ \A u, v : Under(s, u, v) => u \in Listed(s) /\ v \in Listed(s)
         /\ \A u, v : Under(s, u, v) => ~Under(s, v, u)
         /\ \A u, v, x : Under(s, u, v) /\ Under(s, v, x) => Under(s, u, x)
         /\ \A u, v \in Listed(s) : u # v => Under(s, u, v) \/ Under(s, v, u)
BY DEF Under, Unique, Listed

(* Dropping a window keeps the order of the others.                        *)
LEMMA WithoutOrder ==
  ASSUME NEW R, NEW s \in Seq(R), Unique(s), NEW w
  PROVE  /\ Without(s, w) \in Seq(R)
         /\ Unique(Without(s, w))
         /\ Listed(Without(s, w)) = Listed(s) \ {w}
         /\ \A u, v : Under(Without(s, w), u, v)
                        <=> Under(s, u, v) /\ u # w /\ v # w
<1>1. CASE w \notin Listed(s)
  BY <1>1 DEF Without, Under, Listed
<1>2. CASE w \in Listed(s)
  <2> DEFINE k == Position(s, w)
             t == Without(s, w)
  <2>1. k \in 1..Len(s) /\ s[k] = w
    BY <1>2 DEF Listed, Position
  <2>2. t = RemoveAt(s, k)
    BY <1>2 DEF Without
  <2> HIDE DEF k
  <2>3. /\ t \in Seq(R)
        /\ Len(t) = Len(s) - 1
        /\ \A i \in 1..(k - 1) : t[i] = s[i]
        /\ \A i \in k..Len(t) : t[i] = s[i + 1]
    <3>1. /\ t \in Seq(R)
          /\ Len(t) = Len(s) - 1
          /\ \A i \in 1..(Len(s) - 1) : t[i] = IF i < k THEN s[i] ELSE s[i + 1]
      BY <2>1, <2>2, RemoveAtFacts
    <3> HIDE DEF t
    <3> QED  BY <2>1, <3>1
  <2> HIDE DEF t
  <2>0. Len(s) \in Nat /\ k \in Int
    BY <2>1, LenProperties
  <2>4. \A i \in 1..Len(s) : s[i] = w => i = k
    BY <2>1 DEF Unique
  <2> DEFINE old(i) == IF i < k THEN i ELSE i + 1
             new(i) == IF i < k THEN i ELSE i - 1
  <2>5. ASSUME NEW i \in 1..Len(t)
        PROVE  old(i) \in 1..Len(s) /\ t[i] = s[old(i)] /\ old(i) # k
    <3>1. CASE i < k
      BY <3>1, <2>0, <2>1, <2>3
    <3>2. CASE i >= k
      BY <3>2, <2>0, <2>1, <2>3
    <3> QED  BY <3>1, <3>2, <2>0
  <2>6. ASSUME NEW i \in 1..Len(s), i # k
        PROVE  new(i) \in 1..Len(t) /\ t[new(i)] = s[i]
    <3>1. CASE i < k
      BY <3>1, <2>0, <2>1, <2>3
    <3>2. CASE i > k
      <4>1. i - 1 \in k..Len(t) /\ (i - 1) + 1 = i
        BY <3>2, <2>0, <2>1, <2>3
      <4> QED  BY <4>1, <3>2, <2>0, <2>1, <2>3
    <3> QED  BY <3>1, <3>2, <2>0, <2>6
  <2>9. \A i, j \in 1..Len(t) : i < j <=> old(i) < old(j)
    BY <2>0
  <2>10. \A i, j \in 1..Len(s) : i # k /\ j # k => (i < j <=> new(i) < new(j))
    BY <2>0
  <2>11. Unique(t)
    <3>1. \A i, j \in 1..Len(t) : old(i) = old(j) => i = j
      BY <2>0
    <3> HIDE DEF old
    <3> QED  BY <2>5, <3>1 DEF Unique
  <2> HIDE DEF old, new
  <2>7. Listed(t) = Listed(s) \ {w}
    <3>1. ASSUME NEW v \in Listed(t)  PROVE v \in Listed(s) \ {w}
      <4>1. PICK i \in 1..Len(t) : v = t[i]
        BY DEF Listed
      <4> QED  BY <4>1, <2>4, <2>5 DEF Listed
    <3>2. ASSUME NEW v \in Listed(s) \ {w}  PROVE v \in Listed(t)
      <4>1. PICK i \in 1..Len(s) : v = s[i]
        BY DEF Listed
      <4> QED  BY <4>1, <2>1, <2>6 DEF Listed
    <3> QED  BY <3>1, <3>2
  <2>8. ASSUME NEW u, NEW v
        PROVE  Under(t, u, v) <=> Under(s, u, v) /\ u # w /\ v # w
    <3>1. ASSUME Under(t, u, v)  PROVE Under(s, u, v) /\ u # w /\ v # w
      <4>1. PICK i, j \in 1..Len(t) : i < j /\ t[i] = u /\ t[j] = v
        BY <3>1 DEF Under
      <4>2. old(i) < old(j)
        BY <4>1, <2>9
      <4> QED  BY <4>1, <4>2, <2>4, <2>5 DEF Under
    <3>2. ASSUME Under(s, u, v), u # w, v # w  PROVE Under(t, u, v)
      <4>1. PICK i, j \in 1..Len(s) : i < j /\ s[i] = u /\ s[j] = v
        BY <3>2 DEF Under
      <4>2. i # k /\ j # k
        BY <4>1, <3>2, <2>1
      <4>3. new(i) < new(j)
        BY <4>1, <4>2, <2>10
      <4> QED  BY <4>1, <4>2, <4>3, <2>6 DEF Under
    <3> QED  BY <3>1, <3>2
  <2> QED  BY <2>3, <2>11, <2>7, <2>8 DEF t
<1> QED  BY <1>1, <1>2

(* Inserting a new window at a place puts it above what was before that    *)
(* place and below the rest.                                               *)
LEMMA InsertOrder ==
  ASSUME NEW R, NEW t \in Seq(R), Unique(t),
         NEW w \in R, w \notin Listed(t),
         NEW k \in 1..(Len(t) + 1)
  PROVE  LET r == InsertAt(t, k, w) IN
         /\ r \in Seq(R)
         /\ Unique(r)
         /\ Listed(r) = Listed(t) \union {w}
         /\ \A u, v : (u # w /\ v # w) => (Under(r, u, v) <=> Under(t, u, v))
         /\ \A i \in 1..Len(t) : Under(r, t[i], w) <=> i < k
         /\ \A i \in 1..Len(t) : Under(r, w, t[i]) <=> i >= k
<1> DEFINE r == InsertAt(t, k, w)
           new(i) == IF i < k THEN i ELSE i + 1
           old(i) == IF i < k THEN i ELSE i - 1
<1>0. Len(t) \in Nat /\ k \in Int
  BY LenProperties
<1>1. /\ r \in Seq(R)
      /\ Len(r) = Len(t) + 1
      /\ r[k] = w
      /\ \A i \in 1..(k - 1) : r[i] = t[i]
      /\ \A i \in k..Len(t) : r[i + 1] = t[i]
  <2>1. t \in Seq(R) /\ w \in R
    OBVIOUS
  <2>2. /\ r \in Seq(R)
        /\ Len(r) = Len(t) + 1
        /\ r[k] = w
        /\ \A i \in 1..(k - 1) : r[i] = t[i]
        /\ \A i \in k..Len(t) : r[i + 1] = t[i]
    BY <2>1, InsertAtFacts
  <2> QED BY <2>2
<1> HIDE DEF r
<1>2. \A i \in 1..Len(t) : t[i] # w
  BY DEF Listed
<1>3. ASSUME NEW i \in 1..Len(t)
      PROVE  new(i) \in 1..Len(r) /\ r[new(i)] = t[i] /\ new(i) # k
  <2>1. CASE i < k
    BY <2>1, <1>0, <1>1
  <2>2. CASE i >= k
    BY <2>2, <1>0, <1>1
  <2> QED  BY <2>1, <2>2, <1>0
<1>4. ASSUME NEW i \in 1..Len(r), i # k
      PROVE  old(i) \in 1..Len(t) /\ r[i] = t[old(i)]
  <2>1. CASE i < k
    BY <2>1, <1>0, <1>1
  <2>2. CASE i > k
    <3>1. i - 1 \in k..Len(t) /\ (i - 1) + 1 = i
      BY <2>2, <1>0, <1>1
    <3> QED  BY <3>1, <2>2, <1>0, <1>1
  <2> QED  BY <2>1, <2>2, <1>0, <1>4
<1>5. k \in 1..Len(r)
  BY <1>0, <1>1
<1>6. \A i, j \in 1..Len(r) :
        i # k /\ j # k => /\ i < j <=> old(i) < old(j)
                          /\ old(i) = old(j) => i = j
  BY <1>0, <1>1
<1>7. \A i, j \in 1..Len(t) : i < j => new(i) < new(j)
  BY <1>0
<1>13. \A i \in 1..Len(t) : (i < k <=> new(i) < k) /\ (i >= k <=> k < new(i))
  BY <1>0
<1> HIDE DEF old, new
<1>8. \A i \in 1..Len(r) : r[i] = w => i = k
  BY <1>2, <1>4
<1>9. Unique(r)
  <2>1. ASSUME NEW i \in 1..Len(r), NEW j \in 1..Len(r), r[i] = r[j]
        PROVE  i = j
    <3>1. CASE i = k \/ j = k
      BY <3>1, <2>1, <1>1, <1>8
    <3>2. CASE i # k /\ j # k
      <4>1. old(i) = old(j)
        BY <3>2, <2>1, <1>4 DEF Unique
      <4> QED  BY <4>1, <3>2, <1>6
    <3> QED  BY <3>1, <3>2
  <2> QED  BY <2>1 DEF Unique
<1>10. Listed(r) = Listed(t) \union {w}
  <2>1. w \in Listed(r)
    BY <1>1, <1>5 DEF Listed
  <2>2. ASSUME NEW v \in Listed(r), v # w  PROVE v \in Listed(t)
    <3>1. PICK i \in 1..Len(r) : v = r[i]
      BY DEF Listed
    <3> QED  BY <3>1, <2>2, <1>1, <1>4 DEF Listed
  <2>3. ASSUME NEW v \in Listed(t)  PROVE v \in Listed(r)
    <3>1. PICK i \in 1..Len(t) : v = t[i]
      BY DEF Listed
    <3> QED  BY <3>1, <1>3 DEF Listed
  <2> QED  BY <2>1, <2>2, <2>3
<1>11. ASSUME NEW u, NEW v, u # w, v # w
       PROVE  Under(r, u, v) <=> Under(t, u, v)
  <2>1. ASSUME Under(r, u, v)  PROVE Under(t, u, v)
    <3>1. PICK i, j \in 1..Len(r) : i < j /\ r[i] = u /\ r[j] = v
      BY <2>1 DEF Under
    <3>2. i # k /\ j # k
      BY <3>1, <1>1, <1>11
    <3>3. old(i) < old(j)
      BY <3>1, <3>2, <1>6
    <3> QED  BY <3>1, <3>2, <3>3, <1>4 DEF Under
  <2>2. ASSUME Under(t, u, v)  PROVE Under(r, u, v)
    <3>1. PICK i, j \in 1..Len(t) : i < j /\ t[i] = u /\ t[j] = v
      BY <2>2 DEF Under
    <3>2. new(i) < new(j)
      BY <3>1, <1>7
    <3> QED  BY <3>1, <3>2, <1>3 DEF Under
  <2> QED  BY <2>1, <2>2
<1>12. ASSUME NEW i \in 1..Len(t)
       PROVE  /\ Under(r, t[i], w) <=> i < k
              /\ Under(r, w, t[i]) <=> i >= k
  <2>1. \A x \in 1..Len(r) : r[x] = t[i] <=> x = new(i)
    BY <1>3, <1>9 DEF Unique
  <2>2. Under(r, t[i], w) <=> new(i) < k
    BY <2>1, <1>1, <1>3, <1>5, <1>8 DEF Under
  <2>3. Under(r, w, t[i]) <=> k < new(i)
    BY <2>1, <1>1, <1>3, <1>5, <1>8 DEF Under
  <2> QED  BY <2>2, <2>3, <1>13
<1> QED  BY <1>1, <1>9, <1>10, <1>11, <1>12 DEF r

(* A window placed after a lies just above a, and before a just below it.  *)
LEMMA InsertAfterOrder ==
  ASSUME NEW R, NEW s \in Seq(R), Unique(s),
         NEW w \in R, NEW a \in Listed(s), a # w
  PROVE  LET r == InsertAfter(s, a, w) IN
         /\ r \in Seq(R)
         /\ Unique(r)
         /\ Listed(r) = Listed(s) \union {w}
         /\ \A u, v : (u # w /\ v # w) => (Under(r, u, v) <=> Under(s, u, v))
         /\ \A u \in Listed(s) \ {w} :
              /\ Under(r, u, w) <=> (u = a \/ Under(s, u, a))
              /\ Under(r, w, u) <=> Under(s, a, u)
<1> DEFINE t == Without(s, w)
           k == Position(t, a)
           r == InsertAt(t, k + 1, w)
<1>1. /\ t \in Seq(R)
      /\ Unique(t)
      /\ Listed(t) = Listed(s) \ {w}
      /\ \A u, v : Under(t, u, v) <=> Under(s, u, v) /\ u # w /\ v # w
  BY WithoutOrder
<1>2. InsertAfter(s, a, w) = r
  BY DEF InsertAfter
<1> HIDE DEF t
<1>3. k \in 1..Len(t) /\ t[k] = a
  BY <1>1 DEF Position, Listed
<1> HIDE DEF k
<1>4. k + 1 \in 1..(Len(t) + 1) /\ w \notin Listed(t)
  BY <1>1, <1>3, LenProperties
<1>5. /\ r \in Seq(R)
      /\ Unique(r)
      /\ Listed(r) = Listed(t) \union {w}
      /\ \A u, v : (u # w /\ v # w) => (Under(r, u, v) <=> Under(t, u, v))
      /\ \A i \in 1..Len(t) : Under(r, t[i], w) <=> i < k + 1
      /\ \A i \in 1..Len(t) : Under(r, w, t[i]) <=> i >= k + 1
  BY <1>1, <1>4, InsertOrder
<1> HIDE DEF r
<1>6. ASSUME NEW u \in Listed(s) \ {w}
      PROVE  /\ Under(r, u, w) <=> (u = a \/ Under(s, u, a))
             /\ Under(r, w, u) <=> Under(s, a, u)
  <2>1. PICK i \in 1..Len(t) : t[i] = u
    BY <1>1 DEF Listed
  <2>2. /\ u = a <=> i = k
        /\ Under(t, u, a) <=> i < k
        /\ Under(t, a, u) <=> k < i
    BY <2>1, <1>1, <1>3 DEF Unique, Under
  <2>3. (i < k + 1 <=> (i = k \/ i < k)) /\ (i >= k + 1 <=> k < i)
    BY <1>3
  <2> QED  BY <2>1, <2>2, <2>3, <1>1, <1>5
<1> QED  BY <1>1, <1>2, <1>5, <1>6

LEMMA InsertBeforeOrder ==
  ASSUME NEW R, NEW s \in Seq(R), Unique(s),
         NEW w \in R, NEW a \in Listed(s), a # w
  PROVE  LET r == InsertBefore(s, a, w) IN
         /\ r \in Seq(R)
         /\ Unique(r)
         /\ Listed(r) = Listed(s) \union {w}
         /\ \A u, v : (u # w /\ v # w) => (Under(r, u, v) <=> Under(s, u, v))
         /\ \A u \in Listed(s) \ {w} :
              /\ Under(r, u, w) <=> Under(s, u, a)
              /\ Under(r, w, u) <=> (u = a \/ Under(s, a, u))
<1> DEFINE t == Without(s, w)
           k == Position(t, a)
           r == InsertAt(t, k, w)
<1>1. /\ t \in Seq(R)
      /\ Unique(t)
      /\ Listed(t) = Listed(s) \ {w}
      /\ \A u, v : Under(t, u, v) <=> Under(s, u, v) /\ u # w /\ v # w
  BY WithoutOrder
<1>2. InsertBefore(s, a, w) = r
  BY DEF InsertBefore
<1> HIDE DEF t
<1>3. k \in 1..Len(t) /\ t[k] = a
  BY <1>1 DEF Position, Listed
<1> HIDE DEF k
<1>4. k \in 1..(Len(t) + 1) /\ w \notin Listed(t)
  BY <1>1, <1>3, LenProperties
<1>5. /\ r \in Seq(R)
      /\ Unique(r)
      /\ Listed(r) = Listed(t) \union {w}
      /\ \A u, v : (u # w /\ v # w) => (Under(r, u, v) <=> Under(t, u, v))
      /\ \A i \in 1..Len(t) : Under(r, t[i], w) <=> i < k
      /\ \A i \in 1..Len(t) : Under(r, w, t[i]) <=> i >= k
  BY <1>1, <1>4, InsertOrder
<1> HIDE DEF r
<1>6. ASSUME NEW u \in Listed(s) \ {w}
      PROVE  /\ Under(r, u, w) <=> Under(s, u, a)
             /\ Under(r, w, u) <=> (u = a \/ Under(s, a, u))
  <2>1. PICK i \in 1..Len(t) : t[i] = u
    BY <1>1 DEF Listed
  <2>2. /\ u = a <=> i = k
        /\ Under(t, u, a) <=> i < k
        /\ Under(t, a, u) <=> k < i
    BY <2>1, <1>1, <1>3 DEF Unique, Under
  <2>3. i >= k <=> (i = k \/ k < i)
    BY <1>3
  <2> QED  BY <2>1, <2>2, <2>3, <1>1, <1>5
<1> QED  BY <1>1, <1>2, <1>5, <1>6

-----------------------------------------------------------------------------
(* The siblings that stack() chooses.                                      *)

(* limit_above() finds, unless w is alone in the list, a sibling a other   *)
(* than w.  Either a is higher than w and whatever lies under a is not, or *)
(* nothing is higher than w and, w aside, nothing lies above a.            *)
LEMMA LimitAbovePlace ==
  ASSUME NEW R, NEW s \in Seq(R), Unique(s), s # <<>>,
         NEW lv \in [R -> Int], NEW w \in R
  PROVE  LET k == LimitAbove(s, lv, w) IN
         IF k \in 1..Len(s)
         THEN /\ s[k] \in Listed(s) \ {w}
              /\ \/ /\ lv[s[k]] > lv[w]
                    /\ \A u \in Listed(s) : Under(s, u, s[k]) => lv[u] <= lv[w]
                 \/ \A u \in Listed(s) \ {w} :
                      lv[u] <= lv[w] /\ ~Under(s, s[k], u)
         ELSE Listed(s) = {w}
<1> DEFINE higher == {i \in 1..Len(s) : lv[s[i]] > lv[w]}
           k == LimitAbove(s, lv, w)
<1>0. /\ Len(s) \in Nat \ {0}
      /\ \A i \in 1..Len(s) : s[i] \in R /\ lv[s[i]] \in Int
      /\ lv[w] \in Int
  BY LenProperties, ElementOfSeq, EmptySeq
<1>1. CASE higher # {}
  <2>1. higher \subseteq Nat
    BY <1>0
  <2> DEFINE m == Min(higher)
  <2>2. m \in higher /\ \A i \in higher : m <= i
    BY <1>1, <2>1, LeastPlace
  <2>3. k = m
    BY <1>1, <2>2, <1>0 DEF LimitAbove
  <2> HIDE DEF m, k
  <2>4. ASSUME NEW u \in Listed(s), Under(s, u, s[m])  PROVE lv[u] <= lv[w]
    <3>1. PICK i, j \in 1..Len(s) : i < j /\ s[i] = u /\ s[j] = s[m]
      BY <2>4 DEF Under
    <3>2. j = m
      BY <3>1, <2>2 DEF Unique
    <3>3. i \notin higher
      BY <3>1, <3>2, <2>2
    <3> QED  BY <3>1, <3>3, <1>0
  <2>5. s[m] \in Listed(s) \ {w} /\ m \in 1..Len(s) /\ lv[s[m]] > lv[w]
    BY <2>2, <1>0 DEF Listed
  <2> QED  BY <2>3, <2>4, <2>5 DEF k
<1>2. CASE higher = {}
  <2>1. \A u \in Listed(s) : lv[u] <= lv[w]
    BY <1>2, <1>0 DEF Listed
  <2>2. k = IF s[Len(s)] = w THEN Len(s) - 1 ELSE Len(s)
    BY <1>2 DEF LimitAbove
  <2> HIDE DEF k, higher
  <2>3. CASE k \in 1..Len(s)
    <3>1. s[k] \in Listed(s) \ {w}
      BY <2>2, <2>3, <1>0 DEF Unique, Listed
    <3>2. ASSUME NEW u \in Listed(s) \ {w}  PROVE ~Under(s, s[k], u)
      <4>1. SUFFICES ASSUME NEW i \in 1..Len(s), NEW j \in 1..Len(s),
                            i < j, s[i] = s[k], s[j] = u
                     PROVE  FALSE
        BY DEF Under
      <4>2. i = k /\ s[j] # w
        BY <4>1, <2>3, <3>2 DEF Unique
      <4> QED  BY <4>1, <4>2, <2>2, <1>0
    <3> QED  BY <2>1, <2>3, <3>1, <3>2 DEF k
  <2>4. CASE k \notin 1..Len(s)
    <3>1. Len(s) \in 1..Len(s)
      BY <1>0
    <3>2. s[Len(s)] = w /\ k = Len(s) - 1
      BY <2>2, <2>4, <3>1
    <3>3. Len(s) = 1
      BY <2>4, <3>2, <1>0
    <3> QED  BY <3>2, <3>3, <2>4 DEF Listed, k
  <2> QED  BY <2>3, <2>4
<1> QED  BY <1>1, <1>2

(* limit_below() is its mirror image.                                      *)
LEMMA LimitBelowPlace ==
  ASSUME NEW R, NEW s \in Seq(R), Unique(s), s # <<>>,
         NEW lv \in [R -> Int], NEW w \in R
  PROVE  LET k == LimitBelow(s, lv, w) IN
         IF k \in 1..Len(s)
         THEN /\ s[k] \in Listed(s) \ {w}
              /\ \/ /\ lv[s[k]] < lv[w]
                    /\ \A u \in Listed(s) : Under(s, s[k], u) => lv[u] >= lv[w]
                 \/ \A u \in Listed(s) \ {w} :
                      lv[u] >= lv[w] /\ ~Under(s, u, s[k])
         ELSE Listed(s) = {w}
<1> DEFINE lower == {i \in 1..Len(s) : lv[s[i]] < lv[w]}
           k == LimitBelow(s, lv, w)
<1>0. /\ Len(s) \in Nat \ {0}
      /\ \A i \in 1..Len(s) : s[i] \in R /\ lv[s[i]] \in Int
      /\ lv[w] \in Int
  BY LenProperties, ElementOfSeq, EmptySeq
<1>1. CASE lower # {}
  <2> DEFINE m == Max(lower)
  <2>1. lower \subseteq 0..Len(s)
    OBVIOUS
  <2>2. m \in lower /\ \A i \in lower : m >= i
    <3> HIDE DEF lower
    <3> QED BY <1>0, <1>1, <2>1, GreatestPlace
  <2>3. k = m
    BY <1>1, <2>2, <1>0 DEF LimitBelow
  <2> HIDE DEF m, k
  <2>4. ASSUME NEW u \in Listed(s), Under(s, s[m], u)  PROVE lv[u] >= lv[w]
    <3>1. PICK i, j \in 1..Len(s) : i < j /\ s[i] = s[m] /\ s[j] = u
      BY <2>4 DEF Under
    <3>2. i = m
      BY <3>1, <2>2 DEF Unique
    <3>3. j \notin lower
      BY <3>1, <3>2, <2>2
    <3> QED  BY <3>1, <3>3, <1>0
  <2>5. s[m] \in Listed(s) \ {w} /\ m \in 1..Len(s) /\ lv[s[m]] < lv[w]
    BY <2>2, <1>0 DEF Listed
  <2> QED  BY <2>3, <2>4, <2>5 DEF k
<1>2. CASE lower = {}
  <2>1. \A u \in Listed(s) : lv[u] >= lv[w]
    BY <1>2, <1>0 DEF Listed
  <2>2. k = IF s[1] = w THEN 2 ELSE 1
    BY <1>2 DEF LimitBelow
  <2> HIDE DEF k, lower
  <2>3. CASE k \in 1..Len(s)
    <3>1. s[k] \in Listed(s) \ {w}
      BY <2>2, <2>3, <1>0 DEF Unique, Listed
    <3>2. ASSUME NEW u \in Listed(s) \ {w}  PROVE ~Under(s, u, s[k])
      <4>1. SUFFICES ASSUME NEW i \in 1..Len(s), NEW j \in 1..Len(s),
                            i < j, s[i] = u, s[j] = s[k]
                     PROVE  FALSE
        BY DEF Under
      <4>2. j = k /\ s[i] # w
        BY <4>1, <2>3, <3>2 DEF Unique
      <4> QED  BY <4>1, <4>2, <2>2, <1>0
    <3> QED  BY <2>1, <2>3, <3>1, <3>2 DEF k
  <2>4. CASE k \notin 1..Len(s)
    <3>1. 1 \in 1..Len(s)
      BY <1>0
    <3>2. s[1] = w /\ k = 2
      BY <2>2, <2>4, <3>1
    <3>3. Len(s) = 1
      <4>1. \A n \in Nat \ {0} : 2 \notin 1..n => n = 1
        OBVIOUS
      <4> QED  BY <4>1, <3>2, <2>4, <1>0
    <3> QED  BY <3>2, <3>3, <2>4 DEF Listed, k
  <2> QED  BY <2>3, <2>4
<1> QED  BY <1>1, <1>2

-----------------------------------------------------------------------------
(* w takes the side of a that GoesBelow() picks, whatever the list is.     *)
LEMMA PutNextToOrder ==
  ASSUME NEW R, NEW s \in Seq(R), Unique(s),
         NEW lv \in [R -> Int], NEW focused \in BOOLEAN,
         NEW w \in R, NEW a \in Listed(s), a # w
  PROVE  LET r == PutNextTo(s, lv, w, a, focused)
             below == GoesBelow(lv, w, a, focused)
         IN /\ r \in Seq(R)
            /\ Unique(r)
            /\ Listed(r) = Listed(s) \union {w}
            /\ \A u, v : (u # w /\ v # w) => (Under(r, u, v) <=> Under(s, u, v))
            /\ \A u \in Listed(s) \ {w} :
                 /\ Under(r, u, w) <=> (Under(s, u, a) \/ (u = a /\ ~below))
                 /\ Under(r, w, u) <=> (Under(s, a, u) \/ (u = a /\ below))
<1>1. CASE GoesBelow(lv, w, a, focused)
  BY <1>1, InsertBeforeOrder DEF PutNextTo
<1>2. CASE ~GoesBelow(lv, w, a, focused)
  BY <1>2, InsertAfterOrder DEF PutNextTo
<1> QED  BY <1>1, <1>2

(* Where stack() puts a window of a non-empty list: either it stays, being *)
(* alone, or it goes to a side of a sibling a, and if the others are in    *)
(* order, whatever ends up below is not higher and whatever ends up above  *)
(* is not lower.                                                           *)
LEMMA SiblingSide ==
  ASSUME NEW R, NEW s \in Seq(R), Unique(s), s # <<>>,
         NEW lv \in [R -> Int], NEW w \in R, NEW focused \in BOOLEAN,
         Limit(s, lv, w, focused) \in 1..Len(s),
         \A u, v \in Listed(s) \ {w} : Under(s, u, v) => lv[u] <= lv[v]
  PROVE  LET a == s[Limit(s, lv, w, focused)]
             below == GoesBelow(lv, w, a, focused)
         IN \A u \in Listed(s) \ {w} :
              /\ Under(s, u, a) \/ (u = a /\ ~below) => lv[u] <= lv[w]
              /\ Under(s, a, u) \/ (u = a /\ below) => lv[u] >= lv[w]
              /\ focused /\ lv[u] <= lv[w] => Under(s, u, a) \/ (u = a /\ ~below)
              /\ ~focused /\ lv[u] >= lv[w] => Under(s, a, u) \/ (u = a /\ below)
<1> DEFINE a == s[Limit(s, lv, w, focused)]
           below == GoesBelow(lv, w, a, focused)
<1>1. lv[w] \in Int /\ \A u \in Listed(s) : u \in R /\ lv[u] \in Int
  BY ElementOfSeq DEF Listed
<1>2. CASE focused
  <2>1. /\ a \in Listed(s) \ {w}
        /\ \/ /\ lv[a] > lv[w]
              /\ \A u \in Listed(s) : Under(s, u, a) => lv[u] <= lv[w]
           \/ \A u \in Listed(s) \ {w} : lv[u] <= lv[w] /\ ~Under(s, a, u)
    BY <1>2, LimitAbovePlace DEF Limit
  <2>2. below <=> lv[w] < lv[a]
    BY <1>2 DEF GoesBelow
  <2> HIDE DEF a, below
  <2>3. \A u \in Listed(s) \ {w} : Under(s, u, a) \/ u = a \/ Under(s, a, u)
    BY <2>1, UnderOrder
  <2>4. ASSUME NEW u \in Listed(s) \ {w}
        PROVE  /\ Under(s, u, a) \/ (u = a /\ ~below) => lv[u] <= lv[w]
               /\ Under(s, a, u) \/ (u = a /\ below) => lv[u] >= lv[w]
               /\ focused /\ lv[u] <= lv[w] => Under(s, u, a) \/ (u = a /\ ~below)
               /\ ~focused /\ lv[u] >= lv[w] => Under(s, a, u) \/ (u = a /\ below)
    BY <2>1, <2>2, <2>3, <1>1, <1>2
  <2> QED  BY <2>4 DEF a, below
<1>3. CASE ~focused
  <2>1. /\ a \in Listed(s) \ {w}
        /\ \/ /\ lv[a] < lv[w]
              /\ \A u \in Listed(s) : Under(s, a, u) => lv[u] >= lv[w]
           \/ \A u \in Listed(s) \ {w} : lv[u] >= lv[w] /\ ~Under(s, u, a)
    BY <1>3, LimitBelowPlace DEF Limit
  <2>2. below <=> lv[w] <= lv[a]
    BY <1>3, <1>1, <2>1 DEF GoesBelow
  <2> HIDE DEF a, below
  <2>3. \A u \in Listed(s) \ {w} : Under(s, u, a) \/ u = a \/ Under(s, a, u)
    BY <2>1, UnderOrder
  <2>4. ASSUME NEW u \in Listed(s) \ {w}
        PROVE  /\ Under(s, u, a) \/ (u = a /\ ~below) => lv[u] <= lv[w]
               /\ Under(s, a, u) \/ (u = a /\ below) => lv[u] >= lv[w]
               /\ focused /\ lv[u] <= lv[w] => Under(s, u, a) \/ (u = a /\ ~below)
               /\ ~focused /\ lv[u] >= lv[w] => Under(s, a, u) \/ (u = a /\ below)
    BY <2>1, <2>2, <2>3, <1>1, <1>3
  <2> QED  BY <2>4 DEF a, below
<1> QED  BY <1>2, <1>3

(* Either w is alone in the new list, or it was put next to a sibling.     *)
LEMMA AloneOrSibling ==
  ASSUME NEW R, NEW s \in Seq(R), Unique(s),
         NEW lv \in [R -> Int], NEW w \in R, NEW focused \in BOOLEAN
  PROVE  LET r == StackList(s, lv, w, focused)
             k == Limit(s, lv, w, focused)
         IN IF s # <<>> /\ k \in 1..Len(s)
            THEN /\ s[k] \in Listed(s) \ {w}
                 /\ r = PutNextTo(s, lv, w, s[k], focused)
            ELSE /\ r \in Seq(R)
                 /\ Unique(r)
                 /\ Listed(s) \subseteq {w}
                 /\ Listed(r) = {w}
                 /\ \A u, v : ~Under(r, u, v) /\ ~Under(s, u, v)
<1> DEFINE r == StackList(s, lv, w, focused)
           k == Limit(s, lv, w, focused)
<1>1. CASE s = <<>>
  <2>1. r = <<w>> /\ Listed(s) = {} /\ Len(r) = 1 /\ r[1] = w
    BY <1>1 DEF StackList, Listed
  <2>2. r \in Seq(R) /\ Unique(r) /\ Listed(r) = {w}
    BY <2>1 DEF Unique, Listed
  <2>3. \A u, v : ~Under(r, u, v) /\ ~Under(s, u, v)
    BY <1>1, <2>1 DEF Under
  <2> QED  BY <1>1, <2>1, <2>2, <2>3
<1>2. CASE s # <<>> /\ k \notin 1..Len(s)
  <2>1. Listed(s) = {w}
    BY <1>2, LimitAbovePlace, LimitBelowPlace DEF Limit
  <2>2. r = s
    BY <1>2 DEF StackList
  <2>3. \A u, v : ~Under(s, u, v)
    BY <2>1, UnderOrder
  <2> QED  BY <1>2, <2>1, <2>2, <2>3
<1>3. CASE s # <<>> /\ k \in 1..Len(s)
  <2>1. s[k] \in Listed(s) \ {w}
    BY <1>3, LimitAbovePlace, LimitBelowPlace DEF Limit
  <2>2. r = PutNextTo(s, lv, w, s[k], focused)
    BY <1>3 DEF StackList
  <2> QED  BY <1>3, <2>1, <2>2
<1> QED  BY <1>1, <1>2, <1>3

(* One turn of the loop of stack() keeps the list free of duplicates and   *)
(* the others' order, and adds w.                                          *)
LEMMA StackListSound ==
  ASSUME NEW R, NEW s \in Seq(R), Unique(s),
         NEW lv \in [R -> Int], NEW w \in R, NEW focused \in BOOLEAN
  PROVE  /\ StackList(s, lv, w, focused) \in Seq(R)
         /\ Unique(StackList(s, lv, w, focused))
         /\ Listed(StackList(s, lv, w, focused)) = Listed(s) \union {w}
<1> DEFINE r == StackList(s, lv, w, focused)
           k == Limit(s, lv, w, focused)
           a == s[k]
<1>1. CASE s # <<>> /\ k \in 1..Len(s)
  <2>1. a \in Listed(s) /\ a # w /\ r = PutNextTo(s, lv, w, a, focused)
    BY <1>1, AloneOrSibling
  <2> HIDE DEF a, r
  <2> QED  BY <2>1, PutNextToOrder, SMTT(30) DEF r
<1>2. CASE ~(s # <<>> /\ k \in 1..Len(s))
  BY <1>2, AloneOrSibling
<1> QED  BY <1>1, <1>2

(* If the other windows are in order, so is the whole list afterwards,     *)
(* with w where focused asked it to be.                                    *)
LEMMA StackListInOrder ==
  ASSUME NEW R, NEW s \in Seq(R), Unique(s),
         NEW lv \in [R -> Int], NEW w \in R, NEW focused \in BOOLEAN,
         \A u, v \in Listed(s) \ {w} : Under(s, u, v) => lv[u] <= lv[v]
  PROVE  LET r == StackList(s, lv, w, focused) IN
         /\ \A u, v \in Listed(r) : Under(r, u, v) => lv[u] <= lv[v]
         /\ \A u \in Listed(s) \ {w} :
              /\ focused /\ lv[u] <= lv[w] => Under(r, u, w)
              /\ ~focused /\ lv[u] >= lv[w] => Under(r, w, u)
<1> DEFINE r == StackList(s, lv, w, focused)
           k == Limit(s, lv, w, focused)
           a == s[k]
           below == GoesBelow(lv, w, a, focused)
<1>1. CASE s # <<>> /\ k \in 1..Len(s)
  <2>1. a \in Listed(s) /\ a # w /\ r = PutNextTo(s, lv, w, a, focused)
    BY <1>1, AloneOrSibling
  <2>2. \A u \in Listed(s) \ {w} :
          /\ Under(s, u, a) \/ (u = a /\ ~below) => lv[u] <= lv[w]
          /\ Under(s, a, u) \/ (u = a /\ below) => lv[u] >= lv[w]
          /\ focused /\ lv[u] <= lv[w] => Under(s, u, a) \/ (u = a /\ ~below)
          /\ ~focused /\ lv[u] >= lv[w] => Under(s, a, u) \/ (u = a /\ below)
    BY <1>1, SiblingSide
  <2> HIDE DEF a, r
  <2>3. /\ r \in Seq(R)
        /\ Unique(r)
        /\ Listed(r) = Listed(s) \union {w}
        /\ \A u, v : (u # w /\ v # w) => (Under(r, u, v) <=> Under(s, u, v))
        /\ \A u \in Listed(s) \ {w} :
             /\ Under(r, u, w) <=> (Under(s, u, a) \/ (u = a /\ ~below))
             /\ Under(r, w, u) <=> (Under(s, a, u) \/ (u = a /\ below))
    <3> DEFINE p == PutNextTo(s, lv, w, a, focused)
    <3>1. /\ p \in Seq(R)
          /\ Unique(p)
          /\ Listed(p) = Listed(s) \union {w}
          /\ \A u, v : (u # w /\ v # w) => (Under(p, u, v) <=> Under(s, u, v))
          /\ \A u \in Listed(s) \ {w} :
               /\ Under(p, u, w) <=> (Under(s, u, a) \/ (u = a /\ ~below))
               /\ Under(p, w, u) <=> (Under(s, a, u) \/ (u = a /\ below))
      BY <2>1, PutNextToOrder, SMTT(30)
    <3> HIDE DEF p, below
    <3> QED  BY <3>1, <2>1 DEF p
  <2>4. \A u \in Listed(r) : u \in R /\ lv[u] \in Int
    BY <2>3, ElementOfSeq DEF Listed
  <2> HIDE DEF below, k
  <2>5. ASSUME NEW u \in Listed(r), NEW v \in Listed(r), Under(r, u, v)
        PROVE  lv[u] <= lv[v]
    <3>1. ~Under(r, w, w)
      BY <2>3, UnderOrder
    <3>2. CASE u # w /\ v # w
      BY <3>2, <2>3, <2>5
    <3>3. CASE u = w /\ v # w
      BY <3>3, <2>2, <2>3, <2>4, <2>5
    <3>4. CASE u # w /\ v = w
      BY <3>4, <2>2, <2>3, <2>4, <2>5
    <3> QED  BY <3>1, <3>2, <3>3, <3>4, <2>5
  <2>6. ASSUME NEW u \in Listed(s) \ {w}
        PROVE  /\ focused /\ lv[u] <= lv[w] => Under(r, u, w)
               /\ ~focused /\ lv[u] >= lv[w] => Under(r, w, u)
    BY <2>2, <2>3
  <2> QED  BY <2>5, <2>6 DEF r
<1>2. CASE ~(s # <<>> /\ k \in 1..Len(s))
  BY <1>2, AloneOrSibling
<1> QED  BY <1>1, <1>2
=============================================================================
