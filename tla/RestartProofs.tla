--------------------------- MODULE RestartProofs ---------------------------
(***************************************************************************)
(* For any monitors, desktops, windows and readers: the streams and the    *)
(* counts of the subscribers over restarts, and what the last report says. *)
(***************************************************************************)
EXTENDS Restart, ListFacts, FiniteSetTheorems

-----------------------------------------------------------------------------
(* Lists without duplicates.                                               *)

LEMMA WithoutFacts ==
  ASSUME NEW R, NEW q \in Seq(R), IsInjective(q), NEW x
  PROVE  /\ Unlisted(q, x) \in Seq(R)
         /\ IsInjective(Unlisted(q, x))
         /\ Range(Unlisted(q, x)) = Range(q) \ {x}
<1>1. CASE x \notin Range(q)
  BY <1>1 DEF Unlisted
<1>2. CASE x \in Range(q)
  <2> DEFINE k == CHOOSE i \in 1..Len(q) : q[i] = x
             u == RemoveAt(q, k)
  <2>1. k \in 1..Len(q) /\ q[k] = x
    BY <1>2 DEF Range
  <2>2. Unlisted(q, x) = u
    BY <1>2 DEF Unlisted
  <2> HIDE DEF k
  <2>3. /\ u \in Seq(R) /\ Len(u) = Len(q) - 1
        /\ \A i \in 1..(Len(q) - 1) : u[i] = IF i < k THEN q[i] ELSE q[i + 1]
    BY <2>1, RemoveAtFacts
  <2> HIDE DEF u
  <2>4. Len(q) \in Nat /\ DOMAIN u = 1..(Len(q) - 1) /\ DOMAIN q = 1..Len(q)
    BY <2>3
  <2>5. ASSUME NEW i \in 1..(Len(q) - 1)
        PROVE  \E j \in 1..Len(q) : u[i] = q[j] /\ j # k /\ (j = i \/ j = i + 1)
                                    /\ (i < k <=> j = i)
    BY <2>1, <2>3, <2>4
  <2>6. ASSUME NEW j \in 1..Len(q), j # k
        PROVE  \E i \in 1..(Len(q) - 1) : u[i] = q[j]
    <3>1. CASE j < k
      BY <2>1, <2>3, <2>4, <3>1
    <3>2. CASE j > k
      <4>1. j - 1 \in 1..(Len(q) - 1) /\ ~(j - 1 < k) /\ (j - 1) + 1 = j
        BY <2>1, <2>4, <3>2
      <4>2. u[j - 1] = q[j]
        BY <2>3, <4>1
      <4> QED BY <4>1, <4>2
    <3> QED BY <2>1, <2>4, <2>6, <3>1, <3>2
  <2>7. IsInjective(u)
    <3> SUFFICES ASSUME NEW a \in 1..(Len(q) - 1), NEW b \in 1..(Len(q) - 1), u[a] = u[b]
                 PROVE  a = b
      BY <2>4 DEF IsInjective
    <3>1. PICK c \in 1..Len(q) : u[a] = q[c] /\ (c = a \/ c = a + 1) /\ (a < k <=> c = a)
      BY <2>5
    <3>2. PICK d \in 1..Len(q) : u[b] = q[d] /\ (d = b \/ d = b + 1) /\ (b < k <=> d = b)
      BY <2>5
    <3>3. c = d
      BY <2>4, <3>1, <3>2 DEF IsInjective
    <3> QED BY <2>1, <2>4, <3>1, <3>2, <3>3
  <2>8. Range(u) = Range(q) \ {x}
    <3>1. \A i \in 1..(Len(q) - 1) : u[i] \in Range(q) /\ u[i] # x
      BY <2>1, <2>4, <2>5 DEF Range, IsInjective
    <3>2. \A y \in Range(q) \ {x} : y \in Range(u)
      BY <2>1, <2>4, <2>6 DEF Range
    <3> QED BY <2>4, <3>1, <3>2 DEF Range
  <2> QED BY <2>2, <2>3, <2>7, <2>8
<1> QED BY <1>1, <1>2

LEMMA WithoutType ==
  ASSUME NEW R, NEW q \in Seq(R), NEW x
  PROVE  Unlisted(q, x) \in Seq(R)
<1> DEFINE k == CHOOSE i \in 1..Len(q) : q[i] = x
<1>1. x \in Range(q) => k \in 1..Len(q)
  BY DEF Range
<1> HIDE DEF k
<1> QED BY <1>1, RemoveAtFacts DEF Unlisted, k

LEMMA AppendFacts ==
  ASSUME NEW R, NEW q \in Seq(R), IsInjective(q), NEW x \in R, x \notin Range(q)
  PROVE  /\ Append(q, x) \in Seq(R)
         /\ IsInjective(Append(q, x))
         /\ Range(Append(q, x)) = Range(q) \union {x}
<1> DEFINE u == Append(q, x)
<1>1. /\ u \in Seq(R) /\ Len(u) = Len(q) + 1 /\ u[Len(q) + 1] = x
      /\ \A i \in 1..Len(q) : u[i] = q[i]
  BY AppendProperties
<1> HIDE DEF u
<1>2. Len(q) \in Nat /\ DOMAIN q = 1..Len(q) /\ DOMAIN u = 1..(Len(q) + 1)
  BY <1>1
<1>3. \A i \in 1..(Len(q) + 1) : i \in 1..Len(q) \/ i = Len(q) + 1
  BY <1>2
<1>4. \A i \in 1..Len(q) : q[i] # x
  BY <1>2 DEF Range
<1>5. IsInjective(u)
  BY <1>1, <1>2, <1>3, <1>4 DEF IsInjective
<1>6. Range(u) = Range(q) \union {x}
  <2>1. \A i \in 1..(Len(q) + 1) : u[i] \in Range(q) \union {x}
    BY <1>1, <1>2, <1>3 DEF Range
  <2>2. \A i \in 1..Len(q) : q[i] \in Range(u)
    BY <1>1, <1>2 DEF Range
  <2>3. x \in Range(u)
    BY <1>1, <1>2 DEF Range
  <2> QED BY <1>2, <2>1, <2>2, <2>3 DEF Range
<1> QED BY <1>1, <1>5, <1>6 DEF u

-----------------------------------------------------------------------------
(* What the functions of subscribe.c keep.                                 *)

Streams ==
  [list : Seq(Reader), kinds : [Reader -> SUBSET {"report", "other"}], fifo : SUBSET Reader,
   count : [Reader -> Int], open : SUBSET Reader, kept : SUBSET Reader,
   restart : BOOLEAN, gone : SUBSET Reader, want : [Reader -> Nat \union {None}],
   got : [Reader -> Nat], told : [Reader -> Monitor \union {None}]]

(* A subscriber has one cell and an open stream, and an event to come.     *)
Sound(s) ==
  /\ s \in Streams
  /\ IsInjective(s.list)
  /\ Range(s.list) \subseteq s.open
  /\ \A r \in Range(s.list) : s.want[r] # None => s.count[r] >= 1

(* The events a reader got, and those it has to come.                      *)
Due(s, r) == s.got[r] + (IF r \in Range(s.list) THEN s.count[r] ELSE 0)

(* From s to t subscribers may get events and go; those that go have got   *)
(* what they asked for, if they did not close their end.                   *)
Gone(s, t) == Range(s.list) \ Range(t.list)
Follows(s, t) ==
  /\ Sound(t)
  /\ t.kinds = s.kinds /\ t.fifo = s.fifo /\ t.gone = s.gone /\ t.want = s.want
  /\ t.restart <=> s.restart
  /\ Range(t.list) \subseteq Range(s.list)
  /\ s.restart => t.open = s.open /\ t.kept = s.kept \union Gone(s, t)
  /\ ~s.restart => t.open = s.open \ Gone(s, t) /\ t.kept = s.kept
  /\ \A r \in Reader : t.got[r] >= s.got[r]
  /\ \A r \in Reader \ Range(s.list) : t.got[r] = s.got[r]
  /\ \A r \in Reader : s.want[r] # None /\ r \notin s.gone => Due(t, r) = Due(s, r)

LEMMA ListedReaders ==
  ASSUME NEW s, Sound(s)
  PROVE  Range(s.list) \subseteq Reader /\ Len(s.list) \in Nat
         /\ DOMAIN s.list = 1..Len(s.list)
<1>1. s.list \in Seq(Reader)
  BY DEF Sound, Streams
<1> QED BY <1>1 DEF Range

LEMMA FollowsSelf ==
  ASSUME NEW s, Sound(s)
  PROVE  Follows(s, s)
<1>1. s.got \in [Reader -> Nat]
  BY DEF Sound, Streams
<1> QED BY <1>1 DEF Follows, Gone

LEMMA FollowsOn ==
  ASSUME NEW s, NEW t, NEW u, s.got \in [Reader -> Nat], Follows(s, t), Follows(t, u)
  PROVE  Follows(s, u)
<1>1. t.got \in [Reader -> Nat] /\ u.got \in [Reader -> Nat]
  BY DEF Follows, Sound, Streams
<1>2. Gone(s, u) = Gone(s, t) \union Gone(t, u)
  BY DEF Follows, Gone
<1>3. \A r \in Reader : u.got[r] >= s.got[r]
  BY <1>1 DEF Follows
<1>4. \A r \in Reader \ Range(s.list) : u.got[r] = s.got[r]
  BY DEF Follows
<1>5. \A r \in Reader : s.want[r] # None /\ r \notin s.gone => Due(u, r) = Due(s, r)
  BY DEF Follows
<1>6. s.restart => u.open = s.open /\ u.kept = s.kept \union Gone(s, u)
  BY <1>2 DEF Follows
<1>7. ~s.restart => u.open = s.open \ Gone(s, u) /\ u.kept = s.kept
  BY <1>2 DEF Follows
<1> QED BY <1>3, <1>4, <1>5, <1>6, <1>7 DEF Follows

(* remove_subscriber()                                                     *)
Removed(s, t, r) ==
  /\ IsInjective(t.list) /\ Range(t.list) = Range(s.list) \ {r}
  /\ t.kinds = s.kinds /\ t.fifo = s.fifo /\ t.gone = s.gone /\ t.want = s.want
  /\ t.count = s.count /\ t.got = s.got /\ t.told = s.told
  /\ t.restart <=> s.restart
  /\ s.restart => t.open = s.open /\ t.kept = s.kept \union {r}
  /\ ~s.restart => t.open = s.open \ {r} /\ t.kept = s.kept

LEMMA RemoveFacts ==
  ASSUME NEW s \in Streams, IsInjective(s.list), NEW r \in Reader,
         NEW t, t = RemoveSubscriber(s, r)
  PROVE  t \in Streams /\ Removed(s, t, r)
<1> DEFINE q == Unlisted(s.list, r)
           u == [s EXCEPT !.list = q]
<1>1. s.list \in Seq(Reader) /\ r \in Reader
  BY DEF Streams, Range
<1>2. q \in Seq(Reader) /\ IsInjective(q) /\ Range(q) = Range(s.list) \ {r}
  BY <1>1, WithoutFacts
<1>3. t = IF s.restart THEN [u EXCEPT !.kept = @ \union {r}] ELSE [u EXCEPT !.open = @ \ {r}]
  BY DEF RemoveSubscriber
<1> HIDE DEF q
<1>4. /\ u \in Streams /\ u.list = q
      /\ u.kinds = s.kinds /\ u.fifo = s.fifo /\ u.gone = s.gone /\ u.want = s.want
      /\ u.count = s.count /\ u.got = s.got /\ u.told = s.told
      /\ u.open = s.open /\ u.kept = s.kept
  BY <1>2 DEF Streams
<1>5. u.restart <=> s.restart
  BY DEF Streams
<1> HIDE DEF u
<1>6. CASE s.restart
  <2> DEFINE k == u.kept \union {r}
  <2>1. t = [u EXCEPT !.kept = k] /\ k \in SUBSET Reader
    BY <1>1, <1>3, <1>4, <1>6 DEF Streams
  <2> HIDE DEF k
  <2>2. /\ t \in Streams /\ t.list = u.list
        /\ t.kinds = u.kinds /\ t.fifo = u.fifo /\ t.gone = u.gone /\ t.want = u.want
        /\ t.count = u.count /\ t.got = u.got /\ t.told = u.told
        /\ t.open = u.open /\ t.kept = k
    BY <1>4, <2>1 DEF Streams
  <2>3. t.restart <=> u.restart
    BY <1>4, <2>1 DEF Streams
  <2> QED BY <1>2, <1>4, <1>5, <1>6, <2>2, <2>3 DEF k, Removed
<1>7. CASE ~s.restart
  <2>1. t = [u EXCEPT !.open = @ \ {r}]
    BY <1>3, <1>7
  <2>2. /\ t \in Streams /\ t.list = u.list
        /\ t.kinds = u.kinds /\ t.fifo = u.fifo /\ t.gone = u.gone /\ t.want = u.want
        /\ t.count = u.count /\ t.got = u.got /\ t.told = u.told
        /\ t.open = u.open \ {r} /\ t.kept = u.kept
    BY <1>1, <1>4, <2>1 DEF Streams
  <2>3. t.restart <=> u.restart
    BY <1>4, <2>1 DEF Streams
  <2> QED BY <1>2, <1>4, <1>5, <1>7, <2>2, <2>3 DEF Removed
<1> QED BY <1>6, <1>7

(* An event, or a report, for a reader.                                    *)
LEMMA HearFacts ==
  ASSUME NEW s \in Streams, NEW r \in Reader, NEW kind, NEW mon \in Monitor \union {None},
         NEW t, t = Hear(s, r, kind, mon)
  PROVE  /\ t \in Streams
         /\ t.list = s.list /\ t.open = s.open /\ t.kept = s.kept /\ t.count = s.count
         /\ t.kinds = s.kinds /\ t.fifo = s.fifo /\ t.gone = s.gone /\ t.want = s.want
         /\ t.restart <=> s.restart
         /\ t.got = [s.got EXCEPT ![r] = IF s.want[r] = None THEN @ ELSE @ + 1]
         /\ t.told = [s.told EXCEPT ![r] = IF kind = "report" THEN mon ELSE @]
<1> DEFINE g == [s.got EXCEPT ![r] = IF s.want[r] = None THEN @ ELSE @ + 1]
           m == [s.told EXCEPT ![r] = IF kind = "report" THEN mon ELSE @]
<1>1. t = [s EXCEPT !.got = g, !.told = m]
  BY DEF Hear
<1>2. g \in [Reader -> Nat] /\ m \in [Reader -> Monitor \union {None}]
  BY DEF Streams
<1> HIDE DEF g, m
<1>3. t.restart <=> s.restart
  BY <1>1 DEF Streams
<1> QED BY <1>1, <1>2, <1>3 DEF Streams, g, m

LEMMA CountFacts ==
  ASSUME NEW s \in Streams, NEW c \in [Reader -> Int], NEW t, t = [s EXCEPT !.count = c]
  PROVE  /\ t \in Streams /\ t.count = c
         /\ t.list = s.list /\ t.open = s.open /\ t.kept = s.kept /\ t.got = s.got
         /\ t.kinds = s.kinds /\ t.fifo = s.fifo /\ t.gone = s.gone /\ t.want = s.want
         /\ t.told = s.told
         /\ t.restart <=> s.restart
<1>1. t.restart <=> s.restart
  BY DEF Streams
<1> QED BY <1>1 DEF Streams

(* One turn of the loop of put_status().                                   *)
LEMMA TellFacts ==
  ASSUME NEW s, Sound(s), NEW r \in Range(s.list), NEW kind,
         NEW mon \in Monitor \union {None}, NEW t, t = Tell(s, r, kind, mon)
  PROVE  /\ Follows(s, t)
         /\ Gone(s, t) \subseteq {r}
         /\ \A x \in Reader \ {r} : t.told[x] = s.told[x]
         /\ kind # "report" => t.told = s.told
         /\ kind = "report" /\ r \notin s.gone => t.told[r] = mon
<1> DEFINE fails == r \in s.gone
           heard == IF fails THEN s ELSE Hear(s, r, kind, mon)
           c == [heard.count EXCEPT ![r] = IF @ > 0 THEN @ - 1 ELSE @]
           u == [heard EXCEPT !.count = c]
           quits == fails \/ u.count[r] = 0
<1>0. s \in Streams /\ IsInjective(s.list) /\ r \in Reader /\ r \in s.open
  BY ListedReaders DEF Sound
<1>1. t = IF quits THEN RemoveSubscriber(u, r) ELSE u
  BY DEF Tell
<1>2. /\ heard \in Streams
      /\ heard.list = s.list /\ heard.open = s.open /\ heard.kept = s.kept
      /\ heard.count = s.count /\ heard.kinds = s.kinds /\ heard.fifo = s.fifo
      /\ heard.gone = s.gone /\ heard.want = s.want
      /\ heard.restart <=> s.restart
      /\ \A x \in Reader \ {r} : heard.got[x] = s.got[x] /\ heard.told[x] = s.told[x]
      /\ s.want[r] # None /\ ~fails => heard.got[r] = s.got[r] + 1
      /\ s.want[r] = None \/ fails => heard.got[r] = s.got[r]
      /\ kind # "report" => heard.told = s.told
      /\ kind = "report" /\ ~fails => heard.told[r] = mon
  <2>1. CASE fails
    BY <1>0, <2>1
  <2>2. CASE ~fails
    <3> DEFINE h == Hear(s, r, kind, mon)
    <3>1. heard = h
      BY <2>2
    <3>2. /\ h \in Streams
          /\ h.list = s.list /\ h.open = s.open /\ h.kept = s.kept /\ h.count = s.count
          /\ h.kinds = s.kinds /\ h.fifo = s.fifo /\ h.gone = s.gone /\ h.want = s.want
          /\ h.restart <=> s.restart
          /\ h.got = [s.got EXCEPT ![r] = IF s.want[r] = None THEN @ ELSE @ + 1]
          /\ h.told = [s.told EXCEPT ![r] = IF kind = "report" THEN mon ELSE @]
      BY <1>0, HearFacts
    <3> HIDE DEF h, heard
    <3>3. s.got \in [Reader -> Nat] /\ s.told \in [Reader -> Monitor \union {None}]
      BY <1>0 DEF Streams
    <3>4. \A x \in Reader \ {r} : h.got[x] = s.got[x] /\ h.told[x] = s.told[x]
      BY <3>2, <3>3
    <3>5. /\ s.want[r] # None => h.got[r] = s.got[r] + 1
          /\ s.want[r] = None => h.got[r] = s.got[r]
      BY <1>0, <3>2, <3>3
    <3>6. /\ kind # "report" => h.told = s.told
          /\ kind = "report" => h.told[r] = mon
      BY <1>0, <3>2, <3>3
    <3> QED BY <2>2, <3>1, <3>2, <3>4, <3>5, <3>6
  <2> QED BY <2>1, <2>2
<1> HIDE DEF heard
<1>3. c \in [Reader -> Int] /\ s.count \in [Reader -> Int] /\ s.got \in [Reader -> Nat]
      /\ heard.got \in [Reader -> Nat]
  BY <1>0, <1>2 DEF Streams
<1>4. /\ \A x \in Reader \ {r} : c[x] = s.count[x]
      /\ c[r] = IF s.count[r] > 0 THEN s.count[r] - 1 ELSE s.count[r]
  BY <1>0, <1>2, <1>3
<1> HIDE DEF c
<1>5. /\ u \in Streams /\ u.count = c
      /\ u.list = s.list /\ u.open = s.open /\ u.kept = s.kept /\ u.got = heard.got
      /\ u.kinds = s.kinds /\ u.fifo = s.fifo /\ u.gone = s.gone /\ u.want = s.want
      /\ u.told = heard.told
      /\ u.restart <=> s.restart
  BY <1>2, <1>3, CountFacts
<1> HIDE DEF u
<1>6. \A x \in Reader : heard.got[x] >= s.got[x]
  BY <1>0, <1>2, <1>3
<1>7. s.want[r] # None => s.count[r] >= 1
  BY DEF Sound
<1>8. CASE quits
  <2>1. t = RemoveSubscriber(u, r)
    BY <1>1, <1>8
  <2>2. /\ t \in Streams
        /\ IsInjective(t.list) /\ Range(t.list) = Range(u.list) \ {r}
        /\ t.kinds = u.kinds /\ t.fifo = u.fifo /\ t.gone = u.gone /\ t.want = u.want
        /\ t.count = u.count /\ t.got = u.got /\ t.told = u.told
        /\ t.restart <=> u.restart
        /\ u.restart => t.open = u.open /\ t.kept = u.kept \union {r}
        /\ ~u.restart => t.open = u.open \ {r} /\ t.kept = u.kept
    <3>1. t \in Streams /\ Removed(u, t, r)
      BY <1>0, <1>5, <2>1, RemoveFacts
    <3> QED BY <3>1 DEF Removed
  <2>3. Gone(s, t) = {r} /\ Range(t.list) = Range(s.list) \ {r}
    BY <1>5, <2>2 DEF Gone
  <2>4. Sound(t)
    <3>1. \A x \in Range(t.list) : x \in Range(s.list) /\ x # r /\ x \in Reader
      BY <1>0, <2>3, ListedReaders
    <3>2. \A x \in Range(t.list) : t.want[x] # None => t.count[x] >= 1
      BY <1>4, <1>5, <2>2, <3>1 DEF Sound
    <3>3. Range(t.list) \subseteq t.open
      BY <1>5, <2>2, <2>3 DEF Sound
    <3> QED BY <1>0, <1>5, <2>2, <3>2, <3>3 DEF Sound
  <2>5. \A x \in Reader : s.want[x] # None /\ x \notin s.gone => Due(t, x) = Due(s, x)
    <3> SUFFICES ASSUME NEW x \in Reader, s.want[x] # None, x \notin s.gone
                 PROVE  Due(t, x) = Due(s, x)
      OBVIOUS
    <3>1. CASE x # r
      BY <1>2, <1>4, <1>5, <2>2, <2>3, <3>1 DEF Due
    <3>2. CASE x = r
      <4>1. c[r] = 0 /\ s.count[r] = 1
        BY <1>0, <1>3, <1>4, <1>5, <1>7, <1>8, <3>2
      <4>2. t.got[r] = s.got[r] + 1
        BY <1>2, <1>5, <2>2, <3>2
      <4> QED BY <1>3, <2>3, <3>2, <4>1, <4>2 DEF Due
    <3> QED BY <3>1, <3>2
  <2>6. Follows(s, t)
    BY <1>2, <1>5, <1>6, <2>2, <2>3, <2>4, <2>5 DEF Follows
  <2> QED BY <1>2, <1>5, <2>2, <2>3, <2>6
<1>9. CASE ~quits
  <2>1. t = u
    BY <1>1, <1>9
  <2>2. Gone(s, t) = {}
    BY <1>5, <2>1 DEF Gone
  <2>3. c[r] # 0 /\ r \notin s.gone
    BY <1>5, <1>9
  <2>4. Sound(t)
    <3>1. \A x \in Range(s.list) : x \in Reader
      BY ListedReaders
    <3>2. s.want[r] # None => c[r] >= 1
      BY <1>0, <1>3, <1>4, <1>7, <2>3
    <3>3. \A x \in Range(s.list) : s.want[x] # None => c[x] >= 1
      BY <1>4, <3>1, <3>2 DEF Sound
    <3> QED BY <1>0, <1>5, <2>1, <3>3 DEF Sound
  <2>5. \A x \in Reader : s.want[x] # None /\ x \notin s.gone => Due(t, x) = Due(s, x)
    <3> SUFFICES ASSUME NEW x \in Reader, s.want[x] # None, x \notin s.gone
                 PROVE  Due(t, x) = Due(s, x)
      OBVIOUS
    <3>1. CASE x # r
      BY <1>2, <1>4, <1>5, <2>1, <3>1 DEF Due
    <3>2. CASE x = r
      <4>1. c[r] = s.count[r] - 1
        BY <1>0, <1>3, <1>4, <1>7, <3>2
      <4>2. t.got[r] = s.got[r] + 1
        BY <1>2, <1>5, <2>1, <2>3, <3>2
      <4> QED BY <1>0, <1>3, <1>5, <2>1, <3>2, <4>1, <4>2 DEF Due
    <3> QED BY <3>1, <3>2
  <2>6. Follows(s, t)
    BY <1>2, <1>5, <1>6, <2>1, <2>2, <2>4, <2>5 DEF Follows
  <2> QED BY <1>2, <1>5, <2>1, <2>2, <2>6
<1> QED BY <1>8, <1>9

-----------------------------------------------------------------------------
(* The loops over the subscribers.                                         *)

(* What a turn of a loop needs to be defined.                              *)
Lists == {s \in Streams : IsInjective(s.list)}

LEMMA TellType ==
  ASSUME NEW s \in Lists, NEW r \in Reader, NEW kind, NEW mon \in Monitor \union {None}
  PROVE  Tell(s, r, kind, mon) \in Lists
<1> DEFINE fails == r \in s.gone
           h == Hear(s, r, kind, mon)
           heard == IF fails THEN s ELSE h
           c == [heard.count EXCEPT ![r] = IF @ > 0 THEN @ - 1 ELSE @]
           u == [heard EXCEPT !.count = c]
           v == RemoveSubscriber(u, r)
<1>0. s \in Streams /\ IsInjective(s.list)
  BY DEF Lists
<1>1. h \in Streams /\ h.list = s.list
  <2> HIDE DEF fails, heard, c, u, v
  <2>1. PICK w : w = Hear(s, r, kind, mon)
    OBVIOUS
  <2> HIDE DEF h
  <2>3. /\ w \in Streams
        /\ w.list = s.list /\ w.open = s.open /\ w.kept = s.kept /\ w.count = s.count
        /\ w.kinds = s.kinds /\ w.fifo = s.fifo /\ w.gone = s.gone /\ w.want = s.want
        /\ w.restart <=> s.restart
        /\ w.got = [s.got EXCEPT ![r] = IF s.want[r] = None THEN @ ELSE @ + 1]
        /\ w.told = [s.told EXCEPT ![r] = IF kind = "report" THEN mon ELSE @]
    BY <1>0, <2>1, HearFacts
  <2>2. w \in Streams /\ w.list = s.list
    BY <2>3
  <2> QED BY <2>1, <2>2 DEF h
<1> HIDE DEF h
<1>2. heard \in Streams /\ heard.list = s.list
  BY <1>0, <1>1
<1> HIDE DEF heard
<1>3. c \in [Reader -> Int]
  BY <1>2 DEF Streams
<1> HIDE DEF c
<1>4. u \in Streams /\ u.list = s.list
  BY <1>2, <1>3, CountFacts
<1> HIDE DEF u
<1>5. v \in Streams /\ IsInjective(v.list)
  BY <1>0, <1>4, RemoveFacts DEF Removed
<1> HIDE DEF v
<1>6. Tell(s, r, kind, mon) = v \/ Tell(s, r, kind, mon) = u
  BY DEF Tell, v, u, c, heard, h
<1> QED BY <1>0, <1>4, <1>5, <1>6 DEF Lists

(* One turn of the loop in put_status().                                   *)
Turn(t, r, kind, mon) == IF kind \in t.kinds[r] THEN Tell(t, r, kind, mon) ELSE t

LEMMA LoopOfPutStatus ==
  ASSUME NEW s, Sound(s), NEW kind, NEW mon \in Monitor \union {None}
  PROVE  \E g : /\ g[0] = s
                /\ \A i \in 1..Len(s.list) : g[i] = Turn(g[i - 1], s.list[i], kind, mon)
                /\ PutStatus(s, kind, mon) = g[Len(s.list)]
<1> DEFINE q == s.list
           n == Len(q)
           F == [i \in 1..n |-> [t \in Lists |-> Turn(t, q[i], kind, mon)]]
           Rec(f) == f = [i \in 0..n |-> IF i = 0 THEN s
                                         ELSE IF kind \in f[i - 1].kinds[q[i]]
                                              THEN Tell(f[i - 1], q[i], kind, mon)
                                              ELSE f[i - 1]]
           g == CHOOSE f : Rec(f)
<1>1. n \in Nat /\ s \in Lists /\ \A i \in 1..n : q[i] \in Reader
  BY ListedReaders DEF Sound, Lists, Range
<1>2. F \in [1..n -> [Lists -> Lists]]
  <2>1. \A i \in 1..n : \A t \in Lists : Turn(t, q[i], kind, mon) \in Lists
    BY <1>1, TellType DEF Turn
  <2> QED BY <2>1
<1> HIDE DEF n, q
<1>3. PICK f \in [0..n -> Lists] : f[0] = s /\ \A i \in 1..n : f[i] = F[i][f[i - 1]]
  <2> HIDE DEF F
  <2> DEFINE f == Iterated(n, Lists, s, F)
  <2>1. f \in [0..n -> Lists] /\ f[0] = s /\ \A i \in 1..n : f[i] = F[i][f[i - 1]]
    BY <1>1, <1>2, Recursion
  <2> QED BY <2>1
<1>4. \A i \in 1..n : f[i] = Turn(f[i - 1], q[i], kind, mon)
  <2> TAKE i \in 1..n
  <2>1. i - 1 \in 0..n
    BY <1>1
  <2> QED BY <1>3, <2>1
<1> HIDE DEF F
<1>5. Rec(f)
  <2>1. \A i \in 0..n : i # 0 => i \in 1..n
    BY <1>1
  <2> QED BY <1>3, <1>4, <2>1 DEF Turn
<1>6. Rec(g)
  <2> HIDE DEF Rec
  <2> QED BY <1>5
<1>7. PutStatus(s, kind, mon) = g[n]
  BY DEF PutStatus, Loop, n, q
<1> HIDE DEF g
<1>8. g[0] = s /\ \A i \in 1..n : g[i] = Turn(g[i - 1], q[i], kind, mon)
  <2>1. 0 \in 0..n /\ \A i \in 1..n : i \in 0..n /\ i # 0
    BY <1>1
  <2> QED BY <1>6, <2>1 DEF Turn
<1> QED BY <1>7, <1>8 DEF n, q

Turned(s, t, r, kind, mon) ==
  /\ Follows(s, t)
  /\ Gone(s, t) \subseteq {r}
  /\ \A x \in Reader \ {r} : t.told[x] = s.told[x]
  /\ kind # "report" => t.told = s.told
  /\ kind = "report" /\ kind \in s.kinds[r] /\ r \notin s.gone => t.told[r] = mon

LEMMA TurnFacts ==
  ASSUME NEW s, Sound(s), NEW r \in Range(s.list), NEW kind,
         NEW mon \in Monitor \union {None}, NEW t, t = Turn(s, r, kind, mon)
  PROVE  Turned(s, t, r, kind, mon)
<1>1. CASE kind \in s.kinds[r]
  <2>1. t = Tell(s, r, kind, mon)
    BY <1>1 DEF Turn
  <2> QED BY <2>1, TellFacts DEF Turned
<1>2. CASE kind \notin s.kinds[r]
  <2>1. t = s
    BY <1>2 DEF Turn
  <2> QED BY <1>2, <2>1, FollowsSelf DEF Gone, Turned
<1> QED BY <1>1, <1>2

(* put_status(): after a report, whoever reads reports knows the monitor.  *)
Informed(t, mon) ==
  \A r \in Range(t.list) \ t.gone : "report" \in t.kinds[r] => t.told[r] = mon

LEMMA PutStatusFacts ==
  ASSUME NEW s, Sound(s), NEW kind, NEW mon \in Monitor \union {None},
         NEW t, t = PutStatus(s, kind, mon)
  PROVE  /\ Follows(s, t)
         /\ kind # "report" => t.told = s.told
         /\ kind = "report" => Informed(t, mon)
<1> DEFINE q == s.list
           n == Len(q)
           Good(i, x) ==
             /\ Follows(s, x)
             /\ \A j \in (i + 1)..n : q[j] \in Range(x.list)
             /\ kind # "report" => x.told = s.told
             /\ kind = "report" =>
                  \A j \in 1..i : q[j] \in Range(x.list) \ s.gone /\ kind \in s.kinds[q[j]]
                                    => x.told[q[j]] = mon
<1>1. PICK g : /\ g[0] = s
               /\ \A i \in 1..n : g[i] = Turn(g[i - 1], q[i], kind, mon)
               /\ PutStatus(s, kind, mon) = g[n]
  BY LoopOfPutStatus
<1>2. n \in Nat /\ DOMAIN q = 1..n /\ Range(q) \subseteq Reader
  BY ListedReaders
<1>3. \A i, j \in 1..n : q[i] = q[j] => i = j
  BY <1>2 DEF Sound, IsInjective
<1>4. \A i \in 1..n : q[i] \in Range(q)
  BY <1>2 DEF Range
<1> HIDE DEF n
<1> DEFINE S == {i \in 0..n : Good(i, g[i])}
<1>5. 0 \in S
  <2>1. 0 \in 0..n /\ \A j \in (0 + 1)..n : j \in 1..n
    BY <1>2
  <2>2. \A j \in 1..0 : FALSE
    OBVIOUS
  <2> QED BY <1>1, <1>4, <2>1, <2>2, FollowsSelf
<1>6. ASSUME NEW i \in 0..(n - 1), i \in S  PROVE i + 1 \in S
  <2> DEFINE x == g[i]
             r == q[i + 1]
             y == g[i + 1]
  <2>1. /\ i + 1 \in 0..n /\ i + 1 \in 1..n /\ (i + 1) - 1 = i /\ i + 1 \in (i + 1)..n
        /\ \A j \in ((i + 1) + 1)..n : j \in (i + 1)..n /\ j # i + 1 /\ j \in 1..n
        /\ \A j \in 1..(i + 1) : j \in 1..n /\ (j \in 1..i \/ j = i + 1)
        /\ \A j \in 1..i : j # i + 1 /\ j \in 1..n
    BY <1>2
  <2>2. Good(i, x)
    BY <1>6
  <2>3. y = Turn(x, r, kind, mon)
    BY <1>1, <2>1
  <2> HIDE DEF x, y
  <2>4. Sound(x) /\ r \in Range(x.list) /\ r \in Reader /\ x.kinds = s.kinds /\ x.gone = s.gone
        /\ s.got \in [Reader -> Nat]
    <3>1. Sound(x) /\ x.kinds = s.kinds /\ x.gone = s.gone
      BY <2>2 DEF Follows
    <3> QED BY <1>2, <1>4, <2>1, <2>2, <3>1 DEF Sound, Streams
  <2>5. /\ Follows(x, y)
        /\ Gone(x, y) \subseteq {r}
        /\ \A z \in Reader \ {r} : y.told[z] = x.told[z]
        /\ kind # "report" => y.told = x.told
        /\ kind = "report" /\ kind \in x.kinds[r] /\ r \notin x.gone => y.told[r] = mon
    <3> HIDE DEF r
    <3>1. Turned(x, y, r, kind, mon)
      BY <2>3, <2>4, TurnFacts
    <3> QED BY <3>1 DEF Turned
  <2>6. Follows(s, y)
    BY <2>2, <2>4, <2>5, FollowsOn
  <2>7. \A j \in ((i + 1) + 1)..n : q[j] \in Range(y.list)
    <3> TAKE j \in ((i + 1) + 1)..n
    <3>1. q[j] \in Range(x.list) /\ q[j] # r
      BY <1>3, <2>1, <2>2
    <3> QED BY <2>5, <3>1 DEF Gone
  <2>8. ASSUME kind = "report", NEW j \in 1..(i + 1),
               q[j] \in Range(y.list) \ s.gone, kind \in s.kinds[q[j]]
        PROVE  y.told[q[j]] = mon
    <3>1. CASE j = i + 1
      BY <2>4, <2>5, <2>8, <3>1
    <3>2. CASE j \in 1..i
      <4>1. q[j] # r /\ q[j] \in Reader
        BY <1>2, <1>3, <1>4, <2>1, <3>2
      <4>2. q[j] \in Range(x.list)
        BY <2>5, <2>8 DEF Follows
      <4>3. x.told[q[j]] = mon
        BY <2>2, <2>8, <3>2, <4>2
      <4> QED BY <2>5, <4>1, <4>3
    <3> QED BY <2>1, <3>1, <3>2
  <2>9. kind # "report" => y.told = s.told
    BY <2>2, <2>5
  <2>10. Good(i + 1, y)
    BY <2>6, <2>7, <2>8, <2>9
  <2> HIDE DEF Good
  <2> QED BY <2>1, <2>10 DEF y
<1> HIDE DEF S
<1>7. n \in S
  <2>1. \A i \in 0..n : i \in S
    BY <1>2, <1>5, <1>6, Induction
  <2> QED BY <1>2, <2>1
<1>8. Good(n, t)
  BY <1>1, <1>7 DEF S
<1>9. kind = "report" => Informed(t, mon)
  <2> SUFFICES ASSUME kind = "report", NEW r \in Range(t.list) \ t.gone, "report" \in t.kinds[r]
               PROVE  t.told[r] = mon
    BY DEF Informed
  <2>1. t.gone = s.gone /\ t.kinds = s.kinds /\ r \in Range(q)
    BY <1>8 DEF Follows
  <2>2. PICK j \in 1..n : q[j] = r
    BY <1>2, <2>1 DEF Range
  <2> QED BY <1>8, <2>1, <2>2
<1> QED BY <1>8, <1>9

(* An event and a report, as PutBoth and TellFocus have them.              *)
LEMMA PutBothFacts ==
  ASSUME NEW s, Sound(s), NEW mon \in Monitor \union {None}, NEW t, t = PutBoth(s, mon)
  PROVE  Follows(s, t) /\ Informed(t, mon)
<1> DEFINE u == PutStatus(s, "other", mon)
<1>1. Follows(s, u)
  BY PutStatusFacts
<1> HIDE DEF u
<1>2. t = PutStatus(u, "report", mon)
  BY DEF PutBoth, u
<1>3. Sound(u) /\ s.got \in [Reader -> Nat]
  BY <1>1 DEF Follows, Sound, Streams
<1>4. Follows(u, t) /\ Informed(t, mon)
  BY <1>2, <1>3, PutStatusFacts
<1> QED BY <1>1, <1>3, <1>4, FollowsOn

(* prune_dead_subscribers()                                                *)
LEMMA DropFacts ==
  ASSUME NEW s, Sound(s), NEW r \in Range(s.list), r \in s.gone,
         NEW t, t = RemoveSubscriber(s, r)
  PROVE  Follows(s, t) /\ t.told = s.told /\ Gone(s, t) = {r}
<1>1. s \in Streams /\ IsInjective(s.list) /\ r \in Reader /\ Range(s.list) \subseteq Reader
      /\ s.got \in [Reader -> Nat]
  BY ListedReaders DEF Sound, Streams
<1>2. /\ t \in Streams
      /\ IsInjective(t.list) /\ Range(t.list) = Range(s.list) \ {r}
      /\ t.kinds = s.kinds /\ t.fifo = s.fifo /\ t.gone = s.gone /\ t.want = s.want
      /\ t.count = s.count /\ t.got = s.got /\ t.told = s.told
      /\ t.restart <=> s.restart
      /\ s.restart => t.open = s.open /\ t.kept = s.kept \union {r}
      /\ ~s.restart => t.open = s.open \ {r} /\ t.kept = s.kept
  <2>1. t \in Streams /\ Removed(s, t, r)
    BY <1>1, RemoveFacts
  <2> QED BY <2>1 DEF Removed
<1>3. Gone(s, t) = {r}
  BY <1>2 DEF Gone
<1>4. Sound(t)
  <2>1. Range(t.list) \subseteq t.open
    BY <1>2 DEF Sound
  <2>2. \A x \in Range(t.list) : t.want[x] # None => t.count[x] >= 1
    BY <1>2 DEF Sound
  <2> QED BY <1>2, <2>1, <2>2 DEF Sound
<1>5. \A x \in Reader : s.want[x] # None /\ x \notin s.gone => Due(t, x) = Due(s, x)
  BY <1>2 DEF Due
<1>6. \A x \in Reader : t.got[x] >= s.got[x]
  BY <1>1, <1>2
<1> QED BY <1>2, <1>3, <1>4, <1>5, <1>6 DEF Follows

LEMMA LoopOfPrune ==
  ASSUME NEW s, Sound(s)
  PROVE  \E g : /\ g[0] = s
                /\ \A i \in 1..Len(s.list) :
                     g[i] = IF s.list[i] \in s.gone \ s.fifo
                            THEN RemoveSubscriber(g[i - 1], s.list[i]) ELSE g[i - 1]
                /\ Prune(s) = g[Len(s.list)]
<1> DEFINE q == s.list
           n == Len(q)
           Step(t, i) == IF q[i] \in s.gone \ s.fifo THEN RemoveSubscriber(t, q[i]) ELSE t
           F == [i \in 1..n |-> [t \in Lists |-> Step(t, i)]]
           Rec(f) == f = [i \in 0..n |-> IF i = 0 THEN s ELSE Step(f[i - 1], i)]
           g == CHOOSE f : Rec(f)
<1>1. n \in Nat /\ s \in Lists /\ \A i \in 1..n : q[i] \in Reader
  BY ListedReaders DEF Sound, Lists, Range
<1>2. F \in [1..n -> [Lists -> Lists]]
  <2>1. \A i \in 1..n : \A t \in Lists : RemoveSubscriber(t, q[i]) \in Lists
    BY <1>1, RemoveFacts DEF Lists, Removed
  <2> QED BY <2>1
<1>3. Prune(s) = g[n]
  BY DEF Prune, Loop
<1> HIDE DEF n, q, Step, g
<1>4. PICK f \in [0..n -> Lists] : f[0] = s /\ \A i \in 1..n : f[i] = F[i][f[i - 1]]
  <2> HIDE DEF F
  <2> DEFINE f == Iterated(n, Lists, s, F)
  <2>1. f \in [0..n -> Lists] /\ f[0] = s /\ \A i \in 1..n : f[i] = F[i][f[i - 1]]
    BY <1>1, <1>2, Recursion
  <2> QED BY <2>1
<1>5. \A i \in 1..n : f[i] = Step(f[i - 1], i)
  <2> TAKE i \in 1..n
  <2>1. i - 1 \in 0..n
    BY <1>1
  <2> QED BY <1>4, <2>1
<1> HIDE DEF F
<1>6. Rec(f)
  <2>1. \A i \in 0..n : i # 0 => i \in 1..n
    BY <1>1
  <2> QED BY <1>4, <1>5, <2>1
<1>7. Rec(g)
  <2> HIDE DEF Rec
  <2> QED BY <1>6 DEF g
<1>8. g[0] = s /\ \A i \in 1..n : g[i] = Step(g[i - 1], i)
  <2>1. 0 \in 0..n /\ \A i \in 1..n : i \in 0..n /\ i # 0
    BY <1>1
  <2> QED BY <1>7, <2>1
<1> QED BY <1>3, <1>8 DEF n, q, Step

LEMMA PruneFacts ==
  ASSUME NEW s, Sound(s), NEW t, t = Prune(s)
  PROVE  Follows(s, t) /\ t.told = s.told
<1> DEFINE q == s.list
           n == Len(q)
           Good(i, x) ==
             /\ Follows(s, x)
             /\ \A j \in (i + 1)..n : q[j] \in Range(x.list)
             /\ x.told = s.told
<1>1. PICK g : /\ g[0] = s
               /\ \A i \in 1..n : g[i] = IF q[i] \in s.gone \ s.fifo
                                         THEN RemoveSubscriber(g[i - 1], q[i]) ELSE g[i - 1]
               /\ Prune(s) = g[n]
  BY LoopOfPrune
<1>2. n \in Nat /\ DOMAIN q = 1..n /\ Range(q) \subseteq Reader
  BY ListedReaders
<1>3. \A i, j \in 1..n : q[i] = q[j] => i = j
  BY <1>2 DEF Sound, IsInjective
<1>4. \A i \in 1..n : q[i] \in Range(q)
  BY <1>2 DEF Range
<1> HIDE DEF n
<1> DEFINE S == {i \in 0..n : Good(i, g[i])}
<1>5. 0 \in S
  <2>1. 0 \in 0..n /\ \A j \in (0 + 1)..n : j \in 1..n
    BY <1>2
  <2> QED BY <1>1, <1>4, <2>1, FollowsSelf
<1>6. ASSUME NEW i \in 0..(n - 1), i \in S  PROVE i + 1 \in S
  <2> DEFINE x == g[i]
             r == q[i + 1]
             y == g[i + 1]
  <2>1. /\ i + 1 \in 0..n /\ i + 1 \in 1..n /\ (i + 1) - 1 = i /\ i + 1 \in (i + 1)..n
        /\ \A j \in ((i + 1) + 1)..n : j \in (i + 1)..n /\ j # i + 1 /\ j \in 1..n
    BY <1>2
  <2>2. Good(i, x)
    BY <1>6
  <2>3. y = IF r \in s.gone \ s.fifo THEN RemoveSubscriber(x, r) ELSE x
    BY <1>1, <2>1
  <2> HIDE DEF x, y
  <2>4. Sound(x) /\ r \in Range(x.list) /\ x.gone = s.gone /\ s.got \in [Reader -> Nat]
    BY <2>1, <2>2 DEF Follows, Sound, Streams
  <2>5. \A j \in ((i + 1) + 1)..n : q[j] \in Range(x.list) /\ q[j] # r
    BY <1>3, <2>1, <2>2
  <2> HIDE DEF r
  <2>6. CASE r \in s.gone \ s.fifo
    <3>1. Follows(x, y) /\ y.told = x.told /\ Gone(x, y) = {r}
      BY <2>3, <2>4, <2>6, DropFacts
    <3>2. Follows(s, y)
      BY <2>2, <2>4, <3>1, FollowsOn
    <3>3. \A j \in ((i + 1) + 1)..n : q[j] \in Range(y.list)
      BY <2>5, <3>1 DEF Gone
    <3> QED BY <2>1, <2>2, <3>1, <3>2, <3>3 DEF y
  <2>7. CASE r \notin s.gone \ s.fifo
    <3>1. y = x
      BY <2>3, <2>7
    <3>2. Good(i + 1, y)
      BY <2>2, <2>5, <3>1
    <3> HIDE DEF Good
    <3> QED BY <2>1, <3>2 DEF y
  <2> QED BY <2>6, <2>7
<1> HIDE DEF S
<1>7. n \in S
  <2>1. \A i \in 0..n : i \in S
    BY <1>2, <1>5, <1>6, Induction
  <2> QED BY <1>2, <2>1
<1> QED BY <1>1, <1>7 DEF S

-----------------------------------------------------------------------------
(* The subscribers over an exec.                                           *)

LEMMA LoopOfRemove ==
  ASSUME NEW s \in Lists, NEW q \in Seq(Reader)
  PROVE  \E g : /\ g[0] = s
                /\ \A i \in 1..Len(q) : g[i] = RemoveSubscriber(g[i - 1], q[i])
                /\ Loop(RemoveSubscriber, s, q) = g[Len(q)]
<1> DEFINE n == Len(q)
           F == [i \in 1..n |-> [t \in Lists |-> RemoveSubscriber(t, q[i])]]
           Rec(f) == f = [i \in 0..n |-> IF i = 0 THEN s ELSE RemoveSubscriber(f[i - 1], q[i])]
           g == CHOOSE f : Rec(f)
<1>1. n \in Nat /\ \A i \in 1..n : q[i] \in Reader
  OBVIOUS
<1>2. F \in [1..n -> [Lists -> Lists]]
  <2>1. \A i \in 1..n : \A t \in Lists : RemoveSubscriber(t, q[i]) \in Lists
    BY <1>1, RemoveFacts DEF Lists, Removed
  <2> QED BY <2>1
<1>3. Loop(RemoveSubscriber, s, q) = g[n]
  BY DEF Loop
<1> HIDE DEF n, g
<1>4. PICK f \in [0..n -> Lists] : f[0] = s /\ \A i \in 1..n : f[i] = F[i][f[i - 1]]
  <2> HIDE DEF F
  <2> DEFINE f == Iterated(n, Lists, s, F)
  <2>1. f \in [0..n -> Lists] /\ f[0] = s /\ \A i \in 1..n : f[i] = F[i][f[i - 1]]
    BY <1>1, <1>2, Recursion
  <2> QED BY <2>1
<1>5. \A i \in 1..n : f[i] = RemoveSubscriber(f[i - 1], q[i])
  <2> TAKE i \in 1..n
  <2>1. i - 1 \in 0..n
    BY <1>1
  <2> QED BY <1>4, <2>1
<1> HIDE DEF F
<1>6. Rec(f)
  <2>1. \A i \in 0..n : i # 0 => i \in 1..n
    BY <1>1
  <2> QED BY <1>4, <1>5, <2>1
<1>7. Rec(g)
  <2> HIDE DEF Rec
  <2> QED BY <1>6 DEF g
<1>8. g[0] = s /\ \A i \in 1..n : g[i] = RemoveSubscriber(g[i - 1], q[i])
  <2>1. 0 \in 0..n /\ \A i \in 1..n : i \in 0..n /\ i # 0
    BY <1>1
  <2> QED BY <1>7, <2>1
<1> QED BY <1>3, <1>8 DEF n

(* The end of cleanup(): every subscriber goes, and its stream stays open. *)
Left(s, t) ==
  /\ Range(t.list) = {}
  /\ t.kinds = s.kinds /\ t.fifo = s.fifo /\ t.gone = s.gone /\ t.want = s.want
  /\ t.count = s.count /\ t.got = s.got /\ t.told = s.told
  /\ t.open = s.open /\ t.kept = s.kept \union Range(s.list)

LEMMA LeftFacts ==
  ASSUME NEW s \in Lists, s.restart, NEW t, t = Loop(RemoveSubscriber, s, s.list)
  PROVE  t \in Lists /\ Left(s, t)
<1> DEFINE q == s.list
           n == Len(q)
           Good(i, x) ==
             /\ x \in Lists /\ x.restart
             /\ Range(x.list) = Range(q) \ {q[j] : j \in 1..i}
             /\ x.kinds = s.kinds /\ x.fifo = s.fifo /\ x.gone = s.gone /\ x.want = s.want
             /\ x.count = s.count /\ x.got = s.got /\ x.told = s.told
             /\ x.open = s.open /\ x.kept = s.kept \union {q[j] : j \in 1..i}
<1>1. q \in Seq(Reader) /\ n \in Nat /\ DOMAIN q = 1..n /\ \A i \in 1..n : q[i] \in Reader
  BY DEF Lists, Streams
<1>2. Range(q) = {q[j] : j \in 1..n}
  BY <1>1 DEF Range
<1>3. PICK g : /\ g[0] = s
               /\ \A i \in 1..n : g[i] = RemoveSubscriber(g[i - 1], q[i])
               /\ Loop(RemoveSubscriber, s, q) = g[n]
  <2> HIDE DEF q
  <2> QED BY <1>1, LoopOfRemove
<1> HIDE DEF n, q
<1> DEFINE S == {i \in 0..n : Good(i, g[i])}
<1>4. 0 \in S
  <2>1. 0 \in 0..n /\ {q[j] : j \in 1..0} = {}
    BY <1>1
  <2> QED BY <1>3, <2>1 DEF q
<1>5. ASSUME NEW i \in 0..(n - 1), i \in S  PROVE i + 1 \in S
  <2> DEFINE x == g[i]
             r == q[i + 1]
             y == g[i + 1]
  <2>1. /\ i + 1 \in 0..n /\ i + 1 \in 1..n /\ (i + 1) - 1 = i
        /\ \A j : j \in 1..(i + 1) <=> j \in 1..i \/ j = i + 1
    BY <1>1
  <2>2. Good(i, x)
    BY <1>5
  <2>3. y = RemoveSubscriber(x, r)
    BY <1>3, <2>1
  <2> HIDE DEF x, y
  <2>4. {q[j] : j \in 1..(i + 1)} = {q[j] : j \in 1..i} \union {r}
    BY <2>1
  <2> HIDE DEF r
  <2>5. r \in Reader
    BY <1>1, <2>1 DEF r
  <2>6. y \in Streams /\ Removed(x, y, r)
    <3>1. x \in Streams /\ IsInjective(x.list)
      BY <2>2 DEF Lists
    <3> QED BY <2>3, <2>5, <3>1, RemoveFacts
  <2>7. y \in Lists /\ y.restart
    BY <2>2, <2>6 DEF Removed, Lists
  <2>8. Good(i + 1, y)
    BY <2>2, <2>4, <2>6, <2>7 DEF Removed
  <2> HIDE DEF Good
  <2> QED BY <2>1, <2>8 DEF y
<1> HIDE DEF S
<1>6. n \in S
  <2>1. \A i \in 0..n : i \in S
    BY <1>1, <1>4, <1>5, Induction
  <2> QED BY <1>1, <2>1
<1>7. Good(n, t)
  BY <1>3, <1>6 DEF S, q
<1> QED BY <1>2, <1>7 DEF Left, q

(* add_subscriber(), of a reader that is not in the list, in a program that*)
(* is not about to restart.                                                *)
Added(s, t, r, mon) ==
  /\ t \in Lists
  /\ t.kinds = s.kinds /\ t.fifo = s.fifo /\ t.gone = s.gone /\ t.want = s.want
  /\ ~t.restart
  /\ \/ Range(t.list) = Range(s.list) \union {r} /\ t.open = s.open
     \/ Range(t.list) = Range(s.list) /\ t.open = s.open \ {r}
  /\ \A x \in Reader \ {r} : t.count[x] = s.count[x] /\ t.got[x] = s.got[x] /\ t.told[x] = s.told[x]
  /\ t.got[r] >= s.got[r]
  /\ s.want[r] # None => Due(t, r) = s.got[r] + s.count[r]
  /\ r \in Range(t.list) /\ s.count[r] >= 1 => t.count[r] >= 1
  /\ r \in Range(t.list) /\ "report" \in s.kinds[r] => t.told[r] = mon

LEMMA AddFacts ==
  ASSUME NEW s \in Lists, ~s.restart, NEW r \in Reader, r \notin Range(s.list),
         NEW mon \in Monitor \union {None}, NEW t, t = AddSubscriber(s, r, mon)
  PROVE  Added(s, t, r, mon)
<1> DEFINE q == Append(s.list, r)
           p == [s EXCEPT !.list = q]
           a == [p EXCEPT !.kept = @ \ {r}]
           h == Hear(a, r, "report", mon)
           c == [h.count EXCEPT ![r] = @ - 1]
           u == [h EXCEPT !.count = c]
<1>0. s \in Streams /\ IsInjective(s.list) /\ s.list \in Seq(Reader)
      /\ s.got \in [Reader -> Nat] /\ s.count \in [Reader -> Int]
      /\ s.told \in [Reader -> Monitor \union {None}]
  BY DEF Lists, Streams
<1>1. q \in Seq(Reader) /\ IsInjective(q) /\ Range(q) = Range(s.list) \union {r}
  BY <1>0, AppendFacts
<1>2. t = CASE "report" \notin s.kinds[r] -> a
            [] "report" \in s.kinds[r] /\ s.count[r] = 1 -> RemoveSubscriber(u, r)
            [] OTHER -> u
  <2>1. /\ a = [s EXCEPT !.list = q, !.kept = @ \ {r}]
        /\ a.kinds = s.kinds /\ a.count = s.count
    BY <1>0 DEF Streams
  <2>2. u = [h EXCEPT !.count[r] = @ - 1]
    OBVIOUS
  <2> HIDE DEF q, p, a, u, h
  <2> QED BY <2>1, <2>2 DEF AddSubscriber, q, h
<1> HIDE DEF q
<1>3. /\ p \in Streams /\ p.list = q
      /\ p.kinds = s.kinds /\ p.fifo = s.fifo /\ p.gone = s.gone /\ p.want = s.want
      /\ p.count = s.count /\ p.got = s.got /\ p.told = s.told
      /\ p.open = s.open /\ p.kept = s.kept
  BY <1>0, <1>1 DEF Streams
<1>4. ~p.restart
  BY <1>0 DEF Streams
<1> HIDE DEF p
<1>5. /\ a \in Streams /\ a.list = q
      /\ a.kinds = s.kinds /\ a.fifo = s.fifo /\ a.gone = s.gone /\ a.want = s.want
      /\ a.count = s.count /\ a.got = s.got /\ a.told = s.told
      /\ a.open = s.open
  <2>1. p.kept \ {r} \in SUBSET Reader
    BY <1>3 DEF Streams
  <2> QED BY <1>3, <2>1 DEF Streams
<1>6. ~a.restart
  BY <1>3, <1>4 DEF Streams
<1> HIDE DEF a
<1>7. /\ h \in Streams
      /\ h.list = a.list /\ h.open = a.open /\ h.kept = a.kept /\ h.count = a.count
      /\ h.kinds = a.kinds /\ h.fifo = a.fifo /\ h.gone = a.gone /\ h.want = a.want
      /\ ~h.restart
      /\ h.got = [a.got EXCEPT ![r] = IF a.want[r] = None THEN @ ELSE @ + 1]
      /\ h.told = [a.told EXCEPT ![r] = mon]
  <2>1. PICK w : w = Hear(a, r, "report", mon)
    OBVIOUS
  <2> HIDE DEF h
  <2>2. /\ w \in Streams
        /\ w.list = a.list /\ w.open = a.open /\ w.kept = a.kept /\ w.count = a.count
        /\ w.kinds = a.kinds /\ w.fifo = a.fifo /\ w.gone = a.gone /\ w.want = a.want
        /\ w.restart <=> a.restart
        /\ w.got = [a.got EXCEPT ![r] = IF a.want[r] = None THEN @ ELSE @ + 1]
        /\ w.told = [a.told EXCEPT ![r] = IF "report" = "report" THEN mon ELSE @]
    BY <1>5, <2>1, HearFacts
  <2>3. w.told = [a.told EXCEPT ![r] = mon]
    BY <2>2
  <2> QED BY <1>6, <2>1, <2>2, <2>3 DEF h
<1> HIDE DEF h
<1>8. /\ c \in [Reader -> Int] /\ c[r] = s.count[r] - 1
      /\ \A x \in Reader \ {r} : c[x] = s.count[x]
  BY <1>0, <1>5, <1>7
<1> HIDE DEF c
<1>9. /\ u \in Streams /\ u.count = c
      /\ u.list = q /\ u.open = s.open /\ u.got = h.got /\ u.told = h.told
      /\ u.kinds = s.kinds /\ u.fifo = s.fifo /\ u.gone = s.gone /\ u.want = s.want
      /\ ~u.restart
  BY <1>5, <1>7, <1>8, CountFacts
<1> HIDE DEF u
<1>10. /\ \A x \in Reader \ {r} : h.got[x] = s.got[x] /\ h.told[x] = s.told[x]
       /\ h.told[r] = mon /\ h.got[r] >= s.got[r]
       /\ s.want[r] # None => h.got[r] = s.got[r] + 1
  BY <1>0, <1>5, <1>7
<1>11. r \in Range(q)
  BY <1>1
<1>12. CASE "report" \notin s.kinds[r]
  <2>1. t = a
    BY <1>2, <1>12
  <2>2. t \in Lists
    BY <1>1, <1>5, <2>1 DEF Lists
  <2>3. Due(t, r) = s.got[r] + s.count[r]
    BY <1>5, <1>11, <2>1 DEF Due
  <2>4. t.got[r] >= s.got[r]
    BY <1>0, <1>5, <2>1
  <2> QED BY <1>1, <1>5, <1>6, <1>12, <2>1, <2>2, <2>3, <2>4 DEF Added
<1>13. CASE "report" \in s.kinds[r] /\ s.count[r] = 1
  <2>1. t = RemoveSubscriber(u, r)
    BY <1>2, <1>13
  <2>2. t \in Streams /\ Removed(u, t, r)
    BY <1>1, <1>9, <2>1, RemoveFacts
  <2>3. t \in Lists /\ ~t.restart /\ Range(t.list) = Range(s.list) /\ t.open = s.open \ {r}
    BY <1>1, <1>9, <2>2 DEF Lists, Removed
  <2>4. /\ t.kinds = s.kinds /\ t.fifo = s.fifo /\ t.gone = s.gone /\ t.want = s.want
        /\ t.count = c /\ t.got = h.got /\ t.told = h.told
    BY <1>9, <2>2 DEF Removed
  <2>5. s.want[r] # None => Due(t, r) = s.got[r] + s.count[r]
    BY <1>0, <1>10, <1>13, <2>3, <2>4 DEF Due
  <2> QED BY <1>8, <1>10, <2>3, <2>4, <2>5 DEF Added
<1>14. CASE "report" \in s.kinds[r] /\ s.count[r] # 1
  <2>1. t = u
    BY <1>2, <1>14
  <2>2. t \in Lists
    BY <1>1, <1>9, <2>1 DEF Lists
  <2>3. s.want[r] # None => Due(t, r) = s.got[r] + s.count[r]
    <3>1. Due(t, r) = h.got[r] + c[r]
      BY <1>9, <1>11, <2>1 DEF Due
    <3>2. s.got[r] \in Nat /\ s.count[r] \in Int
      BY <1>0
    <3> QED BY <1>8, <1>10, <3>1, <3>2
  <2>4. s.count[r] >= 1 => t.count[r] >= 1
    BY <1>0, <1>8, <1>9, <1>14, <2>1
  <2> QED BY <1>1, <1>8, <1>9, <1>10, <2>1, <2>2, <2>3, <2>4 DEF Added
<1> QED BY <1>12, <1>13, <1>14

LEMMA RemoveType ==
  ASSUME NEW s \in Streams, NEW r \in Reader
  PROVE  RemoveSubscriber(s, r) \in Streams
<1> DEFINE q == Unlisted(s.list, r)
           t == [s EXCEPT !.list = q]
<1>1. q \in Seq(Reader)
  <2>1. s.list \in Seq(Reader)
    BY DEF Streams
  <2> QED BY <2>1, WithoutType
<1> HIDE DEF q
<1>2. t \in Streams /\ t.kept = s.kept /\ t.open = s.open
  BY <1>1 DEF Streams
<1> HIDE DEF t
<1>3. t.kept \union {r} \in SUBSET Reader /\ t.open \ {r} \in SUBSET Reader
  BY <1>2 DEF Streams
<1>4. [t EXCEPT !.kept = @ \union {r}] \in Streams
  BY <1>2, <1>3 DEF Streams
<1>5. [t EXCEPT !.open = @ \ {r}] \in Streams
  BY <1>2, <1>3 DEF Streams
<1> QED BY <1>4, <1>5 DEF RemoveSubscriber, t, q

LEMMA AddType ==
  ASSUME NEW s \in Streams, NEW r \in Reader, NEW mon \in Monitor \union {None}
  PROVE  AddSubscriber(s, r, mon) \in Streams
<1> DEFINE a == [s EXCEPT !.list = Append(@, r), !.kept = @ \ {r}]
           h == Hear(a, r, "report", mon)
           u == [h EXCEPT !.count[r] = @ - 1]
           v == RemoveSubscriber(u, r)
<1>1. a \in Streams
  <2>1. Append(s.list, r) \in Seq(Reader) /\ s.kept \ {r} \in SUBSET Reader
    BY DEF Streams
  <2> QED BY <2>1 DEF Streams
<1>2. AddSubscriber(s, r, mon) \in {a, v, u}
  <2> HIDE DEF v
  <2>1. AddSubscriber(s, r, mon) = CASE "report" \notin s.kinds[r] -> a
                                     [] "report" \in s.kinds[r] /\ a.count[r] = 1 -> v
                                     [] OTHER -> u
    <3>1. a.kinds = s.kinds /\ a.count = s.count
      BY DEF Streams
    <3> HIDE DEF a
    <3> QED BY <3>1 DEF AddSubscriber, v, a
  <2> HIDE DEF a, u
  <2> QED BY <2>1
<1> HIDE DEF a
<1>3. h \in Streams
  <2>1. PICK w : w = Hear(a, r, "report", mon)
    OBVIOUS
  <2> HIDE DEF h
  <2>2. /\ w \in Streams
        /\ w.list = a.list /\ w.open = a.open /\ w.kept = a.kept /\ w.count = a.count
        /\ w.kinds = a.kinds /\ w.fifo = a.fifo /\ w.gone = a.gone /\ w.want = a.want
        /\ w.restart <=> a.restart
        /\ w.got = [a.got EXCEPT ![r] = IF a.want[r] = None THEN @ ELSE @ + 1]
        /\ w.told = [a.told EXCEPT ![r] = IF "report" = "report" THEN mon ELSE @]
    BY <1>1, <2>1, HearFacts
  <2> QED BY <2>1, <2>2 DEF h
<1> HIDE DEF h
<1>4. u \in Streams
  <2> DEFINE c == [h.count EXCEPT ![r] = @ - 1]
  <2>1. c \in [Reader -> Int]
    BY <1>3 DEF Streams
  <2>2. u = [h EXCEPT !.count = c]
    OBVIOUS
  <2> HIDE DEF c, u
  <2>3. PICK w : w = u
    OBVIOUS
  <2> QED BY <1>3, <2>1, <2>2, CountFacts
<1> HIDE DEF u
<1>5. v \in Streams
  BY <1>4, RemoveType
<1> HIDE DEF v
<1> QED BY <1>1, <1>2, <1>4, <1>5

LEMMA LoopOfAdd ==
  ASSUME NEW s \in Streams, NEW q \in Seq(Reader), NEW mon \in Monitor \union {None}
  PROVE  \E g : /\ g[0] = s
                /\ \A i \in 1..Len(q) : g[i] = AddSubscriber(g[i - 1], q[i], mon)
                /\ Relist(s, q, mon) = g[Len(q)]
<1> DEFINE n == Len(q)
           Step(t, i) == AddSubscriber(t, q[i], mon)
           F == [i \in 1..n |-> [t \in Streams |-> Step(t, i)]]
           Rec(f) == f = [i \in 0..n |-> IF i = 0 THEN s ELSE Step(f[i - 1], i)]
           g == CHOOSE f : Rec(f)
<1>1. n \in Nat /\ \A i \in 1..n : q[i] \in Reader
  OBVIOUS
<1>2. F \in [1..n -> [Streams -> Streams]]
  <2>1. \A i \in 1..n : \A t \in Streams : Step(t, i) \in Streams
    BY <1>1, AddType
  <2> HIDE DEF Step
  <2> QED BY <2>1
<1>3. Relist(s, q, mon) = g[n]
  BY DEF Loop, Relist
<1> HIDE DEF n, g, Step
<1>4. PICK f \in [0..n -> Streams] : f[0] = s /\ \A i \in 1..n : f[i] = F[i][f[i - 1]]
  <2> HIDE DEF F
  <2> DEFINE f == Iterated(n, Streams, s, F)
  <2>1. f \in [0..n -> Streams] /\ f[0] = s /\ \A i \in 1..n : f[i] = F[i][f[i - 1]]
    BY <1>1, <1>2, Recursion
  <2> QED BY <2>1
<1>5. \A i \in 1..n : f[i] = Step(f[i - 1], i)
  <2> TAKE i \in 1..n
  <2>1. i - 1 \in 0..n
    BY <1>1
  <2> QED BY <1>4, <2>1
<1> HIDE DEF F
<1>6. Rec(f)
  <2>1. \A i \in 0..n : i # 0 => i \in 1..n
    BY <1>1
  <2> QED BY <1>4, <1>5, <2>1
<1>7. Rec(g)
  <2> HIDE DEF Rec
  <2> QED BY <1>6 DEF g
<1>8. g[0] = s /\ \A i \in 1..n : g[i] = Step(g[i - 1], i)
  <2>1. 0 \in 0..n /\ \A i \in 1..n : i \in 0..n /\ i # 0
    BY <1>1
  <2> QED BY <1>7, <2>1
<1> QED BY <1>3, <1>8 DEF n, Step

(* restore_subscribers(): some of the readers of q are listed again, and   *)
(* the others go with their first report.                                  *)
Enlisted(s, t, Q, mon) ==
  /\ t \in Lists /\ ~t.restart
  /\ t.kinds = s.kinds /\ t.fifo = s.fifo /\ t.gone = s.gone /\ t.want = s.want
  /\ Range(t.list) \subseteq Q
  /\ t.open = s.open \ (Q \ Range(t.list))
  /\ \A x \in Reader : t.got[x] >= s.got[x]
  /\ \A x \in Reader \ Q : t.got[x] = s.got[x] /\ t.count[x] = s.count[x]
  /\ \A x \in Q : s.want[x] # None => Due(t, x) = s.got[x] + s.count[x]
  /\ \A x \in Range(t.list) : s.want[x] # None => t.count[x] >= 1
  /\ Informed(t, mon)

LEMMA ListedOnce ==
  ASSUME NEW s, NEW x, NEW Q \in SUBSET Reader, NEW mon, Enlisted(s, x, Q, mon), s \in Streams,
         NEW r \in Reader \ Q, s.want[r] # None => s.count[r] >= 1,
         NEW y, Added(x, y, r, mon)
  PROVE  Enlisted(s, y, Q \union {r}, mon)
<1>1. r \notin Range(x.list) /\ Range(x.list) \subseteq Q /\ x.open = s.open \ (Q \ Range(x.list))
  BY DEF Enlisted
<1>2. x.got \in [Reader -> Nat] /\ s.got \in [Reader -> Nat] /\ y.got \in [Reader -> Nat]
      /\ s.count \in [Reader -> Int] /\ x.count \in [Reader -> Int]
  BY DEF Enlisted, Added, Lists, Streams
<1>3. Range(y.list) \subseteq Q \union {r} /\ \A z \in Q : z \in Range(y.list) <=> z \in Range(x.list)
  BY <1>1 DEF Added
<1>4. y.open = s.open \ ((Q \union {r}) \ Range(y.list))
  <2>1. CASE Range(y.list) = Range(x.list) \union {r} /\ y.open = x.open
    BY <1>1, <2>1
  <2>2. CASE Range(y.list) = Range(x.list) /\ y.open = x.open \ {r}
    BY <1>1, <2>2
  <2> QED BY <2>1, <2>2 DEF Added
<1>5. \A z \in Reader : y.got[z] >= s.got[z]
  <2> TAKE z \in Reader
  <2>1. y.got[z] >= x.got[z] /\ x.got[z] >= s.got[z]
    BY <1>2 DEF Added, Enlisted
  <2> QED BY <1>2, <2>1
<1>6. \A z \in Reader \ (Q \union {r}) : y.got[z] = s.got[z] /\ y.count[z] = s.count[z]
  BY DEF Added, Enlisted
<1>7. x.want[r] = s.want[r] /\ x.got[r] = s.got[r] /\ x.count[r] = s.count[r]
  BY DEF Enlisted
<1>8. \A z \in Q \union {r} : s.want[z] # None => Due(y, z) = s.got[z] + s.count[z]
  <2> SUFFICES ASSUME NEW z \in Q \union {r}, s.want[z] # None
               PROVE  Due(y, z) = s.got[z] + s.count[z]
    OBVIOUS
  <2>1. CASE z = r
    BY <1>7, <2>1 DEF Added
  <2>2. CASE z # r
    <3>1. z \in Q /\ z \in Reader \ {r}
      BY <2>2
    <3>2. y.got[z] = x.got[z] /\ y.count[z] = x.count[z]
      BY <3>1 DEF Added
    <3>3. Due(y, z) = Due(x, z)
      BY <1>3, <3>1, <3>2 DEF Due
    <3> QED BY <3>1, <3>3 DEF Enlisted
  <2> QED BY <2>1, <2>2
<1>9. \A z \in Range(y.list) : s.want[z] # None => y.count[z] >= 1
  <2> SUFFICES ASSUME NEW z \in Range(y.list), s.want[z] # None  PROVE y.count[z] >= 1
    OBVIOUS
  <2>1. CASE z = r
    BY <1>7, <2>1 DEF Added
  <2>2. CASE z # r
    <3>1. z \in Range(x.list) /\ z \in Reader \ {r}
      BY <1>3, <2>2
    <3> QED BY <3>1 DEF Added, Enlisted
  <2> QED BY <2>1, <2>2
<1>10. Informed(y, mon)
  <2> SUFFICES ASSUME NEW z \in Range(y.list) \ y.gone, "report" \in y.kinds[z]
               PROVE  y.told[z] = mon
    BY DEF Informed
  <2>1. CASE z = r
    BY <2>1 DEF Added
  <2>2. CASE z # r
    <3>1. z \in Range(x.list) /\ z \in Reader \ {r}
      BY <1>3, <2>2
    <3> QED BY <3>1 DEF Added, Enlisted, Informed
  <2> QED BY <2>1, <2>2
<1>11. /\ y \in Lists /\ ~y.restart
       /\ y.kinds = s.kinds /\ y.fifo = s.fifo /\ y.gone = s.gone /\ y.want = s.want
  BY DEF Added, Enlisted
<1> QED BY <1>3, <1>4, <1>5, <1>6, <1>8, <1>9, <1>10, <1>11 DEF Enlisted

LEMMA ListedFacts ==
  ASSUME NEW s \in Lists, ~s.restart, Range(s.list) = {},
         NEW q \in Seq(Reader), IsInjective(q),
         \A r \in Range(q) : s.want[r] # None => s.count[r] >= 1,
         NEW mon \in Monitor \union {None},
         NEW t, t = Relist(s, q, mon)
  PROVE  Enlisted(s, t, Range(q), mon)
<1> DEFINE n == Len(q)
           Done(i) == {q[j] : j \in 1..i}
           Good(i, x) == Enlisted(s, x, Done(i), mon)
<1>1. n \in Nat /\ DOMAIN q = 1..n /\ \A i \in 1..n : q[i] \in Reader
  OBVIOUS
<1>2. Range(q) = Done(n)
  BY <1>1 DEF Range
<1>3. s \in Streams
  BY DEF Lists
<1>4. PICK g : /\ g[0] = s
               /\ \A i \in 1..n : g[i] = AddSubscriber(g[i - 1], q[i], mon)
               /\ Relist(s, q, mon) = g[n]
  <2> HIDE DEF n
  <2> QED BY <1>3, LoopOfAdd DEF n
<1> HIDE DEF n
<1> DEFINE S == {i \in 0..n : Good(i, g[i])}
<1>5. 0 \in S
  <2>1. 0 \in 0..n /\ Done(0) = {}
    BY <1>1
  <2> HIDE DEF Done
  <2>2. s.got \in [Reader -> Nat]
    BY <1>3 DEF Streams
  <2>3. \A x \in Reader : s.got[x] >= s.got[x]
    BY <2>2
  <2>4. Enlisted(s, s, {}, mon)
    BY <2>3 DEF Enlisted, Informed
  <2> QED BY <1>4, <2>1, <2>4
<1>6. ASSUME NEW i \in 0..(n - 1), i \in S  PROVE i + 1 \in S
  <2> DEFINE x == g[i]
             r == q[i + 1]
             y == g[i + 1]
             Q == Done(i)
  <2>1. /\ i + 1 \in 0..n /\ i + 1 \in 1..n /\ (i + 1) - 1 = i
        /\ \A j : j \in 1..(i + 1) <=> j \in 1..i \/ j = i + 1
        /\ \A j \in 1..i : j \in 1..n /\ j # i + 1
    BY <1>1
  <2>2. Good(i, x)
    BY <1>6
  <2>3. y = AddSubscriber(x, r, mon)
    BY <1>4, <2>1
  <2>4. Done(i + 1) = Q \union {r}
    BY <2>1
  <2>5. r \in Reader \ Q /\ r \in Range(q) /\ Q \in SUBSET Reader
    BY <1>1, <2>1 DEF Range, IsInjective
  <2> HIDE DEF x, y, r, Done
  <2>6. x \in Lists /\ ~x.restart /\ r \notin Range(x.list)
    BY <2>2, <2>5 DEF Enlisted
  <2>7. Added(x, y, r, mon)
    BY <2>3, <2>5, <2>6, AddFacts
  <2>8. Enlisted(s, y, Q \union {r}, mon)
    <3> HIDE DEF Q
    <3>1. Enlisted(s, x, Q, mon)
      BY <2>2 DEF Q
    <3> QED BY <1>3, <2>5, <2>7, <3>1, ListedOnce
  <2>9. Good(i + 1, y)
    BY <2>4, <2>8
  <2> HIDE DEF Good
  <2> QED BY <2>1, <2>9 DEF y
<1> HIDE DEF S
<1>7. n \in S
  <2>1. \A i \in 0..n : i \in S
    BY <1>1, <1>5, <1>6, Induction
  <2> QED BY <1>1, <2>1
<1>8. Good(n, t)
  BY <1>4, <1>7 DEF S
<1> QED BY <1>2, <1>8

-----------------------------------------------------------------------------
(* The loops of cleanup() and restore_state() over desktops and monitors.  *)
Sounds == {s \in Streams : Sound(s)}

LEMMA SoundsFacts ==
  ASSUME NEW s
  PROVE  s \in Sounds <=> Sound(s)
BY DEF Sounds, Sound

LEMMA FollowsType ==
  ASSUME NEW s, NEW t, Follows(s, t)
  PROVE  Sound(t) /\ t \in Sounds
BY DEF Follows, Sounds, Sound

(* A loop whose turns all follow.                                          *)
LEMMA FollowsLoop ==
  ASSUME NEW n \in Nat, NEW s, Sound(s), NEW g, g[0] = s,
         \A i \in 1..n : g[i - 1] \in Sounds => Follows(g[i - 1], g[i])
  PROVE  Follows(s, g[n])
<1> DEFINE S == {i \in 0..n : Follows(s, g[i])}
<1>1. 0 \in S
  BY FollowsSelf
<1>2. ASSUME NEW i \in 0..(n - 1), i \in S  PROVE i + 1 \in S
  <2>1. i + 1 \in 0..n /\ i + 1 \in 1..n /\ (i + 1) - 1 = i
    OBVIOUS
  <2>2. g[i] \in Sounds /\ s.got \in [Reader -> Nat]
    BY <1>2, FollowsType DEF Sound, Streams
  <2>3. Follows(g[i], g[i + 1])
    BY <2>1, <2>2
  <2>4. Follows(s, g[i + 1])
    BY <1>2, <2>2, <2>3, FollowsOn
  <2> QED BY <2>1, <2>4
<1> HIDE DEF S
<1>3. \A i \in 0..n : i \in S
  BY <1>1, <1>2, Induction
<1>4. n \in S
  BY <1>3
<1> QED BY <1>4 DEF S

LEMMA DesktopGone ==
  ASSUME NEW s, Sound(s), NEW w, NEW d, NEW t, t = TellDesktopGone(s, w, d)
  PROVE  Follows(s, t)
<1> DEFINE a == PutStatus(s, "other", None)
           b == IF w.root[d] = None THEN a ELSE PutStatus(a, "report", None)
<1>0. s.got \in [Reader -> Nat] /\ None \in Monitor \union {None}
  BY DEF Sound, Streams
<1>1. Follows(s, a) /\ Sound(a)
  BY <1>0, PutStatusFacts, FollowsType
<1>2. t = PutStatus(b, "report", None)
  BY DEF TellDesktopGone
<1> HIDE DEF a
<1>3. Follows(a, b)
  <2>1. CASE w.root[d] = None
    BY <1>1, <2>1, FollowsSelf
  <2>2. CASE w.root[d] # None
    <3>1. b = PutStatus(a, "report", None)
      BY <2>2
    <3> HIDE DEF b
    <3> QED BY <1>0, <1>1, <3>1, PutStatusFacts
  <2> QED BY <2>1, <2>2
<1> HIDE DEF b
<1>4. Follows(s, b) /\ Sound(b)
  BY <1>0, <1>1, <1>3, FollowsOn, FollowsType
<1>5. Follows(b, t)
  BY <1>0, <1>2, <1>4, PutStatusFacts
<1> QED BY <1>0, <1>4, <1>5, FollowsOn

LEMMA MonitorGone ==
  ASSUME NEW s, Sound(s), NEW w, NEW m, w.desks[m] \in Seq(Desktop),
         NEW t, t = TellMonitorGone(s, w, m)
  PROVE  Follows(s, t)
<1> DEFINE q == w.desks[m]
           n == Len(q)
           a == PutStatus(s, "other", None)
           Step(x, i) == TellDesktopGone(x, w, q[i])
           F == [i \in 1..n |-> [x \in Sounds |-> Step(x, i)]]
           Rec(f) == f = [i \in 0..n |-> IF i = 0 THEN a ELSE Step(f[i - 1], i)]
           g == CHOOSE f : Rec(f)
<1>0. n \in Nat /\ s.got \in [Reader -> Nat] /\ None \in Monitor \union {None}
  BY DEF Sound, Streams
<1>1. Follows(s, a) /\ Sound(a) /\ a \in Sounds
  BY <1>0, PutStatusFacts, FollowsType
<1>2. t = PutStatus(g[n], "report", None)
  BY DEF TellMonitorGone, Loop
<1> HIDE DEF n, a, g
<1>3. \A i \in 1..n : \A x \in Sounds : Follows(x, Step(x, i)) /\ Step(x, i) \in Sounds
  BY SoundsFacts, DesktopGone, FollowsType
<1> HIDE DEF Step
<1>4. F \in [1..n -> [Sounds -> Sounds]] /\ \A i \in 1..n : \A x \in Sounds : F[i][x] = Step(x, i)
  BY <1>3
<1> HIDE DEF F
<1>5. PICK f \in [0..n -> Sounds] : f[0] = a /\ \A i \in 1..n : f[i] = F[i][f[i - 1]]
  <2> DEFINE f == Iterated(n, Sounds, a, F)
  <2>1. n \in Nat /\ a \in Sounds /\ F \in [1..n -> [Sounds -> Sounds]]
    BY <1>0, <1>1, <1>4
  <2>2. f \in [0..n -> Sounds] /\ f[0] = a /\ \A i \in 1..n : f[i] = F[i][f[i - 1]]
    BY <2>1, Recursion
  <2> QED BY <2>2
<1>6. Rec(f)
  <2>1. \A i \in 0..n : i # 0 => i \in 1..n /\ i - 1 \in 0..n
    BY <1>0
  <2> QED BY <1>4, <1>5, <2>1
<1>7. Rec(g)
  <2> HIDE DEF Rec
  <2> QED BY <1>6 DEF g
<1>8. Follows(a, g[n])
  <2>1. g[0] = a /\ \A i \in 1..n : g[i] = Step(g[i - 1], i)
    <3>1. 0 \in 0..n /\ \A i \in 1..n : i \in 0..n /\ i # 0
      BY <1>0
    <3> QED BY <1>7, <3>1
  <2>2. Sound(a) /\ \A i \in 1..n : g[i - 1] \in Sounds => Follows(g[i - 1], g[i])
    BY <1>1, <1>3, <2>1, FollowsType
  <2>3. g[0] = a
    BY <2>1
  <2> HIDE DEF a
  <2> QED BY <1>0, <2>2, <2>3, FollowsLoop
<1>9. Follows(s, g[n]) /\ Sound(g[n])
  BY <1>0, <1>1, <1>8, FollowsOn, FollowsType
<1>10. Follows(g[n], t)
  BY <1>0, <1>2, <1>9, PutStatusFacts
<1> QED BY <1>0, <1>9, <1>10, FollowsOn

LEMMA RemovalFacts ==
  ASSUME NEW s, Sound(s), NEW w, w.monitors \in Seq(Monitor),
         \A m \in Monitor : w.desks[m] \in Seq(Desktop), NEW t, t = TellRemoval(s, w)
  PROVE  Follows(s, t)
<1> DEFINE q == w.monitors
           n == Len(q)
           Step(x, i) == TellMonitorGone(x, w, q[i])
           F == [i \in 1..n |-> [x \in Sounds |-> Step(x, i)]]
           Rec(f) == f = [i \in 0..n |-> IF i = 0 THEN s ELSE Step(f[i - 1], i)]
           g == CHOOSE f : Rec(f)
<1>0. n \in Nat /\ \A i \in 1..n : q[i] \in Monitor
  OBVIOUS
<1>1. t = g[n]
  BY DEF TellRemoval, Loop
<1> HIDE DEF n, g
<1>3. \A i \in 1..n : \A x \in Sounds : Follows(x, Step(x, i)) /\ Step(x, i) \in Sounds
  BY <1>0, SoundsFacts, MonitorGone, FollowsType
<1> HIDE DEF Step
<1>4. F \in [1..n -> [Sounds -> Sounds]] /\ \A i \in 1..n : \A x \in Sounds : F[i][x] = Step(x, i)
  BY <1>3
<1> HIDE DEF F
<1>5. PICK f \in [0..n -> Sounds] : f[0] = s /\ \A i \in 1..n : f[i] = F[i][f[i - 1]]
  <2> DEFINE f == Iterated(n, Sounds, s, F)
  <2>1. n \in Nat /\ s \in Sounds /\ F \in [1..n -> [Sounds -> Sounds]]
    BY <1>0, <1>4, SoundsFacts
  <2>2. f \in [0..n -> Sounds] /\ f[0] = s /\ \A i \in 1..n : f[i] = F[i][f[i - 1]]
    BY <2>1, Recursion
  <2> QED BY <2>2
<1>6. Rec(f)
  <2>1. \A i \in 0..n : i # 0 => i \in 1..n /\ i - 1 \in 0..n
    BY <1>0
  <2> QED BY <1>4, <1>5, <2>1
<1>7. Rec(g)
  <2> HIDE DEF Rec
  <2> QED BY <1>6 DEF g
<1>8. g[0] = s /\ \A i \in 1..n : g[i] = Step(g[i - 1], i)
  <2>1. 0 \in 0..n /\ \A i \in 1..n : i \in 0..n /\ i # 0
    BY <1>0
  <2> QED BY <1>7, <2>1
<1>9. \A i \in 1..n : g[i - 1] \in Sounds => Follows(g[i - 1], g[i])
  BY <1>3, <1>8
<1>10. Follows(s, g[n])
  BY <1>0, <1>8, <1>9, FollowsLoop
<1> QED BY <1>1, <1>10

LEMMA MonitorAdded ==
  ASSUME NEW s, Sound(s), NEW y, Len(y.desktops) \in Nat, NEW head \in Monitor,
         NEW t, t = TellMonitorAdded(s, y, head)
  PROVE  Follows(s, t) /\ Informed(t, head)
<1> DEFINE n == Len(y.desktops)
           mon == IF y.id = head THEN None ELSE head
           Step(x, i) == PutBoth(x, mon)
           F == [i \in 1..n |-> [x \in Sounds |-> Step(x, i)]]
           Rec(f) == f = [i \in 0..n |-> IF i = 0 THEN s ELSE Step(f[i - 1], i)]
           g == CHOOSE f : Rec(f)
<1>0. n \in Nat /\ s.got \in [Reader -> Nat]
  BY DEF Sound, Streams
<1>1. t = PutBoth(g[n], head)
  BY DEF TellMonitorAdded, Loop
<1> HIDE DEF n, g
<1>2. mon \in Monitor \union {None}
  OBVIOUS
<1> HIDE DEF mon
<1>3. \A i \in 1..n : \A x \in Sounds : Follows(x, Step(x, i)) /\ Step(x, i) \in Sounds
  BY <1>2, SoundsFacts, PutBothFacts, FollowsType
<1> HIDE DEF Step
<1>4. F \in [1..n -> [Sounds -> Sounds]] /\ \A i \in 1..n : \A x \in Sounds : F[i][x] = Step(x, i)
  BY <1>3
<1> HIDE DEF F
<1>5. PICK f \in [0..n -> Sounds] : f[0] = s /\ \A i \in 1..n : f[i] = F[i][f[i - 1]]
  <2> DEFINE f == Iterated(n, Sounds, s, F)
  <2>1. n \in Nat /\ s \in Sounds /\ F \in [1..n -> [Sounds -> Sounds]]
    BY <1>0, <1>4, SoundsFacts
  <2>2. f \in [0..n -> Sounds] /\ f[0] = s /\ \A i \in 1..n : f[i] = F[i][f[i - 1]]
    BY <2>1, Recursion
  <2> QED BY <2>2
<1>6. Rec(f)
  <2>1. \A i \in 0..n : i # 0 => i \in 1..n /\ i - 1 \in 0..n
    BY <1>0
  <2> QED BY <1>4, <1>5, <2>1
<1>7. Rec(g)
  <2> HIDE DEF Rec
  <2> QED BY <1>6 DEF g
<1>8. g[0] = s /\ \A i \in 1..n : g[i] = Step(g[i - 1], i)
  <2>1. 0 \in 0..n /\ \A i \in 1..n : i \in 0..n /\ i # 0
    BY <1>0
  <2> QED BY <1>7, <2>1
<1>9. Follows(s, g[n]) /\ Sound(g[n])
  <2>1. \A i \in 1..n : g[i - 1] \in Sounds => Follows(g[i - 1], g[i])
    BY <1>3, <1>8
  <2>2. Follows(s, g[n])
    BY <1>0, <1>8, <2>1, FollowsLoop
  <2> QED BY <2>2, FollowsType
<1>10. Follows(g[n], t) /\ Informed(t, head)
  BY <1>1, <1>9, PutBothFacts
<1> QED BY <1>0, <1>9, <1>10, FollowsOn

LEMMA RestoredFacts ==
  ASSUME NEW s, Sound(s), NEW x, Len(x.monitors) \in Nat \ {0},
         \A i \in 1..Len(x.monitors) : Len(x.monitors[i].desktops) \in Nat,
         NEW head \in Monitor, head = x.monitors[1].id,
         NEW t, t = TellRestored(s, x)
  PROVE  Follows(s, t) /\ Informed(t, head)
<1> DEFINE n == Len(x.monitors)
           Step(u, i) == TellMonitorAdded(u, x.monitors[i], head)
           F == [i \in 1..n |-> [u \in Sounds |-> Step(u, i)]]
           Rec(f) == f = [i \in 0..n |-> IF i = 0 THEN s ELSE Step(f[i - 1], i)]
           g == CHOOSE f : Rec(f)
<1>0. n \in Nat /\ n # 0
  OBVIOUS
<1>1. t = g[n]
  BY DEF TellRestored, Loop
<1> HIDE DEF n, g
<1>2. \A i \in 1..n : \A u \in Sounds : Follows(u, Step(u, i)) /\ Informed(Step(u, i), head)
  BY SoundsFacts, MonitorAdded DEF n
<1>3. \A i \in 1..n : \A u \in Sounds : Follows(u, Step(u, i)) /\ Step(u, i) \in Sounds
  BY <1>2, FollowsType
<1> HIDE DEF Step
<1>4. F \in [1..n -> [Sounds -> Sounds]] /\ \A i \in 1..n : \A u \in Sounds : F[i][u] = Step(u, i)
  BY <1>3
<1> HIDE DEF F
<1>5. PICK f \in [0..n -> Sounds] : f[0] = s /\ \A i \in 1..n : f[i] = F[i][f[i - 1]]
  <2> DEFINE f == Iterated(n, Sounds, s, F)
  <2>1. n \in Nat /\ s \in Sounds /\ F \in [1..n -> [Sounds -> Sounds]]
    BY <1>0, <1>4, SoundsFacts
  <2>2. f \in [0..n -> Sounds] /\ f[0] = s /\ \A i \in 1..n : f[i] = F[i][f[i - 1]]
    BY <2>1, Recursion
  <2> QED BY <2>2
<1>6. Rec(f)
  <2>1. \A i \in 0..n : i # 0 => i \in 1..n /\ i - 1 \in 0..n
    BY <1>0
  <2> QED BY <1>4, <1>5, <2>1
<1>7. Rec(g)
  <2> HIDE DEF Rec
  <2> QED BY <1>6 DEF g
<1>8. g[0] = s /\ \A i \in 1..n : g[i] = Step(g[i - 1], i)
  <2>1. 0 \in 0..n /\ \A i \in 1..n : i \in 0..n /\ i # 0
    BY <1>0
  <2> QED BY <1>7, <2>1
<1>9. Follows(s, t)
  <2>1. \A i \in 1..n : g[i - 1] \in Sounds => Follows(g[i - 1], g[i])
    BY <1>3, <1>8
  <2>2. Follows(s, g[n])
    BY <1>0, <1>8, <2>1, FollowsLoop
  <2> QED BY <1>1, <2>2
<1>10. g[n - 1] \in Sounds
  <2> DEFINE k == n - 1
  <2>1. k \in Nat /\ \A i \in 1..k : i \in 1..n
    BY <1>0
  <2> HIDE DEF k
  <2>2. Follows(s, g[k])
    <3>1. g[0] = s /\ \A i \in 1..k : g[i - 1] \in Sounds => Follows(g[i - 1], g[i])
      BY <1>3, <1>8, <2>1
    <3> QED BY <2>1, <3>1, FollowsLoop
  <2> QED BY <2>2, FollowsType DEF k
<1>11. g[n] = Step(g[n - 1], n) /\ n \in 1..n
  BY <1>0, <1>8
<1> QED BY <1>1, <1>2, <1>9, <1>10, <1>11

LEMMA HandOverFacts ==
  ASSUME Sound(streams), streams.restart, NEW w, w.monitors \in Seq(Monitor), w.monitors # <<>>,
         \A m \in Monitor : w.desks[m] \in Seq(Desktop), NEW t, t = HandOver(w)
  PROVE  /\ Sound(t) /\ ~t.restart
         /\ t.kinds = streams.kinds /\ t.gone = streams.gone /\ t.want = streams.want
         /\ Range(t.list) \subseteq Range(streams.list)
         /\ t.open = (streams.open \intersect (streams.kept \union Range(streams.list)))
                       \ (Range(streams.list) \ Range(t.list))
         /\ \A r \in Reader \ Range(streams.list) : t.got[r] = streams.got[r]
         /\ \A r \in Range(streams.list) : streams.want[r] # None => Due(t, r) >= Due(streams, r)
         /\ Informed(t, w.monitors[1])
<1> DEFINE s == streams
           q == s.list
           mon == w.monitors[1]
           a == TellRemoval(s, w)
           b == Loop(RemoveSubscriber, a, a.list)
           o == b.open \intersect b.kept
           c == [b EXCEPT !.open = o, !.restart = FALSE, !.count = s.count]
<1>0. /\ s \in Streams /\ q \in Seq(Reader) /\ IsInjective(q) /\ Range(q) \subseteq Reader
      /\ s.got \in [Reader -> Nat] /\ s.count \in [Reader -> Int]
  BY ListedReaders DEF Sound, Streams
<1>1. Follows(s, a)
  BY RemovalFacts
<1>2. t = Relist(c, q, mon)
  BY DEF HandOver
<1> HIDE DEF a
<1>3. a \in Lists /\ a.restart
  BY <1>1 DEF Follows, Sound, Lists
<1>4. b \in Lists /\ Left(a, b)
  <2>1. PICK z : z = Loop(RemoveSubscriber, a, a.list)
    OBVIOUS
  <2> HIDE DEF b
  <2>2. z \in Lists /\ Left(a, z)
    BY <1>3, <2>1, LeftFacts
  <2> QED BY <2>1, <2>2 DEF b
<1> HIDE DEF b
<1>5. /\ b \in Streams /\ Range(b.list) = {} /\ IsInjective(b.list)
      /\ b.kinds = s.kinds /\ b.gone = s.gone /\ b.want = s.want /\ b.got = a.got
      /\ b.open = s.open /\ b.kept = s.kept \union Range(q)
  <2>1. /\ a.kinds = s.kinds /\ a.gone = s.gone /\ a.want = s.want
        /\ a.open = s.open /\ a.kept \union Range(a.list) = s.kept \union Range(q)
    BY <1>1 DEF Follows, Gone
  <2> QED BY <1>4, <2>1 DEF Left, Lists
<1>6. o \in SUBSET Reader /\ o = s.open \intersect (s.kept \union Range(q))
  BY <1>5 DEF Streams
<1> HIDE DEF o
<1>7. /\ c \in Streams /\ c.list = b.list /\ c.open = o /\ c.count = s.count
      /\ c.kinds = s.kinds /\ c.gone = s.gone /\ c.want = s.want /\ c.got = a.got
  BY <1>0, <1>5, <1>6 DEF Streams
<1>8. ~c.restart
  BY <1>0, <1>5, <1>6 DEF Streams
<1> HIDE DEF c, mon
<1>9. Enlisted(c, t, Range(q), mon)
  <2>1. c \in Lists /\ Range(c.list) = {}
    BY <1>5, <1>7 DEF Lists
  <2>2. \A r \in Range(q) : c.want[r] # None => c.count[r] >= 1
    BY <1>7 DEF Sound
  <2>3. mon \in Monitor \union {None}
    <3>1. 1 \in 1..Len(w.monitors)
      BY EmptySeq, LenProperties
    <3> QED BY <3>1 DEF mon
  <2> HIDE DEF q
  <2> QED BY <1>0, <1>2, <1>8, <2>1, <2>2, <2>3, ListedFacts
<1>10. \A r \in Reader \ Range(q) : t.got[r] = s.got[r]
  <2>1. \A r \in Reader \ Range(q) : a.got[r] = s.got[r]
    BY <1>1 DEF Follows
  <2> QED BY <1>7, <1>9, <2>1 DEF Enlisted
<1>11. ASSUME NEW r \in Range(q), s.want[r] # None  PROVE Due(t, r) >= Due(s, r)
  <2>1. Due(t, r) = a.got[r] + s.count[r]
    BY <1>7, <1>9, <1>11 DEF Enlisted
  <2>2. a.got[r] >= s.got[r] /\ a.got[r] \in Nat /\ s.got[r] \in Nat /\ s.count[r] \in Int
    BY <1>0, <1>1, <1>3 DEF Follows, Lists, Streams
  <2>3. Due(s, r) = s.got[r] + s.count[r]
    BY <1>11 DEF Due
  <2> QED BY <2>1, <2>2, <2>3
<1>12. Sound(t)
  <2>1. t \in Streams /\ IsInjective(t.list)
    BY <1>9 DEF Enlisted, Lists
  <2>2. \A r \in Range(t.list) : t.want[r] # None => t.count[r] >= 1
    BY <1>9 DEF Enlisted
  <2>3. Range(t.list) \subseteq t.open
    BY <1>6, <1>7, <1>9 DEF Enlisted, Sound
  <2> QED BY <2>1, <2>2, <2>3 DEF Sound
<1>13. Informed(t, mon)
  BY <1>9 DEF Enlisted
<1> QED BY <1>6, <1>7, <1>9, <1>10, <1>11, <1>12, <1>13 DEF Enlisted, mon

-----------------------------------------------------------------------------
(* What restore_state() makes of the text of a world.                      *)

Keeps(w, v) ==
  /\ v \in Worlds
  /\ v.monitors = w.monitors /\ v.mon = w.mon /\ v.desks = w.desks /\ v.shown = w.shown

IsTreeText(x) ==
  /\ x.root \in Node \union {None} /\ x.sticky \in SUBSET Node
  /\ \E S \in SUBSET Inner : /\ x.first \in [S -> Node \union {None}]
                             /\ x.second \in [S -> Node \union {None}]
IsDesktopText(x) ==
  /\ x.id \in Desktop /\ x.gap \in Nat /\ x.focused \in Node \union {None}
  /\ IsTreeText(x.tree)

LEMMA FindType ==
  ASSUME NEW w, NEW d, NEW n \in Node \union {None}
  PROVE  FindIn(w, d, n) \in Node \union {None}
BY DEF FindIn

LEMMA TreeRestored ==
  ASSUME NEW w \in Worlds, NEW x, IsTreeText(x), NEW v, v = RestoreTree(w, x)
  PROVE  Keeps(w, v)
<1> DEFINE first == [i \in Inner |-> IF i \in DOMAIN x.first THEN x.first[i] ELSE w.first[i]]
           second == [i \in Inner |-> IF i \in DOMAIN x.second THEN x.second[i] ELSE w.second[i]]
           parent == [n \in Node |-> IF Parents(x, n) = {} THEN w.parent[n]
                                     ELSE CHOOSE i \in Parents(x, n) : TRUE]
           sticky == w.sticky \union x.sticky
<1>1. v = [w EXCEPT !.first = first, !.second = second, !.parent = parent, !.sticky = sticky]
  BY DEF RestoreTree
<1>2. first \in [Inner -> Node \union {None}] /\ second \in [Inner -> Node \union {None}]
  BY DEF IsTreeText, Worlds
<1>3. parent \in [Node -> Inner \union {None}]
  <2>1. \A n \in Node : Parents(x, n) \subseteq Inner
    BY DEF Parents, IsTreeText
  <2>2. ASSUME NEW n \in Node, Parents(x, n) # {}
        PROVE  (CHOOSE i \in Parents(x, n) : TRUE) \in Inner
    BY <2>1, <2>2
  <2>3. w.parent \in [Node -> Inner \union {None}]
    BY DEF Worlds
  <2> QED BY <2>2, <2>3
<1>4. sticky \in SUBSET Node
  BY DEF IsTreeText, Worlds
<1> HIDE DEF first, second, parent, sticky
<1> QED BY ZenonT(60), <1>1, <1>2, <1>3, <1>4 DEF Keeps, Worlds

LEMMA DesktopRestored ==
  ASSUME NEW w \in Worlds, NEW x, IsDesktopText(x), NEW v, v = RestoreDesktop(w, x)
  PROVE  Keeps(w, v)
<1> DEFINE a == RestoreTree(w, x.tree)
           root == [a.root EXCEPT ![x.id] = x.tree.root]
           gap == [a.gap EXCEPT ![x.id] = x.gap]
           b == [a EXCEPT !.root = root, !.gap = gap]
           focus == [b.focus EXCEPT ![x.id] = FindIn(b, x.id, x.focused)]
<1>1. v = [b EXCEPT !.focus = focus]
  <2>1. b = [a EXCEPT !.root[x.id] = x.tree.root, !.gap[x.id] = x.gap]
    OBVIOUS
  <2> HIDE DEF a, b
  <2>2. v = [b EXCEPT !.focus[x.id] = FindIn(b, x.id, x.focused)]
    BY <2>1 DEF RestoreDesktop, a
  <2> QED BY <2>2
<1>2. Keeps(w, a)
  BY TreeRestored DEF IsDesktopText
<1> HIDE DEF a
<1>3. root \in [Desktop -> Node \union {None}] /\ gap \in [Desktop -> Nat]
  BY <1>2 DEF Keeps, Worlds, IsDesktopText, IsTreeText
<1> HIDE DEF root, gap
<1>4. Keeps(w, b)
  BY <1>2, <1>3 DEF Keeps, Worlds
<1> HIDE DEF b
<1>5. focus \in [Desktop -> Node \union {None}]
  <2>1. FindIn(b, x.id, x.focused) \in Node \union {None}
    BY FindType DEF IsDesktopText
  <2>2. b.focus \in [Desktop -> Node \union {None}]
    BY <1>4 DEF Keeps, Worlds
  <2> QED BY <2>1, <2>2
<1> HIDE DEF focus
<1> QED BY <1>1, <1>4, <1>5 DEF Keeps, Worlds

(* A desktop, or all of them, for the monitor m.                           *)
Furnishes(w, v, m) ==
  /\ v \in Worlds
  /\ v.monitors = w.monitors /\ v.mon = w.mon
  /\ \A k \in Monitor \ {m} : v.desks[k] = w.desks[k] /\ v.shown[k] = w.shown[k]

LEMMA DesktopAdded ==
  ASSUME NEW w \in Worlds, NEW m \in Monitor, NEW d \in Desktop, NEW v, v = AddDesktop(w, m, d)
  PROVE  /\ Furnishes(w, v, m)
         /\ v.shown[m] # None /\ v.desks[m] # <<>>
<1> DEFINE desks == [w.desks EXCEPT ![m] = Append(@, d)]
           shown == [w.shown EXCEPT ![m] = Or(@, d)]
           gap == [w.gap EXCEPT ![d] = w.monGap[m]]
<1>1. v = [w EXCEPT !.desks = desks, !.shown = shown, !.gap = gap]
  BY DEF AddDesktop
<1>2. /\ w.desks \in [Monitor -> Seq(Desktop)] /\ w.shown \in [Monitor -> Desktop \union {None}]
      /\ w.gap \in [Desktop -> Nat] /\ w.monGap \in [Monitor -> Nat]
  BY DEF Worlds
<1>3. desks \in [Monitor -> Seq(Desktop)] /\ desks[m] # <<>>
      /\ \A k \in Monitor \ {m} : desks[k] = w.desks[k]
  <2> DEFINE e == Append(w.desks[m], d)
  <2>1. e \in Seq(Desktop) /\ e # <<>>
    <3>1. w.desks[m] \in Seq(Desktop)
      BY <1>2
    <3> QED BY <3>1, AppendProperties, EmptySeq
  <2> HIDE DEF e
  <2>2. desks = [w.desks EXCEPT ![m] = e]
    BY DEF e
  <2> HIDE DEF desks
  <2> QED BY <1>2, <2>1, <2>2
<1>4. shown \in [Monitor -> Desktop \union {None}] /\ shown[m] # None
      /\ \A k \in Monitor \ {m} : shown[k] = w.shown[k]
  BY <1>2, RestartAssumption DEF Or
<1>5. gap \in [Desktop -> Nat]
  BY <1>2
<1> HIDE DEF desks, shown, gap
<1>6. v \in Worlds /\ v.desks = desks /\ v.shown = shown
      /\ v.monitors = w.monitors /\ v.mon = w.mon
  BY ZenonT(60), <1>1, <1>3, <1>4, <1>5 DEF Worlds
<1> QED BY <1>3, <1>4, <1>6 DEF Furnishes

(* A loop that stays in a set.                                             *)
LEMMA LoopStays ==
  ASSUME NEW n \in Nat, NEW R, NEW g, g[0] \in R,
         \A i \in 1..n : g[i - 1] \in R => g[i] \in R
  PROVE  \A i \in 0..n : g[i] \in R
<1> DEFINE S == {i \in 0..n : g[i] \in R}
<1>1. 0 \in S
  OBVIOUS
<1>2. ASSUME NEW i \in 0..(n - 1), i \in S  PROVE i + 1 \in S
  <2>1. i + 1 \in 0..n /\ i + 1 \in 1..n /\ (i + 1) - 1 = i
    OBVIOUS
  <2> QED BY <1>2, <2>1
<1> HIDE DEF S
<1>3. \A i \in 0..n : i \in S
  BY <1>1, <1>2, Induction
<1> QED BY <1>3 DEF S

IsMonitorText(x) ==
  /\ x.id \in Monitor /\ x.gap \in Nat /\ x.stickyCount \in Nat
  /\ x.focused \in Desktop \union {None}
  /\ Len(x.desktops) \in Nat \ {0}
  /\ \A i \in 1..Len(x.desktops) : IsDesktopText(x.desktops[i])

LEMMA MonitorRestored ==
  ASSUME NEW w \in Worlds, NEW x, IsMonitorText(x), NEW v, v = RestoreMonitor(w, x)
  PROVE  /\ Furnishes(w, v, x.id)
         /\ v.shown[x.id] # None /\ v.desks[x.id] # <<>>
<1> DEFINE m == x.id
           q == x.desktops
           n == Len(q)
           a == [w EXCEPT !.monGap[m] = x.gap, !.count[m] = x.stickyCount]
           R == {u \in Worlds : Furnishes(w, u, m)}
           Step(u, i) == AddDesktop(RestoreDesktop(u, q[i]), m, q[i].id)
           F == [i \in 1..n |-> [u \in R |-> Step(u, i)]]
           Rec(f) == f = [i \in 0..n |-> IF i = 0 THEN a ELSE Step(f[i - 1], i)]
           g == CHOOSE f : Rec(f)
<1>0. n \in Nat /\ n # 0 /\ m \in Monitor
  BY DEF IsMonitorText
<1>1. v = [g[n] EXCEPT !.shown[m] = IF x.focused \in Range(g[n].desks[m]) THEN x.focused ELSE @]
  BY DEF RestoreMonitor, Loop
<1> HIDE DEF n, g
<1>2. a \in R
  <2> DEFINE monGap == [w.monGap EXCEPT ![m] = x.gap]
             count == [w.count EXCEPT ![m] = x.stickyCount]
  <2>1. monGap \in [Monitor -> Nat] /\ count \in [Monitor -> Nat]
    BY DEF Worlds, IsMonitorText
  <2>2. a = [w EXCEPT !.monGap = monGap, !.count = count]
    OBVIOUS
  <2> HIDE DEF monGap, count, a
  <2> QED BY <2>1, <2>2 DEF Worlds, Furnishes
<1> HIDE DEF a
<1>9. ASSUME NEW i \in 1..n, NEW u \in R
      PROVE  Step(u, i) \in R /\ Step(u, i).shown[m] # None /\ Step(u, i).desks[m] # <<>>
  <2> DEFINE b == RestoreDesktop(u, q[i])
             c == AddDesktop(b, m, q[i].id)
  <2>1. IsDesktopText(q[i]) /\ q[i].id \in Desktop
    BY DEF IsMonitorText, IsDesktopText, n
  <2>2. Keeps(u, b)
    BY <2>1, DesktopRestored
  <2> HIDE DEF b
  <2>3. b \in Worlds
    BY <2>2 DEF Keeps
  <2>4. Furnishes(b, c, m) /\ c.shown[m] # None /\ c.desks[m] # <<>>
    BY <1>0, <2>1, <2>3, DesktopAdded
  <2> HIDE DEF c
  <2>5. Furnishes(w, c, m)
    BY <2>2, <2>4 DEF Keeps, Furnishes
  <2>6. c \in R
    BY <2>5 DEF Furnishes
  <2> QED BY <2>4, <2>6 DEF c, b
<1> HIDE DEF R
<1>3. \A i \in 1..n : \A u \in R : Step(u, i) \in R
  BY <1>9
<1> HIDE DEF Step
<1>4. F \in [1..n -> [R -> R]] /\ \A i \in 1..n : \A u \in R : F[i][u] = Step(u, i)
  BY <1>3
<1> HIDE DEF F
<1>5. PICK f \in [0..n -> R] : f[0] = a /\ \A i \in 1..n : f[i] = F[i][f[i - 1]]
  <2> DEFINE f == Iterated(n, R, a, F)
  <2>1. n \in Nat /\ a \in R /\ F \in [1..n -> [R -> R]]
    BY <1>0, <1>2, <1>4
  <2>2. f \in [0..n -> R] /\ f[0] = a /\ \A i \in 1..n : f[i] = F[i][f[i - 1]]
    BY <2>1, Recursion
  <2> QED BY <2>2
<1>6. Rec(f)
  <2>1. \A i \in 0..n : i # 0 => i \in 1..n /\ i - 1 \in 0..n
    BY <1>0
  <2> QED BY <1>4, <1>5, <2>1
<1>7. Rec(g)
  <2> HIDE DEF Rec
  <2> QED BY <1>6 DEF g
<1>8. g[0] = a /\ \A i \in 1..n : g[i] = Step(g[i - 1], i)
  <2>1. 0 \in 0..n /\ \A i \in 1..n : i \in 0..n /\ i # 0
    BY <1>0
  <2> QED BY <1>7, <2>1
<1>10. \A i \in 0..n : g[i] \in R
  <2>1. \A i \in 1..n : g[i - 1] \in R => g[i] \in R
    BY <1>3, <1>8
  <2> QED BY <1>0, <1>2, <1>8, <2>1, LoopStays
<1> DEFINE u == g[n]
           shown == [u.shown EXCEPT ![m] = IF x.focused \in Range(u.desks[m]) THEN x.focused ELSE @]
<1>11. u \in R /\ u.shown[m] # None /\ u.desks[m] # <<>>
  <2>1. n \in 1..n /\ n \in 0..n /\ n - 1 \in 0..n
    BY <1>0
  <2>2. g[n] = Step(g[n - 1], n)
    BY <1>8, <2>1
  <2> QED BY <1>9, <1>10, <2>1, <2>2 DEF Step
<1>12. Furnishes(w, u, m) /\ u \in Worlds
  BY <1>11 DEF R
<1>13. v = [u EXCEPT !.shown = shown]
  BY <1>1
<1> HIDE DEF u
<1>14. /\ shown \in [Monitor -> Desktop \union {None}] /\ shown[m] # None
       /\ \A k \in Monitor \ {m} : shown[k] = u.shown[k]
  <2>1. u.shown \in [Monitor -> Desktop \union {None}] /\ Range(u.desks[m]) \subseteq Desktop
    <3>1. u.desks[m] \in Seq(Desktop) /\ u.shown \in [Monitor -> Desktop \union {None}]
      BY <1>0, <1>12 DEF Worlds
    <3> QED BY <3>1 DEF Range
  <2> QED BY <1>0, <1>11, <2>1, RestartAssumption DEF IsMonitorText
<1> HIDE DEF shown
<1>15. /\ v \in Worlds /\ v.monitors = u.monitors /\ v.mon = u.mon
       /\ v.desks = u.desks /\ v.shown = shown
  BY <1>12, <1>13, <1>14 DEF Worlds
<1> QED BY <1>11, <1>12, <1>14, <1>15 DEF Furnishes

LEMMA InsertFacts ==
  ASSUME NEW R, NEW q \in Seq(R), IsInjective(q), NEW k \in 1..(Len(q) + 1),
         NEW x \in R, x \notin Range(q)
  PROVE  /\ InsertAt(q, k, x) \in Seq(R)
         /\ IsInjective(InsertAt(q, k, x))
         /\ Range(InsertAt(q, k, x)) = Range(q) \union {x}
<1> DEFINE u == InsertAt(q, k, x)
           n == Len(q)
<1>1. /\ u \in Seq(R) /\ Len(u) = n + 1 /\ u[k] = x
      /\ \A i \in 1..(k - 1) : u[i] = q[i]
      /\ \A i \in k..n : u[i + 1] = q[i]
  <2> HIDE DEF u
  <2>1. q \in Seq(R) /\ x \in R /\ k \in 1..(Len(q) + 1)
    OBVIOUS
  <2>2. /\ InsertAt(q, k, x) \in Seq(R)
        /\ Len(InsertAt(q, k, x)) = Len(q) + 1
        /\ InsertAt(q, k, x)[k] = x
        /\ \A i \in 1..(k - 1) : InsertAt(q, k, x)[i] = q[i]
        /\ \A i \in k..Len(q) : InsertAt(q, k, x)[i + 1] = q[i]
    <3> HIDE DEF n
    <3> QED BY <2>1, InsertAtFacts
  <2> QED BY <2>2 DEF u
<1>2. n \in Nat /\ DOMAIN q = 1..n /\ DOMAIN u = 1..(n + 1)
  BY <1>1
<1> HIDE DEF u, n
<1>3. ASSUME NEW i \in 1..(n + 1), i # k
      PROVE  \E j \in 1..n : u[i] = q[j] /\ (j = i \/ j + 1 = i) /\ (i < k <=> j = i)
  <2>1. CASE i < k
    <3>1. i \in 1..n /\ i \in 1..(k - 1)
      BY <1>2, <2>1 DEF n
    <3> QED BY <1>1, <2>1, <3>1
  <2>2. CASE i > k
    <3>1. i - 1 \in k..n /\ i - 1 \in 1..n /\ (i - 1) + 1 = i
      BY <1>2, <2>2
    <3>2. u[i] = q[i - 1]
      BY <1>1, <3>1
    <3> QED BY <2>2, <3>1, <3>2
  <2> QED BY <1>2, <1>3, <2>1, <2>2
<1>4. ASSUME NEW j \in 1..n  PROVE q[j] \in Range(u)
  <2>1. CASE j < k
    <3>1. j \in 1..(k - 1) /\ j \in 1..(n + 1)
      BY <1>2, <2>1
    <3> QED BY <1>1, <1>2, <3>1 DEF Range
  <2>2. CASE j >= k
    <3>1. j \in k..n /\ j + 1 \in 1..(n + 1)
      BY <1>2, <2>2
    <3> QED BY <1>1, <1>2, <3>1 DEF Range
  <2> QED BY <1>2, <2>1, <2>2
<1>5. k \in 1..(n + 1)
  BY DEF n
<1>6. \A j \in 1..n : q[j] # x
  BY <1>2 DEF Range
<1>7. IsInjective(u)
  <2> SUFFICES ASSUME NEW a \in 1..(n + 1), NEW b \in 1..(n + 1), u[a] = u[b]
               PROVE  a = b
    BY <1>2 DEF IsInjective
  <2>1. CASE a = k \/ b = k
    BY <1>1, <1>3, <1>6, <2>1
  <2>2. CASE a # k /\ b # k
    <3>1. PICK c \in 1..n : u[a] = q[c] /\ (c = a \/ c + 1 = a) /\ (a < k <=> c = a)
      BY <1>3, <2>2
    <3>2. PICK d \in 1..n : u[b] = q[d] /\ (d = b \/ d + 1 = b) /\ (b < k <=> d = b)
      BY <1>3, <2>2
    <3>3. c = d
      BY <1>2, <3>1, <3>2 DEF IsInjective
    <3> QED BY <1>2, <1>5, <2>2, <3>1, <3>2, <3>3
  <2> QED BY <2>1, <2>2
<1>8. Range(u) = Range(q) \union {x}
  <2>1. \A i \in 1..(n + 1) : u[i] \in Range(q) \union {x}
    BY <1>1, <1>2, <1>3 DEF Range
  <2>2. \A y \in Range(q) \union {x} : y \in Range(u)
    BY <1>1, <1>2, <1>4, <1>5 DEF Range
  <2>3. \A y \in Range(u) : y \in Range(q) \union {x}
    BY <1>2, <2>1 DEF Range
  <2> QED BY <2>2, <2>3
<1> QED BY <1>1, <1>7, <1>8 DEF u

Placed(w, v, m) ==
  /\ v \in Worlds /\ v.mon # None /\ v.desks = w.desks /\ v.shown = w.shown
  /\ IsInjective(w.monitors) /\ m \notin Range(w.monitors) =>
       /\ IsInjective(v.monitors)
       /\ Range(v.monitors) = Range(w.monitors) \union {m}

LEMMA MonitorPlaced ==
  ASSUME NEW w \in Worlds, NEW m \in Monitor, NEW v, v = AddMonitor(w, m)
  PROVE  Placed(w, v, m)
<1> DEFINE q == w.monitors
           after == {i \in 1..Len(q) : Rank[m] <= Rank[q[i]]}
           place == IF after = {} THEN Len(q) + 1 ELSE Min(after)
           p == InsertAt(q, place, m)
           o == Or(w.mon, m)
<1>1. q \in Seq(Monitor) /\ Len(q) \in Nat
  BY DEF Worlds
<1>2. v = [w EXCEPT !.monitors = p, !.mon = o]
  BY DEF AddMonitor
<1>3. place \in 1..(Len(q) + 1)
  <2>1. CASE after = {}
    BY <1>1, <2>1
  <2>2. CASE after # {}
    <3>1. after \subseteq 1..Len(q) /\ after \subseteq Nat
      BY <1>1
    <3>2. Min(after) \in after
      <4> HIDE DEF after
      <4> QED BY <2>2, <3>1, LeastPlace
    <3>3. place = Min(after)
      BY <2>2
    <3>4. Min(after) \in 1..Len(q)
      BY <3>1, <3>2
    <3> HIDE DEF after, place
    <3> QED BY <1>1, <3>3, <3>4
  <2> QED BY <2>1, <2>2
<1> HIDE DEF place
<1> HIDE DEF q
<1>4. p \in Seq(Monitor)
  BY <1>1, <1>3, InsertAtFacts
<1>7. ASSUME IsInjective(q), m \notin Range(q)
      PROVE  IsInjective(p) /\ Range(p) = Range(q) \union {m}
  BY <1>1, <1>3, <1>7, InsertFacts
<1>5. o \in Monitor /\ o # None
  <2>1. w.mon \in Monitor \union {None}
    BY DEF Worlds
  <2> QED BY <2>1, RestartAssumption DEF Or
<1> HIDE DEF p, o
<1>6. /\ v \in Worlds /\ v.monitors = p /\ v.mon = o
      /\ v.desks = w.desks /\ v.shown = w.shown
  BY ZenonT(60), <1>2, <1>4, <1>5 DEF Worlds
<1> QED BY <1>5, <1>6, <1>7 DEF q, Placed

IsText(x) ==
  /\ Len(x.monitors) \in Nat /\ \A i \in 1..Len(x.monitors) : IsMonitorText(x.monitors[i])
  /\ \A i, j \in 1..Len(x.monitors) : x.monitors[i].id = x.monitors[j].id => i = j
  /\ {x.monitors[i].id : i \in 1..Len(x.monitors)} = Monitor
  /\ Len(x.history) \in Nat
  /\ \A i \in 1..Len(x.history) : /\ x.history[i].desktop \in Desktop
                                  /\ x.history[i].node \in Node \union {None}
  /\ x.stack \in Seq(Window)
  /\ x.focused \in Monitor /\ x.primary \in Monitor \union {None}

(* The monitors M are there, with their desktops.                          *)
Peopled(v, M) ==
  /\ v \in Worlds
  /\ IsInjective(v.monitors) /\ Range(v.monitors) = M
  /\ M # {} => v.mon # None
  /\ \A m \in M : v.shown[m] # None /\ v.desks[m] # <<>>

LEMMA VoidFacts == Peopled(Void, {})
<1>1. Void.monitors = <<>> /\ Void.monitors \in Seq(Monitor)
  BY DEF Void
<1>2. NoTree \in [Desktop -> Node \union {None}] /\ NoChild \in [Inner -> Node \union {None}]
  BY DEF NoTree, NoChild
<1>3. Void \in Worlds
  <2>1. <<>> \in Seq(Monitor) /\ <<>> \in Seq(Desktop) /\ <<>> \in Seq(Cells) /\ <<>> \in Seq(Window)
    OBVIOUS
  <2>2. [m \in Monitor |-> <<>>] \in [Monitor -> Seq(Desktop)]
    BY <2>1
  <2>3. /\ [m \in Monitor |-> None] \in [Monitor -> Desktop \union {None}]
        /\ [m \in Monitor |-> 0] \in [Monitor -> Nat]
        /\ [d \in Desktop |-> 0] \in [Desktop -> Nat]
        /\ [n \in Node |-> None] \in [Node -> Inner \union {None}]
    OBVIOUS
  <2> DEFINE e == [m \in Monitor |-> <<>>]
             f == [m \in Monitor |-> None]
             z == [m \in Monitor |-> 0]
             y == [d \in Desktop |-> 0]
             p == [n \in Node |-> None]
  <2>4. Void = [monitors |-> <<>>, mon |-> None, pri |-> None, desks |-> e, shown |-> f,
                count |-> z, monGap |-> z, gap |-> y, root |-> NoTree, focus |-> NoTree,
                first |-> NoChild, second |-> NoChild, parent |-> p,
                sticky |-> {}, history |-> <<>>, stack |-> <<>>]
    BY DEF Void
  <2> HIDE DEF e, f, z, y, p
  <2> QED BY <1>2, <2>1, <2>2, <2>3, <2>4 DEF Worlds, e, f, z, y, p
<1> QED BY <1>1, <1>3 DEF Peopled, IsInjective, Range

LEMMA MonitorsRestored ==
  ASSUME NEW x, IsText(x), NEW v, v = RestoreMonitors(x.monitors)
  PROVE  Peopled(v, Monitor)
<1> DEFINE q == x.monitors
           n == Len(q)
           Step(u, i) == AddMonitor(RestoreMonitor(u, q[i]), q[i].id)
           F == [i \in 1..n |-> [u \in Worlds |-> Step(u, i)]]
           Rec(f) == f = [i \in 0..n |-> IF i = 0 THEN Void ELSE Step(f[i - 1], i)]
           g == CHOOSE f : Rec(f)
           Done(i) == {q[j].id : j \in 1..i}
           Good(i, u) == Peopled(u, Done(i))
<1>0. n \in Nat /\ Done(n) = Monitor /\ \A i, j \in 1..n : q[i].id = q[j].id => i = j
  BY DEF IsText
<1>1. v = g[n]
  BY DEF RestoreMonitors, Loop
<1>9. ASSUME NEW i \in 1..n  PROVE IsMonitorText(q[i])
  BY DEF IsText
<1> HIDE DEF n, g, q
<1>2. Void \in Worlds
  BY VoidFacts DEF Peopled
<1>10. ASSUME NEW i \in 1..n, NEW u \in Worlds, NEW r, r = RestoreMonitor(u, q[i]),
              NEW z, z = AddMonitor(r, q[i].id)
       PROVE  /\ Furnishes(u, r, q[i].id) /\ r.shown[q[i].id] # None /\ r.desks[q[i].id] # <<>>
              /\ Placed(r, z, q[i].id)
  <2>1. Furnishes(u, r, q[i].id) /\ r.shown[q[i].id] # None /\ r.desks[q[i].id] # <<>>
    BY <1>9, <1>10, MonitorRestored
  <2>2. r \in Worlds /\ q[i].id \in Monitor
    BY <1>9, <2>1 DEF Furnishes, IsMonitorText
  <2>3. Placed(r, z, q[i].id)
    BY <1>10, <2>2, MonitorPlaced
  <2> QED BY <2>1, <2>3
<1>3. \A i \in 1..n : \A u \in Worlds : Step(u, i) \in Worlds
  BY <1>10 DEF Placed
<1> HIDE DEF Step
<1>4. F \in [1..n -> [Worlds -> Worlds]] /\ \A i \in 1..n : \A u \in Worlds : F[i][u] = Step(u, i)
  BY <1>3
<1> HIDE DEF F
<1>5. PICK f \in [0..n -> Worlds] : f[0] = Void /\ \A i \in 1..n : f[i] = F[i][f[i - 1]]
  <2> DEFINE f == Iterated(n, Worlds, Void, F)
  <2>1. n \in Nat /\ Void \in Worlds /\ F \in [1..n -> [Worlds -> Worlds]]
    BY <1>0, <1>2, <1>4
  <2>2. f \in [0..n -> Worlds] /\ f[0] = Void /\ \A i \in 1..n : f[i] = F[i][f[i - 1]]
    BY <2>1, Recursion
  <2> QED BY <2>2
<1>6. Rec(f)
  <2>1. \A i \in 0..n : i # 0 => i \in 1..n /\ i - 1 \in 0..n
    BY <1>0
  <2> QED BY <1>4, <1>5, <2>1
<1>7. Rec(g)
  <2> HIDE DEF Rec
  <2> QED BY <1>6 DEF g
<1>8. g[0] = Void /\ \A i \in 1..n : g[i] = Step(g[i - 1], i)
  <2>1. 0 \in 0..n /\ \A i \in 1..n : i \in 0..n /\ i # 0
    BY <1>0
  <2> QED BY <1>7, <2>1
<1> DEFINE S == {i \in 0..n : Good(i, g[i])}
<1>11. 0 \in S
  <2>1. 0 \in 0..n /\ Done(0) = {}
    BY <1>0
  <2> QED BY <1>8, <2>1, VoidFacts
<1>12. ASSUME NEW i \in 0..(n - 1), i \in S  PROVE i + 1 \in S
  <2> DEFINE u == g[i]
             m == q[i + 1].id
             r == RestoreMonitor(u, q[i + 1])
             z == g[i + 1]
             M == Done(i)
  <2>1. /\ i + 1 \in 0..n /\ i + 1 \in 1..n /\ (i + 1) - 1 = i
        /\ \A j : j \in 1..(i + 1) <=> j \in 1..i \/ j = i + 1
        /\ \A j \in 1..i : j \in 1..n /\ j # i + 1
    BY <1>0
  <2>2. Peopled(u, M)
    BY <1>12
  <2>3. z = AddMonitor(r, m)
    BY <1>8, <2>1 DEF Step
  <2>4. Done(i + 1) = M \union {m} /\ m \notin M
    BY <1>0, <2>1
  <2>5. \A k \in M : k \in Monitor
    BY <1>9, <2>1 DEF IsMonitorText
  <2> HIDE DEF u, r, z, Done, M
  <2>6. u \in Worlds
    BY <2>2 DEF Peopled
  <2>7. /\ Furnishes(u, r, m) /\ r.shown[m] # None /\ r.desks[m] # <<>>
        /\ Placed(r, z, m)
    BY <1>10, <2>1, <2>3, <2>6 DEF r
  <2> HIDE DEF m
  <2>8. IsInjective(r.monitors) /\ Range(r.monitors) = M
    BY <2>2, <2>7 DEF Furnishes, Peopled
  <2>9. \A k \in M \union {m} : z.shown[k] # None /\ z.desks[k] # <<>>
    BY <2>2, <2>4, <2>5, <2>7 DEF Furnishes, Peopled, Placed
  <2>10. Peopled(z, M \union {m})
    BY <2>4, <2>7, <2>8, <2>9 DEF Peopled, Placed
  <2>11. Good(i + 1, z)
    BY <2>4, <2>10
  <2> HIDE DEF Good
  <2> QED BY <2>1, <2>11 DEF z
<1> HIDE DEF S
<1>13. n \in S
  <2>1. \A i \in 0..n : i \in S
    BY <1>0, <1>11, <1>12, Induction
  <2> QED BY <1>0, <2>1
<1>14. Good(n, g[n])
  BY <1>13 DEF S
<1> QED BY <1>0, <1>1, <1>14

LEMMA HistoryType ==
  ASSUME NEW h \in Seq(Cells), NEW d \in Desktop, NEW n \in Node \union {None}
  PROVE  HistoryAdd(h, d, n) \in Seq(Cells)
<1> DEFINE aged == [i \in DOMAIN h |-> [h[i] EXCEPT !.latest = @ /\ ~Same(d, n, h[i])]]
           cell == [desk |-> d, node |-> n, latest |-> TRUE]
<1>1. cell \in Cells
  BY DEF Cells
<1>2. Len(h) \in Nat /\ DOMAIN h = 1..Len(h) /\ \A i \in 1..Len(h) : h[i] \in Cells
  OBVIOUS
<1>3. ASSUME NEW i \in 1..Len(h)
      PROVE  [h[i] EXCEPT !.latest = @ /\ ~Same(d, n, h[i])] \in Cells
  <2> DEFINE c == h[i]
             b == c.latest /\ ~Same(d, n, c)
  <2>1. c \in Cells
    BY <1>2
  <2>2. b \in BOOLEAN
    OBVIOUS
  <2> HIDE DEF b, c
  <2>3. [c EXCEPT !.latest = b] \in Cells
    BY <2>1, <2>2 DEF Cells
  <2> QED BY <2>3 DEF b, c
<1>4. aged \in Seq(Cells)
  BY <1>2, <1>3
<1> HIDE DEF aged, cell
<1>5. Append(aged, cell) \in Seq(Cells)
  BY <1>1, <1>4, AppendProperties
<1>6. HistoryAdd(h, d, n) = h \/ HistoryAdd(h, d, n) = Append(aged, cell)
  BY DEF HistoryAdd, aged, cell
<1> QED BY <1>5, <1>6

LEMMA HistoryRestored ==
  ASSUME NEW w \in Worlds, NEW cells, Len(cells) \in Nat,
         \A i \in 1..Len(cells) : /\ cells[i].desktop \in Desktop
                                  /\ cells[i].node \in Node \union {None},
         NEW v, v = RestoreHistory(w, cells)
  PROVE  Keeps(w, v)
<1> DEFINE n == Len(cells)
           R == {u \in Worlds : Keeps(w, u)}
           Step(u, i) ==
             IF /\ cells[i].monitor \in Range(u.monitors)
                /\ cells[i].desktop \in Range(u.desks[cells[i].monitor])
             THEN [u EXCEPT !.history =
                     HistoryAdd(@, cells[i].desktop, FindIn(u, cells[i].desktop, cells[i].node))]
             ELSE u
           F == [i \in 1..n |-> [u \in R |-> Step(u, i)]]
           Rec(f) == f = [i \in 0..n |-> IF i = 0 THEN w ELSE Step(f[i - 1], i)]
           g == CHOOSE f : Rec(f)
<1>0. n \in Nat
  OBVIOUS
<1>1. v = g[n]
  BY DEF RestoreHistory, Loop
<1> HIDE DEF n, g
<1>2. w \in R
  BY DEF Keeps
<1>9. ASSUME NEW i \in 1..n, NEW u \in R  PROVE Step(u, i) \in R
  <2> DEFINE h == HistoryAdd(u.history, cells[i].desktop,
                             FindIn(u, cells[i].desktop, cells[i].node))
  <2>1. u \in Worlds /\ Keeps(w, u) /\ u.history \in Seq(Cells)
    BY DEF Worlds
  <2>2. h \in Seq(Cells)
    <3>1. FindIn(u, cells[i].desktop, cells[i].node) \in Node \union {None}
      BY FindType DEF n
    <3> QED BY <2>1, <3>1, HistoryType DEF n
  <2>3. Step(u, i) = u \/ Step(u, i) = [u EXCEPT !.history = h]
    OBVIOUS
  <2> HIDE DEF h, Step
  <2>4. [u EXCEPT !.history = h] \in R
    BY <2>1, <2>2 DEF Keeps, Worlds
  <2> QED BY <2>3, <2>4
<1> HIDE DEF R
<1>3. \A i \in 1..n : \A u \in R : Step(u, i) \in R
  BY <1>9
<1> HIDE DEF Step
<1>4. F \in [1..n -> [R -> R]] /\ \A i \in 1..n : \A u \in R : F[i][u] = Step(u, i)
  BY <1>3
<1> HIDE DEF F
<1>5. PICK f \in [0..n -> R] : f[0] = w /\ \A i \in 1..n : f[i] = F[i][f[i - 1]]
  <2> DEFINE f == Iterated(n, R, w, F)
  <2>1. n \in Nat /\ w \in R /\ F \in [1..n -> [R -> R]]
    BY <1>0, <1>2, <1>4
  <2>2. f \in [0..n -> R] /\ f[0] = w /\ \A i \in 1..n : f[i] = F[i][f[i - 1]]
    BY <2>1, Recursion
  <2> QED BY <2>2
<1>6. Rec(f)
  <2>1. \A i \in 0..n : i # 0 => i \in 1..n /\ i - 1 \in 0..n
    BY <1>0
  <2> QED BY <1>4, <1>5, <2>1
<1>7. Rec(g)
  <2> HIDE DEF Rec
  <2> QED BY <1>6 DEF g
<1>8. g[0] = w /\ \A i \in 1..n : g[i] = Step(g[i - 1], i)
  <2>1. 0 \in 0..n /\ \A i \in 1..n : i \in 0..n /\ i # 0
    BY <1>0
  <2> QED BY <1>7, <2>1
<1>10. n \in 0..n /\ \A i \in 1..n : g[i - 1] \in R => g[i] \in R
  <2>1. \A i \in 1..n : g[i - 1] \in R => Step(g[i - 1], i) \in R
    BY <1>3
  <2> HIDE DEF g
  <2> QED BY <1>0, <1>8, <2>1
<1>11. g[n] \in R
  BY <1>0, <1>2, <1>8, <1>10, LoopStays
<1> QED BY <1>1, <1>11 DEF R

LEMMA StackRestored ==
  ASSUME NEW w \in Worlds, NEW windows \in Seq(Window), NEW v, v = RestoreStack(w, windows)
  PROVE  Keeps(w, v)
<1> DEFINE n == Len(windows)
           R == {u \in Worlds : Keeps(w, u)}
           Located(i) == \E d \in Desktop : windows[i] \in Below(w, w.root[d])
           Step(u, i) == IF Located(i)
                         THEN [u EXCEPT !.stack = Append(Unlisted(@, windows[i]), windows[i])]
                         ELSE u
           F == [i \in 1..n |-> [u \in R |-> Step(u, i)]]
           Rec(f) == f = [i \in 0..n |-> IF i = 0 THEN w ELSE Step(f[i - 1], i)]
           g == CHOOSE f : Rec(f)
<1>0. n \in Nat /\ \A i \in 1..n : windows[i] \in Window
  OBVIOUS
<1>1. v = g[n]
  BY DEF RestoreStack, Loop
<1> HIDE DEF n, g
<1>2. w \in R
  BY DEF Keeps
<1>9. ASSUME NEW i \in 1..n, NEW u \in R  PROVE Step(u, i) \in R
  <2> DEFINE h == Append(Unlisted(u.stack, windows[i]), windows[i])
  <2>1. u \in Worlds /\ Keeps(w, u) /\ u.stack \in Seq(Window)
    BY DEF Worlds
  <2>2. h \in Seq(Window)
    <3>1. Unlisted(u.stack, windows[i]) \in Seq(Window)
      BY <2>1, WithoutType
    <3> QED BY <1>0, <3>1, AppendProperties
  <2>3. Step(u, i) = u \/ Step(u, i) = [u EXCEPT !.stack = h]
    OBVIOUS
  <2> HIDE DEF h, Step
  <2>4. [u EXCEPT !.stack = h] \in R
    BY <2>1, <2>2 DEF Keeps, Worlds
  <2> QED BY <2>3, <2>4
<1> HIDE DEF R, Located
<1>3. \A i \in 1..n : \A u \in R : Step(u, i) \in R
  BY <1>9
<1> HIDE DEF Step
<1>4. F \in [1..n -> [R -> R]] /\ \A i \in 1..n : \A u \in R : F[i][u] = Step(u, i)
  BY <1>3
<1> HIDE DEF F
<1>5. PICK f \in [0..n -> R] : f[0] = w /\ \A i \in 1..n : f[i] = F[i][f[i - 1]]
  <2> DEFINE f == Iterated(n, R, w, F)
  <2>1. n \in Nat /\ w \in R /\ F \in [1..n -> [R -> R]]
    BY <1>0, <1>2, <1>4
  <2>2. f \in [0..n -> R] /\ f[0] = w /\ \A i \in 1..n : f[i] = F[i][f[i - 1]]
    BY <2>1, Recursion
  <2> QED BY <2>2
<1>6. Rec(f)
  <2>1. \A i \in 0..n : i # 0 => i \in 1..n /\ i - 1 \in 0..n
    BY <1>0
  <2> QED BY <1>4, <1>5, <2>1
<1>7. Rec(g)
  <2> HIDE DEF Rec
  <2> QED BY <1>6 DEF g
<1>8. g[0] = w /\ \A i \in 1..n : g[i] = Step(g[i - 1], i)
  <2>1. 0 \in 0..n /\ \A i \in 1..n : i \in 0..n /\ i # 0
    BY <1>0
  <2> QED BY <1>7, <2>1
<1>10. n \in 0..n /\ \A i \in 1..n : g[i - 1] \in R => g[i] \in R
  <2>1. \A i \in 1..n : g[i - 1] \in R => Step(g[i - 1], i) \in R
    BY <1>3
  <2> HIDE DEF g
  <2> QED BY <1>0, <1>8, <2>1
<1>11. g[n] \in R
  BY <1>0, <1>2, <1>8, <1>10, LoopStays
<1> QED BY <1>1, <1>11 DEF R

WorldOK(w) ==
  /\ w \in Worlds
  /\ IsInjective(w.monitors) /\ Range(w.monitors) = Monitor
  /\ w.mon # None
  /\ \A m \in Monitor : w.shown[m] # None /\ w.desks[m] # <<>>

LEMMA StateRestored ==
  ASSUME NEW x, IsText(x), NEW v, v = Restored(x)
  PROVE  WorldOK(v) /\ v.mon = x.focused
<1> DEFINE a == RestoreMonitors(x.monitors)
           b == RestoreHistory(a, x.history)
           u == RestoreStack(b, x.stack)
           mon == IF x.focused \in Range(u.monitors) THEN x.focused ELSE u.mon
           pri == IF x.primary \in Range(u.monitors) THEN x.primary ELSE u.pri
<1>1. v = [u EXCEPT !.mon = mon, !.pri = pri]
  <2> HIDE DEF a, b
  <2> QED BY DEF Restored, a, b
<1>2. Peopled(a, Monitor)
  BY MonitorsRestored
<1> HIDE DEF a
<1>3. Keeps(a, b)
  BY <1>2, HistoryRestored DEF IsText, Peopled
<1> HIDE DEF b
<1>4. Keeps(b, u)
  BY <1>3, StackRestored DEF IsText, Keeps
<1> HIDE DEF u
<1>5. u \in Worlds /\ Peopled(u, Monitor)
  BY <1>2, <1>3, <1>4 DEF Keeps, Peopled
<1>6. mon = x.focused /\ mon \in Monitor /\ pri \in Monitor \union {None}
  BY <1>5 DEF IsText, Peopled, Worlds
<1> HIDE DEF mon, pri
<1>7. /\ v \in Worlds /\ v.mon = mon /\ v.monitors = u.monitors
      /\ v.desks = u.desks /\ v.shown = u.shown
  BY <1>1, <1>5, <1>6 DEF Worlds
<1> QED BY <1>5, <1>6, <1>7, RestartAssumption DEF WorldOK, Peopled

LEMMA TextFacts ==
  ASSUME NEW w, WorldOK(w), NEW x, x = Text(w)
  PROVE  /\ IsText(x) /\ x.focused = w.mon
         /\ Len(x.monitors) \in Nat \ {0} /\ x.monitors[1].id = w.monitors[1]
         /\ \A i \in 1..Len(x.monitors) : Len(x.monitors[i].desktops) \in Nat
<1> DEFINE q == w.monitors
           ms == [i \in DOMAIN q |-> MonitorText(w, q[i])]
           h == [i \in DOMAIN w.history |->
                   [monitor |-> Home(w, w.history[i].desk), desktop |-> w.history[i].desk,
                    node |-> w.history[i].node]]
<1>1. /\ q \in Seq(Monitor) /\ Len(q) \in Nat /\ DOMAIN q = 1..Len(q)
      /\ w.history \in Seq(Cells) /\ w.stack \in Seq(Window)
      /\ w.mon \in Monitor /\ w.pri \in Monitor \union {None}
  BY DEF WorldOK, Worlds
<1>2. \A i \in 1..Len(q) : q[i] \in Monitor
  BY <1>1
<1>3. /\ x.focused = w.mon /\ x.primary = w.pri /\ x.stack = w.stack
      /\ x.monitors = ms /\ x.history = h
  BY DEF Text, HistoryText
<1>4. ASSUME NEW d \in Desktop  PROVE IsDesktopText(DesktopText(w, d))
  <2> DEFINE n == w.root[d]
             nodes == Below(w, n)
             t == TreeText(w, n)
             S == nodes \intersect Inner
  <2>1. /\ n \in Node \union {None} /\ w.gap[d] \in Nat /\ w.focus[d] \in Node \union {None}
        /\ w.sticky \in SUBSET Node
        /\ w.first \in [Inner -> Node \union {None}] /\ w.second \in [Inner -> Node \union {None}]
    BY DEF WorldOK, Worlds
  <2>2. S \in SUBSET Inner
    OBVIOUS
  <2> HIDE DEF n
  <2>3. t = [root |-> n, sticky |-> nodes \intersect w.sticky,
             first |-> [i \in S |-> w.first[i]], second |-> [i \in S |-> w.second[i]]]
    BY DEF TreeText
  <2> HIDE DEF nodes, S, t
  <2>4. /\ [i \in S |-> w.first[i]] \in [S -> Node \union {None}]
        /\ [i \in S |-> w.second[i]] \in [S -> Node \union {None}]
    BY <2>1, <2>2
  <2>5. t.root = n /\ t.sticky = nodes \intersect w.sticky
        /\ t.first = [i \in S |-> w.first[i]] /\ t.second = [i \in S |-> w.second[i]]
    BY <2>3
  <2>6. IsTreeText(t)
    <3>1. t.root \in Node \union {None} /\ t.sticky \in SUBSET Node
      BY <2>1, <2>5
    <3>2. t.first \in [S -> Node \union {None}] /\ t.second \in [S -> Node \union {None}]
      BY <2>4, <2>5
    <3> QED BY <2>2, <3>1, <3>2 DEF IsTreeText
  <2>7. DesktopText(w, d) = [id |-> d, gap |-> w.gap[d], focused |-> w.focus[d], tree |-> t]
    BY DEF DesktopText, t, n
  <2> QED BY <2>1, <2>6, <2>7 DEF IsDesktopText
<1>5. ASSUME NEW m \in Monitor  PROVE IsMonitorText(MonitorText(w, m)) /\ MonitorText(w, m).id = m
  <2> DEFINE ds == [i \in DOMAIN w.desks[m] |-> DesktopText(w, w.desks[m][i])]
             t == MonitorText(w, m)
             e == w.desks[m]
  <2>1. /\ e \in Seq(Desktop) /\ e # <<>>
        /\ w.shown[m] \in Desktop \union {None} /\ w.count[m] \in Nat /\ w.monGap[m] \in Nat
    BY DEF WorldOK, Worlds
  <2>2. /\ t.id = m /\ t.gap = w.monGap[m] /\ t.stickyCount = w.count[m]
        /\ t.focused = w.shown[m] /\ t.desktops = ds
    BY DEF MonitorText
  <2> HIDE DEF t
  <2>3. Len(e) \in Nat \ {0} /\ DOMAIN e = 1..Len(e) /\ \A i \in 1..Len(e) : e[i] \in Desktop
    <3> HIDE DEF e
    <3>1. Len(e) \in Nat /\ DOMAIN e = 1..Len(e) /\ \A i \in 1..Len(e) : e[i] \in Desktop
      BY <2>1
    <3>2. Len(e) # 0
      BY <2>1, EmptySeq
    <3> QED BY <3>1, <3>2
  <2>4. Len(ds) = Len(e) /\ \A i \in 1..Len(e) : ds[i] = DesktopText(w, e[i])
    BY <2>3
  <2> HIDE DEF ds, e
  <2>5. \A i \in 1..Len(ds) : IsDesktopText(ds[i])
    BY <1>4, <2>3, <2>4
  <2>6. IsMonitorText(t) /\ t.id = m
    BY <2>1, <2>2, <2>3, <2>4, <2>5 DEF IsMonitorText
  <2> QED BY <2>6 DEF t
<1>6. Len(ms) = Len(q) /\ \A i \in 1..Len(q) : ms[i] = MonitorText(w, q[i])
  BY <1>1
<1>7. \A i \in 1..Len(ms) : IsMonitorText(ms[i]) /\ ms[i].id = q[i]
  <2> HIDE DEF ms
  <2> QED BY <1>2, <1>5, <1>6
<1>8. Len(h) \in Nat /\ \A i \in 1..Len(h) : /\ h[i].desktop \in Desktop
                                            /\ h[i].node \in Node \union {None}
  <2> DEFINE c == w.history
  <2>1. Len(c) \in Nat /\ DOMAIN c = 1..Len(c)
    BY <1>1
  <2>2. \A i \in 1..Len(c) : c[i].desk \in Desktop /\ c[i].node \in Node \union {None}
    <3>1. \A i \in 1..Len(c) : c[i] \in Cells
      BY <1>1
    <3> HIDE DEF c
    <3> QED BY <3>1 DEF Cells
  <2> HIDE DEF c
  <2>3. Len(h) = Len(c) /\ \A i \in 1..Len(c) : h[i].desktop = c[i].desk /\ h[i].node = c[i].node
    BY <2>1 DEF c
  <2> HIDE DEF h
  <2> QED BY <2>1, <2>2, <2>3
<1> HIDE DEF ms, h
<1>9. \A i, j \in 1..Len(ms) : ms[i].id = ms[j].id => i = j
  BY <1>1, <1>6, <1>7 DEF WorldOK, IsInjective
<1>10. {ms[i].id : i \in 1..Len(ms)} = Monitor
  <2>1. Monitor = {q[i] : i \in 1..Len(q)}
    BY <1>1 DEF WorldOK, Range
  <2> QED BY <1>6, <1>7, <2>1
<1>11. Len(ms) # 0
  BY <1>1, <1>6, <1>10
<1>12. IsText(x)
  BY <1>1, <1>3, <1>6, <1>7, <1>8, <1>9, <1>10 DEF IsText
<1>13. \A i \in 1..Len(ms) : Len(ms[i].desktops) \in Nat
  BY <1>7 DEF IsMonitorText
<1>14. 1 \in 1..Len(ms) /\ Len(ms) \in Nat \ {0}
  BY <1>1, <1>6, <1>11
<1>15. ms[1].id = q[1]
  BY <1>7, <1>14
<1> QED BY <1>3, <1>12, <1>13, <1>14, <1>15

(* A restart, or wm -l: the text of a world is that of a world.            *)
LEMMA WorldRestoredType ==
  ASSUME NEW w, WorldOK(w), NEW v, v = Restored(Text(w))
  PROVE  WorldOK(v) /\ v.mon = w.mon
<1> DEFINE x == Text(w)
<1>1. IsText(x) /\ x.focused = w.mon
  BY TextFacts
<1>2. v = Restored(x)
  OBVIOUS
<1> HIDE DEF x
<1>3. WorldOK(v) /\ v.mon = x.focused
  BY <1>1, <1>2, StateRestored
<1> QED BY <1>1, <1>3

-----------------------------------------------------------------------------
(* The inductive invariant.                                                *)

(* Open streams and subscribers, but for those of the readers L.           *)
Matched(s, L) == Range(s.list) \intersect L = {} /\ s.open \ L = Range(s.list)

(* What the readers asked for is what they got and have to come; or less   *)
(* than that, for those of C.                                              *)
Counted(s, C) ==
  \A r \in Reader : s.want[r] # None /\ r \notin s.gone =>
    IF r \in C THEN Due(s, r) >= s.want[r] ELSE Due(s, r) = s.want[r]

(* Who never subscribed is nowhere.                                        *)
Fresh(s, L, C) ==
  \A r \in Reader : s.kinds[r] = {} =>
    s.want[r] = None /\ s.got[r] = 0 /\ r \notin s.open \union L \union C

StreamsOK ==
  /\ Sound(streams)
  /\ late \union crossed \subseteq Reader
  /\ streams.restart <=> phase # "running"
  /\ Matched(streams, late)
  /\ Counted(streams, crossed)
  /\ Fresh(streams, late, crossed)

SavedOK ==
  /\ phase \in {"running", "asked", "ended"} /\ restores \in 0..MaxRestores
  /\ phase # "running" \/ saved # None => restores < MaxRestores
  /\ saved # None => saved = Text(dumped) /\ WorldOK(dumped)

ToldOK == misled \in BOOLEAN /\ (misled \/ phase = "ended" \/ Informed(streams, world.mon))

RestartInv == WorldOK(world) /\ StreamsOK /\ SavedOK /\ ToldOK

(* What the events and reports of a handler leave.                         *)
LEMMA FollowsStep ==
  ASSUME NEW s, NEW L \in SUBSET Reader, NEW C \in SUBSET Reader, NEW t, Follows(s, t),
         Sound(s), Matched(s, L), Counted(s, C), Fresh(s, L, C),
         NEW M, M = IF s.restart THEN L \union Gone(s, t) ELSE L
  PROVE  /\ Sound(t) /\ M \in SUBSET Reader
         /\ Matched(t, M) /\ Counted(t, C) /\ Fresh(t, M, C)
<1>1. Sound(t) /\ Range(s.list) \subseteq Reader /\ Range(t.list) \subseteq Range(s.list)
  BY ListedReaders DEF Follows
<1>2. M \in SUBSET Reader /\ Gone(s, t) \subseteq Range(s.list)
  BY <1>1 DEF Gone
<1>3. Matched(t, M)
  <2>1. CASE s.restart
    <3>1. t.open = s.open /\ M = L \union Gone(s, t)
      BY <2>1 DEF Follows
    <3> QED BY <1>1, <3>1 DEF Matched, Gone
  <2>2. CASE ~s.restart
    <3>1. t.open = s.open \ Gone(s, t) /\ M = L
      BY <2>2 DEF Follows
    <3> QED BY <1>1, <3>1 DEF Matched, Gone
  <2> QED BY <2>1, <2>2
<1>4. Counted(t, C)
  <2> SUFFICES ASSUME NEW r \in Reader, t.want[r] # None, r \notin t.gone
               PROVE  IF r \in C THEN Due(t, r) >= t.want[r] ELSE Due(t, r) = t.want[r]
    BY DEF Counted
  <2>1. t.want = s.want /\ t.gone = s.gone
    BY DEF Follows
  <2>2. Due(t, r) = Due(s, r)
    BY <2>1 DEF Follows
  <2>3. IF r \in C THEN Due(s, r) >= s.want[r] ELSE Due(s, r) = s.want[r]
    BY <2>1 DEF Counted
  <2> QED BY <2>1, <2>2, <2>3
<1>5. Fresh(t, M, C)
  <2> SUFFICES ASSUME NEW r \in Reader, t.kinds[r] = {}
               PROVE  t.want[r] = None /\ t.got[r] = 0 /\ r \notin t.open \union M \union C
    BY DEF Fresh
  <2>1. t.want = s.want /\ t.kinds = s.kinds
    BY DEF Follows
  <2>2. s.want[r] = None /\ s.got[r] = 0 /\ r \notin s.open \union L \union C
    BY <2>1 DEF Fresh
  <2>3. r \notin Range(s.list)
    BY <2>2 DEF Sound
  <2>4. t.got[r] = s.got[r]
    BY <2>3 DEF Follows
  <2>5. t.open \subseteq s.open
    BY DEF Follows
  <2> QED BY <1>2, <2>1, <2>2, <2>3, <2>4, <2>5
<1> QED BY <1>1, <1>2, <1>3, <1>4, <1>5

(* A handler that only tells.                                              *)
LEMMA LeavesStep ==
  ASSUME StreamsOK, NEW s, Follows(streams, s), Leaves(s), UNCHANGED crossed,
         phase \in {"running", "asked"}, phase' # "running" <=> phase # "running"
  PROVE  StreamsOK'
<1>1. streams' = s /\ late' = IF streams.restart THEN late \union Gone(streams, s) ELSE late
  BY DEF Leaves, StreamsOK, Gone
<1>2. s.restart <=> streams.restart
  BY DEF Follows
<1>3. /\ Sound(s) /\ late' \in SUBSET Reader
      /\ Matched(s, late') /\ Counted(s, crossed) /\ Fresh(s, late', crossed)
  <2> DEFINE L == late
             M == late'
             o == streams
  <2>1. L \in SUBSET Reader /\ crossed \in SUBSET Reader
    BY DEF StreamsOK
  <2>2. Sound(o) /\ Matched(o, L) /\ Counted(o, crossed) /\ Fresh(o, L, crossed)
    BY DEF StreamsOK
  <2>3. M = IF o.restart THEN L \union Gone(o, s) ELSE L
    BY <1>1
  <2>4. Follows(o, s)
    OBVIOUS
  <2> HIDE DEF L, M, o
  <2>5. /\ Sound(s) /\ M \in SUBSET Reader
        /\ Matched(s, M) /\ Counted(s, crossed) /\ Fresh(s, M, crossed)
    BY <2>1, <2>2, <2>3, <2>4, FollowsStep
  <2> QED BY <2>5 DEF M
<1>4. s.restart <=> phase' # "running"
  BY <1>2 DEF StreamsOK
<1>5. late' \union crossed' \subseteq Reader
  BY <1>3 DEF StreamsOK
<1> QED BY <1>1, <1>3, <1>4, <1>5 DEF StreamsOK, Matched, Counted, Fresh, Sound, Due

LEMMA TellFocusFacts ==
  ASSUME NEW s, Sound(s), NEW m \in Monitor, NEW changed \in BOOLEAN,
         NEW t, t = TellFocus(s, m, changed)
  PROVE  Follows(s, t) /\ Informed(t, m)
<1> DEFINE a == PutStatus(s, "other", m)
           b == PutStatus(a, "other", m)
           c == IF changed THEN b ELSE s
<1>0. s.got \in [Reader -> Nat]
  BY DEF Sound, Streams
<1>1. Follows(s, a) /\ Sound(a)
  BY PutStatusFacts, FollowsType
<1> HIDE DEF a
<1>2. Follows(a, b)
  BY <1>1, PutStatusFacts
<1> HIDE DEF b
<1>3. Follows(s, c) /\ Sound(c)
  BY <1>0, <1>1, <1>2, FollowsOn, FollowsSelf, FollowsType
<1>4. t = PutStatus(c, "report", m)
  BY DEF TellFocus, a, b
<1> HIDE DEF c
<1>5. Follows(c, t) /\ Informed(t, m)
  BY <1>3, <1>4, PutStatusFacts
<1> QED BY <1>0, <1>3, <1>5, FollowsOn

(* Nobody hears a report, and some go.                                     *)
LEMMA InformedStays ==
  ASSUME NEW s, NEW t, Follows(s, t), t.told = s.told, NEW mon, Informed(s, mon)
  PROVE  Informed(t, mon)
BY DEF Follows, Informed

-----------------------------------------------------------------------------
(* The actions.                                                            *)

LEMMA SubscribeKeeps ==
  ASSUME RestartInv, NEW r \in Reader, NEW kinds \in Kinds,
         NEW want \in (1..MaxWant) \union {None}, NEW fifo \in BOOLEAN, Subscribe(r, kinds, want, fifo)
  PROVE  RestartInv'
<1> DEFINE o == streams
           k == [o.kinds EXCEPT ![r] = kinds]
           w == [o.want EXCEPT ![r] = want]
           c == [o.count EXCEPT ![r] = IF want = None THEN -1 ELSE want]
           f == IF fifo THEN o.fifo \union {r} ELSE o.fifo
           p == o.open \union {r}
           s == [o EXCEPT !.kinds = k, !.want = w, !.count = c, !.fifo = f, !.open = p]
           t == streams'
           mon == world.mon
<1>0. /\ o \in Streams /\ IsInjective(o.list) /\ Sound(o) /\ Range(o.list) \subseteq Reader
      /\ o.kinds \in [Reader -> SUBSET {"report", "other"}]
      /\ o.want \in [Reader -> Nat \union {None}] /\ o.count \in [Reader -> Int]
      /\ o.got \in [Reader -> Nat] /\ o.fifo \in SUBSET Reader /\ o.open \in SUBSET Reader
  BY ListedReaders DEF RestartInv, StreamsOK, Sound, Streams
<1>1. t = AddSubscriber(s, r, mon)
  <2>1. s = [o EXCEPT !.kinds[r] = kinds, !.want[r] = want,
                      !.count[r] = IF want = None THEN -1 ELSE want,
                      !.fifo = IF fifo THEN @ \union {r} ELSE @, !.open = @ \union {r}]
    OBVIOUS
  <2> HIDE DEF s
  <2> QED BY <2>1 DEF Subscribe
<1>2. /\ o.kinds[r] = {} /\ phase = "running" /\ ~o.restart
      /\ o.got[r] = 0 /\ r \notin o.open \union late \union crossed /\ r \notin Range(o.list)
  BY <1>0 DEF Subscribe, RestartInv, StreamsOK, Fresh, Sound
<1>3. /\ k \in [Reader -> SUBSET {"report", "other"}] /\ w \in [Reader -> Nat \union {None}]
      /\ c \in [Reader -> Int] /\ f \in SUBSET Reader /\ p \in SUBSET Reader
  <2>1. kinds \in SUBSET {"report", "other"} /\ kinds # {} /\ MaxWant \in Nat
    BY RestartAssumption
  <2> QED BY <1>0, <2>1
<1>4. /\ kinds # {} /\ k[r] = kinds /\ w[r] = want
      /\ want # None => c[r] = want /\ want \in Nat /\ want >= 1
      /\ \A x \in Reader \ {r} : k[x] = o.kinds[x] /\ w[x] = o.want[x] /\ c[x] = o.count[x]
  <2>1. kinds # {} /\ MaxWant \in Nat
    BY RestartAssumption
  <2> QED BY <1>0, <2>1
<1> HIDE DEF k, w, c, f, p
<1>5. /\ s \in Streams /\ s.list = o.list /\ s.got = o.got /\ s.gone = o.gone /\ s.told = o.told
      /\ s.kinds = k /\ s.want = w /\ s.count = c /\ s.open = p
  BY <1>0, <1>3 DEF Streams
<1>6. ~s.restart
  BY <1>0, <1>2, <1>3 DEF Streams
<1> HIDE DEF s, mon, t, o
<1>7. Added(s, t, r, mon)
  <2>1. s \in Lists /\ r \notin Range(s.list) /\ mon \in Monitor \union {None}
    BY <1>0, <1>2, <1>5 DEF Lists, RestartInv, WorldOK, Worlds, mon
  <2> QED BY <1>1, <1>6, <2>1, AddFacts
<1>8. UNCHANGED <<world, phase, saved, dumped, restores, late, crossed, misled>>
  BY DEF Subscribe
<1>9. /\ t \in Streams /\ IsInjective(t.list) /\ ~t.restart
      /\ t.kinds = k /\ t.want = w /\ t.gone = o.gone
      /\ \A x \in Reader \ {r} : t.got[x] = o.got[x] /\ t.count[x] = o.count[x] /\ t.told[x] = o.told[x]
  BY <1>4, <1>5, <1>7 DEF Added, Lists
<1>10. \/ Range(t.list) = Range(o.list) \union {r} /\ t.open = o.open \union {r}
       \/ Range(t.list) = Range(o.list) /\ t.open = o.open
  <2>1. (o.open \union {r}) \ {r} = o.open
    BY <1>2
  <2> QED BY <1>5, <1>7, <2>1 DEF Added, p
<1>11. \A x \in Reader \ {r} : x \in Range(t.list) <=> x \in Range(o.list)
  BY <1>10
<1>12. Sound(t)
  <2>1. Range(t.list) \subseteq t.open
    BY <1>0, <1>10 DEF Sound
  <2>2. ASSUME NEW x \in Range(t.list), t.want[x] # None  PROVE t.count[x] >= 1
    <3>1. CASE x = r
      BY <1>4, <1>5, <1>7, <1>9, <2>2, <3>1 DEF Added
    <3>2. CASE x # r
      <4>1. x \in Reader \ {r} /\ x \in Range(o.list)
        BY <1>0, <1>10, <3>2
      <4> QED BY <1>0, <1>4, <1>9, <2>2, <4>1 DEF Sound
    <3> QED BY <3>1, <3>2
  <2> QED BY <1>9, <2>1, <2>2 DEF Sound
<1>13. Matched(t, late)
  <2>1. Matched(o, late)
    BY DEF RestartInv, StreamsOK, o
  <2> QED BY <1>2, <1>10, <2>1 DEF Matched
<1>14. Counted(t, crossed)
  <2> SUFFICES ASSUME NEW x \in Reader, t.want[x] # None, x \notin t.gone
               PROVE  IF x \in crossed THEN Due(t, x) >= t.want[x] ELSE Due(t, x) = t.want[x]
    BY DEF Counted
  <2>1. CASE x = r
    <3>1. Due(t, r) = s.got[r] + s.count[r]
      BY <1>5, <1>7, <1>9, <2>1 DEF Added
    <3>2. s.got[r] = 0 /\ s.count[r] = want /\ t.want[r] = want /\ want \in Nat
      BY <1>2, <1>4, <1>5, <1>9, <2>1
    <3> QED BY <1>2, <2>1, <3>1, <3>2
  <2>2. CASE x # r
    <3>1. Due(t, x) = Due(o, x) /\ t.want[x] = o.want[x]
      BY <1>4, <1>9, <1>11, <2>2 DEF Due
    <3>2. Counted(o, crossed)
      BY DEF RestartInv, StreamsOK, o
    <3> QED BY <1>9, <3>1, <3>2 DEF Counted
  <2> QED BY <2>1, <2>2
<1>15. Fresh(t, late, crossed)
  <2> SUFFICES ASSUME NEW x \in Reader, t.kinds[x] = {}
               PROVE  t.want[x] = None /\ t.got[x] = 0 /\ x \notin t.open \union late \union crossed
    BY DEF Fresh
  <2>1. x # r /\ o.kinds[x] = {}
    BY <1>4, <1>9
  <2>2. Fresh(o, late, crossed)
    BY DEF RestartInv, StreamsOK, o
  <2> QED BY <1>4, <1>9, <1>10, <2>1, <2>2 DEF Fresh
<1>16. misled \/ phase = "ended" \/ Informed(t, mon)
  <2> SUFFICES ASSUME ~(misled \/ phase = "ended"),
                      NEW x \in Range(t.list) \ t.gone, "report" \in t.kinds[x]
               PROVE  t.told[x] = mon
    BY DEF Informed
  <2>1. CASE x = r
    BY <1>5, <1>7, <1>9, <2>1 DEF Added
  <2>2. CASE x # r
    <3>1. x \in Reader \ {r} /\ x \in Range(o.list)
      BY <1>0, <1>10, <2>2
    <3>2. Informed(o, mon)
      BY DEF RestartInv, ToldOK, o, mon
    <3> QED BY <1>4, <1>9, <3>1, <3>2 DEF Informed
  <2> QED BY <2>1, <2>2
<1>17. StreamsOK'
  <2>1. t.restart <=> phase # "running"
    BY <1>2, <1>9
  <2> QED BY <1>8, <1>12, <1>13, <1>14, <1>15, <2>1
          DEF RestartInv, StreamsOK, t, Sound, Matched, Counted, Fresh, Due
<1>18. ToldOK' 
  BY <1>8, <1>16 DEF RestartInv, ToldOK, Informed, t, mon
<1> QED BY <1>8, <1>17, <1>18 DEF RestartInv, SavedOK, WorldOK

LEMMA CloseKeeps ==
  ASSUME RestartInv, NEW r \in Reader, Close(r)
  PROVE  RestartInv'
<1> DEFINE o == streams
           t == streams'
           h == o.gone \union {r}
<1>0. o \in Streams /\ Sound(o) /\ h \in SUBSET Reader
  BY DEF RestartInv, StreamsOK, Sound, Streams
<1>1. t = [o EXCEPT !.gone = h]
  BY DEF Close
<1> HIDE DEF h
<1>2. /\ t \in Streams /\ t.list = o.list /\ t.kinds = o.kinds /\ t.open = o.open
      /\ t.want = o.want /\ t.got = o.got /\ t.count = o.count /\ t.told = o.told /\ t.gone = h
  BY <1>0, <1>1 DEF Streams
<1>3. t.restart <=> o.restart
  BY <1>0, <1>1 DEF Streams
<1>4. UNCHANGED <<world, phase, saved, dumped, restores, late, crossed, misled>>
  BY DEF Close
<1> HIDE DEF t, o
<1>5. Sound(t) /\ Matched(t, late) /\ Fresh(t, late, crossed)
  BY <1>0, <1>2 DEF RestartInv, StreamsOK, Sound, Matched, Fresh, o
<1>6. Counted(t, crossed)
  <2>1. Counted(o, crossed)
    BY DEF RestartInv, StreamsOK, o
  <2> QED BY <1>2, <2>1 DEF Counted, Due, h
<1>7. StreamsOK'
  <2>1. t.restart <=> phase # "running"
    BY <1>3 DEF RestartInv, StreamsOK, o
  <2> QED BY <1>4, <1>5, <1>6, <2>1 DEF RestartInv, StreamsOK, Sound, Matched, Counted, Fresh, Due, t
<1>8. ToldOK'
  <2>1. \A mon : Informed(o, mon) => Informed(t, mon)
    BY <1>2 DEF Informed, h
  <2> QED BY <1>4, <2>1 DEF RestartInv, ToldOK, Informed, o, t
<1> QED BY <1>4, <1>7, <1>8 DEF RestartInv, SavedOK, WorldOK

LEMMA AskRestartKeeps ==
  ASSUME RestartInv, AskRestart
  PROVE  RestartInv'
<1> DEFINE o == streams
           t == streams'
<1>0. o \in Streams /\ Sound(o)
  BY DEF RestartInv, StreamsOK, Sound
<1>1. t = [o EXCEPT !.restart = TRUE]
  BY DEF AskRestart
<1>2. /\ t \in Streams /\ t.list = o.list /\ t.kinds = o.kinds /\ t.open = o.open /\ t.gone = o.gone
      /\ t.want = o.want /\ t.got = o.got /\ t.count = o.count /\ t.told = o.told
  BY <1>0, <1>1 DEF Streams
<1>3. t.restart
  BY <1>0, <1>1 DEF Streams
<1>4. /\ UNCHANGED <<world, saved, dumped, restores, late, crossed, misled>>
      /\ phase = "running" /\ phase' = "asked" /\ restores < MaxRestores
  BY DEF AskRestart
<1> HIDE DEF t, o
<1>5. /\ Sound(t) /\ Matched(t, late) /\ Fresh(t, late, crossed) /\ Counted(t, crossed)
      /\ \A mon : Informed(o, mon) => Informed(t, mon)
  BY <1>0, <1>2 DEF RestartInv, StreamsOK, Sound, Matched, Fresh, Counted, Due, Informed, o
<1>6. StreamsOK'
  BY <1>3, <1>4, <1>5 DEF RestartInv, StreamsOK, Sound, Matched, Counted, Fresh, Due, t
<1>7. ToldOK'
  BY <1>4, <1>5 DEF RestartInv, ToldOK, Informed, o, t
<1>8. SavedOK'
  BY <1>4 DEF RestartInv, SavedOK, WorldOK
<1> QED BY <1>4, <1>6, <1>7, <1>8 DEF RestartInv, WorldOK

LEMMA NotifyKeeps ==
  ASSUME RestartInv, NEW reports \in BOOLEAN, Notify(reports)
  PROVE  RestartInv'
<1> DEFINE a == PutBoth(streams, world.mon)
           b == PutStatus(streams, "other", world.mon)
           s == IF reports THEN a ELSE b
<1>0. Sound(streams) /\ world.mon \in Monitor \union {None}
  BY DEF RestartInv, StreamsOK, WorldOK, Worlds
<1>1. /\ UNCHANGED <<world, phase, saved, dumped, restores, crossed>>
      /\ phase \in {"running", "asked"} /\ Leaves(s)
      /\ misled' = (misled /\ ~reports)
  BY DEF Notify
<1>2. Follows(streams, a) /\ Informed(a, world.mon)
  BY <1>0, PutBothFacts
<1>3. Follows(streams, b) /\ b.told = streams.told
  BY <1>0, PutStatusFacts
<1> HIDE DEF a, b
<1>4. Follows(streams, s)
  BY <1>2, <1>3
<1>5. misled \/ phase = "ended" \/ Informed(streams, world.mon)
  BY DEF RestartInv, ToldOK
<1>6. reports \/ misled \/ Informed(s, world.mon)
  BY <1>1, <1>3, <1>5, InformedStays
<1>7. reports => Informed(s, world.mon)
  BY <1>2
<1> HIDE DEF s
<1>8. StreamsOK'
  <2>1. StreamsOK /\ UNCHANGED crossed /\ (phase' # "running" <=> phase # "running")
    BY <1>1 DEF RestartInv
  <2> QED BY <1>1, <1>4, <2>1, LeavesStep
<1>9. ToldOK'
  <2>1. streams' = s
    BY <1>1 DEF Leaves
  <2>2. misled' \/ Informed(s, world.mon)
    BY <1>1, <1>6, <1>7
  <2>3. misled' \in BOOLEAN
    BY <1>1
  <2> QED BY <1>1, <2>1, <2>2, <2>3 DEF ToldOK, Informed
<1> QED BY <1>1, <1>8, <1>9 DEF RestartInv, SavedOK, WorldOK

LEMMA FocusMonitorKeeps ==
  ASSUME RestartInv, NEW m \in Monitor, FocusMonitor(m)
  PROVE  RestartInv'
<1> DEFINE h == HistoryAdd(world.history, world.shown[m], None)
           changed == m # world.mon
           s == TellFocus(streams, m, changed)
<1>0. Sound(streams) /\ changed \in BOOLEAN
  BY DEF RestartInv, StreamsOK
<1>1. /\ UNCHANGED <<phase, saved, dumped, restores, crossed>>
      /\ phase \in {"running", "asked"} /\ Leaves(s)
      /\ world' = [world EXCEPT !.mon = m, !.history = h] /\ misled' = FALSE
  BY DEF FocusMonitor
<1>2. h \in Seq(Cells)
  <2>1. /\ world.history \in Seq(Cells) /\ world.shown[m] \in Desktop
        /\ None \in Node \union {None}
    BY DEF RestartInv, WorldOK, Worlds
  <2> QED BY <2>1, HistoryType
<1> HIDE DEF h, changed
<1>3. Follows(streams, s) /\ Informed(s, m)
  BY <1>0, TellFocusFacts
<1> HIDE DEF s
<1>4. WorldOK(world') /\ world'.mon = m
  <2>1. world \in Worlds /\ m # None
    BY RestartAssumption DEF RestartInv, WorldOK
  <2>2. /\ world' \in Worlds /\ world'.mon = m /\ world'.monitors = world.monitors
        /\ world'.shown = world.shown /\ world'.desks = world.desks
    BY <1>1, <1>2, <2>1 DEF Worlds
  <2> QED BY <2>1, <2>2 DEF RestartInv, WorldOK
<1>5. StreamsOK'
  <2>1. StreamsOK /\ UNCHANGED crossed /\ (phase' # "running" <=> phase # "running")
    BY <1>1 DEF RestartInv
  <2> QED BY <1>1, <1>3, <2>1, LeavesStep
<1>6. ToldOK'
  <2>1. streams' = s
    BY <1>1 DEF Leaves
  <2> QED BY <1>1, <1>3, <1>4, <2>1 DEF ToldOK, Informed
<1> QED BY <1>1, <1>4, <1>5, <1>6 DEF RestartInv, SavedOK, WorldOK

LEMMA EndTurnKeeps ==
  ASSUME RestartInv, EndTurn
  PROVE  RestartInv'
<1> DEFINE s == Prune(streams)
<1>1. /\ UNCHANGED <<world, saved, dumped, restores, crossed, misled>>
      /\ phase \in {"running", "asked"} /\ Leaves(s)
      /\ phase' = IF phase = "asked" THEN "ended" ELSE phase
  BY DEF EndTurn
<1>2. Follows(streams, s) /\ s.told = streams.told
  BY PruneFacts DEF RestartInv, StreamsOK
<1> HIDE DEF s
<1>3. StreamsOK'
  <2>1. StreamsOK /\ UNCHANGED crossed /\ (phase' # "running" <=> phase # "running")
    BY <1>1 DEF RestartInv
  <2> QED BY <1>1, <1>2, <2>1, LeavesStep
<1>4. ToldOK'
  <2>1. streams' = s
    BY <1>1 DEF Leaves
  <2>2. Informed(streams, world.mon) => Informed(s, world.mon)
    BY <1>2, InformedStays
  <2>3. misled' \/ phase' = "ended" \/ Informed(s, world.mon)
    BY <1>1, <2>2 DEF RestartInv, ToldOK
  <2> QED BY <1>1, <2>1, <2>3 DEF RestartInv, ToldOK, Informed
<1>5. SavedOK'
  BY <1>1 DEF RestartInv, SavedOK, WorldOK
<1> QED BY <1>1, <1>3, <1>4, <1>5 DEF RestartInv, WorldOK

LEMMA RestartKeeps ==
  ASSUME RestartInv, Restart
  PROVE  RestartInv'
<1> DEFINE o == streams
           t == streams'
           v == world'
           mon == world.monitors[1]
           C == crossed'
<1>1. /\ phase = "ended" /\ phase' = "running" /\ v = Restored(Text(world))
      /\ t = HandOver(world) /\ C = crossed \union Range(o.list)
      /\ misled' = (world.mon # mon)
      /\ saved' = None /\ restores' = restores + 1 /\ late' = late
  BY DEF Restart
<1>2. WorldOK(v) /\ v.mon = world.mon
  BY <1>1, WorldRestoredType DEF RestartInv
<1>3. Sound(o) /\ o.restart /\ Range(o.list) \subseteq Reader
  BY <1>1, ListedReaders DEF RestartInv, StreamsOK
<1>4. /\ Sound(t) /\ ~t.restart
      /\ t.kinds = o.kinds /\ t.gone = o.gone /\ t.want = o.want
      /\ Range(t.list) \subseteq Range(o.list)
      /\ t.open = (o.open \intersect (o.kept \union Range(o.list)))
                    \ (Range(o.list) \ Range(t.list))
      /\ \A r \in Reader \ Range(o.list) : t.got[r] = o.got[r]
      /\ \A r \in Range(o.list) : o.want[r] # None => Due(t, r) >= Due(o, r)
      /\ Informed(t, mon)
  <2>1. /\ world.monitors \in Seq(Monitor) /\ world.monitors # <<>>
        /\ \A m \in Monitor : world.desks[m] \in Seq(Desktop)
    <3>1. Monitor # {} /\ Range(<<>>) = {}
      BY DEF RestartInv, WorldOK, Worlds, Range
    <3> QED BY <3>1 DEF RestartInv, WorldOK, Worlds
  <2>2. Sound(streams) /\ streams.restart
    BY <1>3
  <2> HIDE DEF t
  <2>3. t = HandOver(world)
    BY <1>1
  <2> QED BY <2>1, <2>2, <2>3, HandOverFacts
<1>5. /\ Matched(o, late) /\ Counted(o, crossed) /\ Fresh(o, late, crossed)
      /\ late \in SUBSET Reader /\ C \in SUBSET Reader
  BY <1>1, <1>3 DEF RestartInv, StreamsOK
<1> HIDE DEF o, t, v, mon, C
<1>6. Matched(t, late)
  <2>1. Range(o.list) \subseteq o.open
    BY <1>3 DEF Sound
  <2> QED BY <1>4, <1>5, <2>1 DEF Matched
<1>7. Counted(t, C)
  <2> SUFFICES ASSUME NEW r \in Reader, t.want[r] # None, r \notin t.gone
               PROVE  IF r \in C THEN Due(t, r) >= t.want[r] ELSE Due(t, r) = t.want[r]
    BY DEF Counted
  <2>1. IF r \in crossed THEN Due(o, r) >= o.want[r] ELSE Due(o, r) = o.want[r]
    BY <1>4, <1>5 DEF Counted
  <2>2. /\ o.got[r] \in Nat /\ t.got[r] \in Nat /\ o.count[r] \in Int /\ t.count[r] \in Int
        /\ o.want[r] \in Nat /\ t.want[r] = o.want[r]
    BY <1>3, <1>4 DEF Sound, Streams
  <2>3. Due(o, r) \in Int /\ Due(t, r) \in Int
    BY <2>2 DEF Due
  <2>4. CASE r \in Range(o.list)
    <3>1. Due(t, r) >= Due(o, r) /\ r \in C
      BY <1>1, <1>4, <2>2, <2>4
    <3>2. Due(o, r) >= o.want[r]
      BY <2>1, <2>2, <2>3
    <3> QED BY <2>2, <2>3, <3>1, <3>2
  <2>5. CASE r \notin Range(o.list)
    <3>1. Due(t, r) = Due(o, r)
      BY <1>4, <2>2, <2>5 DEF Due
    <3>2. r \in C <=> r \in crossed
      BY <1>1, <2>5
    <3> QED BY <2>1, <2>2, <3>1, <3>2
  <2> QED BY <2>4, <2>5
<1>8. Fresh(t, late, C)
  <2> SUFFICES ASSUME NEW r \in Reader, t.kinds[r] = {}
               PROVE  t.want[r] = None /\ t.got[r] = 0 /\ r \notin t.open \union late \union C
    BY DEF Fresh
  <2>1. o.want[r] = None /\ o.got[r] = 0 /\ r \notin o.open \union late \union crossed
    BY <1>4, <1>5 DEF Fresh
  <2>2. r \notin Range(o.list)
    BY <1>3, <2>1 DEF Sound
  <2> QED BY <1>1, <1>4, <2>1, <2>2
<1>9. StreamsOK'
  <2>1. t.restart <=> phase' # "running"
    BY <1>1, <1>4
  <2> QED BY <1>1, <1>4, <1>5, <1>6, <1>7, <1>8, <2>1
          DEF StreamsOK, Sound, Matched, Counted, Fresh, Due, t, C
<1>10. ToldOK'
  <2>1. misled' \in BOOLEAN /\ (misled' \/ mon = v.mon)
    BY <1>1, <1>2
  <2> QED BY <1>4, <2>1 DEF ToldOK, Informed, t, v
<1>11. SavedOK'
  <2>1. restores + 1 \in 0..MaxRestores
    BY <1>1, RestartAssumption DEF RestartInv, SavedOK
  <2> QED BY <1>1, <2>1 DEF SavedOK
<1> QED BY <1>2, <1>9, <1>10, <1>11 DEF RestartInv, WorldOK, v

LEMMA DumpStateKeeps ==
  ASSUME RestartInv, DumpState
  PROVE  RestartInv'
<1>1. /\ UNCHANGED <<world, streams, phase, restores, late, crossed, misled>>
      /\ restores < MaxRestores /\ saved' = Text(world) /\ dumped' = world
  BY DEF DumpState
<1>2. StreamsOK' /\ ToldOK'
  BY <1>1 DEF RestartInv, StreamsOK, ToldOK, Sound, Matched, Counted, Fresh, Due, Informed
<1>3. SavedOK'
  BY <1>1 DEF RestartInv, SavedOK, WorldOK
<1> QED BY <1>1, <1>2, <1>3 DEF RestartInv, WorldOK

LEMMA LoadStateKeeps ==
  ASSUME RestartInv, LoadState
  PROVE  RestartInv'
<1> DEFINE x == saved
           a == TellRemoval(streams, world)
           t == TellRestored(a, x)
           head == x.monitors[1].id
           v == world'
<1>1. /\ phase = "running" /\ x # None /\ v = Restored(x) /\ streams' = t
      /\ misled' = (x.focused # head)
      /\ saved' = None /\ restores' = restores + 1 /\ UNCHANGED <<phase, late, crossed>>
  BY DEF LoadState
<1>2. x = Text(dumped) /\ WorldOK(dumped) /\ restores < MaxRestores
  BY <1>1 DEF RestartInv, SavedOK
<1>3. /\ IsText(x) /\ x.focused = dumped.mon
      /\ Len(x.monitors) \in Nat \ {0} /\ head = dumped.monitors[1]
      /\ \A i \in 1..Len(x.monitors) : Len(x.monitors[i].desktops) \in Nat
  BY <1>2, TextFacts
<1>4. WorldOK(v) /\ v.mon = x.focused
  BY <1>1, <1>3, StateRestored
<1>5. head \in Monitor
  <2>1. 1 \in 1..Len(x.monitors)
    BY <1>3
  <2>2. IsMonitorText(x.monitors[1])
    BY <1>3, <2>1 DEF IsText
  <2> QED BY <2>2 DEF IsMonitorText
<1>6. Sound(streams) /\ streams.got \in [Reader -> Nat] /\ ~streams.restart
  BY <1>1 DEF RestartInv, StreamsOK, Sound, Streams
<1>7. Follows(streams, a) /\ Sound(a)
  <2>1. world.monitors \in Seq(Monitor) /\ \A m \in Monitor : world.desks[m] \in Seq(Desktop)
    BY DEF RestartInv, WorldOK, Worlds
  <2> QED BY <1>6, <2>1, RemovalFacts, FollowsType
<1> HIDE DEF a, x
<1>8. Follows(a, t) /\ Informed(t, head)
  <2> HIDE DEF head
  <2>1. head = x.monitors[1].id
    BY DEF head
  <2> QED BY <1>3, <1>5, <1>7, <2>1, RestoredFacts
<1> HIDE DEF t, head
<1>9. Follows(streams, t)
  BY <1>6, <1>7, <1>8, FollowsOn
<1>10. StreamsOK'
  <2>1. StreamsOK /\ UNCHANGED crossed /\ (phase' # "running" <=> phase # "running")
    BY <1>1 DEF RestartInv
  <2>2. Leaves(t) /\ phase \in {"running", "asked"}
    BY <1>1 DEF Leaves
  <2> QED BY <1>9, <2>1, <2>2, LeavesStep
<1>11. ToldOK'
  <2>1. misled' \in BOOLEAN /\ (misled' \/ head = v.mon)
    BY <1>1, <1>4
  <2> QED BY <1>1, <1>8, <2>1 DEF ToldOK, Informed, v
<1>12. SavedOK'
  <2>1. restores + 1 \in 0..MaxRestores
    BY <1>2, RestartAssumption DEF RestartInv, SavedOK
  <2> QED BY <1>1, <2>1 DEF RestartInv, SavedOK
<1> QED BY <1>4, <1>10, <1>11, <1>12 DEF RestartInv, WorldOK, v

-----------------------------------------------------------------------------
(* The worlds to start with.                                               *)

LEMMA OrdersFacts ==
  ASSUME NEW S, IsFiniteSet(S), NEW q \in Orders(S)
  PROVE  q \in Seq(S) /\ IsInjective(q) /\ Range(q) = S
<1> DEFINE n == Cardinality(S)
           D == 1..n
<1>1. n \in Nat
  BY FS_CardinalityType
<1>2. q \in [D -> S] /\ Range(q) = S
  BY DEF Orders
<1>3. q \in Seq(S)
  BY <1>1, <1>2
<1>4. IsFiniteSet(D) /\ Cardinality(D) = n
  BY <1>1, FS_Interval
<1> HIDE DEF n, D
<1>5. q \in Surjection(D, S)
  BY <1>2 DEF Surjection, Range
<1>6. q \in Injection(D, S)
  BY <1>4, <1>5, FS_SurjSameCardinalityImpliesInj DEF n
<1> QED BY <1>2, <1>3, <1>6 DEF Injection

LEMMA PlantedFacts ==
  ASSUME NEW tree, tree.root \in [Desktop -> Node \union {None}],
         tree.first \in [Inner -> Node \union {None}],
         tree.second \in [Inner -> Node \union {None}],
         NEW w, w = Planted(tree)
  PROVE  w \in Worlds /\ w.desks = Desks
<1> DEFINE Parent(n) == {i \in Inner : n \in {tree.first[i], tree.second[i]}}
           parent == [n \in Node |-> IF Parent(n) = {} THEN None ELSE CHOOSE i \in Parent(n) : TRUE]
<1>1. parent \in [Node -> Inner \union {None}]
  <2>1. \A n \in Node : Parent(n) \subseteq Inner
    OBVIOUS
  <2> HIDE DEF Parent
  <2> QED BY <2>1
<1>2. w = [Void EXCEPT !.root = tree.root, !.first = tree.first, !.second = tree.second,
                       !.parent = parent, !.desks = Desks]
  BY DEF Planted
<1> HIDE DEF parent
<1>3. Void \in Worlds
  BY VoidFacts DEF Peopled
<1>4. Desks \in [Monitor -> Seq(Desktop)]
  BY RestartAssumption
<1> QED BY ZenonT(60), <1>1, <1>2, <1>3, <1>4 DEF Worlds

LEMMA PlainOK ==
  ASSUME Plain
  PROVE  WorldOK(world)
<1> DEFINE tree == [root |-> NoTree, first |-> NoChild, second |-> NoChild]
           w == Planted(tree)
           shown == [x \in Monitor |-> Desks[x][1]]
<1>1. PICK order \in Orders(Monitor), m \in Monitor :
        world = [w EXCEPT !.monitors = order, !.mon = m, !.shown = shown]
  BY DEF Plain
<1>2. w \in Worlds /\ w.desks = Desks
  <2>1. tree.root = NoTree /\ tree.first = NoChild /\ tree.second = NoChild
    OBVIOUS
  <2>2. /\ tree.root \in [Desktop -> Node \union {None}]
        /\ tree.first \in [Inner -> Node \union {None}]
        /\ tree.second \in [Inner -> Node \union {None}]
    BY <2>1 DEF NoTree, NoChild
  <2> HIDE DEF tree
  <2> QED BY <2>2, PlantedFacts
<1>3. order \in Seq(Monitor) /\ IsInjective(order) /\ Range(order) = Monitor
  BY OrdersFacts, RestartAssumption
<1>4. \A x \in Monitor : Desks[x] \in Seq(Desktop) /\ Desks[x] # <<>>
  BY RestartAssumption
<1>5. \A x \in Monitor : Desks[x][1] \in Desktop
  <2> TAKE x \in Monitor
  <2> DEFINE q == Desks[x]
  <2>1. q \in Seq(Desktop) /\ q # <<>>
    BY <1>4
  <2> HIDE DEF q
  <2>2. q[1] \in Desktop
    BY <2>1
  <2> QED BY <2>2 DEF q
<1>6. shown \in [Monitor -> Desktop] /\ None \notin Desktop /\ None \notin Monitor
  BY <1>5, RestartAssumption
<1> HIDE DEF w, shown
<1>7. /\ world \in Worlds /\ world.monitors = order /\ world.mon = m
      /\ world.shown = shown /\ world.desks = Desks
  BY <1>1, <1>2, <1>3, <1>6 DEF Worlds
<1> QED BY <1>3, <1>4, <1>6, <1>7 DEF WorldOK

LEMMA HistoriesFacts ==
  ASSUME NEW w, NEW h \in Histories(w)
  PROVE  h \in Seq(Cells)
<1> DEFINE cells == {c \in [desk : Desktop, node : Node \union {None}] :
                       c.node = None \/ c.node \in Below(w, w.root[c.desk])}
           Newest(q, i) == \A j \in (i + 1)..Len(q) : ~Same(q[j].desk, q[j].node, q[i])
           Latest(q) == [i \in DOMAIN q |->
                           [desk |-> q[i].desk, node |-> q[i].node,
                            latest |-> \A j \in (i + 1)..Len(q) : ~Same(q[j].desk, q[j].node, q[i])]]
<1>1. PICK q \in UNION {[1..k -> cells] : k \in 0..MaxCells} : h = Latest(q)
  BY DEF Histories
<1>2. PICK k \in 0..MaxCells : q \in [1..k -> cells]
  BY <1>1
<1>3. k \in Nat
  BY RestartAssumption
<1>4. \A i \in 1..k : q[i].desk \in Desktop /\ q[i].node \in Node \union {None}
  BY <1>2
<1>5. h = [i \in 1..k |-> [desk |-> q[i].desk, node |-> q[i].node, latest |-> Newest(q, i)]]
  BY <1>1, <1>2
<1>6. \A i \in 1..k : Newest(q, i) \in BOOLEAN
  OBVIOUS
<1> HIDE DEF Newest
<1>7. \A i \in 1..k : [desk |-> q[i].desk, node |-> q[i].node, latest |-> Newest(q, i)] \in Cells
  BY <1>4, <1>6 DEF Cells
<1> QED BY <1>3, <1>5, <1>7

LEMMA FurnishedOK ==
  ASSUME NEW w \in Worlds, w.desks = Desks, Furnished(w)
  PROVE  WorldOK(world)
<1>1. PICK order \in Orders(Monitor), mon \in Monitor, shown \in [Monitor -> Desktop],
           gap \in {0, 1}, focus \in [Desktop -> Node \union {None}] :
        \E sticky \in SUBSET WindowsOn(w, Range(shown)), history \in Histories(w),
           stack \in Orders(WindowsOn(w, Desktop)) :
          world = Furniture(w, order, mon, shown, gap, focus, sticky, history, stack)
  BY DEF Furnished
<1>2. PICK sticky \in SUBSET WindowsOn(w, Range(shown)), history \in Histories(w),
           stack \in Orders(WindowsOn(w, Desktop)) :
        world = Furniture(w, order, mon, shown, gap, focus, sticky, history, stack)
  BY <1>1
<1> DEFINE gaps == [d \in Desktop |-> IF d = Desks[mon][1] THEN gap ELSE 0]
           count == [m \in Monitor |-> Cardinality(sticky \intersect Below(w, w.root[shown[m]]))]
<1>3. order \in Seq(Monitor) /\ IsInjective(order) /\ Range(order) = Monitor
  BY OrdersFacts, RestartAssumption
<1>4. IsFiniteSet(Node) /\ Window \subseteq Node
  BY RestartAssumption DEF Node
<1>5. stack \in Seq(Window)
  <2>1. WindowsOn(w, Desktop) \subseteq Window
    BY DEF WindowsOn
  <2>2. IsFiniteSet(WindowsOn(w, Desktop))
    BY <1>4, <2>1, FS_Subset
  <2>3. stack \in Seq(WindowsOn(w, Desktop))
    BY <2>2, OrdersFacts
  <2> QED BY <2>1, <2>3
<1>6. sticky \in SUBSET Node
  BY <1>4 DEF WindowsOn
<1>7. count \in [Monitor -> Nat]
  <2> SUFFICES ASSUME NEW m \in Monitor
               PROVE  Cardinality(sticky \intersect Below(w, w.root[shown[m]])) \in Nat
    OBVIOUS
  <2> DEFINE S == sticky \intersect Below(w, w.root[shown[m]])
  <2>1. S \in SUBSET Node
    BY <1>6
  <2> HIDE DEF S
  <2>2. Cardinality(S) \in Nat
    BY <1>4, <2>1, FS_Subset, FS_CardinalityType
  <2> QED BY <2>2 DEF S
<1>8. gaps \in [Desktop -> Nat] /\ history \in Seq(Cells)
  <2>1. gap \in Nat /\ 0 \in Nat
    OBVIOUS
  <2>2. gaps \in [Desktop -> Nat]
    BY <2>1
  <2> QED BY <2>2, HistoriesFacts
<1>9. world = [w EXCEPT
        !.monitors = order, !.mon = mon, !.pri = mon, !.shown = shown, !.focus = focus,
        !.gap = gaps, !.count = count, !.sticky = sticky, !.history = history, !.stack = stack]
  BY <1>2 DEF Furniture
<1> HIDE DEF gaps, count
<1>10. \A x \in Monitor : Desks[x] # <<>> /\ shown[x] # None
  BY RestartAssumption
<1>11. /\ world \in Worlds /\ world.monitors = order /\ world.mon = mon
       /\ world.shown = shown /\ world.desks = Desks
  BY ZenonT(60), <1>3, <1>5, <1>6, <1>7, <1>8, <1>9 DEF Worlds
<1> QED BY <1>3, <1>10, <1>11, RestartAssumption DEF WorldOK

LEMMA NobodyFacts ==
  /\ Sound(Nobody) /\ ~Nobody.restart
  /\ \A r \in Reader : /\ Nobody.want[r] = None /\ Nobody.got[r] = 0
                       /\ r \notin Nobody.open
  /\ Range(Nobody.list) = {} /\ Nobody.open = {}
<1> DEFINE k == [r \in Reader |-> {}]
           z == [r \in Reader |-> 0]
           m == [r \in Reader |-> None]
<1>1. k \in [Reader -> SUBSET {"report", "other"}] /\ z \in [Reader -> Int] /\ z \in [Reader -> Nat]
      /\ m \in [Reader -> Nat \union {None}] /\ m \in [Reader -> Monitor \union {None}]
  OBVIOUS
<1>2. \A r \in Reader : z[r] = 0 /\ m[r] = None
  OBVIOUS
<1>3. Nobody = [list |-> <<>>, kinds |-> k, fifo |-> {}, count |-> z, open |-> {}, kept |-> {},
                restart |-> FALSE, gone |-> {}, want |-> m, got |-> z, told |-> m]
  BY DEF Nobody
<1> HIDE DEF k, z, m
<1>4. Nobody \in Streams
  BY <1>1, <1>3 DEF Streams
<1>5. Nobody.list = <<>> /\ Nobody.open = {} /\ Nobody.want = m /\ Nobody.got = z
  BY <1>3
<1>6. ~Nobody.restart
  BY <1>3
<1>7. Range(Nobody.list) = {} /\ IsInjective(Nobody.list)
  BY <1>5 DEF Range, IsInjective
<1> QED BY <1>2, <1>4, <1>5, <1>6, <1>7 DEF Sound

LEMMA RestartInit == Init => RestartInv
<1> SUFFICES ASSUME Init  PROVE RestartInv
  OBVIOUS
<1>1. WorldOK(world)
  <2>1. CASE Plain
    BY <2>1, PlainOK
  <2>2. ASSUME NEW tree \in Trees, Furnished(Planted(tree))  PROVE WorldOK(world)
    <3> DEFINE w == Planted(tree)
    <3>1. /\ tree.root \in [Desktop -> Node \union {None}]
          /\ tree.first \in [Inner -> Node \union {None}]
          /\ tree.second \in [Inner -> Node \union {None}]
      <4>1. /\ tree.root \in [Desktop -> Node \union {None}]
            /\ tree.first \in [Inner -> Window \union {None}]
            /\ tree.second \in [Inner -> Window \union {None}]
        BY DEF Trees
      <4> QED BY <4>1 DEF Node
    <3>2. w \in Worlds /\ w.desks = Desks
      BY <3>1, PlantedFacts
    <3> QED BY <2>2, <3>2, FurnishedOK
  <2> QED BY <2>1, <2>2 DEF Init
<1>2. /\ streams = Nobody /\ phase = "running" /\ saved = None /\ restores = 0
      /\ late = {} /\ crossed = {} /\ misled = FALSE
  BY DEF Init
<1>3. StreamsOK
  BY <1>2, NobodyFacts DEF StreamsOK, Matched, Counted, Fresh
<1>4. SavedOK
  BY <1>2, RestartAssumption DEF SavedOK
<1>5. ToldOK
  BY <1>2, NobodyFacts DEF ToldOK, Informed
<1> QED BY <1>1, <1>3, <1>4, <1>5 DEF RestartInv

LEMMA RestartStep == RestartInv /\ [Next]_vars => RestartInv'
<1> SUFFICES ASSUME RestartInv, [Next]_vars  PROVE RestartInv'
  OBVIOUS
<1>1. ASSUME NEW r \in Reader, NEW kinds \in Kinds, NEW want \in (1..MaxWant) \union {None},
             NEW fifo \in BOOLEAN, Subscribe(r, kinds, want, fifo)
      PROVE  RestartInv'
  BY <1>1, SubscribeKeeps
<1>2. ASSUME NEW r \in Reader, Close(r)  PROVE RestartInv'
  BY <1>2, CloseKeeps
<1>3. ASSUME NEW reports \in BOOLEAN, Notify(reports)  PROVE RestartInv'
  BY <1>3, NotifyKeeps
<1>4. ASSUME NEW m \in Monitor, FocusMonitor(m)  PROVE RestartInv'
  BY <1>4, FocusMonitorKeeps
<1>5. CASE AskRestart
  BY <1>5, AskRestartKeeps
<1>6. CASE EndTurn
  BY <1>6, EndTurnKeeps
<1>7. CASE Restart
  BY <1>7, RestartKeeps
<1>8. CASE DumpState
  BY <1>8, DumpStateKeeps
<1>9. CASE LoadState
  BY <1>9, LoadStateKeeps
<1>10. CASE UNCHANGED vars
  BY <1>10 DEF vars, RestartInv, StreamsOK, SavedOK, ToldOK, WorldOK, Sound, Matched, Counted,
               Fresh, Due, Informed
<1> QED BY <1>1, <1>2, <1>3, <1>4, <1>5, <1>6, <1>7, <1>8, <1>9, <1>10 DEF Next

LEMMA RestartInvHolds == Spec => []RestartInv
BY RestartInit, RestartStep, PTL DEF Spec

-----------------------------------------------------------------------------
(* subscribe.c, restore.c: every open stream that is not kept for a reader *)
(* that went between wm -r and the exec has its one subscriber in the      *)
(* list, over any number of restarts and loads; and the types.             *)
THEOREM StreamsMatchHolds == Spec => []StreamsMatch
<1>1. RestartInv => StreamsMatch
  <2> SUFFICES ASSUME RestartInv  PROVE StreamsMatch
    OBVIOUS
  <2>1. /\ streams.list \in Seq(Reader) /\ streams.open \union streams.kept \subseteq Reader
        /\ streams.count \in [Reader -> Int] /\ streams.got \in [Reader -> Nat]
        /\ IsInjective(streams.list)
    BY DEF RestartInv, StreamsOK, Sound, Streams
  <2>2. TypeOK
    BY <2>1 DEF RestartInv, StreamsOK, SavedOK, ToldOK, WorldOK, TypeOK
  <2> QED BY <2>1, <2>2 DEF RestartInv, StreamsOK, Matched, StreamsMatch
<1> QED BY <1>1, RestartInvHolds, PTL

(* add_subscriber(), put_status(), restore_subscribers(): a reader that    *)
(* asked for a number of events gets them before its stream ends, and no   *)
(* more unless it was handed over.                                         *)
THEOREM CountKeptHolds == Spec => []CountKept
<1>1. RestartInv => CountKept
  <2> SUFFICES ASSUME RestartInv, NEW r \in Reader, streams.want[r] # None, r \notin streams.gone
               PROVE  LET left == IF r \in Range(streams.list) THEN streams.count[r] ELSE 0
                          due == streams.want[r] - left
                      IN IF r \in crossed THEN streams.got[r] >= due ELSE streams.got[r] = due
    BY DEF CountKept
  <2>1. streams.got[r] \in Nat /\ streams.count[r] \in Int /\ streams.want[r] \in Nat
    BY DEF RestartInv, StreamsOK, Sound, Streams
  <2>2. IF r \in crossed THEN Due(streams, r) >= streams.want[r]
                         ELSE Due(streams, r) = streams.want[r]
    BY DEF RestartInv, StreamsOK, Counted
  <2> QED BY <2>1, <2>2 DEF Due
<1> QED BY <1>1, RestartInvHolds, PTL

(* put_status(), focus_node(), restore_state(): the last report that a     *)
(* reader got names the focused monitor, but after a restart or a load     *)
(* that focused another monitor than the first one.                        *)
THEOREM FocusToldHolds == Spec => []FocusTold
<1>1. RestartInv => FocusTold
  BY DEF RestartInv, ToldOK, Informed, FocusTold
<1> QED BY <1>1, RestartInvHolds, PTL
=============================================================================
