-------------------------- MODULE TreeLinksProofs --------------------------
(***************************************************************************)
(* The links of the window trees stay full binary trees, and implement     *)
(* WindowSets, for any number of nodes and desktops.                       *)
(*                                                                         *)
(* Between unlink_node() and insert_node() a node is in no tree; Forest    *)
(* says what holds then.  Each operator of TreeLinks has a lemma that says *)
(* what its links are and one that says that it keeps Forest; the steps of *)
(* the specification follow from these.  Acyclic and IsDescendant speak of *)
(* sets of nodes, so that every proof about paths exhibits a set.          *)
(***************************************************************************)
EXTENDS TreeLinks, TLAPS

(* The links are sound while x is in no tree.                              *)
Forest(t, x) ==
  /\ t \in Links
  /\ RootsSound(t, x)
  /\ ParentsSound(t, x)
  /\ ChildrenSound(t)
  /\ t.window \subseteq t.alive
  /\ Acyclic(t)
  /\ x = None \/ (x \in t.alive /\ t.parent[x] = None)

-----------------------------------------------------------------------------
(* Descent.                                                                *)

(* is_descendant() goes up one step at a time.                             *)
LEMMA DescendantUp ==
  ASSUME NEW t \in Links, NEW a, NEW b, IsDescendant(t, a, b), a # b
  PROVE  /\ t.parent[a] # None
         /\ t.parent[a] \in t.alive => IsDescendant(t, t.parent[a], b)
<1>1. a \in t.alive /\ b \in t.alive
  BY DEF IsDescendant
<1>2. t.parent[a] # None
  <2>1. SUFFICES ASSUME t.parent[a] = None PROVE FALSE
    OBVIOUS
  <2>2. {a} \in SUBSET t.alive /\ UpClosed(t, {a})
    BY <1>1, <2>1 DEF UpClosed
  <2> QED BY <2>2 DEF IsDescendant
<1>3. ASSUME t.parent[a] \in t.alive,
             NEW A \in SUBSET t.alive, t.parent[a] \in A, UpClosed(t, A)
      PROVE  b \in A
  <2>1. A \union {a} \in SUBSET t.alive /\ UpClosed(t, A \union {a})
    BY <1>1, <1>3 DEF UpClosed
  <2> QED BY <2>1 DEF IsDescendant
<1> QED BY <1>1, <1>2, <1>3 DEF IsDescendant

(* A child of a descendant is a descendant.                                *)
LEMMA DescendantDown ==
  ASSUME NEW t \in Links, NEW a \in t.alive, NEW b,
         t.parent[a] # None, IsDescendant(t, t.parent[a], b)
  PROVE  IsDescendant(t, a, b)
<1>1. ASSUME NEW A \in SUBSET t.alive, a \in A, UpClosed(t, A)
      PROVE  b \in A
  <2>1. t.parent[a] \in A
    BY <1>1 DEF UpClosed
  <2> QED BY <1>1, <2>1 DEF IsDescendant
<1> QED BY <1>1 DEF IsDescendant

(* Every node descends from itself.                                        *)
LEMMA DescendantSelf ==
  ASSUME NEW t \in Links, NEW a \in t.alive
  PROVE  IsDescendant(t, a, a)
BY DEF IsDescendant

(* The nodes that a node descends from, closed upward.                     *)
Above(t, a) == {b \in t.alive : IsDescendant(t, a, b)}

LEMMA AboveClosed ==
  ASSUME NEW t \in Links, NEW x, ParentsSound(t, x), NEW a \in t.alive
  PROVE  /\ Above(t, a) \in SUBSET t.alive
         /\ a \in Above(t, a)
         /\ UpClosed(t, Above(t, a))
<1>1. a \in Above(t, a)
  BY DescendantSelf DEF Above
<1>2. ASSUME NEW b \in Above(t, a), t.parent[b] # None
      PROVE  t.parent[b] \in Above(t, a)
  <2>1. b \in t.alive /\ t.parent[b] \in t.alive
    BY <1>2 DEF Above, ParentsSound
  <2>2. ASSUME NEW A \in SUBSET t.alive, a \in A, UpClosed(t, A)
        PROVE  t.parent[b] \in A
    <3>1. b \in A
      BY <2>2 DEF Above, IsDescendant
    <3> QED BY <1>2, <2>2, <3>1 DEF UpClosed
  <2> QED BY <2>1, <2>2 DEF Above, IsDescendant
<1> QED BY <1>1, <1>2 DEF Above, UpClosed

(* No node descends from its child.                                        *)
LEMMA ParentNotBelow ==
  ASSUME NEW t \in Links, NEW x, ParentsSound(t, x), Acyclic(t),
         NEW n \in t.alive, t.parent[n] # None
  PROVE  ~IsDescendant(t, t.parent[n], n)
<1> SUFFICES ASSUME IsDescendant(t, t.parent[n], n) PROVE FALSE
  OBVIOUS
<1> DEFINE p == t.parent[n]
           S == {y \in Above(t, p) : IsDescendant(t, y, n)}
<1>1. p \in t.alive
  BY DEF IsDescendant
<1>2. p \in Above(t, p) /\ UpClosed(t, Above(t, p)) /\ Above(t, p) \subseteq t.alive
  BY <1>1, AboveClosed
<1>3. p \in S /\ S \in SUBSET t.alive
  BY <1>2
<1>4. ASSUME NEW y \in S PROVE t.parent[y] \in S
  <2>1. CASE y = n
    BY <1>3, <2>1
  <2>2. CASE y # n
    <3>1. t.parent[y] # None /\ (t.parent[y] \in t.alive => IsDescendant(t, t.parent[y], n))
      BY <2>2, DescendantUp
    <3>2. t.parent[y] \in Above(t, p)
      BY <1>2, <3>1 DEF UpClosed
    <3> QED BY <1>2, <3>1, <3>2
  <2> QED BY <2>1, <2>2
<1> QED BY <1>3, <1>4 DEF Acyclic

(* A node of a tree does not descend from a node that is in no tree.       *)
LEMMA TreesApart ==
  ASSUME NEW t \in Links, NEW d \in Desktop, NEW k, InTree(t, d, k),
         NEW x, x # None, RootsSound(t, x), ParentsSound(t, x), t.parent[x] = None
  PROVE  ~IsDescendant(t, k, x)
<1> DEFINE r == t.root[d]
           A == {y \in Above(t, k) : IsDescendant(t, y, r)}
<1>1. r # None /\ r \in t.alive /\ k \in t.alive /\ IsDescendant(t, k, r)
  BY DEF InTree, IsDescendant
<1>2. r # x /\ t.parent[r] = None
  BY <1>1 DEF RootsSound
<1>3. k \in Above(t, k) /\ UpClosed(t, Above(t, k)) /\ Above(t, k) \in SUBSET t.alive
  BY <1>1, AboveClosed
<1>4. k \in A /\ A \in SUBSET t.alive
  BY <1>1, <1>3
<1>5. UpClosed(t, A)
  <2> SUFFICES ASSUME NEW y \in A, t.parent[y] # None PROVE t.parent[y] \in A
    BY DEF UpClosed
  <2>1. t.parent[y] \in Above(t, k)
    BY <1>3 DEF UpClosed
  <2>2. y # r
    BY <1>2
  <2> QED BY <1>3, <2>1, <2>2, DescendantUp
<1>6. x \notin A
  <2> SUFFICES ASSUME IsDescendant(t, x, r) PROVE FALSE
    OBVIOUS
  <2> QED BY <1>2, DescendantUp
<1> QED BY <1>4, <1>5, <1>6 DEF IsDescendant

-----------------------------------------------------------------------------
(* Insertion on a node.                                                    *)

(* What Split does to the links.                                           *)
LEMMA SplitLinks ==
  ASSUME NEW t \in Links, NEW d \in Desktop, NEW n \in Node, NEW x \in Node,
         NEW c \in Node, c # n, c # x, n # x, t.parent[x] # c, NEW nFirst \in BOOLEAN
  PROVE  LET u == Split(t, d, n, x, c, nFirst)
             p == t.parent[x]
         IN /\ u \in Links
            /\ u.alive = t.alive \union {c}
            /\ u.window = t.window
            /\ u.root = IF p = None THEN [t.root EXCEPT ![d] = c] ELSE t.root
            /\ \A y \in Node :
                 /\ u.parent[y] = IF y = c THEN p ELSE IF y \in {n, x} THEN c ELSE t.parent[y]
                 /\ u.first[y] = IF y = c THEN (IF nFirst THEN n ELSE x)
                                 ELSE IF y = p /\ t.first[p] = x THEN c ELSE t.first[y]
                 /\ u.second[y] = IF y = c THEN (IF nFirst THEN x ELSE n)
                                  ELSE IF y = p /\ t.first[p] # x THEN c ELSE t.second[y]
<1> DEFINE m == Make(t, c)
           p == t.parent[x]
           r == Replace(m, d, x, c)
           u == Split(t, d, n, x, c, nFirst)
<1>0. None \notin Node
  BY TreeAssumption
<1>1. /\ m \in Links /\ m.alive = t.alive \union {c} /\ m.window = t.window /\ m.root = t.root
      /\ m.parent = [t.parent EXCEPT ![c] = None]
      /\ m.first = [t.first EXCEPT ![c] = None]
      /\ m.second = [t.second EXCEPT ![c] = None]
  BY DEF Links, Make
<1>2. m.parent[x] = p /\ p \in Node \union {None}
  BY <1>1 DEF Links
<1>3. /\ r \in Links /\ r.alive = m.alive /\ r.window = m.window
      /\ r.parent = [m.parent EXCEPT ![c] = p]
      /\ r.root = IF p = None THEN [m.root EXCEPT ![d] = c] ELSE m.root
      /\ r.first = IF p # None /\ m.first[p] = x THEN [m.first EXCEPT ![p] = c] ELSE m.first
      /\ r.second = IF p # None /\ m.first[p] # x THEN [m.second EXCEPT ![p] = c] ELSE m.second
  <2>1. CASE p = None
    BY <1>1, <1>2, <2>1 DEF Links, Replace
  <2>2. CASE p # None /\ m.first[p] = x
    BY <1>1, <1>2, <2>2 DEF Links, Replace
  <2>3. CASE p # None /\ m.first[p] # x
    BY <1>1, <1>2, <2>3 DEF Links, Replace
  <2> QED BY <2>1, <2>2, <2>3
<1>4. /\ u \in Links /\ u.alive = r.alive /\ u.window = r.window /\ u.root = r.root
      /\ u.parent = [r.parent EXCEPT ![n] = c, ![x] = c]
      /\ u.first = [r.first EXCEPT ![c] = IF nFirst THEN n ELSE x]
      /\ u.second = [r.second EXCEPT ![c] = IF nFirst THEN x ELSE n]
  <2> HIDE DEF r
  <2> QED BY <1>3 DEF Links, Split, r, m
<1> HIDE DEF m, r, u
<1>5. p # None => m.first[p] = t.first[p]
  BY <1>1, <1>2 DEF Links
<1>6. ASSUME NEW y \in Node
      PROVE  /\ u.parent[y] = IF y = c THEN p ELSE IF y \in {n, x} THEN c ELSE t.parent[y]
             /\ u.first[y] = IF y = c THEN (IF nFirst THEN n ELSE x)
                             ELSE IF y = p /\ t.first[p] = x THEN c ELSE t.first[y]
             /\ u.second[y] = IF y = c THEN (IF nFirst THEN x ELSE n)
                              ELSE IF y = p /\ t.first[p] # x THEN c ELSE t.second[y]
  <2>1. /\ r.first \in [Node -> Node \union {None}] /\ r.second \in [Node -> Node \union {None}]
        /\ r.parent \in [Node -> Node \union {None}]
        /\ m.first \in [Node -> Node \union {None}] /\ m.second \in [Node -> Node \union {None}]
        /\ m.parent \in [Node -> Node \union {None}]
        /\ t.first \in [Node -> Node \union {None}] /\ t.second \in [Node -> Node \union {None}]
        /\ t.parent \in [Node -> Node \union {None}]
    BY <1>1, <1>3 DEF Links
  <2>2. u.parent[y] = IF y = c THEN p ELSE IF y \in {n, x} THEN c ELSE t.parent[y]
    BY <1>1, <1>2, <1>3, <1>4, <2>1
  <2>3. u.first[y] = IF y = c THEN (IF nFirst THEN n ELSE x)
                     ELSE IF y = p /\ t.first[p] = x THEN c ELSE t.first[y]
    BY <1>0, <1>1, <1>2, <1>3, <1>4, <1>5, <2>1
  <2>4. u.second[y] = IF y = c THEN (IF nFirst THEN x ELSE n)
                      ELSE IF y = p /\ t.first[p] # x THEN c ELSE t.second[y]
    BY <1>0, <1>1, <1>2, <1>3, <1>4, <1>5, <2>1
  <2> QED BY <2>2, <2>3, <2>4
<1> QED BY <1>1, <1>3, <1>4, <1>6 DEF u

(* Splitting x for the loose node n makes a tree again, if x is not below  *)
(* n: the guard of transfer_node() is needed here.                         *)
LEMMA SplitSound ==
  ASSUME NEW t, NEW n \in Node, Forest(t, n), NEW d \in Desktop, NEW x \in t.alive,
         NEW c \in Node \ t.alive, NEW nFirst \in BOOLEAN,
         ~IsDescendant(t, x, n), t.parent[x] = None => t.root[d] = x
  PROVE  Forest(Split(t, d, n, x, c, nFirst), None)
<1> DEFINE u == Split(t, d, n, x, c, nFirst)
           p == t.parent[x]
<1>0. None \notin Node
  BY TreeAssumption
<1>1. t \in Links /\ t.alive \subseteq Node /\ n \in t.alive /\ t.parent[n] = None
  BY <1>0 DEF Forest, Links
<1>2. PICK A \in SUBSET t.alive : x \in A /\ UpClosed(t, A) /\ n \notin A
  BY <1>1 DEF IsDescendant
<1>3. n # x /\ c # n /\ c # x /\ x \in Node
  BY <1>1, <1>2
<1>4. p = None \/ (p \in t.alive /\ x \in {t.first[p], t.second[p]})
  BY <1>1 DEF Forest, ParentsSound
<1>4a. p # c /\ p # n
  BY <1>0, <1>1, <1>2, <1>4 DEF UpClosed
<1>5. /\ u \in Links
      /\ u.alive = t.alive \union {c}
      /\ u.window = t.window
      /\ u.root = IF p = None THEN [t.root EXCEPT ![d] = c] ELSE t.root
      /\ \A y \in Node :
           /\ u.parent[y] = IF y = c THEN p ELSE IF y \in {n, x} THEN c ELSE t.parent[y]
           /\ u.first[y] = IF y = c THEN (IF nFirst THEN n ELSE x)
                           ELSE IF y = p /\ t.first[p] = x THEN c ELSE t.first[y]
           /\ u.second[y] = IF y = c THEN (IF nFirst THEN x ELSE n)
                            ELSE IF y = p /\ t.first[p] # x THEN c ELSE t.second[y]
  BY <1>1, <1>3, <1>4a, SplitLinks
<1> HIDE DEF u, p
<1>6. RootsSound(u, None)
  <2> SUFFICES ASSUME NEW e \in Desktop, u.root[e] # None
               PROVE  /\ u.root[e] \in u.alive /\ u.root[e] # None
                      /\ u.parent[u.root[e]] = None
                      /\ \A f \in Desktop : u.root[f] = u.root[e] => f = e
    BY DEF RootsSound
  <2>1. t.root \in [Desktop -> Node \union {None}]
    BY <1>1 DEF Links
  <2>2. ASSUME NEW f \in Desktop, t.root[f] # None
        PROVE  /\ t.root[f] \in t.alive /\ t.root[f] # n /\ t.parent[t.root[f]] = None
               /\ \A g \in Desktop : t.root[g] = t.root[f] => g = f
    BY <2>2 DEF Forest, RootsSound
  <2>3. CASE p = None
    <3>1. t.root[d] = x
      BY <2>3 DEF p
    <3>2. CASE e = d
      BY <1>0, <1>1, <1>5, <2>1, <2>2, <2>3, <3>2
    <3>3. CASE e # d
      BY <1>0, <1>1, <1>5, <2>1, <2>2, <2>3, <3>1, <3>3
    <3> QED BY <3>2, <3>3
  <2>4. CASE p # None
    <3>1. t.root[e] # x
      BY <1>5, <2>2, <2>4 DEF p
    <3> QED BY <1>1, <1>5, <2>2, <2>4, <3>1
  <2> QED BY <2>3, <2>4
<1>7. ParentsSound(u, None)
  <2> SUFFICES ASSUME NEW y \in u.alive
               PROVE  IF u.parent[y] = None THEN \E e \in Desktop : u.root[e] = y
                      ELSE /\ u.parent[y] \in u.alive
                           /\ y \in {u.first[u.parent[y]], u.second[u.parent[y]]}
    BY DEF ParentsSound
  <2>1. CASE y = c
    <3>1. CASE p = None
      <4>1. u.root[d] = c
        BY <1>1, <1>5, <3>1 DEF Links
      <4> QED BY <1>1, <1>5, <2>1, <3>1, <4>1
    <3>2. CASE p # None
      BY <1>1, <1>4, <1>4a, <1>5, <2>1, <3>2
    <3> QED BY <3>1, <3>2
  <2>2. CASE y \in {n, x}
    BY <1>0, <1>1, <1>3, <1>5, <2>2
  <2>3. CASE y \notin {n, x, c}
    <3>1. y \in t.alive /\ u.parent[y] = t.parent[y]
      BY <1>1, <1>5, <2>3
    <3>2. CASE t.parent[y] = None
      <4>1. PICK e \in Desktop : t.root[e] = y
        BY <2>3, <3>1, <3>2 DEF Forest, ParentsSound
      <4>2. p = None => t.root[d] = x
        BY DEF p
      <4>3. u.root[e] = y
        BY <1>1, <1>5, <2>3, <4>1, <4>2 DEF Links
      <4> QED BY <3>1, <3>2, <4>3
    <3>3. CASE t.parent[y] # None
      <4>1. t.parent[y] \in t.alive /\ y \in {t.first[t.parent[y]], t.second[t.parent[y]]}
        BY <3>1, <3>3 DEF Forest, ParentsSound
      <4>2. t.parent[y] = p /\ t.first[p] # x => t.second[p] = x
        BY <1>0, <1>1, <1>4, <4>1
      <4> QED BY <1>1, <1>5, <2>3, <3>1, <3>3, <4>1, <4>2
    <3> QED BY <3>2, <3>3
  <2> QED BY <1>5, <2>1, <2>2, <2>3
<1>8. ChildrenSound(u)
  <2> SUFFICES ASSUME NEW y \in u.alive, ~IsLeaf(u, y)
               PROVE  /\ u.first[y] # u.second[y]
                      /\ {u.first[y], u.second[y]} \subseteq u.alive
                      /\ u.parent[u.first[y]] = y /\ u.parent[u.second[y]] = y
                      /\ y \notin u.window
    BY DEF ChildrenSound
  <2>1. CASE y = c
    <3>1. u.window \subseteq t.alive
      BY <1>5 DEF Forest
    <3> QED BY <1>0, <1>1, <1>3, <1>5, <2>1, <3>1
  <2>2. CASE y # c
    <3>1. y \in t.alive /\ y \in Node
      BY <1>1, <1>5, <2>2
    <3>2. ~IsLeaf(t, y)
      <4>1. CASE y = p
        BY <1>0, <1>1, <1>3, <1>4, <3>1, <4>1 DEF IsLeaf
      <4>2. CASE y # p
        BY <1>5, <2>2, <3>1, <4>2 DEF IsLeaf
      <4> QED BY <4>1, <4>2
    <3>3. /\ t.first[y] # t.second[y]
          /\ {t.first[y], t.second[y]} \subseteq t.alive
          /\ t.parent[t.first[y]] = y /\ t.parent[t.second[y]] = y
          /\ y \notin t.window
      BY <3>1, <3>2 DEF Forest, ChildrenSound
    <3>4. t.first[y] # n /\ t.second[y] # n
      BY <1>0, <1>1, <3>1, <3>3
    <3>5. CASE y = p
      BY <1>1, <1>3, <1>4, <1>4a, <1>5, <2>2, <3>1, <3>3, <3>4, <3>5
    <3>6. CASE y # p
      <4>1. t.first[y] # x /\ t.second[y] # x
        BY <3>3, <3>6 DEF p
      <4> QED BY <1>1, <1>5, <2>2, <3>1, <3>3, <3>4, <3>6, <4>1
    <3> QED BY <3>5, <3>6
  <2> QED BY <2>1, <2>2
<1>9. Acyclic(u)
  <2> SUFFICES ASSUME NEW S \in SUBSET u.alive, \A y \in S : u.parent[y] \in S
               PROVE  S = {}
    BY DEF Acyclic
  <2>0. \A T \in SUBSET t.alive : (\A y \in T : t.parent[y] \in T) => T = {}
    BY DEF Forest, Acyclic
  <2>1. \A y \in S \intersect A : t.parent[y] \in S \intersect A
    <3> SUFFICES ASSUME NEW y \in S, y \in A PROVE t.parent[y] \in S \intersect A
      OBVIOUS
    <3>1. None \notin S
      BY <1>0, <1>1, <1>5
    <3>2. CASE y = x
      <4>1. u.parent[x] = c /\ u.parent[c] = p
        BY <1>3, <1>5
      <4>2. p \in S
        BY <3>2, <4>1
      <4>3. p \in A
        BY <3>1, <4>2, <1>2 DEF UpClosed, p
      <4> QED BY <3>2, <4>2, <4>3 DEF p
    <3>3. CASE y # x
      <4>1. u.parent[y] = t.parent[y]
        BY <1>1, <1>2, <1>5, <3>3
      <4> QED BY <3>1, <4>1, <1>2 DEF UpClosed
    <3> QED BY <3>2, <3>3
  <2>2. S \intersect A = {}
    BY <2>0, <2>1, <1>2
  <2>3. c \notin S
    <3> SUFFICES ASSUME c \in S PROVE FALSE
      OBVIOUS
    <3>1. p \in S
      BY <1>5
    <3>2. p \in A
      BY <1>0, <1>1, <1>2, <1>5, <3>1 DEF UpClosed, p
    <3> QED BY <2>2, <3>1, <3>2
  <2>4. n \notin S /\ x \notin S
    BY <1>3, <1>5, <2>3
  <2>5. S \in SUBSET t.alive /\ \A y \in S : t.parent[y] \in S
    BY <1>1, <1>5, <2>3, <2>4
  <2> QED BY <2>0, <2>5
<1>10. u.window \subseteq u.alive
  BY <1>5 DEF Forest
<1> QED BY <1>5, <1>6, <1>7, <1>8, <1>9, <1>10 DEF Forest, u

-----------------------------------------------------------------------------
(* Insertion on a receptacle.                                              *)

(* What Replace does to the links.                                         *)
LEMMA ReplaceLinks ==
  ASSUME NEW t \in Links, NEW d \in Desktop, NEW x \in Node, NEW m \in Node
  PROVE  LET r == Replace(t, d, x, m)
             p == t.parent[x]
         IN /\ r \in Links /\ r.alive = t.alive /\ r.window = t.window
            /\ r.root = IF p = None THEN [t.root EXCEPT ![d] = m] ELSE t.root
            /\ \A y \in Node :
                 /\ r.parent[y] = IF y = m THEN p ELSE t.parent[y]
                 /\ r.first[y] = IF y = p /\ t.first[p] = x THEN m ELSE t.first[y]
                 /\ r.second[y] = IF y = p /\ t.first[p] # x THEN m ELSE t.second[y]
<1> DEFINE p == t.parent[x]
           r == Replace(t, d, x, m)
<1>1. p \in Node \union {None}
  BY DEF Links
<1>2. /\ r \in Links /\ r.alive = t.alive /\ r.window = t.window
      /\ r.parent = [t.parent EXCEPT ![m] = p]
      /\ r.root = IF p = None THEN [t.root EXCEPT ![d] = m] ELSE t.root
      /\ r.first = IF p # None /\ t.first[p] = x THEN [t.first EXCEPT ![p] = m] ELSE t.first
      /\ r.second = IF p # None /\ t.first[p] # x THEN [t.second EXCEPT ![p] = m] ELSE t.second
  <2>1. CASE p = None
    BY <1>1, <2>1 DEF Links, Replace
  <2>2. CASE p # None /\ t.first[p] = x
    BY <1>1, <2>2 DEF Links, Replace
  <2>3. CASE p # None /\ t.first[p] # x
    BY <1>1, <2>3 DEF Links, Replace
  <2> QED BY <2>1, <2>2, <2>3
<1> HIDE DEF r
<1>3. ASSUME NEW y \in Node
      PROVE  /\ r.parent[y] = IF y = m THEN p ELSE t.parent[y]
             /\ r.first[y] = IF y = p /\ t.first[p] = x THEN m ELSE t.first[y]
             /\ r.second[y] = IF y = p /\ t.first[p] # x THEN m ELSE t.second[y]
  <2>0. None \notin Node
    BY TreeAssumption
  <2>1. /\ t.first \in [Node -> Node \union {None}] /\ t.second \in [Node -> Node \union {None}]
        /\ t.parent \in [Node -> Node \union {None}]
    BY DEF Links
  <2>2. r.parent[y] = IF y = m THEN p ELSE t.parent[y]
    BY <1>2, <2>1
  <2>3. r.first[y] = IF y = p /\ t.first[p] = x THEN m ELSE t.first[y]
    BY <2>0, <1>1, <1>2, <2>1
  <2>4. r.second[y] = IF y = p /\ t.first[p] # x THEN m ELSE t.second[y]
    BY <2>0, <1>1, <1>2, <2>1
  <2> QED BY <2>2, <2>3, <2>4
<1> QED BY <1>2, <1>3 DEF r

(* What Free does to the links.                                            *)
LEMMA FreeLinks ==
  ASSUME NEW t \in Links, NEW S \in SUBSET Node
  PROVE  LET u == Free(t, S)
         IN /\ u \in Links /\ u.alive = t.alive \ S /\ u.window = t.window /\ u.root = t.root
            /\ \A y \in Node :
                 /\ u.parent[y] = IF y \in S THEN None ELSE t.parent[y]
                 /\ u.first[y] = IF y \in S THEN None ELSE t.first[y]
                 /\ u.second[y] = IF y \in S THEN None ELSE t.second[y]
<1> DEFINE u == Free(t, S)
<1>1. /\ u \in Links /\ u.alive = t.alive \ S /\ u.window = t.window /\ u.root = t.root
      /\ u.parent = [y \in Node |-> IF y \in S THEN None ELSE t.parent[y]]
      /\ u.first = [y \in Node |-> IF y \in S THEN None ELSE t.first[y]]
      /\ u.second = [y \in Node |-> IF y \in S THEN None ELSE t.second[y]]
  BY DEF Links, Free
<1> HIDE DEF u
<1>2. \A y \in Node :
        /\ u.parent[y] = IF y \in S THEN None ELSE t.parent[y]
        /\ u.first[y] = IF y \in S THEN None ELSE t.first[y]
        /\ u.second[y] = IF y \in S THEN None ELSE t.second[y]
  BY <1>1
<1> QED BY <1>1, <1>2 DEF u

(* What TakePlace does to the links.                                       *)
LEMMA TakePlaceLinks ==
  ASSUME NEW t \in Links, NEW d \in Desktop, NEW n \in Node, NEW f \in Node, n # f,
         t.parent[f] # f
  PROVE  LET u == TakePlace(t, d, n, f)
             p == t.parent[f]
         IN /\ u \in Links
            /\ u.alive = t.alive \ {f}
            /\ u.window = t.window
            /\ u.root = IF p = None THEN [t.root EXCEPT ![d] = n] ELSE t.root
            /\ \A y \in Node :
                 /\ u.parent[y] = IF y = f THEN None ELSE IF y = n THEN p ELSE t.parent[y]
                 /\ u.first[y] = IF y = f THEN None
                                 ELSE IF y = p /\ t.first[p] = f THEN n ELSE t.first[y]
                 /\ u.second[y] = IF y = f THEN None
                                  ELSE IF y = p /\ t.first[p] # f THEN n ELSE t.second[y]
<1> DEFINE p == t.parent[f]
           r == Replace(t, d, f, n)
<1>0. None \notin Node
  BY TreeAssumption
<1>1. /\ r \in Links /\ r.alive = t.alive /\ r.window = t.window
      /\ r.root = IF p = None THEN [t.root EXCEPT ![d] = n] ELSE t.root
      /\ \A y \in Node :
           /\ r.parent[y] = IF y = n THEN p ELSE t.parent[y]
           /\ r.first[y] = IF y = p /\ t.first[p] = f THEN n ELSE t.first[y]
           /\ r.second[y] = IF y = p /\ t.first[p] # f THEN n ELSE t.second[y]
  BY ReplaceLinks
<1> DEFINE u == Free(r, {f})
<1> HIDE DEF r
<1>2. TakePlace(t, d, n, f) = u
  BY DEF TakePlace, r
<1>3. /\ u \in Links /\ u.alive = r.alive \ {f} /\ u.window = r.window /\ u.root = r.root
      /\ \A y \in Node :
           /\ u.parent[y] = IF y \in {f} THEN None ELSE r.parent[y]
           /\ u.first[y] = IF y \in {f} THEN None ELSE r.first[y]
           /\ u.second[y] = IF y \in {f} THEN None ELSE r.second[y]
  BY <1>1, FreeLinks
<1> HIDE DEF u
<1> QED BY <1>1, <1>2, <1>3

(* A receptacle gives its place to the loose node n.                       *)
LEMMA TakePlaceSound ==
  ASSUME NEW t, NEW n \in Node, Forest(t, n), NEW d \in Desktop, NEW f \in t.alive,
         IsReceptacle(t, f), ~IsDescendant(t, f, n), t.parent[f] = None => t.root[d] = f
  PROVE  Forest(TakePlace(t, d, n, f), None)
<1> DEFINE u == TakePlace(t, d, n, f)
           p == t.parent[f]
<1>0. None \notin Node
  BY TreeAssumption
<1>1. t \in Links /\ t.alive \subseteq Node /\ n \in t.alive /\ t.parent[n] = None
  BY <1>0 DEF Forest, Links
<1>2. PICK A \in SUBSET t.alive : f \in A /\ UpClosed(t, A) /\ n \notin A
  BY <1>1 DEF IsDescendant
<1>3. n # f /\ f \in Node /\ IsLeaf(t, f) /\ f \notin t.window
  BY <1>1, <1>2 DEF IsReceptacle
<1>4. p = None \/ (p \in t.alive /\ f \in {t.first[p], t.second[p]})
  BY <1>1 DEF Forest, ParentsSound
<1>5. p # f /\ p # n
  BY <1>0, <1>1, <1>2, <1>3, <1>4 DEF UpClosed, IsLeaf
<1>6. /\ u \in Links
      /\ u.alive = t.alive \ {f}
      /\ u.window = t.window
      /\ u.root = IF p = None THEN [t.root EXCEPT ![d] = n] ELSE t.root
      /\ \A y \in Node :
           /\ u.parent[y] = IF y = f THEN None ELSE IF y = n THEN p ELSE t.parent[y]
           /\ u.first[y] = IF y = f THEN None
                           ELSE IF y = p /\ t.first[p] = f THEN n ELSE t.first[y]
           /\ u.second[y] = IF y = f THEN None
                            ELSE IF y = p /\ t.first[p] # f THEN n ELSE t.second[y]
  BY <1>1, <1>3, <1>5, TakePlaceLinks
<1> HIDE DEF u, p
<1>7. RootsSound(u, None)
  <2> SUFFICES ASSUME NEW e \in Desktop, u.root[e] # None
               PROVE  /\ u.root[e] \in u.alive /\ u.root[e] # None
                      /\ u.parent[u.root[e]] = None
                      /\ \A g \in Desktop : u.root[g] = u.root[e] => g = e
    BY DEF RootsSound
  <2>1. t.root \in [Desktop -> Node \union {None}]
    BY <1>1 DEF Links
  <2>2. ASSUME NEW g \in Desktop, t.root[g] # None
        PROVE  /\ t.root[g] \in t.alive /\ t.root[g] # n /\ t.parent[t.root[g]] = None
               /\ \A h \in Desktop : t.root[h] = t.root[g] => h = g
    BY <2>2 DEF Forest, RootsSound
  <2>3. CASE p = None
    <3>1. t.root[d] = f
      BY <2>3 DEF p
    <3>2. CASE e = d
      BY <1>0, <1>1, <1>3, <1>6, <2>1, <2>2, <2>3, <3>2
    <3>3. CASE e # d
      BY <1>0, <1>1, <1>6, <2>1, <2>2, <2>3, <3>1, <3>3
    <3> QED BY <3>2, <3>3
  <2>4. CASE p # None
    <3>1. t.root[e] # f
      BY <1>6, <2>2, <2>4 DEF p
    <3> QED BY <1>1, <1>6, <2>2, <2>4, <3>1
  <2> QED BY <2>3, <2>4
<1>8. ParentsSound(u, None)
  <2> SUFFICES ASSUME NEW y \in u.alive
               PROVE  IF u.parent[y] = None THEN \E e \in Desktop : u.root[e] = y
                      ELSE /\ u.parent[y] \in u.alive
                           /\ y \in {u.first[u.parent[y]], u.second[u.parent[y]]}
    BY DEF ParentsSound
  <2>1. CASE y = n
    <3>1. CASE p = None
      <4>1. u.root[d] = n
        BY <1>1, <1>6, <3>1 DEF Links
      <4> QED BY <1>1, <1>3, <1>6, <2>1, <3>1, <4>1
    <3>2. CASE p # None
      BY <1>1, <1>3, <1>4, <1>5, <1>6, <2>1, <3>2
    <3> QED BY <3>1, <3>2
  <2>2. CASE y # n
    <3>1. y \in t.alive /\ u.parent[y] = t.parent[y] /\ y # f
      BY <1>1, <1>6, <2>2
    <3>2. CASE t.parent[y] = None
      <4>1. PICK e \in Desktop : t.root[e] = y
        BY <2>2, <3>1, <3>2 DEF Forest, ParentsSound
      <4>2. p = None => t.root[d] = f
        BY DEF p
      <4>3. u.root[e] = y
        BY <1>1, <1>6, <3>1, <4>1, <4>2 DEF Links
      <4> QED BY <3>1, <3>2, <4>3
    <3>3. CASE t.parent[y] # None
      <4>1. t.parent[y] \in t.alive /\ y \in {t.first[t.parent[y]], t.second[t.parent[y]]}
        BY <3>1, <3>3 DEF Forest, ParentsSound
      <4>2. t.parent[y] # f
        BY <1>0, <1>1, <1>3, <3>1, <4>1 DEF IsLeaf
      <4>3. t.parent[y] = p /\ t.first[p] # f => t.second[p] = f
        BY <1>0, <1>1, <1>4, <4>1
      <4> QED BY <1>1, <1>6, <2>2, <3>1, <3>3, <4>1, <4>2, <4>3
    <3> QED BY <3>2, <3>3
  <2> QED BY <2>1, <2>2
<1>9. ChildrenSound(u)
  <2> SUFFICES ASSUME NEW y \in u.alive, ~IsLeaf(u, y)
               PROVE  /\ u.first[y] # u.second[y]
                      /\ {u.first[y], u.second[y]} \subseteq u.alive
                      /\ u.parent[u.first[y]] = y /\ u.parent[u.second[y]] = y
                      /\ y \notin u.window
    BY DEF ChildrenSound
  <2>1. y \in t.alive /\ y \in Node /\ y # f
    BY <1>1, <1>6
  <2>2. ~IsLeaf(t, y)
    <3>1. CASE y = p
      BY <1>0, <1>1, <1>3, <1>4, <2>1, <3>1 DEF IsLeaf
    <3>2. CASE y # p
      BY <1>6, <2>1, <3>2 DEF IsLeaf
    <3> QED BY <3>1, <3>2
  <2>3. /\ t.first[y] # t.second[y]
        /\ {t.first[y], t.second[y]} \subseteq t.alive
        /\ t.parent[t.first[y]] = y /\ t.parent[t.second[y]] = y
        /\ y \notin t.window
    BY <2>1, <2>2 DEF Forest, ChildrenSound
  <2>4. t.first[y] # n /\ t.second[y] # n
    BY <1>0, <1>1, <2>1, <2>3
  <2>5. CASE y = p
    BY <1>1, <1>3, <1>4, <1>5, <1>6, <2>1, <2>3, <2>4, <2>5
  <2>6. CASE y # p
    <3>1. t.first[y] # f /\ t.second[y] # f
      BY <2>3, <2>6 DEF p
    <3> QED BY <1>1, <1>6, <2>1, <2>3, <2>4, <2>6, <3>1
  <2> QED BY <2>5, <2>6
<1>10. Acyclic(u)
  <2> SUFFICES ASSUME NEW S \in SUBSET u.alive, \A y \in S : u.parent[y] \in S
               PROVE  S = {}
    BY DEF Acyclic
  <2>0. \A T \in SUBSET t.alive : (\A y \in T : t.parent[y] \in T) => T = {}
    BY DEF Forest, Acyclic
  <2>1. None \notin S /\ f \notin S
    BY <1>0, <1>1, <1>6
  <2>2. \A y \in S \intersect A : t.parent[y] \in S \intersect A
    <3> SUFFICES ASSUME NEW y \in S, y \in A PROVE t.parent[y] \in S \intersect A
      OBVIOUS
    <3>1. u.parent[y] = t.parent[y]
      BY <1>1, <1>2, <1>6, <2>1
    <3> QED BY <2>1, <3>1, <1>2 DEF UpClosed
  <2>3. S \intersect A = {}
    BY <2>0, <2>2, <1>2
  <2>4. n \notin S
    <3> SUFFICES ASSUME n \in S PROVE FALSE
      OBVIOUS
    <3>1. p \in S
      BY <1>3, <1>6
    <3>2. p \in A
      BY <1>2, <2>1, <3>1 DEF UpClosed, p
    <3> QED BY <2>3, <3>1, <3>2
  <2>5. S \in SUBSET t.alive /\ \A y \in S : t.parent[y] \in S
    BY <1>1, <1>6, <2>1, <2>4
  <2> QED BY <2>0, <2>5
<1>11. u.window \subseteq u.alive
  BY <1>3, <1>6 DEF Forest
<1> QED BY <1>6, <1>7, <1>8, <1>9, <1>10, <1>11 DEF Forest, u

-----------------------------------------------------------------------------
(* Rotation, the empty desktop, a new node.                                *)

(* What Turn does to the links.                                            *)
LEMMA TurnLinks ==
  ASSUME NEW t \in Links, NEW S \in SUBSET Node
  PROVE  LET u == Turn(t, S)
         IN /\ u \in Links /\ u.alive = t.alive /\ u.window = t.window
            /\ u.root = t.root /\ u.parent = t.parent
            /\ \A y \in Node :
                 /\ u.first[y] = IF y \in S THEN t.second[y] ELSE t.first[y]
                 /\ u.second[y] = IF y \in S THEN t.first[y] ELSE t.second[y]
<1> DEFINE u == Turn(t, S)
<1>1. /\ u \in Links /\ u.alive = t.alive /\ u.window = t.window
      /\ u.root = t.root /\ u.parent = t.parent
      /\ u.first = [y \in Node |-> IF y \in S THEN t.second[y] ELSE t.first[y]]
      /\ u.second = [y \in Node |-> IF y \in S THEN t.first[y] ELSE t.second[y]]
  BY DEF Links, Turn
<1> HIDE DEF u
<1>2. \A y \in Node :
        /\ u.first[y] = IF y \in S THEN t.second[y] ELSE t.first[y]
        /\ u.second[y] = IF y \in S THEN t.first[y] ELSE t.second[y]
  BY <1>1
<1> QED BY <1>1, <1>2 DEF u

(* Exchanging the children of nodes keeps the links sound, ...             *)
LEMMA TurnSound ==
  ASSUME NEW t, NEW x, Forest(t, x), NEW S \in SUBSET Node
  PROVE  Forest(Turn(t, S), x)
<1> DEFINE u == Turn(t, S)
<1>1. t \in Links /\ t.alive \subseteq Node
  BY DEF Forest, Links
<1>2. /\ u \in Links /\ u.alive = t.alive /\ u.window = t.window
      /\ u.root = t.root /\ u.parent = t.parent
      /\ \A y \in Node :
           /\ u.first[y] = IF y \in S THEN t.second[y] ELSE t.first[y]
           /\ u.second[y] = IF y \in S THEN t.first[y] ELSE t.second[y]
  BY <1>1, TurnLinks
<1> HIDE DEF u
<1>3. RootsSound(u, x)
  BY <1>2 DEF Forest, RootsSound
<1>4. ParentsSound(u, x)
  BY <1>1, <1>2 DEF Forest, ParentsSound
<1>5. ChildrenSound(u)
  BY <1>1, <1>2 DEF Forest, ChildrenSound, IsLeaf
<1>6. Acyclic(u)
  BY <1>2 DEF Forest, Acyclic
<1> QED BY <1>2, <1>3, <1>4, <1>5, <1>6 DEF Forest, u

(* ... and moves no node to another tree.                                  *)
LEMMA TurnKeepsTrees ==
  ASSUME NEW t \in Links, NEW S \in SUBSET Node, NEW d \in Desktop, NEW k, InTree(t, d, k)
  PROVE  InTree(Turn(t, S), d, k)
<1> DEFINE u == Turn(t, S)
<1>1. u.alive = t.alive /\ u.root = t.root /\ u.parent = t.parent
  BY TurnLinks
<1> HIDE DEF u
<1>2. \A A : UpClosed(u, A) <=> UpClosed(t, A)
  BY <1>1 DEF UpClosed
<1>3. InTree(u, d, k)
  BY <1>1, <1>2 DEF InTree, IsDescendant
<1> QED BY <1>3 DEF u

(* The loose node becomes the root of an empty desktop.                    *)
LEMMA RootSound ==
  ASSUME NEW t, NEW n \in Node, Forest(t, n), NEW d \in Desktop, t.root[d] = None
  PROVE  Forest([t EXCEPT !.root[d] = n], None)
<1> DEFINE u == [t EXCEPT !.root[d] = n]
<1>0. None \notin Node
  BY TreeAssumption
<1>1. t \in Links /\ n \in t.alive /\ t.parent[n] = None
  BY <1>0 DEF Forest
<1>2. /\ u \in Links /\ u.alive = t.alive /\ u.window = t.window /\ u.parent = t.parent
      /\ u.first = t.first /\ u.second = t.second /\ u.root = [t.root EXCEPT ![d] = n]
  BY <1>1 DEF Links
<1> HIDE DEF u
<1>3. u.root[d] = n /\ \A e \in Desktop : e # d => u.root[e] = t.root[e]
  BY <1>1, <1>2 DEF Links
<1>4. RootsSound(u, None)
  BY <1>0, <1>1, <1>2, <1>3 DEF Forest, RootsSound
<1>5. ParentsSound(u, None)
  <2> SUFFICES ASSUME NEW y \in t.alive, t.parent[y] = None
               PROVE  \E e \in Desktop : u.root[e] = y
    BY <1>2 DEF Forest, ParentsSound
  <2>1. CASE y = n
    BY <1>3, <2>1
  <2>2. CASE y # n
    <3>1. PICK e \in Desktop : t.root[e] = y
      BY <2>2 DEF Forest, ParentsSound
    <3>2. e # d
      BY <1>0, <1>1, <3>1 DEF Links
    <3> QED BY <1>3, <3>1, <3>2
  <2> QED BY <2>1, <2>2
<1>6. ChildrenSound(u)
  BY <1>2 DEF Forest, ChildrenSound, IsLeaf
<1>7. Acyclic(u)
  BY <1>2 DEF Forest, Acyclic
<1> QED BY <1>2, <1>4, <1>5, <1>6, <1>7 DEF Forest, u

(* make_node() and the client make a loose leaf.                           *)
LEMMA NewSound ==
  ASSUME NEW t, Forest(t, None), NEW n \in Node \ t.alive, NEW isWindow \in BOOLEAN
  PROVE  LET u == [Make(t, n) EXCEPT !.window = IF isWindow THEN @ \union {n} ELSE @]
         IN /\ Forest(u, n)
            /\ \A d \in Desktop, k \in Node : InTree(t, d, k) => InTree(u, d, k)
<1> DEFINE u == [Make(t, n) EXCEPT !.window = IF isWindow THEN @ \union {n} ELSE @]
<1>0. None \notin Node
  BY TreeAssumption
<1>1. t \in Links /\ t.alive \subseteq Node /\ t.window \subseteq t.alive
  BY DEF Forest, Links
<1>2. /\ u \in Links /\ u.alive = t.alive \union {n} /\ u.root = t.root
      /\ u.window = IF isWindow THEN t.window \union {n} ELSE t.window
      /\ u.parent = [t.parent EXCEPT ![n] = None]
      /\ u.first = [t.first EXCEPT ![n] = None]
      /\ u.second = [t.second EXCEPT ![n] = None]
  BY <1>1 DEF Links, Make
<1> HIDE DEF u
<1>3. /\ u.parent[n] = None /\ u.first[n] = None /\ u.second[n] = None
      /\ \A y \in t.alive : /\ y # n
                            /\ u.parent[y] = t.parent[y]
                            /\ u.first[y] = t.first[y] /\ u.second[y] = t.second[y]
  BY <1>1, <1>2 DEF Links
<1>4. RootsSound(u, n)
  BY <1>2, <1>3 DEF Forest, RootsSound
<1>5. ParentsSound(u, n)
  <2> SUFFICES ASSUME NEW y \in t.alive
               PROVE  IF t.parent[y] = None THEN \E d \in Desktop : t.root[d] = y
                      ELSE /\ t.parent[y] \in t.alive
                           /\ y \in {u.first[t.parent[y]], u.second[t.parent[y]]}
    BY <1>2, <1>3 DEF ParentsSound
  <2>1. CASE t.parent[y] = None
    BY <1>0, <1>1, <2>1 DEF Forest, ParentsSound
  <2>2. CASE t.parent[y] # None
    BY <1>3, <2>2 DEF Forest, ParentsSound
  <2> QED BY <2>1, <2>2
<1>6. ChildrenSound(u)
  <2> SUFFICES ASSUME NEW y \in u.alive, ~IsLeaf(u, y)
               PROVE  /\ u.first[y] # u.second[y]
                      /\ {u.first[y], u.second[y]} \subseteq u.alive
                      /\ u.parent[u.first[y]] = y /\ u.parent[u.second[y]] = y
                      /\ y \notin u.window
    BY DEF ChildrenSound
  <2>1. y \in t.alive /\ ~IsLeaf(t, y)
    BY <1>2, <1>3 DEF IsLeaf
  <2>2. /\ t.first[y] # t.second[y]
        /\ {t.first[y], t.second[y]} \subseteq t.alive
        /\ t.parent[t.first[y]] = y /\ t.parent[t.second[y]] = y
        /\ y \notin t.window
    BY <2>1 DEF Forest, ChildrenSound
  <2> QED BY <1>2, <1>3, <2>1, <2>2
<1>7. Acyclic(u)
  <2> SUFFICES ASSUME NEW S \in SUBSET u.alive, \A y \in S : u.parent[y] \in S
               PROVE  S = {}
    BY DEF Acyclic
  <2>1. n \notin S
    BY <1>0, <1>1, <1>2, <1>3
  <2>2. S \in SUBSET t.alive /\ \A y \in S : t.parent[y] \in S
    BY <1>2, <1>3, <2>1
  <2> QED BY <2>2 DEF Forest, Acyclic
<1>8. ASSUME NEW d \in Desktop, NEW k \in Node, InTree(t, d, k) PROVE InTree(u, d, k)
  <2>1. t.root[d] # None /\ k \in t.alive /\ t.root[d] \in t.alive
    BY <1>8 DEF InTree, IsDescendant
  <2>2. ASSUME NEW A \in SUBSET u.alive, k \in A, UpClosed(u, A)
        PROVE  t.root[d] \in A
    <3>1. ASSUME NEW y \in A \intersect t.alive, t.parent[y] # None
          PROVE  t.parent[y] \in A \intersect t.alive
      <4>1. t.parent[y] \in t.alive
        BY <3>1 DEF Forest, ParentsSound
      <4>2. t.parent[y] \in A
        BY <1>3, <2>2, <3>1 DEF UpClosed
      <4> QED BY <4>1, <4>2
    <3>2. UpClosed(t, A \intersect t.alive)
      BY <3>1 DEF UpClosed
    <3>3. \A B \in SUBSET t.alive : k \in B /\ UpClosed(t, B) => t.root[d] \in B
      BY <1>8 DEF InTree, IsDescendant
    <3> QED BY <2>1, <2>2, <3>2, <3>3
  <2> QED BY <1>2, <2>1, <2>2 DEF InTree, IsDescendant
<1>9. u.window \subseteq u.alive
  BY <1>1, <1>2
<1>10. Forest(u, n)
  BY <1>2, <1>3, <1>4, <1>5, <1>6, <1>7, <1>9 DEF Forest
<1> QED BY <1>8, <1>10 DEF u

-----------------------------------------------------------------------------
(* insert_node().                                                          *)

(* A node of a tree without a parent is its root; the parent of another    *)
(* one is of the tree as well.                                             *)
LEMMA TreeUp ==
  ASSUME NEW t \in Links, NEW x, RootsSound(t, x), ParentsSound(t, x),
         NEW d \in Desktop, NEW k, InTree(t, d, k)
  PROVE  /\ k \in t.alive
         /\ t.parent[k] = None => t.root[d] = k
         /\ t.parent[k] # None => InTree(t, d, t.parent[k])
<1>1. k \in t.alive /\ IsDescendant(t, k, t.root[d]) /\ t.root[d] # None
  BY DEF InTree, IsDescendant
<1>2. t.parent[k] = None => t.root[d] = k
  BY <1>1, DescendantUp
<1>3. ASSUME t.parent[k] # None PROVE InTree(t, d, t.parent[k])
  <2>1. t.parent[k] \in t.alive
    BY <1>1, <1>3 DEF ParentsSound
  <2>2. k # t.root[d]
    BY <1>1, <1>3 DEF RootsSound
  <2>3. IsDescendant(t, t.parent[k], t.root[d])
    BY <1>1, <2>1, <2>2, DescendantUp
  <2> QED BY <1>1, <2>3 DEF InTree
<1> QED BY <1>1, <1>2, <1>3

(* Whatever anchor insert_node() chooses, the loose node has a place in    *)
(* the tree, and the links are sound.                                      *)
LEMMA InsertSound ==
  ASSUME NEW t, NEW n \in Node, Forest(t, n), NEW d \in Desktop, NEW f,
         f = None \/ InTree(t, d, f), NEW u \in Inserted(t, d, n, f)
  PROVE  Forest(u, None)
<1> DEFINE a == Anchor(t, d, f)
<1>0. None \notin Node
  BY TreeAssumption
<1>1. t \in Links /\ t.alive \subseteq Node /\ n # None /\ t.parent[n] = None
      /\ RootsSound(t, n) /\ ParentsSound(t, n)
  BY <1>0 DEF Forest, Links
<1>2. CASE a = None
  <2>1. f = None /\ t.root[d] = None
    <3>1. f = None \/ f \in t.alive
      BY DEF InTree, IsDescendant
    <3> QED BY <1>0, <1>1, <1>2, <3>1 DEF Anchor
  <2>2. u = [t EXCEPT !.root[d] = n]
    BY <1>2 DEF Inserted
  <2> QED BY <2>1, <2>2, RootSound
<1>3. CASE a # None
  <2>1. InTree(t, d, a)
    <3>1. CASE f = None
      <4>1. t.root[d] # None /\ t.root[d] \in t.alive
        BY <1>1, <1>3, <3>1 DEF Anchor, RootsSound
      <4> QED BY <1>1, <3>1, <4>1, DescendantSelf DEF Anchor, InTree
    <3>2. CASE f # None
      BY <3>2 DEF Anchor
    <3> QED BY <3>1, <3>2
  <2>2. ASSUME NEW k, InTree(t, d, k)
        PROVE  k \in t.alive /\ ~IsDescendant(t, k, n) /\ (t.parent[k] = None => t.root[d] = k)
    BY <1>1, <2>2, TreeUp, TreesApart
  <2>3. CASE u = TakePlace(t, d, n, a) /\ IsReceptacle(t, a)
    BY <2>1, <2>2, <2>3, TakePlaceSound
  <2>4. ASSUME NEW x, InTree(t, d, x), NEW c \in Node \ t.alive, u \in SplitAt(t, d, n, x, c)
        PROVE  Forest(u, None)
    <3>1. CASE \E nFirst \in BOOLEAN : u = Split(t, d, n, x, c, nFirst)
      BY <2>2, <2>4, <3>1, SplitSound
    <3>2. CASE t.parent[x] # None /\
               \E S \in SUBSET Below(t, t.parent[x]) :
                 u = Turn(Split(t, d, n, t.parent[x], c, t.first[t.parent[x]] = x), S)
      <4> DEFINE p == t.parent[x]
                 s == Split(t, d, n, p, c, t.first[p] = x)
      <4>1. InTree(t, d, p)
        BY <1>1, <2>4, <3>2, TreeUp
      <4>2. (t.first[p] = x) \in BOOLEAN
        OBVIOUS
      <4>3. Forest(s, None)
        BY <2>2, <2>4, <4>1, <4>2, SplitSound
      <4>4. PICK S \in SUBSET Below(t, p) : u = Turn(s, S)
        BY <3>2
      <4>5. S \in SUBSET Node
        BY <1>1 DEF Below
      <4> HIDE DEF s
      <4> QED BY <4>3, <4>4, <4>5, TurnSound
    <3> QED BY <2>4, <3>1, <3>2 DEF SplitAt
  <2>5. \A x \in {a} \union Public(t, d) : InTree(t, d, x)
    BY <2>1 DEF Public, Nodes
  <2>6. (u = TakePlace(t, d, n, a) /\ IsReceptacle(t, a))
        \/ \E x \in {a} \union Public(t, d), c \in Node \ t.alive : u \in SplitAt(t, d, n, x, c)
    BY <1>3 DEF Inserted
  <2> QED BY <2>3, <2>4, <2>5, <2>6
<1> QED BY <1>2, <1>3

-----------------------------------------------------------------------------
(* unlink_node().                                                          *)

(* The links after unlink_node(), before the brother is turned.            *)
Lifted(t, d, n) ==
  [Free(Replace(t, d, t.parent[n], Brother(t, n)), {t.parent[n]}) EXCEPT !.parent[n] = None]

LEMMA LiftedLinks ==
  ASSUME NEW t \in Links, NEW d \in Desktop, NEW n \in Node,
         t.parent[n] \in Node, Brother(t, n) \in Node
  PROVE  LET u == Lifted(t, d, n)
             p == t.parent[n]
             b == Brother(t, n)
             q == t.parent[p]
         IN /\ u \in Links /\ u.alive = t.alive \ {p} /\ u.window = t.window
            /\ u.root = IF q = None THEN [t.root EXCEPT ![d] = b] ELSE t.root
            /\ \A y \in Node :
                 /\ u.parent[y] = IF y \in {n, p} THEN None ELSE IF y = b THEN q ELSE t.parent[y]
                 /\ u.first[y] = IF y = p THEN None
                                 ELSE IF y = q /\ t.first[q] = p THEN b ELSE t.first[y]
                 /\ u.second[y] = IF y = p THEN None
                                  ELSE IF y = q /\ t.first[q] # p THEN b ELSE t.second[y]
<1> DEFINE p == t.parent[n]
           b == Brother(t, n)
           q == t.parent[p]
           r == Replace(t, d, p, b)
           v == Free(r, {p})
           u == [v EXCEPT !.parent[n] = None]
<1> HIDE DEF p, b
<1>0. p \in Node /\ b \in Node
  BY DEF p, b
<1>1. /\ r \in Links /\ r.alive = t.alive /\ r.window = t.window
      /\ r.root = IF q = None THEN [t.root EXCEPT ![d] = b] ELSE t.root
      /\ \A y \in Node :
           /\ r.parent[y] = IF y = b THEN q ELSE t.parent[y]
           /\ r.first[y] = IF y = q /\ t.first[q] = p THEN b ELSE t.first[y]
           /\ r.second[y] = IF y = q /\ t.first[q] # p THEN b ELSE t.second[y]
  BY <1>0, ReplaceLinks
<1> HIDE DEF r
<1>2. /\ v \in Links /\ v.alive = r.alive \ {p} /\ v.window = r.window /\ v.root = r.root
      /\ \A y \in Node :
           /\ v.parent[y] = IF y \in {p} THEN None ELSE r.parent[y]
           /\ v.first[y] = IF y \in {p} THEN None ELSE r.first[y]
           /\ v.second[y] = IF y \in {p} THEN None ELSE r.second[y]
  BY <1>0, <1>1, FreeLinks
<1> HIDE DEF v
<1>3. /\ u \in Links /\ u.alive = v.alive /\ u.window = v.window /\ u.root = v.root
      /\ u.first = v.first /\ u.second = v.second
      /\ u.parent = [v.parent EXCEPT ![n] = None]
  BY <1>2 DEF Links
<1> HIDE DEF u
<1>4. \A y \in Node : u.parent[y] = IF y = n THEN None ELSE v.parent[y]
  BY <1>2, <1>3 DEF Links
<1>5. Lifted(t, d, n) = u
  BY DEF Lifted, u, v, r, p, b
<1>6. u.alive = t.alive \ {p} /\ u.window = t.window
      /\ u.root = IF q = None THEN [t.root EXCEPT ![d] = b] ELSE t.root
  BY <1>1, <1>2, <1>3
<1>7. ASSUME NEW y \in Node
      PROVE  /\ u.parent[y] = IF y \in {n, p} THEN None ELSE IF y = b THEN q ELSE t.parent[y]
             /\ u.first[y] = IF y = p THEN None
                             ELSE IF y = q /\ t.first[q] = p THEN b ELSE t.first[y]
             /\ u.second[y] = IF y = p THEN None
                              ELSE IF y = q /\ t.first[q] # p THEN b ELSE t.second[y]
  <2>1. u.parent[y] = IF y \in {n, p} THEN None ELSE IF y = b THEN q ELSE t.parent[y]
    BY <1>1, <1>2, <1>4
  <2>2. u.first[y] = IF y = p THEN None
                     ELSE IF y = q /\ t.first[q] = p THEN b ELSE t.first[y]
    BY <1>1, <1>2, <1>3
  <2>3. u.second[y] = IF y = p THEN None
                      ELSE IF y = q /\ t.first[q] # p THEN b ELSE t.second[y]
    BY <1>1, <1>2, <1>3
  <2> QED BY <2>1, <2>2, <2>3
<1> QED BY <1>3, <1>5, <1>6, <1>7 DEF p, b

(* A node with a parent has a brother.                                     *)
LEMMA BrotherFacts ==
  ASSUME NEW t, Forest(t, None), NEW n \in t.alive, t.parent[n] # None
  PROVE  LET p == t.parent[n]
             b == Brother(t, n)
         IN /\ p \in t.alive /\ b \in t.alive /\ n # b /\ p # n /\ p # b
            /\ t.parent[b] = p /\ {t.first[p], t.second[p]} = {n, b}
            /\ t.parent[p] # p /\ t.parent[p] # b
            /\ p \notin t.window
<1> DEFINE p == t.parent[n]
           b == Brother(t, n)
<1>0. None \notin Node /\ t \in Links /\ t.alive \subseteq Node
  BY TreeAssumption DEF Forest, Links
<1>1. p \in t.alive /\ n \in {t.first[p], t.second[p]}
  BY DEF Forest, ParentsSound
<1>2. ~IsLeaf(t, p)
  BY <1>0, <1>1 DEF IsLeaf
<1>3. /\ t.first[p] # t.second[p] /\ {t.first[p], t.second[p]} \subseteq t.alive
      /\ t.parent[t.first[p]] = p /\ t.parent[t.second[p]] = p /\ p \notin t.window
  BY <1>1, <1>2 DEF Forest, ChildrenSound
<1>4. b \in t.alive /\ n # b /\ t.parent[b] = p /\ {t.first[p], t.second[p]} = {n, b}
  BY <1>1, <1>3 DEF Brother
<1>5. \A S \in SUBSET t.alive : S # {} => \E y \in S : t.parent[y] \notin S
  BY DEF Forest, Acyclic
<1>6. p # n /\ p # b /\ t.parent[p] # p
  <2>1. \E y \in {p} : t.parent[y] \notin {p}
    BY <1>1, <1>5
  <2> QED BY <1>4, <2>1
<1>7. t.parent[p] # b
  <2>1. \E y \in {p, b} : t.parent[y] \notin {p, b}
    BY <1>1, <1>4, <1>5
  <2> QED BY <1>4, <2>1
<1> QED BY <1>1, <1>3, <1>4, <1>6, <1>7

(* The brother moves up and the links are sound, but for the loose node.   *)
LEMMA LiftedSound ==
  ASSUME NEW t, Forest(t, None), NEW d \in Desktop, NEW n, InTree(t, d, n),
         t.parent[n] # None
  PROVE  Forest(Lifted(t, d, n), n)
<1> DEFINE u == Lifted(t, d, n)
           p == t.parent[n]
           b == Brother(t, n)
           q == t.parent[p]
<1>0. None \notin Node
  BY TreeAssumption
<1>1. t \in Links /\ t.alive \subseteq Node /\ n \in t.alive
      /\ RootsSound(t, None) /\ ParentsSound(t, None)
  BY DEF Forest, Links, InTree, IsDescendant
<1>2. /\ p \in t.alive /\ b \in t.alive /\ n # b /\ p # n /\ p # b
      /\ t.parent[b] = p /\ {t.first[p], t.second[p]} = {n, b}
      /\ q # p /\ q # b /\ p \notin t.window
  BY <1>1, BrotherFacts
<1>3. InTree(t, d, p) /\ (q = None => t.root[d] = p)
  BY <1>1, TreeUp
<1>4. q = None \/ (q \in t.alive /\ p \in {t.first[q], t.second[q]})
  BY <1>2 DEF Forest, ParentsSound
<1>5. /\ u \in Links /\ u.alive = t.alive \ {p} /\ u.window = t.window
      /\ u.root = IF q = None THEN [t.root EXCEPT ![d] = b] ELSE t.root
      /\ \A y \in Node :
           /\ u.parent[y] = IF y \in {n, p} THEN None ELSE IF y = b THEN q ELSE t.parent[y]
           /\ u.first[y] = IF y = p THEN None
                           ELSE IF y = q /\ t.first[q] = p THEN b ELSE t.first[y]
           /\ u.second[y] = IF y = p THEN None
                            ELSE IF y = q /\ t.first[q] # p THEN b ELSE t.second[y]
  BY <1>1, <1>2, LiftedLinks
<1>6. t.root \in [Desktop -> Node \union {None}]
  BY <1>1 DEF Links
<1>7. ASSUME NEW y \in t.alive, t.parent[y] = p PROVE y \in {n, b}
  BY <1>0, <1>1, <1>2, <1>7 DEF ParentsSound
<1>8. t.parent[n] = p
  OBVIOUS
<1> HIDE DEF u, p, b, q
<1>9. RootsSound(u, n)
  <2> SUFFICES ASSUME NEW e \in Desktop, u.root[e] # None
               PROVE  /\ u.root[e] \in u.alive /\ u.root[e] # n
                      /\ u.parent[u.root[e]] = None
                      /\ \A g \in Desktop : u.root[g] = u.root[e] => g = e
    BY DEF RootsSound
  <2>1. ASSUME NEW g \in Desktop, t.root[g] # None
        PROVE  /\ t.root[g] \in t.alive /\ t.root[g] # n /\ t.root[g] # b
               /\ t.parent[t.root[g]] = None
               /\ \A h \in Desktop : t.root[h] = t.root[g] => h = g
    BY <1>0, <1>1, <1>2, <1>8, <2>1 DEF RootsSound
  <2>2. CASE q = None
    <3>1. t.root[d] = p
      BY <1>3, <2>2
    <3>2. CASE e = d
      BY <1>0, <1>1, <1>2, <1>5, <1>6, <2>1, <2>2, <3>2
    <3>3. CASE e # d
      <4>1. u.root[e] = t.root[e] /\ u.root[d] = b
        BY <1>5, <1>6, <2>2, <3>3
      <4>2. t.root[e] # p
        BY <1>0, <1>1, <1>2, <2>1, <3>1, <3>3
      <4>3. \A g \in Desktop : u.root[g] = u.root[e] => g = e
        BY <1>5, <1>6, <2>1, <2>2, <4>1
      <4> QED BY <1>1, <1>5, <2>1, <4>1, <4>2, <4>3
    <3> QED BY <3>2, <3>3
  <2>3. CASE q # None
    <3>1. u.root = t.root
      BY <1>5, <2>3
    <3>2. t.root[e] # p
      BY <2>1, <2>3, <3>1 DEF q
    <3> QED BY <1>1, <1>5, <2>1, <2>3, <3>1, <3>2
  <2> QED BY <2>2, <2>3
<1>10. ParentsSound(u, n)
  <2> SUFFICES ASSUME NEW y \in u.alive, y # n
               PROVE  IF u.parent[y] = None THEN \E e \in Desktop : u.root[e] = y
                      ELSE /\ u.parent[y] \in u.alive
                           /\ y \in {u.first[u.parent[y]], u.second[u.parent[y]]}
    BY <1>1, <1>2, <1>5 DEF ParentsSound
  <2>1. CASE y = b
    <3>1. u.parent[y] = q
      BY <1>1, <1>2, <1>5, <2>1
    <3>2. CASE q = None
      <4>1. u.root[d] = b
        BY <1>5, <1>6, <3>2
      <4> QED BY <2>1, <3>1, <3>2, <4>1
    <3>3. CASE q # None
      BY <1>1, <1>2, <1>4, <1>5, <2>1, <3>1, <3>3
    <3> QED BY <3>2, <3>3
  <2>2. CASE y # b
    <3>1. y \in t.alive /\ y # p /\ u.parent[y] = t.parent[y]
      BY <1>1, <1>5, <2>2
    <3>2. CASE t.parent[y] = None
      <4>1. PICK e \in Desktop : t.root[e] = y
        BY <1>0, <1>1, <3>1, <3>2 DEF ParentsSound
      <4>2. u.root[e] = y
        BY <1>3, <1>5, <1>6, <3>1, <4>1
      <4> QED BY <3>1, <3>2, <4>2
    <3>3. CASE t.parent[y] # None
      <4>1. t.parent[y] \in t.alive /\ y \in {t.first[t.parent[y]], t.second[t.parent[y]]}
        BY <1>1, <3>1, <3>3 DEF ParentsSound
      <4>2. t.parent[y] # p
        BY <1>7, <2>2, <3>1
      <4>3. t.parent[y] = q /\ t.first[q] # p => t.second[q] = p
        BY <1>0, <1>1, <1>4, <4>1
      <4> QED BY <1>1, <1>5, <3>1, <3>3, <4>1, <4>2, <4>3
    <3> QED BY <3>2, <3>3
  <2> QED BY <2>1, <2>2
<1>11. ChildrenSound(u)
  <2> SUFFICES ASSUME NEW y \in u.alive, ~IsLeaf(u, y)
               PROVE  /\ u.first[y] # u.second[y]
                      /\ {u.first[y], u.second[y]} \subseteq u.alive
                      /\ u.parent[u.first[y]] = y /\ u.parent[u.second[y]] = y
                      /\ y \notin u.window
    BY DEF ChildrenSound
  <2>1. y \in t.alive /\ y \in Node /\ y # p
    BY <1>1, <1>5
  <2>2. ~IsLeaf(t, y)
    <3>1. CASE y = q
      BY <1>0, <1>1, <1>2, <1>4, <2>1, <3>1 DEF IsLeaf
    <3>2. CASE y # q
      BY <1>5, <2>1, <3>2 DEF IsLeaf
    <3> QED BY <3>1, <3>2
  <2>3. /\ t.first[y] # t.second[y]
        /\ {t.first[y], t.second[y]} \subseteq t.alive
        /\ t.parent[t.first[y]] = y /\ t.parent[t.second[y]] = y
        /\ y \notin t.window
    BY <2>1, <2>2 DEF Forest, ChildrenSound
  <2>4. t.first[y] \notin {n, b} /\ t.second[y] \notin {n, b}
    BY <1>2, <1>8, <2>1, <2>3
  <2>5. CASE y = q
    BY <1>1, <1>2, <1>4, <1>5, <2>1, <2>3, <2>4, <2>5
  <2>6. CASE y # q
    <3>1. t.first[y] # p /\ t.second[y] # p
      BY <2>3, <2>6 DEF q
    <3> QED BY <1>1, <1>5, <2>1, <2>3, <2>4, <2>6, <3>1
  <2> QED BY <2>5, <2>6
<1>12. Acyclic(u)
  <2> SUFFICES ASSUME NEW S \in SUBSET u.alive, \A y \in S : u.parent[y] \in S
               PROVE  S = {}
    BY DEF Acyclic
  <2>0. \A T \in SUBSET t.alive : (\A y \in T : t.parent[y] \in T) => T = {}
    BY DEF Forest, Acyclic
  <2>1. None \notin S /\ p \notin S /\ n \notin S
    BY <1>0, <1>1, <1>2, <1>5
  <2> DEFINE T == IF b \in S THEN S \union {p} ELSE S
  <2>2. T \in SUBSET t.alive
    BY <1>2, <1>5
  <2>3. ASSUME NEW y \in T PROVE t.parent[y] \in T
    <3>1. CASE y = p
      <4>1. b \in S
        BY <2>1, <3>1
      <4>2. q \in S
        BY <1>1, <1>2, <1>5, <4>1
      <4> QED BY <3>1, <4>1, <4>2 DEF q
    <3>2. CASE y = b /\ y # p
      BY <1>2, <3>2
    <3>3. CASE y \notin {p, b}
      BY <1>1, <1>5, <2>1, <3>3
    <3> QED BY <3>1, <3>2, <3>3
  <2> QED BY <2>0, <2>2, <2>3
<1>13. u.window \subseteq u.alive
  BY <1>2, <1>5 DEF Forest
<1>14. n \in u.alive /\ u.parent[n] = None
  BY <1>1, <1>2, <1>5
<1> QED BY <1>5, <1>9, <1>10, <1>11, <1>12, <1>13, <1>14 DEF Forest, u

(* The anchor of a transfer, being neither the node, nor its parent, nor   *)
(* below the node, stays in its tree.                                      *)
LEMMA LiftedKeepsAnchor ==
  ASSUME NEW t, Forest(t, None), NEW d \in Desktop, NEW n, InTree(t, d, n),
         t.parent[n] # None, NEW e \in Desktop, NEW f, InTree(t, e, f),
         n # f, t.parent[n] # f, ~IsDescendant(t, f, n)
  PROVE  InTree(Lifted(t, d, n), e, f)
<1> DEFINE u == Lifted(t, d, n)
           p == t.parent[n]
           b == Brother(t, n)
           q == t.parent[p]
<1>0. None \notin Node
  BY TreeAssumption
<1>1. t \in Links /\ t.alive \subseteq Node /\ n \in t.alive /\ f \in t.alive
      /\ RootsSound(t, None) /\ ParentsSound(t, None)
  BY DEF Forest, Links, InTree, IsDescendant
<1>2. /\ p \in t.alive /\ b \in t.alive /\ n # b /\ p # n /\ p # b
      /\ t.parent[b] = p /\ {t.first[p], t.second[p]} = {n, b}
      /\ q # p /\ q # b /\ p \notin t.window
  BY <1>1, BrotherFacts
<1>3. InTree(t, d, p) /\ (q = None => t.root[d] = p)
  BY <1>1, TreeUp
<1>4. /\ u.alive = t.alive \ {p}
      /\ u.root = IF q = None THEN [t.root EXCEPT ![d] = b] ELSE t.root
      /\ \A y \in Node :
           u.parent[y] = IF y \in {n, p} THEN None ELSE IF y = b THEN q ELSE t.parent[y]
  BY <1>1, <1>2, LiftedLinks
<1>5. /\ f \in Above(t, f) /\ n \notin Above(t, f) /\ Above(t, f) \in SUBSET t.alive
      /\ UpClosed(t, Above(t, f))
  BY <1>1, AboveClosed DEF Above
<1>6. /\ t.root[e] # None /\ t.root[e] \in t.alive
      /\ t.parent[t.root[e]] = None
      /\ \A g \in Desktop : t.root[g] = t.root[e] => g = e
      /\ \A B \in SUBSET t.alive : f \in B /\ UpClosed(t, B) => t.root[e] \in B
  BY <1>1 DEF InTree, IsDescendant, RootsSound
<1>7. t.root \in [Desktop -> Node \union {None}]
  BY <1>1 DEF Links
<1>8. ~IsDescendant(t, f, n) /\ f # p
  OBVIOUS
<1> HIDE DEF u, p, b, q
<1>9. ASSUME NEW A \in SUBSET u.alive, f \in A, UpClosed(u, A)
      PROVE  u.root[e] \in A /\ u.root[e] # None
  <2> DEFINE C == A \intersect Above(t, f)
             B == IF b \in C THEN C \union {p} ELSE C
  <2>1. p \notin A /\ B \in SUBSET t.alive /\ f \in B
    BY <1>2, <1>4, <1>5, <1>9
  <2>2. ASSUME NEW y \in B, t.parent[y] # None PROVE t.parent[y] \in B
    <3>1. CASE y = p
      <4>1. b \in A /\ b \in Above(t, f)
        BY <2>1, <3>1
      <4>2. p \in Above(t, f)
        BY <1>0, <1>1, <1>2, <1>5, <4>1 DEF UpClosed
      <4>3. q \in Above(t, f)
        BY <1>5, <2>2, <3>1, <4>2 DEF UpClosed, q
      <4>4. u.parent[b] = q
        BY <1>1, <1>2, <1>4
      <4>5. q \in A
        BY <1>9, <2>2, <3>1, <4>1, <4>4 DEF UpClosed, q
      <4> QED BY <3>1, <4>3, <4>5 DEF q
    <3>2. CASE y = b /\ y # p
      BY <1>2, <3>2
    <3>3. CASE y \notin {p, b}
      <4>1. y \in A /\ y \in Above(t, f) /\ y # n
        BY <1>5, <3>3
      <4>2. u.parent[y] = t.parent[y]
        BY <1>1, <1>4, <2>1, <3>3, <4>1
      <4>3. t.parent[y] \in A
        BY <1>9, <2>2, <4>1, <4>2 DEF UpClosed
      <4>4. t.parent[y] \in Above(t, f)
        BY <1>5, <2>2, <4>1 DEF UpClosed
      <4> QED BY <4>3, <4>4
    <3> QED BY <3>1, <3>2, <3>3
  <2>3. UpClosed(t, B)
    BY <2>2 DEF UpClosed
  <2>4. t.root[e] \in B
    BY <1>6, <2>1, <2>3
  <2>5. CASE t.root[e] = p
    <3>1. q = None
      BY <1>6, <2>5 DEF q
    <3>2. e = d
      BY <1>3, <1>6, <2>5, <3>1
    <3>3. u.root[e] = b
      BY <1>4, <1>7, <3>1, <3>2
    <3> QED BY <1>0, <1>1, <1>2, <2>1, <2>4, <2>5, <3>3
  <2>6. CASE t.root[e] # p
    <3>1. u.root[e] = t.root[e]
      BY <1>3, <1>4, <1>7, <2>6
    <3> QED BY <1>6, <2>4, <2>6, <3>1
  <2> QED BY <2>5, <2>6
<1>10. f \in u.alive
  BY <1>1, <1>4, <1>8
<1>11. u.alive \in SUBSET u.alive /\ UpClosed(u, u.alive)
  <2>1. \A y \in u.alive : u.parent[y] = None \/ u.parent[y] \in u.alive
    <3> SUFFICES ASSUME NEW y \in u.alive PROVE u.parent[y] = None \/ u.parent[y] \in u.alive
      OBVIOUS
    <3>1. CASE y = b
      BY <1>1, <1>2, <1>4, <3>1 DEF ParentsSound, q
    <3>2. CASE y \notin {b, n}
      BY <1>0, <1>1, <1>2, <1>4, <3>2 DEF ParentsSound
    <3>3. CASE y = n
      BY <1>1, <1>4, <3>3
    <3> QED BY <3>1, <3>2, <3>3
  <2> QED BY <2>1 DEF UpClosed
<1>12. u.root[e] # None /\ u.root[e] \in u.alive
  BY <1>9, <1>10, <1>11
<1>13. InTree(u, e, f)
  BY <1>9, <1>10, <1>12 DEF InTree, IsDescendant
<1> QED BY <1>13 DEF u

(* Whatever unlink_node() makes of the trees, the links are sound but for  *)
(* the node, and the anchor of a transfer stays in its tree.               *)
LEMMA UnlinkSound ==
  ASSUME NEW t, Forest(t, None), NEW d \in Desktop, NEW n, InTree(t, d, n),
         NEW u \in Unlinked(t, d, n)
  PROVE  /\ Forest(u, n)
         /\ \A e \in Desktop, f \in Node :
              InTree(t, e, f) /\ n # f /\ t.parent[n] # f /\ ~IsDescendant(t, f, n)
                => InTree(u, e, f)
<1>0. None \notin Node
  BY TreeAssumption
<1>1. t \in Links /\ t.alive \subseteq Node /\ n \in t.alive
      /\ RootsSound(t, None) /\ ParentsSound(t, None)
  BY DEF Forest, Links, InTree, IsDescendant
<1>2. CASE t.parent[n] = None
  <2>1. t.root[d] = n
    BY <1>1, <1>2, TreeUp
  <2>2. u = [t EXCEPT !.root[d] = None]
    BY <1>2 DEF Unlinked
  <2>3. /\ u \in Links /\ u.alive = t.alive /\ u.window = t.window /\ u.parent = t.parent
        /\ u.first = t.first /\ u.second = t.second /\ u.root = [t.root EXCEPT ![d] = None]
    BY <1>1, <2>2 DEF Links
  <2>4. u.root[d] = None /\ \A e \in Desktop : e # d => u.root[e] = t.root[e]
    BY <1>1, <2>3 DEF Links
  <2>5. RootsSound(u, n)
    BY <2>1, <2>3, <2>4, <1>0, <1>1 DEF RootsSound
  <2>6. ParentsSound(u, n)
    <3> SUFFICES ASSUME NEW y \in t.alive, y # n, t.parent[y] = None
                 PROVE  \E e \in Desktop : u.root[e] = y
      BY <1>1, <2>3 DEF ParentsSound
    <3>1. PICK e \in Desktop : t.root[e] = y
      BY <1>0, <1>1 DEF ParentsSound
    <3> QED BY <2>1, <2>4, <3>1
  <2>7. ChildrenSound(u) /\ Acyclic(u)
    BY <2>3 DEF Forest, ChildrenSound, IsLeaf, Acyclic
  <2>8. Forest(u, n)
    BY <1>1, <1>2, <2>3, <2>5, <2>6, <2>7 DEF Forest
  <2>9. ASSUME NEW e \in Desktop, NEW f \in Node, InTree(t, e, f), ~IsDescendant(t, f, n)
        PROVE  InTree(u, e, f)
    <3>1. e # d
      BY <2>1, <2>9 DEF InTree
    <3>2. \A A : UpClosed(u, A) <=> UpClosed(t, A)
      BY <2>3 DEF UpClosed
    <3> QED BY <2>3, <2>4, <2>9, <3>1, <3>2 DEF InTree, IsDescendant
  <2> QED BY <2>8, <2>9
<1>3. CASE t.parent[n] # None
  <2> DEFINE l == Lifted(t, d, n)
  <2>1. PICK S \in SUBSET Below(t, Brother(t, n)) : u = Turn(l, S)
    BY <1>3 DEF Unlinked, Lifted
  <2>2. S \in SUBSET Node
    BY <1>1 DEF Below
  <2>3. Forest(l, n) /\ l \in Links
    BY <1>3, LiftedSound DEF Forest
  <2>4. \A e \in Desktop, f \in Node :
          InTree(t, e, f) /\ n # f /\ t.parent[n] # f /\ ~IsDescendant(t, f, n)
            => InTree(l, e, f)
    BY <1>3, LiftedKeepsAnchor
  <2> HIDE DEF l
  <2>5. Forest(u, n)
    BY <2>1, <2>2, <2>3, TurnSound
  <2> QED BY <2>1, <2>2, <2>3, <2>4, <2>5, TurnKeepsTrees
<1> QED BY <1>2, <1>3

-----------------------------------------------------------------------------
(* free_node() and swap_nodes().                                           *)

(* What Freed does to the links.                                           *)
LEMMA FreedLinks ==
  ASSUME NEW t \in Links, NEW n, t.alive \subseteq Node
  PROVE  LET u == Freed(t, n)
             W == Below(t, n)
         IN /\ u \in Links /\ u.alive = t.alive \ W /\ u.window = t.window \ W
            /\ u.root = t.root
            /\ \A y \in Node \ W :
                 /\ u.parent[y] = t.parent[y]
                 /\ u.first[y] = t.first[y]
                 /\ u.second[y] = t.second[y]
<1> DEFINE W == Below(t, n)
           v == Free(t, W)
           u == [v EXCEPT !.window = @ \ W]
<1>0. W \in SUBSET Node
  BY DEF Below
<1> HIDE DEF W
<1>1. /\ v \in Links /\ v.alive = t.alive \ W /\ v.window = t.window /\ v.root = t.root
      /\ \A y \in Node :
           /\ v.parent[y] = IF y \in W THEN None ELSE t.parent[y]
           /\ v.first[y] = IF y \in W THEN None ELSE t.first[y]
           /\ v.second[y] = IF y \in W THEN None ELSE t.second[y]
  BY <1>0, FreeLinks
<1> HIDE DEF v
<1>2. /\ u \in Links /\ u.alive = v.alive /\ u.window = v.window \ W /\ u.root = v.root
      /\ u.parent = v.parent /\ u.first = v.first /\ u.second = v.second
  BY <1>1 DEF Links
<1> HIDE DEF u
<1>3. Freed(t, n) = u
  BY DEF Freed, u, v, W
<1>4. \A y \in Node \ W : /\ u.parent[y] = t.parent[y]
                          /\ u.first[y] = t.first[y]
                          /\ u.second[y] = t.second[y]
  BY <1>1, <1>2
<1>5. u.alive = t.alive \ W /\ u.window = t.window \ W /\ u.root = t.root
  BY <1>1, <1>2
<1> QED BY <1>2, <1>3, <1>4, <1>5 DEF W

(* No pointer of the trees leads to the nodes that are freed.              *)
LEMMA FreedSound ==
  ASSUME NEW t, NEW n \in Node, Forest(t, n)
  PROVE  Forest(Freed(t, n), None)
<1> DEFINE u == Freed(t, n)
           W == Below(t, n)
<1>0. None \notin Node
  BY TreeAssumption
<1>1. t \in Links /\ t.alive \subseteq Node /\ n \in t.alive /\ t.parent[n] = None
      /\ RootsSound(t, n) /\ ParentsSound(t, n) /\ ChildrenSound(t) /\ Acyclic(t)
      /\ t.window \subseteq t.alive
  BY <1>0 DEF Forest, Links
<1>2. /\ u \in Links /\ u.alive = t.alive \ W /\ u.window = t.window \ W /\ u.root = t.root
      /\ \A y \in Node \ W :
           /\ u.parent[y] = t.parent[y]
           /\ u.first[y] = t.first[y]
           /\ u.second[y] = t.second[y]
  BY <1>1, FreedLinks
<1>3. n \in W
  BY <1>1, DescendantSelf DEF Below
<1>4. ASSUME NEW y \in W, y # n PROVE t.parent[y] # None /\ t.parent[y] \in W
  <2>1. y \in t.alive /\ IsDescendant(t, y, n)
    BY DEF Below
  <2>2. t.parent[y] # None /\ (t.parent[y] \in t.alive => IsDescendant(t, t.parent[y], n))
    BY <1>1, <1>4, <2>1, DescendantUp
  <2>3. t.parent[y] \in t.alive
    BY <1>1, <2>1, <2>2 DEF ParentsSound
  <2> QED BY <2>2, <2>3 DEF Below
<1>5. ASSUME NEW y \in t.alive, t.parent[y] \in W PROVE y \in W
  <2>1. t.parent[y] # None /\ IsDescendant(t, t.parent[y], n)
    BY <1>0, <1>1, <1>5 DEF Below
  <2> QED BY <1>1, <2>1, DescendantDown DEF Below
<1> HIDE DEF u, W
<1>6. RootsSound(u, None)
  <2> SUFFICES ASSUME NEW e \in Desktop, t.root[e] # None
               PROVE  /\ t.root[e] \in u.alive /\ u.parent[t.root[e]] = None
                      /\ \A g \in Desktop : t.root[g] = t.root[e] => g = e
    BY <1>2 DEF RootsSound
  <2>1. /\ t.root[e] \in t.alive /\ t.root[e] # n /\ t.parent[t.root[e]] = None
        /\ \A g \in Desktop : t.root[g] = t.root[e] => g = e
    BY <1>1 DEF RootsSound
  <2>2. t.root[e] \notin W
    BY <1>4, <2>1
  <2> QED BY <1>1, <1>2, <2>1, <2>2
<1>7. ParentsSound(u, None)
  <2> SUFFICES ASSUME NEW y \in u.alive
               PROVE  IF u.parent[y] = None THEN \E e \in Desktop : u.root[e] = y
                      ELSE /\ u.parent[y] \in u.alive
                           /\ y \in {u.first[u.parent[y]], u.second[u.parent[y]]}
    BY DEF ParentsSound
  <2>1. y \in t.alive /\ y \notin W /\ y # n /\ u.parent[y] = t.parent[y]
    BY <1>1, <1>2, <1>3
  <2>2. CASE t.parent[y] = None
    BY <1>1, <1>2, <2>1, <2>2 DEF ParentsSound
  <2>3. CASE t.parent[y] # None
    <3>1. t.parent[y] \in t.alive /\ t.parent[y] \notin W
          /\ y \in {t.first[t.parent[y]], t.second[t.parent[y]]}
      BY <1>1, <1>5, <2>1, <2>3 DEF ParentsSound
    <3> QED BY <1>1, <1>2, <2>1, <2>3, <3>1
  <2> QED BY <2>2, <2>3
<1>8. ChildrenSound(u)
  <2> SUFFICES ASSUME NEW y \in u.alive, ~IsLeaf(u, y)
               PROVE  /\ u.first[y] # u.second[y]
                      /\ {u.first[y], u.second[y]} \subseteq u.alive
                      /\ u.parent[u.first[y]] = y /\ u.parent[u.second[y]] = y
                      /\ y \notin u.window
    BY DEF ChildrenSound
  <2>1. y \in t.alive /\ y \notin W /\ y \in Node /\ u.first[y] = t.first[y]
        /\ u.second[y] = t.second[y]
    BY <1>1, <1>2
  <2>2. ~IsLeaf(t, y)
    BY <2>1 DEF IsLeaf
  <2>3. /\ t.first[y] # t.second[y]
        /\ {t.first[y], t.second[y]} \subseteq t.alive
        /\ t.parent[t.first[y]] = y /\ t.parent[t.second[y]] = y
        /\ y \notin t.window
    BY <1>1, <2>1, <2>2 DEF ChildrenSound
  <2>4. t.first[y] \notin W /\ t.second[y] \notin W
    BY <1>0, <1>1, <1>4, <2>1, <2>3
  <2> QED BY <1>1, <1>2, <2>1, <2>3, <2>4
<1>9. Acyclic(u)
  <2> SUFFICES ASSUME NEW S \in SUBSET u.alive, S # {}
               PROVE  \E y \in S : u.parent[y] \notin S
    BY DEF Acyclic
  <2>1. S \in SUBSET t.alive
    BY <1>2
  <2>2. PICK y \in S : t.parent[y] \notin S
    BY <1>1, <2>1 DEF Acyclic
  <2>3. u.parent[y] = t.parent[y]
    BY <1>1, <1>2
  <2> QED BY <2>2, <2>3
<1>10. u.window \subseteq u.alive
  BY <1>1, <1>2
<1> QED BY <1>2, <1>6, <1>7, <1>8, <1>9, <1>10 DEF Forest, u

(* What Swapped does to the links.                                         *)
LEMMA SwappedLinks ==
  ASSUME NEW t \in Links, NEW d1 \in Desktop, NEW n1 \in Node,
         NEW d2 \in Desktop, NEW n2 \in Node, n1 # n2
  PROVE  LET u == Swapped(t, d1, n1, d2, n2)
             p1 == t.parent[n1]
             p2 == t.parent[n2]
         IN /\ u \in Links /\ u.alive = t.alive /\ u.window = t.window
            /\ \A d \in Desktop :
                 u.root[d] = IF d1 # d2 /\ d = d1 /\ t.root[d1] = n1 THEN n2
                             ELSE IF d1 # d2 /\ d = d2 /\ t.root[d2] = n2 THEN n1
                             ELSE t.root[d]
            /\ \A y \in Node :
                 /\ u.parent[y] = IF y = n1 THEN p2 ELSE IF y = n2 THEN p1 ELSE t.parent[y]
                 /\ u.first[y] = IF y = p2 /\ t.first[p2] = n2 THEN n1
                                 ELSE IF y = p1 /\ t.first[p1] = n1 THEN n2 ELSE t.first[y]
                 /\ u.second[y] = IF y = p2 /\ t.first[p2] # n2 THEN n1
                                  ELSE IF y = p1 /\ t.first[p1] # n1 THEN n2 ELSE t.second[y]
<1> DEFINE p1 == t.parent[n1]
           p2 == t.parent[n2]
           Child(s, p, wasFirst, n) ==
             CASE p = None -> s
               [] p # None /\ wasFirst -> [s EXCEPT !.first[p] = n]
               [] OTHER -> [s EXCEPT !.second[p] = n]
           v == Child(t, p1, t.first[p1] = n1, n2)
           w == Child(v, p2, t.first[p2] = n2, n1)
           u == [w EXCEPT !.parent[n1] = p2, !.parent[n2] = p1,
                   !.root = [d \in Desktop |->
                               CASE d1 # d2 /\ d = d1 /\ t.root[d1] = n1 -> n2
                                 [] d1 # d2 /\ d = d2 /\ t.root[d2] = n2 -> n1
                                 [] OTHER -> t.root[d]]]
<1>0. None \notin Node
  BY TreeAssumption
<1>1. /\ p1 \in Node \union {None} /\ p2 \in Node \union {None}
      /\ t.first \in [Node -> Node \union {None}] /\ t.second \in [Node -> Node \union {None}]
      /\ t.parent \in [Node -> Node \union {None}] /\ t.root \in [Desktop -> Node \union {None}]
  BY DEF Links
<1> HIDE DEF p1, p2
<1>4. /\ v \in Links /\ v.alive = t.alive /\ v.window = t.window
      /\ v.root = t.root /\ v.parent = t.parent
      /\ \A y \in Node :
           /\ v.first[y] = IF y = p1 /\ t.first[p1] = n1 THEN n2 ELSE t.first[y]
           /\ v.second[y] = IF y = p1 /\ t.first[p1] # n1 THEN n2 ELSE t.second[y]
  <2>1. CASE p1 = None
    BY <1>0, <1>1, <2>1
  <2>2. CASE p1 # None /\ t.first[p1] = n1
    BY <1>0, <1>1, <2>2 DEF Links
  <2>3. CASE p1 # None /\ t.first[p1] # n1
    BY <1>0, <1>1, <2>3 DEF Links
  <2> QED BY <2>1, <2>2, <2>3
<1> HIDE DEF v
<1>5. /\ w \in Links /\ w.alive = v.alive /\ w.window = v.window
      /\ w.root = v.root /\ w.parent = v.parent
      /\ \A y \in Node :
           /\ w.first[y] = IF y = p2 /\ t.first[p2] = n2 THEN n1 ELSE v.first[y]
           /\ w.second[y] = IF y = p2 /\ t.first[p2] # n2 THEN n1 ELSE v.second[y]
  <2>1. CASE p2 = None
    BY <1>0, <1>1, <1>4, <2>1
  <2>2. CASE p2 # None /\ t.first[p2] = n2
    BY <1>0, <1>1, <1>4, <2>2 DEF Links
  <2>3. CASE p2 # None /\ t.first[p2] # n2
    BY <1>0, <1>1, <1>4, <2>3 DEF Links
  <2> QED BY <2>1, <2>2, <2>3
<1> HIDE DEF w
<1>6. /\ u \in Links /\ u.alive = w.alive /\ u.window = w.window
      /\ u.first = w.first /\ u.second = w.second
      /\ u.parent = [w.parent EXCEPT ![n1] = p2, ![n2] = p1]
      /\ u.root = [d \in Desktop |->
                     CASE d1 # d2 /\ d = d1 /\ t.root[d1] = n1 -> n2
                       [] d1 # d2 /\ d = d2 /\ t.root[d2] = n2 -> n1
                       [] OTHER -> t.root[d]]
  BY <1>1, <1>5 DEF Links
<1> HIDE DEF u
<1>7. ASSUME NEW d \in Desktop
      PROVE  u.root[d] = IF d1 # d2 /\ d = d1 /\ t.root[d1] = n1 THEN n2
                         ELSE IF d1 # d2 /\ d = d2 /\ t.root[d2] = n2 THEN n1
                         ELSE t.root[d]
  BY <1>6
<1>8. ASSUME NEW y \in Node
      PROVE  /\ u.parent[y] = IF y = n1 THEN p2 ELSE IF y = n2 THEN p1 ELSE t.parent[y]
             /\ u.first[y] = IF y = p2 /\ t.first[p2] = n2 THEN n1
                             ELSE IF y = p1 /\ t.first[p1] = n1 THEN n2 ELSE t.first[y]
             /\ u.second[y] = IF y = p2 /\ t.first[p2] # n2 THEN n1
                              ELSE IF y = p1 /\ t.first[p1] # n1 THEN n2 ELSE t.second[y]
  <2>1. u.parent[y] = IF y = n1 THEN p2 ELSE IF y = n2 THEN p1 ELSE t.parent[y]
    BY <1>1, <1>4, <1>5, <1>6
  <2>2. u.first[y] = IF y = p2 /\ t.first[p2] = n2 THEN n1
                     ELSE IF y = p1 /\ t.first[p1] = n1 THEN n2 ELSE t.first[y]
    BY <1>4, <1>5, <1>6
  <2>3. u.second[y] = IF y = p2 /\ t.first[p2] # n2 THEN n1
                      ELSE IF y = p1 /\ t.first[p1] # n1 THEN n2 ELSE t.second[y]
    BY <1>4, <1>5, <1>6
  <2> QED BY <2>1, <2>2, <2>3
<1>9. u.alive = t.alive /\ u.window = t.window
  BY <1>4, <1>5, <1>6
<1>10. Swapped(t, d1, n1, d2, n2) = u
  BY DEF Swapped, u, w, v, Child, p1, p2
<1> QED BY <1>6, <1>7, <1>8, <1>9, <1>10 DEF p1, p2

(* Two nodes of which neither is above the other change places.            *)
LEMMA SwapSound ==
  ASSUME NEW t, Forest(t, None), NEW d1 \in Desktop, NEW n1, InTree(t, d1, n1),
         NEW d2 \in Desktop, NEW n2, InTree(t, d2, n2), n1 # n2,
         ~IsDescendant(t, n1, n2), ~IsDescendant(t, n2, n1)
  PROVE  Forest(Swapped(t, d1, n1, d2, n2), None)
<1> DEFINE u == Swapped(t, d1, n1, d2, n2)
           p1 == t.parent[n1]
           p2 == t.parent[n2]
<1>0. None \notin Node
  BY TreeAssumption
<1>1. /\ t \in Links /\ t.alive \subseteq Node /\ n1 \in t.alive /\ n2 \in t.alive
      /\ RootsSound(t, None) /\ ParentsSound(t, None)
      /\ ChildrenSound(t) /\ Acyclic(t) /\ t.window \subseteq t.alive
  BY DEF Forest, Links, InTree, IsDescendant
<1>2. /\ u \in Links /\ u.alive = t.alive /\ u.window = t.window
      /\ \A d \in Desktop :
           u.root[d] = IF d1 # d2 /\ d = d1 /\ t.root[d1] = n1 THEN n2
                       ELSE IF d1 # d2 /\ d = d2 /\ t.root[d2] = n2 THEN n1
                       ELSE t.root[d]
      /\ \A y \in Node :
           /\ u.parent[y] = IF y = n1 THEN p2 ELSE IF y = n2 THEN p1 ELSE t.parent[y]
           /\ u.first[y] = IF y = p2 /\ t.first[p2] = n2 THEN n1
                           ELSE IF y = p1 /\ t.first[p1] = n1 THEN n2 ELSE t.first[y]
           /\ u.second[y] = IF y = p2 /\ t.first[p2] # n2 THEN n1
                            ELSE IF y = p1 /\ t.first[p1] # n1 THEN n2 ELSE t.second[y]
  BY <1>1, SwappedLinks
<1>3. p1 = None <=> t.root[d1] = n1
  BY <1>0, <1>1, TreeUp DEF RootsSound
<1>4. p2 = None <=> t.root[d2] = n2
  BY <1>0, <1>1, TreeUp DEF RootsSound
<1>5. d1 = d2 => p1 # None /\ p2 # None
  BY <1>1, <1>3, <1>4 DEF InTree
<1>6. /\ p1 # None => p1 \in t.alive /\ n1 \in {t.first[p1], t.second[p1]}
      /\ p2 # None => p2 \in t.alive /\ n2 \in {t.first[p2], t.second[p2]}
  BY <1>1 DEF ParentsSound
<1>7. p1 \notin {n1, n2} /\ p2 \notin {n1, n2}
  <2>1. IsDescendant(t, n1, n1) /\ IsDescendant(t, n2, n2)
    BY <1>1, DescendantSelf
  <2>2. p1 # None => ~IsDescendant(t, p1, n1) /\ ~IsDescendant(t, p1, n2)
    BY <1>1, ParentNotBelow, DescendantDown
  <2>3. p2 # None => ~IsDescendant(t, p2, n2) /\ ~IsDescendant(t, p2, n1)
    BY <1>1, ParentNotBelow, DescendantDown
  <2> QED BY <1>0, <1>1, <2>1, <2>2, <2>3
<1>8. /\ p1 # None => ~IsDescendant(t, p1, n1) /\ ~IsDescendant(t, p1, n2)
      /\ p2 # None => ~IsDescendant(t, p2, n2) /\ ~IsDescendant(t, p2, n1)
  BY <1>1, ParentNotBelow, DescendantDown
<1> HIDE DEF u
<1>9. RootsSound(u, None)
  <2> SUFFICES ASSUME NEW e \in Desktop, u.root[e] # None
               PROVE  /\ u.root[e] \in u.alive
                      /\ u.parent[u.root[e]] = None
                      /\ \A g \in Desktop : u.root[g] = u.root[e] => g = e
    BY DEF RootsSound
  <2>1. ASSUME NEW g \in Desktop, t.root[g] # None
        PROVE  /\ t.root[g] \in t.alive /\ t.parent[t.root[g]] = None
               /\ \A h \in Desktop : t.root[h] = t.root[g] => h = g
               /\ t.root[g] = n1 => g = d1 /\ p1 = None
               /\ t.root[g] = n2 => g = d2 /\ p2 = None
    BY <1>0, <1>1, <1>3, <1>4, <2>1 DEF RootsSound
  <2>2. /\ t.root[d1] # None /\ t.root[d2] # None
    BY DEF InTree
  <2>3. u.root[e] \in u.alive /\ u.parent[u.root[e]] = None
    <3>1. CASE d1 # d2 /\ e = d1 /\ t.root[d1] = n1
      BY <1>1, <1>2, <1>3, <3>1
    <3>2. CASE d1 # d2 /\ e = d2 /\ t.root[d2] = n2
      BY <1>1, <1>2, <1>4, <3>2
    <3>3. CASE ~(d1 # d2 /\ e = d1 /\ t.root[d1] = n1) /\ ~(d1 # d2 /\ e = d2 /\ t.root[d2] = n2)
      <4>1. u.root[e] = t.root[e]
        BY <1>2, <3>3
      <4>2. t.root[e] \notin {n1, n2}
        BY <1>5, <2>1, <3>3, <4>1
      <4> QED BY <1>1, <1>2, <2>1, <4>1, <4>2
    <3> QED BY <3>1, <3>2, <3>3
  <2>4. ASSUME NEW g \in Desktop, u.root[g] = u.root[e] PROVE g = e
    <3>1. CASE d1 = d2
      BY <1>2, <2>1, <2>4, <3>1
    <3>2. CASE d1 # d2
      BY <1>0, <1>1, <1>2, <2>1, <2>2, <2>4, <3>2
    <3> QED BY <3>1, <3>2
  <2> QED BY <2>3, <2>4
<1>10. ParentsSound(u, None)
  <2> SUFFICES ASSUME NEW y \in u.alive
               PROVE  IF u.parent[y] = None THEN \E e \in Desktop : u.root[e] = y
                      ELSE /\ u.parent[y] \in u.alive
                           /\ y \in {u.first[u.parent[y]], u.second[u.parent[y]]}
    BY DEF ParentsSound
  <2>1. CASE y = n1
    <3>1. u.parent[y] = p2
      BY <1>1, <1>2, <2>1
    <3>2. CASE p2 = None
      BY <1>2, <1>4, <1>5, <2>1, <3>1, <3>2
    <3>3. CASE p2 # None
      BY <1>1, <1>2, <1>6, <2>1, <3>1, <3>3
    <3> QED BY <3>2, <3>3
  <2>2. CASE y = n2
    <3>1. u.parent[y] = p1
      BY <1>1, <1>2, <2>2
    <3>2. CASE p1 = None
      BY <1>2, <1>3, <1>5, <2>2, <3>1, <3>2
    <3>3. CASE p1 # None
      <4>1. p1 \in t.alive /\ p1 \in Node
        BY <1>1, <1>6, <3>3
      <4>2. CASE t.first[p1] = n1
        BY <1>1, <1>2, <2>2, <3>1, <3>3, <4>1, <4>2
      <4>3. CASE t.first[p1] # n1
        <5>1. ~(p1 = p2 /\ t.first[p2] # n2)
          BY <1>6, <3>3, <4>3
        <5> QED BY <1>1, <1>2, <2>2, <3>1, <3>3, <4>1, <4>3, <5>1
      <4> QED BY <4>2, <4>3
    <3> QED BY <3>2, <3>3
  <2>3. CASE y \notin {n1, n2}
    <3>1. u.parent[y] = t.parent[y]
      BY <1>1, <1>2, <2>3
    <3>2. CASE t.parent[y] = None
      <4>1. PICK e \in Desktop : t.root[e] = y
        BY <1>0, <1>1, <1>2, <3>2 DEF ParentsSound
      <4>2. u.root[e] = y
        BY <1>2, <2>3, <4>1
      <4> QED BY <3>1, <3>2, <4>2
    <3>3. CASE t.parent[y] # None
      <4>1. t.parent[y] \in t.alive /\ y \in {t.first[t.parent[y]], t.second[t.parent[y]]}
        BY <1>1, <1>2, <3>3 DEF ParentsSound
      <4> DEFINE z == t.parent[y]
      <4>2. CASE y = t.first[z]
        BY <1>1, <1>2, <2>3, <3>1, <3>3, <4>1, <4>2
      <4>3. CASE y = t.second[z]
        <5>1. z = p1 /\ t.first[p1] # n1 => t.second[p1] = n1
          BY <1>6, <3>3
        <5>2. z = p2 /\ t.first[p2] # n2 => t.second[p2] = n2
          BY <1>6, <3>3
        <5> QED BY <1>1, <1>2, <2>3, <3>1, <3>3, <4>1, <4>3, <5>1, <5>2
      <4> QED BY <4>1, <4>2, <4>3
    <3> QED BY <3>2, <3>3
  <2> QED BY <2>1, <2>2, <2>3
<1>11. ChildrenSound(u)
  <2> SUFFICES ASSUME NEW y \in t.alive, ~IsLeaf(u, y)
               PROVE  /\ u.first[y] # u.second[y]
                      /\ {u.first[y], u.second[y]} \subseteq t.alive
                      /\ u.parent[u.first[y]] = y /\ u.parent[u.second[y]] = y
                      /\ y \notin t.window
    BY <1>2 DEF ChildrenSound
  <2>1. y \in Node
    BY <1>1
  <2>2. ~IsLeaf(t, y)
    <3>1. CASE y \in {p1, p2}
      BY <1>0, <1>1, <1>6, <2>1, <3>1 DEF IsLeaf
    <3>2. CASE y \notin {p1, p2}
      BY <1>2, <2>1, <3>2 DEF IsLeaf
    <3> QED BY <3>1, <3>2
  <2>3. /\ t.first[y] # t.second[y]
        /\ {t.first[y], t.second[y]} \subseteq t.alive
        /\ t.parent[t.first[y]] = y /\ t.parent[t.second[y]] = y
        /\ y \notin t.window
    BY <1>1, <2>2 DEF ChildrenSound
  <2>4. CASE y = p1 /\ y = p2
    BY <1>1, <1>2, <1>6, <2>1, <2>3, <2>4
  <2>5. CASE y = p1 /\ y # p2
    <3>1. t.first[y] # n2 /\ t.second[y] # n2
      BY <2>3, <2>5
    <3>2. y # None
      BY <1>0, <2>1
    <3> QED BY <1>1, <1>2, <1>6, <2>1, <2>3, <2>5, <3>1, <3>2
  <2>6. CASE y # p1 /\ y = p2
    <3>1. t.first[y] # n1 /\ t.second[y] # n1
      BY <2>3, <2>6
    <3>2. y # None
      BY <1>0, <2>1
    <3> QED BY <1>1, <1>2, <1>6, <2>1, <2>3, <2>6, <3>1, <3>2
  <2>7. CASE y # p1 /\ y # p2
    <3>1. t.first[y] \notin {n1, n2} /\ t.second[y] \notin {n1, n2}
      BY <2>3, <2>7
    <3> QED BY <1>1, <1>2, <2>1, <2>3, <2>7, <3>1
  <2> QED BY <2>4, <2>5, <2>6, <2>7
<1>12. Acyclic(u)
  <2> SUFFICES ASSUME NEW S \in SUBSET t.alive, \A y \in S : u.parent[y] \in S
               PROVE  S = {}
    BY <1>2 DEF Acyclic
  <2>0. \A T \in SUBSET t.alive : (\A y \in T : t.parent[y] \in T) => T = {}
    BY <1>1 DEF Acyclic
  <2>1. None \notin S
    BY <1>0, <1>1
  <2>2. ASSUME NEW p \in t.alive, ~IsDescendant(t, p, n1), ~IsDescendant(t, p, n2)
        PROVE  p \notin S
    <3> DEFINE T == S \intersect Above(t, p)
    <3>1. p \in Above(t, p) /\ UpClosed(t, Above(t, p))
          /\ n1 \notin Above(t, p) /\ n2 \notin Above(t, p)
      BY <1>1, <2>2, AboveClosed DEF Above
    <3>2. ASSUME NEW y \in T PROVE t.parent[y] \in T
      <4>1. u.parent[y] = t.parent[y]
        BY <1>1, <1>2, <3>1
      <4>2. t.parent[y] \in S
        BY <4>1
      <4> QED BY <2>1, <3>1, <4>2 DEF UpClosed
    <3>3. T = {}
      BY <2>0, <3>2
    <3> QED BY <3>1, <3>3
  <2>3. p1 \notin S /\ p2 \notin S
    BY <1>6, <1>8, <2>1, <2>2
  <2>4. n1 \notin S /\ n2 \notin S
    BY <1>1, <1>2, <2>3
  <2>5. \A y \in S : t.parent[y] \in S
    BY <1>1, <1>2, <2>4
  <2> QED BY <2>0, <2>5
<1> QED BY <1>1, <1>2, <1>9, <1>10, <1>11, <1>12 DEF Forest, u

-----------------------------------------------------------------------------
(* The specification.                                                      *)

Inv == Forest(links, None)

(* The links are sound after every step.                                   *)
THEOREM LinksInvariant == Spec => []Inv
<1>0. None \notin Node
  BY TreeAssumption
<1>1. Init => Inv
  BY <1>0 DEF Init, Inv, Forest, Links, RootsSound, ParentsSound, ChildrenSound, Acyclic
<1>2. Inv /\ [Next]_links => Inv'
  <2> SUFFICES ASSUME Inv, [Next]_links PROVE Inv'
    OBVIOUS
  <2>1. ASSUME NEW d \in Desktop, NEW f \in Anchors(d) PROVE f = None \/ InTree(links, d, f)
    BY <2>1 DEF Anchors, Nodes
  <2>2. links \in Links /\ links.alive \subseteq Node
    BY DEF Inv, Forest, Links
  <2>3. ASSUME NEW d \in Desktop, NEW n \in Node, NEW f \in Node \union {None},
               NEW isWindow \in BOOLEAN, Add(d, n, f, isWindow)
        PROVE  Inv'
    <3> DEFINE new == [Make(links, n) EXCEPT !.window = IF isWindow THEN @ \union {n} ELSE @]
    <3>1. n \notin links.alive /\ f \in Anchors(d) /\ links' \in Inserted(new, d, n, f)
      BY <2>3 DEF Add
    <3>2. Forest(new, n) /\ \A k \in Node : InTree(links, d, k) => InTree(new, d, k)
      BY <3>1, NewSound DEF Inv
    <3> HIDE DEF new
    <3>3. f = None \/ InTree(new, d, f)
      BY <2>1, <3>1, <3>2
    <3> QED BY <3>1, <3>2, <3>3, InsertSound DEF Inv
  <2>4. ASSUME NEW d \in Desktop, NEW n \in Node, Remove(d, n) PROVE Inv'
    <3>1. PICK u \in Unlinked(links, d, n) : links' = Freed(u, n)
      BY <2>4 DEF Remove
    <3>2. Forest(u, n)
      BY <2>4, UnlinkSound DEF Inv, Remove
    <3> QED BY <3>1, <3>2, FreedSound DEF Inv
  <2>5. ASSUME NEW ds \in Desktop, NEW dd \in Desktop, NEW n \in Node,
               NEW f \in Node \union {None}, Transfer(ds, n, dd, f)
        PROVE  Inv'
    <3>1. PICK u \in Unlinked(links, ds, n) : links' \in Inserted(u, dd, n, f)
      BY <2>5 DEF Transfer
    <3>2. Forest(u, n)
          /\ \A e \in Desktop, k \in Node :
               InTree(links, e, k) /\ n # k /\ links.parent[n] # k /\ ~IsDescendant(links, k, n)
                 => InTree(u, e, k)
      BY <2>5, UnlinkSound DEF Inv, Transfer
    <3>3. f = None \/ InTree(u, dd, f)
      BY <2>1, <2>5, <3>2 DEF Transfer
    <3> QED BY <3>1, <3>2, <3>3, InsertSound DEF Inv
  <2>6. ASSUME NEW d1 \in Desktop, NEW d2 \in Desktop, NEW n1 \in Node, NEW n2 \in Node,
               Swap(d1, n1, d2, n2)
        PROVE  Inv'
    BY <2>6, SwapSound DEF Inv, Swap
  <2>7. ASSUME NEW n \in links.alive, NEW S \in SUBSET Below(links, n), Rotate(n, S)
        PROVE  Inv'
    <3>1. S \in SUBSET Node
      BY <2>2 DEF Below
    <3> QED BY <2>7, <3>1, TurnSound DEF Inv, Rotate
  <2>8. CASE UNCHANGED links
    BY <2>8 DEF Inv, Forest, Links, RootsSound, ParentsSound, ChildrenSound, IsLeaf, Acyclic
  <2> QED BY <2>3, <2>4, <2>5, <2>6, <2>7, <2>8 DEF Next
<1> QED BY <1>1, <1>2, PTL DEF Spec

(* Every pointer is NULL or leads to a node, and a client goes with its    *)
(* node.                                                                   *)
THEOREM TypeCorrect == Spec => []TypeOK
<1>1. Inv => TypeOK
  BY DEF Inv, Forest, TypeOK
<1> QED BY <1>1, LinksInvariant, PTL

(* No handler of tree.c leaves a pointer to a freed node, or a parent and  *)
(* a child that disagree.                                                  *)
THEOREM AlwaysLinksSound == Spec => []LinksSound
<1>1. Inv => LinksSound
  BY DEF Inv, Forest, LinksSound
<1> QED BY <1>1, LinksInvariant, PTL

(* No handler of tree.c makes a node its own ancestor.                     *)
THEOREM AlwaysTreesAcyclic == Spec => []TreesAcyclic
<1>1. Inv => TreesAcyclic
  BY DEF Inv, Forest, TreesAcyclic
<1> QED BY <1>1, LinksInvariant, PTL

-----------------------------------------------------------------------------
(***************************************************************************)
(* The trees implement WindowSets: whatever a handler does to the pointers,*)
(* the windows that are found from the root of a desktop are those that    *)
(* should be.                                                              *)
(*                                                                         *)
(* The nodes of a tree, and those below a node, are sets that a look at    *)
(* single pointers tells (BelowIs, TreeIs).  Each operator of TreeLinks    *)
(* has a lemma that says what these sets are after it.                     *)
(***************************************************************************)

(* The nodes below a node, and the nodes of a tree.                        *)

(* The nodes below n: n and those whose parents are among them.            *)
Branch(t, n, W) ==
  /\ W \subseteq t.alive /\ n \in W
  /\ \A k \in W : k = n \/ t.parent[k] \in W
  /\ \A k \in t.alive \ W : t.parent[k] \notin W

LEMMA BelowIs ==
  ASSUME NEW t, NEW x, Forest(t, x), NEW n, NEW W, Branch(t, n, W)
  PROVE  Below(t, n) = W
<1>1. t \in Links /\ t.alive \subseteq Node /\ n \in t.alive /\ W \subseteq t.alive
  BY DEF Forest, Links, Branch
<1>2. ASSUME NEW k \in t.alive, k \notin W  PROVE ~IsDescendant(t, k, n)
  <2> DEFINE A == t.alive \ W
  <2>1. UpClosed(t, A)
    BY DEF UpClosed, Branch, Forest, ParentsSound
  <2>2. A \in SUBSET t.alive /\ k \in A /\ n \notin A
    BY <1>2 DEF Branch
  <2> QED BY <2>1, <2>2 DEF IsDescendant
<1>3. ASSUME NEW k \in W, ~IsDescendant(t, k, n)  PROVE FALSE
  <2> DEFINE S == W \intersect Above(t, k)
  <2>1. k \in Above(t, k) /\ UpClosed(t, Above(t, k)) /\ Above(t, k) \subseteq t.alive
    BY <1>1, AboveClosed DEF Forest
  <2>2. n \notin S
    BY <1>3 DEF Above
  <2>3. \A y \in S : t.parent[y] \in S
    <3> TAKE y \in S
    <3>1. t.parent[y] \in W
      BY <2>2 DEF Branch
    <3>2. t.parent[y] # None
      BY <1>1, <3>1, TreeAssumption
    <3> QED BY <2>1, <3>1, <3>2 DEF UpClosed
  <2>4. S \in SUBSET t.alive /\ S # {}
    BY <2>1
  <2> HIDE DEF S
  <2> QED BY <2>3, <2>4 DEF Forest, Acyclic
<1> QED BY <1>1, <1>2, <1>3 DEF Below

LEMMA BelowFacts ==
  ASSUME NEW t, NEW x, Forest(t, x), NEW n \in t.alive
  PROVE  /\ Branch(t, n, Below(t, n))
         /\ t.parent[n] \notin Below(t, n)
<1>1. t \in Links /\ t.alive \subseteq Node /\ ParentsSound(t, x) /\ Acyclic(t)
      /\ None \notin t.alive
  BY TreeAssumption DEF Forest, Links
<1>2. n \in Below(t, n) /\ Below(t, n) \subseteq t.alive
  BY <1>1, DescendantSelf DEF Below
<1>3. ASSUME NEW k \in Below(t, n), k # n  PROVE t.parent[k] \in Below(t, n)
  <2>1. k \in t.alive /\ IsDescendant(t, k, n)
    BY DEF Below
  <2>2. t.parent[k] # None /\ (t.parent[k] \in t.alive => IsDescendant(t, t.parent[k], n))
    BY <1>1, <1>3, <2>1, DescendantUp
  <2>3. t.parent[k] \in t.alive
    BY <1>1, <2>1, <2>2 DEF ParentsSound
  <2> QED BY <2>2, <2>3 DEF Below
<1>4. ASSUME NEW k \in t.alive, t.parent[k] \in Below(t, n)  PROVE k \in Below(t, n)
  <2>1. t.parent[k] # None /\ IsDescendant(t, t.parent[k], n)
    BY <1>1, <1>4 DEF Below
  <2> QED BY <1>1, <2>1, DescendantDown DEF Below
<1>5. t.parent[n] \notin Below(t, n)
  <2> SUFFICES ASSUME t.parent[n] \in t.alive PROVE ~IsDescendant(t, t.parent[n], n)
    BY DEF Below
  <2> QED BY <1>1, ParentNotBelow
<1> QED BY <1>2, <1>3, <1>4, <1>5 DEF Branch

(* The nodes of the tree of d: they have their parents among them, but for *)
(* the root.                                                               *)
Tree(t, d, H) ==
  /\ H \subseteq t.alive
  /\ t.root[d] # None => t.root[d] \in H
  /\ \A k \in H : t.parent[k] \in H \/ (t.parent[k] = None /\ k = t.root[d])
  /\ \A k \in t.alive \ H : t.parent[k] \notin H

LEMMA TreeIs ==
  ASSUME NEW t, NEW x, Forest(t, x), NEW d \in Desktop, NEW H, Tree(t, d, H)
  PROVE  Nodes(t, d) = H
<1>0. None \notin t.alive /\ t.alive \subseteq Node
  BY TreeAssumption DEF Forest, Links
<1>1. CASE t.root[d] = None
  <2>1. \A k \in H : t.parent[k] \in H
    BY <1>0, <1>1 DEF Tree
  <2>2. H = {}
    BY <2>1 DEF Forest, Acyclic, Tree
  <2> QED BY <1>1, <2>2 DEF Nodes, InTree
<1>2. CASE t.root[d] # None
  <2> DEFINE r == t.root[d]
  <2>1. Branch(t, r, H)
    BY <1>2 DEF Branch, Tree
  <2>2. Below(t, r) = H
    BY <2>1, BelowIs
  <2> QED BY <1>2, <2>2 DEF Nodes, Below, InTree
<1> QED BY <1>1, <1>2

LEMMA TreeFacts ==
  ASSUME NEW t, NEW x, Forest(t, x), NEW d \in Desktop
  PROVE  Tree(t, d, Nodes(t, d))
<1>1. t \in Links /\ RootsSound(t, x) /\ ParentsSound(t, x) /\ t.alive \subseteq Node
      /\ None \notin t.alive
  BY TreeAssumption DEF Forest, Links
<1>2. CASE t.root[d] = None
  <2>1. Nodes(t, d) = {}
    BY <1>2 DEF Nodes, InTree
  <2> QED BY <1>2, <2>1 DEF Tree
<1>3. CASE t.root[d] # None
  <2> DEFINE r == t.root[d]
  <2>1. r \in t.alive /\ t.parent[r] = None
    BY <1>1, <1>3 DEF RootsSound
  <2>2. Nodes(t, d) = Below(t, r)
    BY <1>3 DEF Nodes, Below, InTree
  <2>3. Branch(t, r, Below(t, r))
    BY <2>1, BelowFacts
  <2> HIDE DEF r
  <2> QED BY <2>1, <2>2, <2>3 DEF Tree, Branch, r
<1> QED BY <1>2, <1>3

(* Two trees, a tree and a branch of it or of another, and a tree and the  *)
(* loose branch.                                                           *)
LEMMA TreesDisjoint ==
  ASSUME NEW t, NEW x, Forest(t, x), NEW d \in Desktop, NEW e \in Desktop, d # e,
         NEW k \in Nodes(t, d)
  PROVE  k \notin Nodes(t, e)
<1> DEFINE A == Nodes(t, d)
           r == t.root[e]
<1>1. Tree(t, d, A) /\ k \in A /\ A \in SUBSET t.alive
  BY TreeFacts DEF Nodes
<1>2. SUFFICES ASSUME r # None, IsDescendant(t, k, r)  PROVE FALSE
  BY DEF Nodes, InTree
<1>3. UpClosed(t, A)
  BY <1>1 DEF Tree, UpClosed
<1>4. r \in A
  BY <1>1, <1>2, <1>3 DEF IsDescendant
<1>5. t.parent[r] = None /\ r # t.root[d]
  BY <1>2 DEF Forest, RootsSound
<1>6. None \notin t.alive
  BY TreeAssumption DEF Forest, Links
<1> QED BY <1>1, <1>4, <1>5, <1>6 DEF Tree

LEMMA BranchInTree ==
  ASSUME NEW t, NEW x, Forest(t, x), NEW d \in Desktop, NEW n \in Nodes(t, d)
  PROVE  Below(t, n) \subseteq Nodes(t, d)
<1> DEFINE A == t.alive \ Nodes(t, d)
<1>1. Tree(t, d, Nodes(t, d))
  BY TreeFacts
<1>2. UpClosed(t, A)
  BY <1>1 DEF Tree, UpClosed, Forest, ParentsSound
<1>3. ASSUME NEW k \in Below(t, n), k \notin Nodes(t, d)  PROVE FALSE
  <2>1. k \in A /\ A \in SUBSET t.alive /\ n \notin A
    BY <1>3 DEF Below
  <2> QED BY <1>2, <2>1, <1>3 DEF Below, IsDescendant
<1> QED BY <1>3

LEMMA LooseBranch ==
  ASSUME NEW t, NEW n \in Node, Forest(t, n), NEW d \in Desktop
  PROVE  Below(t, n) \intersect Nodes(t, d) = {}
<1>1. t \in Links /\ RootsSound(t, n) /\ ParentsSound(t, n) /\ n # None /\ t.parent[n] = None
  BY TreeAssumption DEF Forest
<1>2. \A k \in Nodes(t, d) : ~IsDescendant(t, k, n)
  BY <1>1, TreesApart DEF Nodes
<1> QED BY <1>2 DEF Below

-----------------------------------------------------------------------------
(* The trees after each operator.                                          *)

LEMMA TurnSame ==
  ASSUME NEW t \in Links, NEW S \in SUBSET Node
  PROVE  /\ \A d \in Desktop : Nodes(Turn(t, S), d) = Nodes(t, d)
         /\ \A n : Below(Turn(t, S), n) = Below(t, n)
         /\ Turn(t, S).window = t.window
<1> DEFINE u == Turn(t, S)
<1>1. u.alive = t.alive /\ u.root = t.root /\ u.parent = t.parent /\ u.window = t.window
  BY TurnLinks
<1> HIDE DEF u
<1>2. \A a, b : IsDescendant(u, a, b) <=> IsDescendant(t, a, b)
  <2>1. \A A : UpClosed(u, A) <=> UpClosed(t, A)
    BY <1>1 DEF UpClosed
  <2> QED BY <1>1, <2>1 DEF IsDescendant
<1> QED BY <1>1, <1>2 DEF Nodes, Below, InTree, u

(* A new node is alone.                                                    *)
LEMMA NewTrees ==
  ASSUME NEW t, Forest(t, None), NEW n \in Node \ t.alive, NEW isWindow \in BOOLEAN
  PROVE  LET u == [Make(t, n) EXCEPT !.window = IF isWindow THEN @ \union {n} ELSE @]
         IN /\ \A d \in Desktop : Nodes(u, d) = Nodes(t, d)
            /\ Below(u, n) = {n}
            /\ u.window = IF isWindow THEN t.window \union {n} ELSE t.window
<1> DEFINE u == [Make(t, n) EXCEPT !.window = IF isWindow THEN @ \union {n} ELSE @]
<1>1. t \in Links /\ t.alive \subseteq Node /\ None \notin Node
  BY TreeAssumption DEF Forest, Links
<1>2. Forest(u, n)
  BY NewSound
<1>3. /\ u.alive = t.alive \union {n} /\ u.root = t.root
      /\ u.parent = [t.parent EXCEPT ![n] = None]
      /\ u.window = IF isWindow THEN t.window \union {n} ELSE t.window
  BY <1>1 DEF Links, Make
<1> HIDE DEF u
<1>4. u.parent[n] = None /\ \A k \in t.alive : k # n /\ u.parent[k] = t.parent[k]
  BY <1>1, <1>3 DEF Links
<1>5. Below(u, n) = {n}
  <2>1. \A k \in t.alive : t.parent[k] # n
    BY <1>1 DEF Forest, ParentsSound
  <2>2. Branch(u, n, {n})
    BY <1>3, <1>4, <2>1 DEF Branch
  <2> QED BY <1>2, <2>2, BelowIs
<1>6. ASSUME NEW d \in Desktop  PROVE Nodes(u, d) = Nodes(t, d)
  <2>1. Tree(t, d, Nodes(t, d))
    BY TreeFacts
  <2>2. Tree(u, d, Nodes(t, d))
    BY <1>1, <1>3, <1>4, <2>1 DEF Tree
  <2> QED BY <1>2, <2>2, TreeIs
<1> QED BY <1>3, <1>5, <1>6 DEF u

(* Insertion brings the loose branch to the tree of d, and no window       *)
(* leaves a tree.                                                          *)
Joined(t, u, d, n) ==
  /\ u.window = t.window
  /\ \A k \in t.window : k \in Nodes(u, d) <=> k \in Nodes(t, d) \union Below(t, n)
  /\ \A e \in Desktop \ {d} : Nodes(u, e) = Nodes(t, e)

LEMMA RootTrees ==
  ASSUME NEW t, NEW n \in Node, Forest(t, n), NEW d \in Desktop, t.root[d] = None
  PROVE  Joined(t, [t EXCEPT !.root[d] = n], d, n)
<1> DEFINE u == [t EXCEPT !.root[d] = n]
           B == Below(t, n)
<1>0. None \notin Node
  BY TreeAssumption
<1>1. t \in Links /\ n \in t.alive /\ t.parent[n] = None /\ t.alive \subseteq Node
  BY <1>0 DEF Forest, Links
<1>2. Forest(u, None)
  BY RootSound
<1>3. /\ u.alive = t.alive /\ u.window = t.window /\ u.parent = t.parent
      /\ u.root[d] = n /\ \A e \in Desktop \ {d} : u.root[e] = t.root[e]
  BY <1>1 DEF Links
<1> HIDE DEF u
<1>4. Branch(t, n, B)
  BY <1>1, BelowFacts
<1>5. Nodes(u, d) = B
  <2>1. Tree(u, d, B)
    BY <1>1, <1>3, <1>4 DEF Branch, Tree
  <2> QED BY <1>2, <2>1, TreeIs
<1>6. ASSUME NEW e \in Desktop \ {d}  PROVE Nodes(u, e) = Nodes(t, e)
  <2>1. Tree(t, e, Nodes(t, e))
    BY TreeFacts
  <2>2. Tree(u, e, Nodes(t, e))
    BY <1>3, <2>1 DEF Tree
  <2> QED BY <1>2, <2>2, TreeIs
<1>7. Nodes(t, d) = {}
  BY DEF Nodes, InTree
<1> QED BY <1>3, <1>5, <1>6, <1>7 DEF Joined, u

LEMMA TakePlaceTrees ==
  ASSUME NEW t, NEW n \in Node, Forest(t, n), NEW d \in Desktop, NEW f,
         InTree(t, d, f), IsReceptacle(t, f)
  PROVE  Joined(t, TakePlace(t, d, n, f), d, n)
<1> DEFINE u == TakePlace(t, d, n, f)
           p == t.parent[f]
           B == Below(t, n)
           D == Nodes(t, d)
<1>0. None \notin Node
  BY TreeAssumption
<1>1. /\ t \in Links /\ t.alive \subseteq Node /\ n \in t.alive /\ t.parent[n] = None
      /\ RootsSound(t, n) /\ ParentsSound(t, n) /\ ChildrenSound(t)
  BY <1>0 DEF Forest, Links
<1>2. f \in D /\ f \in t.alive /\ (p = None => t.root[d] = f) /\ ~IsDescendant(t, f, n)
  BY <1>0, <1>1, TreeUp, TreesApart DEF Nodes
<1>3. Tree(t, d, D) /\ Branch(t, n, B) /\ B \intersect D = {}
  BY <1>1, TreeFacts, BelowFacts, LooseBranch
<1>4. Forest(u, None)
  BY <1>2, TakePlaceSound
<1>5. p # f /\ n # f /\ p # n /\ (p = None \/ p \in D)
  <2>1. n # f
    BY <1>2, <1>3 DEF Branch
  <2>2. p \notin Below(t, f) /\ f \in Below(t, f)
    BY <1>2, BelowFacts DEF Branch
  <2>3. p = None \/ p \in D
    BY <1>2, <1>3 DEF Tree
  <2> QED BY <1>0, <1>1, <1>3, <2>1, <2>2, <2>3 DEF Branch
<1>6. /\ u.alive = t.alive \ {f} /\ u.window = t.window
      /\ u.root = IF p = None THEN [t.root EXCEPT ![d] = n] ELSE t.root
      /\ \A y \in Node : u.parent[y] = IF y = f THEN None ELSE IF y = n THEN p ELSE t.parent[y]
  BY <1>1, <1>2, <1>5, TakePlaceLinks
<1>7. \A k \in t.alive : t.parent[k] # f
  <2> SUFFICES ASSUME NEW k \in t.alive, t.parent[k] = f  PROVE FALSE
    OBVIOUS
  <2>1. k \in {t.first[f], t.second[f]}
    BY <1>0, <1>1, <1>2 DEF ParentsSound
  <2> QED BY <1>0, <1>1, <2>1 DEF IsReceptacle, IsLeaf
<1> HIDE DEF u, p
<1>8. /\ u.root[d] = IF p = None THEN n ELSE t.root[d]
      /\ \A e \in Desktop \ {d} : u.root[e] = t.root[e]
  BY <1>1, <1>6 DEF Links
<1>9. /\ u.parent[n] = p
      /\ \A y \in t.alive \ {f, n} : u.parent[y] = t.parent[y]
  BY <1>1, <1>5, <1>6
<1> DEFINE H == (D \union B) \ {f}
<1>10. Nodes(u, d) = H
  <2>1. H \subseteq u.alive /\ n \in H
    BY <1>3, <1>5, <1>6 DEF Tree, Branch
  <2>2. u.root[d] # None => u.root[d] \in H
    <3>1. CASE p = None
      BY <1>8, <2>1, <3>1
    <3>2. CASE p # None
      <4>1. SUFFICES ASSUME t.root[d] = f PROVE FALSE
        BY <1>3, <1>8, <3>2 DEF Tree
      <4>2. f # None
        BY <1>0, <1>1, <1>2
      <4> QED BY <1>1, <3>2, <4>1, <4>2 DEF RootsSound, p
    <3> QED BY <3>1, <3>2
  <2>3. ASSUME NEW k \in H  PROVE u.parent[k] \in H \/ (u.parent[k] = None /\ k = u.root[d])
    <3>1. CASE k = n
      BY <1>5, <1>8, <1>9, <3>1
    <3>2. CASE k \in B /\ k # n
      <4>1. k # f /\ u.parent[k] = t.parent[k] /\ t.parent[k] \in B
        BY <1>2, <1>3, <1>9, <3>2 DEF Branch
      <4> QED BY <1>2, <1>3, <4>1
    <3>3. CASE k \in D /\ k # f
      <4>1. k # n /\ k \in t.alive
        BY <1>3, <3>3 DEF Branch, Tree
      <4>2. u.parent[k] = t.parent[k] /\ t.parent[k] # f
        BY <1>7, <1>9, <3>3, <4>1
      <4>3. t.parent[k] \in D \/ (t.parent[k] = None /\ k = t.root[d])
        BY <1>3, <3>3 DEF Tree
      <4>4. k = t.root[d] => p # None
        BY <1>2, <3>3 DEF p
      <4> QED BY <1>8, <4>2, <4>3, <4>4
    <3> QED BY <3>1, <3>2, <3>3
  <2>4. ASSUME NEW k \in u.alive \ H  PROVE u.parent[k] \notin H
    <3>1. k \in t.alive /\ k \notin D /\ k \notin B /\ k # n /\ k # f
      BY <1>3, <1>6 DEF Branch
    <3> QED BY <1>3, <1>9, <3>1 DEF Tree, Branch
  <2>5. Tree(u, d, H)
    BY <2>1, <2>2, <2>3, <2>4 DEF Tree
  <2> QED BY <1>4, <2>5, TreeIs
<1>11. ASSUME NEW e \in Desktop \ {d}  PROVE Nodes(u, e) = Nodes(t, e)
  <2>1. Tree(t, e, Nodes(t, e)) /\ Nodes(t, e) \intersect B = {} /\ Nodes(t, e) \intersect D = {}
    BY TreeFacts, LooseBranch, TreesDisjoint
  <2>2. f \notin Nodes(t, e) /\ n \notin Nodes(t, e) /\ p \notin Nodes(t, e)
    <3>1. None \notin Nodes(t, e)
      BY <1>0, <1>1 DEF Nodes
    <3> QED BY <1>2, <1>3, <1>5, <2>1, <3>1 DEF Branch
  <2>3. Tree(u, e, Nodes(t, e))
    BY <1>6, <1>8, <1>9, <2>1, <2>2 DEF Tree
  <2> QED BY <1>4, <2>3, TreeIs
<1>12. f \notin t.window
  BY DEF IsReceptacle
<1> QED BY <1>6, <1>10, <1>11, <1>12 DEF Joined, u

LEMMA SplitTrees ==
  ASSUME NEW t, NEW n \in Node, Forest(t, n), NEW d \in Desktop, NEW x, InTree(t, d, x),
         NEW c \in Node \ t.alive, NEW nFirst \in BOOLEAN
  PROVE  Joined(t, Split(t, d, n, x, c, nFirst), d, n)
<1> DEFINE u == Split(t, d, n, x, c, nFirst)
           p == t.parent[x]
           B == Below(t, n)
           D == Nodes(t, d)
           H == D \union B \union {c}
<1>0. None \notin Node
  BY TreeAssumption
<1>1. /\ t \in Links /\ t.alive \subseteq Node /\ n \in t.alive /\ t.parent[n] = None
      /\ RootsSound(t, n) /\ ParentsSound(t, n) /\ t.window \subseteq t.alive
  BY <1>0 DEF Forest, Links
<1>2. x \in D /\ x \in t.alive /\ (p = None => t.root[d] = x) /\ ~IsDescendant(t, x, n)
  BY <1>0, <1>1, TreeUp, TreesApart DEF Nodes
<1>3. Tree(t, d, D) /\ Branch(t, n, B) /\ B \intersect D = {}
  BY <1>1, TreeFacts, BelowFacts, LooseBranch
<1>4. Forest(u, None)
  BY <1>2, SplitSound
<1>5. n # x /\ p # c /\ (p = None \/ p \in D) /\ p # n
  BY <1>0, <1>1, <1>2, <1>3 DEF Branch, Tree
<1>6. /\ u.alive = t.alive \union {c} /\ u.window = t.window
      /\ u.root = IF p = None THEN [t.root EXCEPT ![d] = c] ELSE t.root
      /\ \A y \in Node :
           u.parent[y] = IF y = c THEN p ELSE IF y \in {n, x} THEN c ELSE t.parent[y]
  BY <1>1, <1>2, <1>5, SplitLinks
<1> HIDE DEF u, p
<1>7. /\ u.root[d] = IF p = None THEN c ELSE t.root[d]
      /\ \A e \in Desktop \ {d} : u.root[e] = t.root[e]
  BY <1>1, <1>6 DEF Links
<1>8. /\ u.parent[c] = p /\ u.parent[n] = c /\ u.parent[x] = c
      /\ \A y \in t.alive \ {n, x} : u.parent[y] = t.parent[y]
  BY <1>1, <1>2, <1>6
<1>9. Nodes(u, d) = H
  <2>1. H \subseteq u.alive /\ c \in H
    BY <1>3, <1>6 DEF Tree, Branch
  <2>2. u.root[d] # None => u.root[d] \in H
    BY <1>3, <1>7 DEF Tree
  <2>3. ASSUME NEW k \in H  PROVE u.parent[k] \in H \/ (u.parent[k] = None /\ k = u.root[d])
    <3>1. CASE k = c
      BY <1>5, <1>7, <1>8, <3>1
    <3>2. CASE k \in {n, x}
      BY <1>8, <3>2
    <3>3. CASE k \in B /\ k # n /\ k # x
      BY <1>3, <1>8, <3>3 DEF Branch
    <3>4. CASE k \in D /\ k # n /\ k # x
      <4>1. u.parent[k] = t.parent[k] /\ (t.parent[k] \in D \/ (t.parent[k] = None /\ k = t.root[d]))
        BY <1>3, <1>8, <3>4 DEF Tree
      <4> QED BY <1>2, <1>7, <3>4, <4>1
    <3> QED BY <3>1, <3>2, <3>3, <3>4
  <2>4. ASSUME NEW k \in u.alive \ H  PROVE u.parent[k] \notin H
    <3>1. k \in t.alive /\ k \notin D /\ k \notin B /\ k # n /\ k # x
      BY <1>2, <1>3, <1>6 DEF Branch
    <3>2. t.parent[k] # c
      BY <1>0, <1>1, <3>1 DEF ParentsSound
    <3> QED BY <1>3, <1>8, <3>1, <3>2 DEF Tree, Branch
  <2>5. Tree(u, d, H)
    BY <2>1, <2>2, <2>3, <2>4 DEF Tree
  <2> QED BY <1>4, <2>5, TreeIs
<1>10. ASSUME NEW e \in Desktop \ {d}  PROVE Nodes(u, e) = Nodes(t, e)
  <2>1. Tree(t, e, Nodes(t, e)) /\ Nodes(t, e) \intersect B = {} /\ Nodes(t, e) \intersect D = {}
    BY TreeFacts, LooseBranch, TreesDisjoint
  <2>2. x \notin Nodes(t, e) /\ n \notin Nodes(t, e) /\ p \notin Nodes(t, e) /\ c \notin Nodes(t, e)
    <3>1. None \notin Nodes(t, e) /\ c \notin Nodes(t, e)
      BY <1>0, <1>1 DEF Nodes
    <3> QED BY <1>2, <1>3, <1>5, <2>1, <3>1 DEF Branch
  <2>3. Tree(u, e, Nodes(t, e))
    BY <1>6, <1>7, <1>8, <2>1, <2>2 DEF Tree
  <2> QED BY <1>4, <2>3, TreeIs
<1> QED BY <1>1, <1>6, <1>9, <1>10 DEF Joined, u

(* insert_node() brings the loose branch to the tree of d, whatever anchor *)
(* it chooses.                                                             *)
LEMMA InsertTrees ==
  ASSUME NEW t, NEW n \in Node, Forest(t, n), NEW d \in Desktop, NEW f,
         f = None \/ InTree(t, d, f), NEW u \in Inserted(t, d, n, f)
  PROVE  Joined(t, u, d, n)
<1> DEFINE a == Anchor(t, d, f)
<1>0. None \notin Node
  BY TreeAssumption
<1>1. t \in Links /\ t.alive \subseteq Node /\ n # None /\ t.parent[n] = None
      /\ RootsSound(t, n) /\ ParentsSound(t, n)
  BY <1>0 DEF Forest, Links
<1>2. CASE a = None
  <2>1. f = None /\ t.root[d] = None
    <3>1. f = None \/ f \in t.alive
      BY DEF InTree, IsDescendant
    <3> QED BY <1>0, <1>1, <1>2, <3>1 DEF Anchor
  <2>2. u = [t EXCEPT !.root[d] = n]
    BY <1>2 DEF Inserted
  <2> QED BY <2>1, <2>2, RootTrees
<1>3. CASE a # None
  <2>1. InTree(t, d, a)
    <3>1. CASE f = None
      <4>1. t.root[d] # None /\ t.root[d] \in t.alive
        BY <1>1, <1>3, <3>1 DEF Anchor, RootsSound
      <4> QED BY <1>1, <3>1, <4>1, DescendantSelf DEF Anchor, InTree
    <3>2. CASE f # None
      BY <3>2 DEF Anchor
    <3> QED BY <3>1, <3>2
  <2>2. CASE u = TakePlace(t, d, n, a) /\ IsReceptacle(t, a)
    BY <2>1, <2>2, TakePlaceTrees
  <2>3. ASSUME NEW x, InTree(t, d, x), NEW c \in Node \ t.alive, u \in SplitAt(t, d, n, x, c)
        PROVE  Joined(t, u, d, n)
    <3>1. CASE \E nFirst \in BOOLEAN : u = Split(t, d, n, x, c, nFirst)
      BY <2>3, <3>1, SplitTrees
    <3>2. CASE t.parent[x] # None /\
               \E S \in SUBSET Below(t, t.parent[x]) :
                 u = Turn(Split(t, d, n, t.parent[x], c, t.first[t.parent[x]] = x), S)
      <4> DEFINE p == t.parent[x]
                 s == Split(t, d, n, p, c, t.first[p] = x)
      <4>1. InTree(t, d, p) /\ p \in t.alive /\ ~IsDescendant(t, p, n)
            /\ (t.parent[p] = None => t.root[d] = p)
        BY <1>1, <2>3, <3>2, TreeUp, TreesApart
      <4>2. (t.first[p] = x) \in BOOLEAN
        OBVIOUS
      <4>3. Joined(t, s, d, n) /\ s \in Links
        BY <2>3, <4>1, <4>2, SplitTrees, SplitSound DEF Forest
      <4>4. PICK S \in SUBSET Below(t, p) : u = Turn(s, S)
        BY <3>2
      <4>5. S \in SUBSET Node
        BY <1>1 DEF Below
      <4> HIDE DEF s
      <4>6. \A e \in Desktop : Nodes(u, e) = Nodes(s, e)
        BY <4>3, <4>4, <4>5, TurnSame
      <4>7. u.window = s.window
        BY <4>3, <4>4, <4>5, TurnSame
      <4> QED BY <4>3, <4>6, <4>7 DEF Joined
    <3> QED BY <2>3, <3>1, <3>2 DEF SplitAt
  <2>4. \A x \in {a} \union Public(t, d) : InTree(t, d, x)
    BY <2>1 DEF Public, Nodes
  <2>5. (u = TakePlace(t, d, n, a) /\ IsReceptacle(t, a))
        \/ \E x \in {a} \union Public(t, d), c \in Node \ t.alive : u \in SplitAt(t, d, n, x, c)
    BY <1>3 DEF Inserted
  <2> QED BY <2>2, <2>3, <2>4, <2>5
<1> QED BY <1>2, <1>3

(* unlink_node() takes the branch of n out of its tree, and no window off  *)
(* the branch.                                                             *)
Parted(t, u, n) ==
  /\ u.window = t.window
  /\ \A k \in t.window :
       /\ k \in Below(u, n) <=> k \in Below(t, n)
       /\ \A e \in Desktop : k \in Nodes(u, e) <=> k \in Nodes(t, e) \ Below(t, n)

LEMMA LiftedTrees ==
  ASSUME NEW t, Forest(t, None), NEW d \in Desktop, NEW n, InTree(t, d, n),
         t.parent[n] # None
  PROVE  Parted(t, Lifted(t, d, n), n)
<1> DEFINE u == Lifted(t, d, n)
           p == t.parent[n]
           b == Brother(t, n)
           q == t.parent[p]
           B == Below(t, n)
           D == Nodes(t, d)
           H == (D \ B) \ {p}
<1>0. None \notin Node
  BY TreeAssumption
<1>1. /\ t \in Links /\ t.alive \subseteq Node /\ n \in t.alive
      /\ RootsSound(t, None) /\ ParentsSound(t, None) /\ t.window \subseteq t.alive
  BY DEF Forest, Links, InTree, IsDescendant
<1>2. /\ p \in t.alive /\ b \in t.alive /\ n # b /\ p # n /\ p # b
      /\ t.parent[b] = p /\ {t.first[p], t.second[p]} = {n, b}
      /\ q # p /\ q # b /\ p \notin t.window
  BY <1>1, BrotherFacts
<1>3. /\ u.alive = t.alive \ {p} /\ u.window = t.window
      /\ u.root = IF q = None THEN [t.root EXCEPT ![d] = b] ELSE t.root
      /\ \A y \in Node :
           u.parent[y] = IF y \in {n, p} THEN None ELSE IF y = b THEN q ELSE t.parent[y]
  BY <1>1, <1>2, LiftedLinks
<1>4. Forest(u, n)
  BY LiftedSound
<1>5. Tree(t, d, D) /\ Branch(t, n, B) /\ p \notin B /\ n \in D
  BY <1>1, TreeFacts, BelowFacts DEF Nodes
<1>6. B \subseteq D /\ p \in D /\ b \in D /\ b \notin B /\ q \notin B
      /\ (q = None => t.root[d] = p)
  <2>1. p \in D /\ (q = None => t.root[d] = p)
    BY <1>1, TreeUp DEF Nodes
  <2>2. B \subseteq D
    BY <1>5, BranchInTree
  <2> QED BY <1>2, <1>5, <2>1, <2>2 DEF Tree, Branch
<1>7. ASSUME NEW y \in t.alive, t.parent[y] = p  PROVE y \in {n, b}
  BY <1>0, <1>1, <1>2, <1>7 DEF ParentsSound
<1>8. q # None => t.root[d] # p /\ t.root[d] \notin B
  <2> SUFFICES ASSUME q # None, NEW r, r = t.root[d], r \in B \union {p}  PROVE FALSE
    OBVIOUS
  <2>1. r \in t.alive /\ t.parent[r] = None /\ None \notin t.alive
    BY <1>0, <1>1, <1>2, <1>5 DEF RootsSound, Branch
  <2> QED BY <1>5, <2>1 DEF Branch
<1>9. t.parent[n] = p
  OBVIOUS
<1> HIDE DEF u, p, q, b
<1>10. /\ u.root[d] = IF q = None THEN b ELSE t.root[d]
       /\ \A e \in Desktop \ {d} : u.root[e] = t.root[e]
  BY <1>1, <1>3 DEF Links
<1>11. /\ u.parent[n] = None /\ u.parent[b] = q
       /\ \A y \in u.alive \ {n, b} : u.parent[y] = t.parent[y]
  BY <1>1, <1>2, <1>3
<1>12. Below(u, n) = B
  <2>1. B \subseteq u.alive /\ n \in B
    BY <1>3, <1>5 DEF Branch
  <2>2. ASSUME NEW k \in B, k # n  PROVE u.parent[k] \in B
    BY <1>5, <1>6, <1>11, <2>1, <2>2 DEF Branch
  <2>3. ASSUME NEW k \in u.alive \ B  PROVE u.parent[k] \notin B
    BY <1>3, <1>5, <1>6, <1>11, <2>1, <2>3 DEF Branch
  <2>4. Branch(u, n, B)
    BY <2>1, <2>2, <2>3 DEF Branch
  <2> QED BY <1>4, <2>4, BelowIs
<1>13. Nodes(u, d) = H
  <2>1. H \subseteq u.alive /\ b \in H
    BY <1>2, <1>3, <1>5, <1>6 DEF Tree
  <2>2. u.root[d] # None => u.root[d] \in H
    BY <1>5, <1>8, <1>10, <2>1 DEF Tree
  <2>3. ASSUME NEW k \in H  PROVE u.parent[k] \in H \/ (u.parent[k] = None /\ k = u.root[d])
    <3>1. CASE k = b
      <4>1. q # None => q \in D /\ q # p
        BY <1>2, <1>5, <1>6 DEF Tree, q
      <4> QED BY <1>6, <1>10, <1>11, <3>1, <4>1
    <3>2. CASE k # b
      <4>1. k # n /\ k # p /\ k \in t.alive /\ u.parent[k] = t.parent[k] /\ t.parent[k] # p
        BY <1>3, <1>5, <1>7, <1>11, <2>1, <3>2 DEF Branch
      <4>2. t.parent[k] \notin B
        BY <1>5, <4>1 DEF Branch
      <4>3. t.parent[k] \in D \/ (t.parent[k] = None /\ k = t.root[d])
        BY <1>5 DEF Tree
      <4> QED BY <1>6, <1>10, <4>1, <4>2, <4>3
    <3> QED BY <3>1, <3>2
  <2>4. ASSUME NEW k \in u.alive \ H  PROVE u.parent[k] \notin H
    <3>1. CASE k = n
      BY <1>0, <1>1, <1>3, <1>11, <2>1, <3>1
    <3>2. CASE k \in B /\ k # n
      BY <1>5, <1>6, <1>11, <3>2 DEF Branch
    <3>3. CASE k \notin B
      <4>1. k \notin D /\ k \in t.alive /\ k # b /\ k # n
        BY <1>3, <1>5, <1>6, <3>3 DEF Branch
      <4> QED BY <1>5, <1>11, <4>1 DEF Tree
    <3> QED BY <3>1, <3>2, <3>3
  <2>5. Tree(u, d, H)
    BY <2>1, <2>2, <2>3, <2>4 DEF Tree
  <2> QED BY <1>4, <2>5, TreeIs
<1>14. ASSUME NEW e \in Desktop \ {d}
       PROVE  Nodes(u, e) = Nodes(t, e) /\ Nodes(t, e) \intersect B = {}
  <2>1. Tree(t, e, Nodes(t, e)) /\ Nodes(t, e) \intersect D = {} /\ None \notin Nodes(t, e)
    BY <1>0, <1>1, TreeFacts, TreesDisjoint DEF Nodes
  <2>2. q = None \/ q \in D
    BY <1>5, <1>6 DEF Tree, q
  <2>3. Nodes(t, e) \subseteq u.alive /\ n \notin Nodes(t, e) /\ b \notin Nodes(t, e)
    BY <1>3, <1>5, <1>6, <2>1 DEF Tree
  <2>4. Tree(u, e, Nodes(t, e))
    <3>1. \A k \in Nodes(t, e) : u.parent[k] = t.parent[k]
      BY <1>11, <2>3
    <3>2. \A k \in u.alive \ Nodes(t, e) : u.parent[k] \notin Nodes(t, e)
      BY <1>3, <1>11, <2>1, <2>2 DEF Tree
    <3> QED BY <1>10, <2>1, <2>3, <3>1, <3>2 DEF Tree
  <2> QED BY <1>4, <1>6, <2>1, <2>4, TreeIs
<1>15. \A k \in t.window, e \in Desktop : k \in Nodes(u, e) <=> k \in Nodes(t, e) \ B
  <2> SUFFICES ASSUME NEW k \in t.window, NEW e \in Desktop
               PROVE  k \in Nodes(u, e) <=> k \in Nodes(t, e) \ B
    OBVIOUS
  <2>1. k # p
    BY <1>2
  <2> QED BY <1>13, <1>14, <2>1
<1> QED BY <1>3, <1>12, <1>15 DEF Parted, u

LEMMA UnlinkTrees ==
  ASSUME NEW t, Forest(t, None), NEW d \in Desktop, NEW n, InTree(t, d, n),
         NEW u \in Unlinked(t, d, n)
  PROVE  Parted(t, u, n)
<1>0. None \notin Node
  BY TreeAssumption
<1>1. t \in Links /\ t.alive \subseteq Node /\ n \in t.alive
      /\ RootsSound(t, None) /\ ParentsSound(t, None)
  BY DEF Forest, Links, InTree, IsDescendant
<1>2. CASE t.parent[n] = None
  <2>1. t.root[d] = n /\ n # None
    BY <1>0, <1>1, <1>2, TreeUp
  <2>2. u = [t EXCEPT !.root[d] = None]
    BY <1>2 DEF Unlinked
  <2>3. u.alive = t.alive /\ u.window = t.window /\ u.parent = t.parent
        /\ u.root = [t.root EXCEPT ![d] = None]
    BY <1>1, <2>2 DEF Links
  <2>4. u.root[d] = None /\ \A e \in Desktop \ {d} : u.root[e] = t.root[e]
    BY <1>1, <2>3 DEF Links
  <2>5. \A a, b : IsDescendant(u, a, b) <=> IsDescendant(t, a, b)
    <3>1. \A A : UpClosed(u, A) <=> UpClosed(t, A)
      BY <2>3 DEF UpClosed
    <3> QED BY <2>3, <3>1 DEF IsDescendant
  <2>6. Below(u, n) = Below(t, n)
    BY <2>3, <2>5 DEF Below
  <2>7. Nodes(u, d) = {} /\ Nodes(t, d) = Below(t, n)
    BY <2>1, <2>4 DEF Nodes, InTree, Below
  <2>8. ASSUME NEW e \in Desktop \ {d}
        PROVE  Nodes(u, e) = Nodes(t, e) /\ Nodes(t, e) \intersect Below(t, n) = {}
    <3>1. Nodes(u, e) = Nodes(t, e)
      BY <2>3, <2>4, <2>5 DEF Nodes, InTree
    <3>2. Nodes(t, e) \intersect Nodes(t, d) = {}
      BY TreesDisjoint
    <3> QED BY <2>7, <3>1, <3>2
  <2>9. \A e \in Desktop : Nodes(u, e) = Nodes(t, e) \ Below(t, n)
    BY <2>7, <2>8
  <2> QED BY <2>3, <2>6, <2>9 DEF Parted
<1>3. CASE t.parent[n] # None
  <2> DEFINE l == Lifted(t, d, n)
  <2>1. PICK S \in SUBSET Below(t, Brother(t, n)) : u = Turn(l, S)
    BY <1>3 DEF Unlinked, Lifted
  <2>2. S \in SUBSET Node
    BY <1>1 DEF Below
  <2>3. Parted(t, l, n) /\ l \in Links
    BY <1>3, LiftedTrees, LiftedSound DEF Forest
  <2> HIDE DEF l
  <2>4. \A e \in Desktop : Nodes(u, e) = Nodes(l, e)
    BY <2>1, <2>2, <2>3, TurnSame
  <2>5. Below(u, n) = Below(l, n) /\ u.window = l.window
    BY <2>1, <2>2, <2>3, TurnSame
  <2> QED BY <2>3, <2>4, <2>5 DEF Parted
<1> QED BY <1>2, <1>3

(* free_node() takes the windows of the branch.                            *)
LEMMA FreedTrees ==
  ASSUME NEW t, NEW n \in Node, Forest(t, n)
  PROVE  LET u == Freed(t, n)
         IN /\ u.window = t.window \ Below(t, n)
            /\ \A e \in Desktop : Nodes(u, e) = Nodes(t, e)
<1> DEFINE u == Freed(t, n)
           B == Below(t, n)
<1>1. t \in Links /\ t.alive \subseteq Node /\ n \in t.alive /\ t.parent[n] = None
  BY TreeAssumption DEF Forest, Links
<1>2. /\ u.alive = t.alive \ B /\ u.window = t.window \ B /\ u.root = t.root
      /\ \A y \in Node \ B : u.parent[y] = t.parent[y]
  BY <1>1, FreedLinks
<1>3. Forest(u, None)
  BY FreedSound
<1> HIDE DEF u
<1>4. ASSUME NEW e \in Desktop  PROVE Nodes(u, e) = Nodes(t, e)
  <2>1. Tree(t, e, Nodes(t, e)) /\ B \intersect Nodes(t, e) = {}
    BY TreeFacts, LooseBranch
  <2>2. \A k \in u.alive : u.parent[k] = t.parent[k]
    BY <1>1, <1>2
  <2>3. Tree(u, e, Nodes(t, e))
    BY <1>2, <2>1, <2>2 DEF Tree
  <2> QED BY <1>3, <2>3, TreeIs
<1> QED BY <1>2, <1>4 DEF u

(* swap_nodes(): the parents of n1 and n2 change places, and so do the     *)
(* roots that n1 and n2 are.  The same of (d1, n1) and (d2, n2).           *)
Exchanged(t, u, d1, n1, d2, n2) ==
  /\ u.alive = t.alive
  /\ u.root[d1] = IF t.root[d1] = n1 THEN n2 ELSE t.root[d1]
  /\ u.root[d2] = IF t.root[d2] = n2 THEN n1 ELSE t.root[d2]
  /\ \A e \in Desktop \ {d1, d2} : u.root[e] = t.root[e]
  /\ u.parent[n1] = t.parent[n2] /\ u.parent[n2] = t.parent[n1]
  /\ \A k \in t.alive \ {n1, n2} : u.parent[k] = t.parent[k]

LEMMA ExchangedTree ==
  ASSUME NEW t, Forest(t, None), NEW d1 \in Desktop, NEW n1 \in Nodes(t, d1),
         NEW d2 \in Desktop, NEW n2 \in Nodes(t, d2), d1 # d2,
         NEW u, Forest(u, None), Exchanged(t, u, d1, n1, d2, n2)
  PROVE  Nodes(u, d1) = (Nodes(t, d1) \ Below(t, n1)) \union Below(t, n2)
<1> DEFINE p1 == t.parent[n1]
           p2 == t.parent[n2]
           D1 == Nodes(t, d1)
           D2 == Nodes(t, d2)
           B1 == Below(t, n1)
           B2 == Below(t, n2)
           H == (D1 \ B1) \union B2
<1>0. None \notin t.alive /\ t \in Links /\ RootsSound(t, None) /\ ParentsSound(t, None)
      /\ n1 \in t.alive /\ n2 \in t.alive
  BY TreeAssumption DEF Forest, Links, Nodes
<1>1. /\ Tree(t, d1, D1) /\ Tree(t, d2, D2) /\ D1 \intersect D2 = {}
      /\ Branch(t, n1, B1) /\ Branch(t, n2, B2) /\ p1 \notin B1 /\ p2 \notin B2
      /\ B1 \subseteq D1 /\ B2 \subseteq D2
  BY <1>0, TreeFacts, TreesDisjoint, BelowFacts, BranchInTree
<1>2. (p1 = None => t.root[d1] = n1) /\ (p2 = None => t.root[d2] = n2)
  BY <1>0, TreeUp DEF Nodes
<1>3. t.root[d1] \in B1 => t.root[d1] = n1
  <2> SUFFICES ASSUME NEW r, r = t.root[d1], r \in B1, r # n1  PROVE FALSE
    OBVIOUS
  <2>1. r \in t.alive /\ t.parent[r] = None
    BY <1>0, <1>1 DEF RootsSound, Branch
  <2> QED BY <1>0, <1>1, <2>1 DEF Branch
<1>4. t.parent[n1] = p1 /\ t.parent[n2] = p2
  OBVIOUS
<1> HIDE DEF p1, p2, D1, D2, B1, B2
<1>5. (p1 = None \/ p1 \in D1) /\ (p2 = None \/ p2 \in D2) /\ n1 \in D1 /\ n2 \in D2
      /\ None \notin D1 /\ None \notin D2
  BY <1>0, <1>1, <1>4 DEF Tree, Branch
<1>6. H \subseteq u.alive /\ (u.root[d1] # None => u.root[d1] \in H)
  BY <1>1, <1>3 DEF Exchanged, Tree, Branch
<1>7. ASSUME NEW k \in H  PROVE u.parent[k] \in H \/ (u.parent[k] = None /\ k = u.root[d1])
  <2>1. CASE k = n2
    BY <1>1, <1>2, <1>4, <1>5, <2>1 DEF Exchanged
  <2>2. CASE k \in B2 /\ k # n2
    <3>1. k # n1 /\ k \in t.alive
      BY <1>1, <1>5, <2>2 DEF Branch
    <3> QED BY <1>1, <2>2, <3>1 DEF Exchanged, Branch
  <2>3. CASE k \in D1 /\ k \notin B1
    <3>1. k # n1 /\ k # n2 /\ k \in t.alive
      BY <1>1, <1>5, <2>3 DEF Branch, Tree
    <3>2. u.parent[k] = t.parent[k] /\ t.parent[k] \notin B1
      BY <1>1, <2>3, <3>1 DEF Exchanged, Branch
    <3>3. t.parent[k] \in D1 \/ (t.parent[k] = None /\ k = t.root[d1])
      BY <1>1, <2>3 DEF Tree
    <3> QED BY <3>1, <3>2, <3>3 DEF Exchanged
  <2> QED BY <2>1, <2>2, <2>3
<1>8. ASSUME NEW k \in u.alive \ H  PROVE u.parent[k] \notin H
  <2>1. k \in t.alive /\ k \notin B2 /\ k # n2
    BY <1>1 DEF Exchanged, Branch
  <2>2. CASE k = n1
    BY <1>1, <1>4, <1>5, <2>2 DEF Exchanged
  <2>3. CASE k \in B1 /\ k # n1
    BY <1>1, <2>1, <2>3 DEF Exchanged, Branch
  <2>4. CASE k \notin B1
    <3>1. k \notin D1 /\ k # n1
      BY <1>5, <2>4
    <3> QED BY <1>1, <2>1, <2>4, <3>1 DEF Exchanged, Tree, Branch
  <2> QED BY <2>2, <2>3, <2>4
<1>9. Tree(u, d1, H)
  BY <1>6, <1>7, <1>8 DEF Tree
<1> QED BY <1>9, TreeIs DEF D1, B1, B2

LEMMA SwapTrees ==
  ASSUME NEW t, Forest(t, None), NEW d1 \in Desktop, NEW n1, InTree(t, d1, n1),
         NEW d2 \in Desktop, NEW n2, InTree(t, d2, n2), n1 # n2,
         ~IsDescendant(t, n1, n2), ~IsDescendant(t, n2, n1)
  PROVE  LET u == Swapped(t, d1, n1, d2, n2)
         IN /\ u.window = t.window
            /\ \A e \in Desktop \ {d1, d2} : Nodes(u, e) = Nodes(t, e)
            /\ d1 = d2 => Nodes(u, d1) = Nodes(t, d1)
            /\ d1 # d2 =>
                 /\ Nodes(u, d1) = (Nodes(t, d1) \ Below(t, n1)) \union Below(t, n2)
                 /\ Nodes(u, d2) = (Nodes(t, d2) \ Below(t, n2)) \union Below(t, n1)
<1> DEFINE u == Swapped(t, d1, n1, d2, n2)
           p1 == t.parent[n1]
           p2 == t.parent[n2]
<1>0. None \notin Node
  BY TreeAssumption
<1>1. /\ t \in Links /\ t.alive \subseteq Node /\ n1 \in t.alive /\ n2 \in t.alive
      /\ RootsSound(t, None) /\ ParentsSound(t, None)
      /\ n1 \in Nodes(t, d1) /\ n2 \in Nodes(t, d2)
  BY DEF Forest, Links, InTree, IsDescendant, Nodes
<1>2. /\ u.alive = t.alive /\ u.window = t.window
      /\ \A d \in Desktop :
           u.root[d] = IF d1 # d2 /\ d = d1 /\ t.root[d1] = n1 THEN n2
                       ELSE IF d1 # d2 /\ d = d2 /\ t.root[d2] = n2 THEN n1
                       ELSE t.root[d]
      /\ \A y \in Node :
           u.parent[y] = IF y = n1 THEN p2 ELSE IF y = n2 THEN p1 ELSE t.parent[y]
  BY <1>1, SwappedLinks
<1>3. Forest(u, None)
  BY SwapSound
<1> HIDE DEF u
<1>4. u.parent[n1] = p2 /\ u.parent[n2] = p1
      /\ \A k \in t.alive \ {n1, n2} : u.parent[k] = t.parent[k]
  BY <1>1, <1>2
<1>5. /\ p1 = None \/ p1 \in Nodes(t, d1)
      /\ p2 = None \/ p2 \in Nodes(t, d2)
      /\ p1 = None => t.root[d1] = n1
      /\ p2 = None => t.root[d2] = n2
      /\ None \notin t.alive
  BY <1>0, <1>1, TreeUp DEF Nodes
<1>6. ASSUME NEW e \in Desktop \ {d1, d2}  PROVE Nodes(u, e) = Nodes(t, e)
  <2>1. Tree(t, e, Nodes(t, e)) /\ Nodes(t, e) \intersect Nodes(t, d1) = {}
        /\ Nodes(t, e) \intersect Nodes(t, d2) = {} /\ None \notin Nodes(t, e)
    BY <1>5, TreeFacts, TreesDisjoint DEF Nodes
  <2>2. u.root[e] = t.root[e]
    BY <1>2
  <2>3. Tree(u, e, Nodes(t, e))
    BY <1>1, <1>2, <1>4, <1>5, <2>1, <2>2 DEF Tree
  <2> QED BY <1>3, <2>3, TreeIs
<1>7. ASSUME d1 = d2  PROVE Nodes(u, d1) = Nodes(t, d1)
  <2>1. Tree(t, d1, Nodes(t, d1)) /\ u.root[d1] = t.root[d1]
    BY <1>2, <1>7, TreeFacts
  <2>2. p1 # None /\ p2 # None
    BY <1>5, <1>7 DEF InTree
  <2>3. Tree(u, d1, Nodes(t, d1))
    BY <1>1, <1>2, <1>4, <1>5, <1>7, <2>1, <2>2 DEF Tree
  <2> QED BY <1>3, <2>3, TreeIs
<1>8. ASSUME d1 # d2
      PROVE  /\ Nodes(u, d1) = (Nodes(t, d1) \ Below(t, n1)) \union Below(t, n2)
             /\ Nodes(u, d2) = (Nodes(t, d2) \ Below(t, n2)) \union Below(t, n1)
  <2>1. Exchanged(t, u, d1, n1, d2, n2)
    BY <1>2, <1>4, <1>8 DEF Exchanged
  <2>2. Exchanged(t, u, d2, n2, d1, n1)
    BY <2>1 DEF Exchanged
  <2>3. Nodes(u, d1) = (Nodes(t, d1) \ Below(t, n1)) \union Below(t, n2)
    BY <1>1, <1>3, <1>8, <2>1, ExchangedTree
  <2>4. Nodes(u, d2) = (Nodes(t, d2) \ Below(t, n2)) \union Below(t, n1)
    BY <1>1, <1>3, <1>8, <2>2, ExchangedTree
  <2> QED BY <2>3, <2>4
<1> QED BY <1>2, <1>6, <1>7, <1>8 DEF u

-----------------------------------------------------------------------------
(* The refinement.                                                         *)

(* The windows of every desktop, as Held has them.                         *)
Shown(t) == [d \in Desktop |-> t.window \intersect Nodes(t, d)]

LEMMA ShownApart ==
  ASSUME NEW t, Forest(t, None), NEW n, NEW d \in Desktop, InTree(t, d, n)
  PROVE  /\ Below(t, n) \subseteq Nodes(t, d)
         /\ \A e \in Desktop \ {d} : Below(t, n) \intersect Nodes(t, e) = {}
<1>1. n \in Nodes(t, d)
  BY DEF Nodes, InTree, IsDescendant
<1> QED BY <1>1, BranchInTree, TreesDisjoint

(* manage_window() and insert_receptacle()                                 *)
LEMMA AddShown ==
  ASSUME Inv, NEW d \in Desktop, NEW n \in Node, NEW f \in Node \union {None},
         NEW isWindow \in BOOLEAN, Add(d, n, f, isWindow)
  PROVE  /\ isWindow => Shown(links') = [Shown(links) EXCEPT ![d] = @ \union {n}]
         /\ ~isWindow => Shown(links') = Shown(links)
         /\ \A e \in Desktop : n \notin Shown(links)[e]
<1> DEFINE new == [Make(links, n) EXCEPT !.window = IF isWindow THEN @ \union {n} ELSE @]
<1>1. n \notin links.alive /\ f \in Anchors(d) /\ links' \in Inserted(new, d, n, f)
  BY DEF Add
<1>2. Forest(new, n) /\ \A k \in Node : InTree(links, d, k) => InTree(new, d, k)
  BY <1>1, NewSound DEF Inv
<1>3. /\ \A e \in Desktop : Nodes(new, e) = Nodes(links, e)
      /\ Below(new, n) = {n}
      /\ new.window = IF isWindow THEN links.window \union {n} ELSE links.window
  <2>1. Forest(links, None) /\ n \in Node \ links.alive
    BY <1>1 DEF Inv
  <2> QED BY <2>1, NewTrees
<1> HIDE DEF new
<1>4. f = None \/ InTree(new, d, f)
  BY <1>1, <1>2 DEF Anchors, Nodes
<1>5. Joined(new, links', d, n)
  BY <1>1, <1>2, <1>4, InsertTrees
<1>6. \A e \in Desktop : n \notin Nodes(links, e)
  BY <1>1 DEF Nodes
<1>7. n \notin links.window
  BY <1>1 DEF Inv, Forest
<1>8. /\ links'.window = IF isWindow THEN links.window \union {n} ELSE links.window
      /\ \A k \in links'.window : k \in Nodes(links', d) <=> k \in Nodes(links, d) \union {n}
      /\ \A e \in Desktop \ {d} : Nodes(links', e) = Nodes(links, e)
  BY <1>3, <1>5 DEF Joined
<1>9. ASSUME isWindow  PROVE Shown(links') = [Shown(links) EXCEPT ![d] = @ \union {n}]
  <2>1. links'.window \intersect Nodes(links', d) = (links.window \intersect Nodes(links, d)) \union {n}
    BY <1>8, <1>9
  <2>2. \A e \in Desktop \ {d} :
          links'.window \intersect Nodes(links', e) = links.window \intersect Nodes(links, e)
    BY <1>6, <1>8, <1>9
  <2> QED BY <2>1, <2>2 DEF Shown
<1>10. ASSUME ~isWindow  PROVE Shown(links') = Shown(links)
  <2>1. \A e \in Desktop :
          links'.window \intersect Nodes(links', e) = links.window \intersect Nodes(links, e)
    BY <1>7, <1>8, <1>10
  <2> QED BY <2>1 DEF Shown
<1> QED BY <1>7, <1>9, <1>10 DEF Shown

(* remove_node()                                                           *)
LEMMA RemoveShown ==
  ASSUME Inv, NEW d \in Desktop, NEW n \in Node, Remove(d, n)
  PROVE  Shown(links') = [Shown(links) EXCEPT ![d] = @ \ Below(links, n)]
<1> DEFINE B == Below(links, n)
<1>1. PICK u \in Unlinked(links, d, n) : links' = Freed(u, n)
  BY DEF Remove
<1>2. Forest(u, n) /\ Parted(links, u, n) /\ InTree(links, d, n)
  BY UnlinkSound, UnlinkTrees DEF Inv, Remove
<1>3. links'.window = u.window \ Below(u, n)
      /\ \A e \in Desktop : Nodes(links', e) = Nodes(u, e)
  BY <1>1, <1>2, FreedTrees
<1>4. B \subseteq Nodes(links, d) /\ \A e \in Desktop \ {d} : B \intersect Nodes(links, e) = {}
  BY <1>2, ShownApart DEF Inv
<1> HIDE DEF B
<1>5. \A e \in Desktop :
        links'.window \intersect Nodes(links', e) = (links.window \intersect Nodes(links, e)) \ B
  BY <1>2, <1>3 DEF Parted, B
<1>6. \A e \in Desktop \ {d} :
        links'.window \intersect Nodes(links', e) = links.window \intersect Nodes(links, e)
  BY <1>4, <1>5
<1> QED BY <1>5, <1>6 DEF Shown, B

(* transfer_node()                                                         *)
LEMMA TransferShown ==
  ASSUME Inv, NEW ds \in Desktop, NEW dd \in Desktop, NEW n \in Node,
         NEW f \in Node \union {None}, Transfer(ds, n, dd, f)
  PROVE  LET W == links.window \intersect Below(links, n)
         IN /\ W \subseteq Shown(links)[ds]
            /\ ds = dd => Shown(links') = Shown(links)
            /\ ds # dd => Shown(links') = [Shown(links) EXCEPT ![ds] = @ \ W, ![dd] = @ \union W]
<1> DEFINE B == Below(links, n)
           W == links.window \intersect B
<1>1. PICK u \in Unlinked(links, ds, n) : links' \in Inserted(u, dd, n, f)
  BY DEF Transfer
<1>2. /\ Forest(u, n) /\ Parted(links, u, n) /\ InTree(links, ds, n)
      /\ \A e \in Desktop, k \in Node :
           InTree(links, e, k) /\ n # k /\ links.parent[n] # k /\ ~IsDescendant(links, k, n)
             => InTree(u, e, k)
  BY UnlinkSound, UnlinkTrees DEF Inv, Transfer
<1>3. f = None \/ InTree(u, dd, f)
  BY <1>2 DEF Transfer, Anchors, Nodes
<1>4. Joined(u, links', dd, n)
  BY <1>1, <1>2, <1>3, InsertTrees
<1>5. B \subseteq Nodes(links, ds) /\ \A e \in Desktop \ {ds} : B \intersect Nodes(links, e) = {}
  BY <1>2, ShownApart DEF Inv
<1> HIDE DEF B
<1>6. /\ links'.window = links.window
      /\ \A k \in links.window :
           /\ k \in Nodes(links', dd) <=> k \in Nodes(links, dd) \union B
           /\ \A e \in Desktop \ {dd} : k \in Nodes(links', e) <=> k \in Nodes(links, e) \ B
  BY <1>2, <1>4 DEF Parted, Joined, B
<1>7. ASSUME ds = dd  PROVE Shown(links') = Shown(links)
  <2>1. \A e \in Desktop :
          links'.window \intersect Nodes(links', e) = links.window \intersect Nodes(links, e)
    BY <1>5, <1>6, <1>7
  <2> QED BY <2>1 DEF Shown
<1>8. ASSUME ds # dd
      PROVE  Shown(links') = [Shown(links) EXCEPT ![ds] = @ \ W, ![dd] = @ \union W]
  <2>1. /\ links'.window \intersect Nodes(links', ds) = (links.window \intersect Nodes(links, ds)) \ W
        /\ links'.window \intersect Nodes(links', dd)
             = (links.window \intersect Nodes(links, dd)) \union W
    BY <1>6, <1>8
  <2>2. \A e \in Desktop \ {ds, dd} :
          links'.window \intersect Nodes(links', e) = links.window \intersect Nodes(links, e)
    BY <1>5, <1>6
  <2> HIDE DEF W
  <2> QED BY <1>8, <2>1, <2>2 DEF Shown
<1>9. W \subseteq Shown(links)[ds]
  BY <1>5 DEF Shown
<1> QED BY <1>7, <1>8, <1>9 DEF B

(* swap_nodes()                                                            *)
LEMMA SwapShown ==
  ASSUME Inv, NEW d1 \in Desktop, NEW d2 \in Desktop, NEW n1 \in Node, NEW n2 \in Node,
         Swap(d1, n1, d2, n2)
  PROVE  LET W1 == links.window \intersect Below(links, n1)
             W2 == links.window \intersect Below(links, n2)
         IN /\ W1 \subseteq Shown(links)[d1] /\ W2 \subseteq Shown(links)[d2]
            /\ d1 = d2 => Shown(links') = Shown(links)
            /\ d1 # d2 =>
                 Shown(links') = [Shown(links) EXCEPT ![d1] = (@ \ W1) \union W2,
                                                      ![d2] = (@ \ W2) \union W1]
<1> DEFINE W1 == links.window \intersect Below(links, n1)
           W2 == links.window \intersect Below(links, n2)
<1>1. /\ links'.window = links.window
      /\ \A e \in Desktop \ {d1, d2} : Nodes(links', e) = Nodes(links, e)
      /\ d1 = d2 => Nodes(links', d1) = Nodes(links, d1)
      /\ d1 # d2 =>
           /\ Nodes(links', d1) = (Nodes(links, d1) \ Below(links, n1)) \union Below(links, n2)
           /\ Nodes(links', d2) = (Nodes(links, d2) \ Below(links, n2)) \union Below(links, n1)
  BY SwapTrees DEF Inv, Swap
<1>2. Below(links, n1) \subseteq Nodes(links, d1) /\ Below(links, n2) \subseteq Nodes(links, d2)
  BY ShownApart DEF Inv, Swap
<1>3. W1 \subseteq Shown(links)[d1] /\ W2 \subseteq Shown(links)[d2]
  BY <1>2 DEF Shown
<1>4. ASSUME d1 = d2  PROVE Shown(links') = Shown(links)
  BY <1>1, <1>4 DEF Shown
<1>5. ASSUME d1 # d2
      PROVE  Shown(links') = [Shown(links) EXCEPT ![d1] = (@ \ W1) \union W2,
                                                  ![d2] = (@ \ W2) \union W1]
  <2>1. /\ links'.window \intersect Nodes(links', d1)
             = ((links.window \intersect Nodes(links, d1)) \ W1) \union W2
        /\ links'.window \intersect Nodes(links', d2)
             = ((links.window \intersect Nodes(links, d2)) \ W2) \union W1
    BY <1>1, <1>5
  <2> HIDE DEF W1, W2
  <2> QED BY <1>1, <1>5, <2>1 DEF Shown
<1> QED BY <1>3, <1>4, <1>5

(* A group that moves within its desktop changes nothing.                  *)
LEMMA MovedWithin ==
  ASSUME NEW h, h = [d \in Desktop |-> h[d]], NEW d \in Desktop, NEW W, W \subseteq h[d]
  PROVE  Sets!Moved(h, d, W, d) = h
<1>1. (h[d] \ W) \union W = h[d]
  OBVIOUS
<1>2. Sets!Moved(h, d, W, d) = [h EXCEPT ![d] = (@ \ W) \union W]
  BY DEF Sets!Moved, Sets!Came, Sets!Gone
<1> QED BY <1>1, <1>2

(* Two groups of two desktops that change places.                          *)
LEMMA ExchangedApart ==
  ASSUME NEW h, h = [d \in Desktop |-> h[d]], NEW d1 \in Desktop, NEW d2 \in Desktop, d1 # d2,
         NEW W1, W1 \subseteq h[d1], NEW W2, W2 \subseteq h[d2], h[d1] \intersect h[d2] = {},
         NEW g, g = [h EXCEPT ![d1] = (@ \ W1) \union W2, ![d2] = (@ \ W2) \union W1]
  PROVE  g = Sets!Exchanged(h, d1, W1, d2, W2)
<1>1. (h[d2] \union W1) \ W2 = (h[d2] \ W2) \union W1
  OBVIOUS
<1>2. Sets!Exchanged(h, d1, W1, d2, W2)
        = [h EXCEPT ![d1] = (@ \ W1) \union W2, ![d2] = (@ \union W1) \ W2]
  BY DEF Sets!Exchanged, Sets!Moved, Sets!Came, Sets!Gone
<1> QED BY <1>1, <1>2

(* The handlers of tree.c do to the windows of the desktops just what      *)
(* WindowSets says for the node and the desktops they are called with: an  *)
(* insertion brings its window, a removal takes away those below its node  *)
(* and no others, a transfer and a swap move those below their nodes and   *)
(* lose none, receptacles and rotations move none.                         *)
THEOREM HoldsWindowsHolds == Spec => HoldsWindows
<1>1. Init => Sets!Init
  BY DEF Init, Sets!Init, Held, Nodes
<1>2. ASSUME Inv, Next  PROVE HandlerKeepsPromise
  <2> DEFINE h == Shown(links)
             h1 == Shown(links')
  <2>1. Held = h /\ Held' = h1
    BY DEF Held, Shown
  <2>2. h = [d \in Desktop |-> h[d]]
    BY DEF Shown
  <2> HIDE DEF h, h1
  <2>3. ASSUME NEW d \in Desktop, NEW n \in Node, NEW f \in Node \union {None},
               NEW isWindow \in BOOLEAN, Add(d, n, f, isWindow)
        PROVE  HandlerKeepsPromise
    <3>1. /\ isWindow => h1 = [h EXCEPT ![d] = @ \union {n}]
          /\ ~isWindow => h1 = h
      BY <1>2, <2>3, AddShown DEF h, h1
    <3>2. CASE isWindow = TRUE
      <4>1. Held' = Sets!Came(Held, d, {n})
        BY <2>1, <3>1, <3>2 DEF Sets!Came
      <4> QED BY <2>3, <3>2, <4>1 DEF HandlerKeepsPromise
    <3>3. CASE isWindow = FALSE
      BY <2>1, <2>3, <3>1, <3>3 DEF HandlerKeepsPromise
    <3> QED BY <3>2, <3>3
  <2>4. ASSUME NEW d \in Desktop, NEW n \in Node, Remove(d, n)
        PROVE  HandlerKeepsPromise
    <3>1. h1 = [h EXCEPT ![d] = @ \ Below(links, n)]
      BY <1>2, <2>4, RemoveShown DEF h, h1
    <3>2. h[d] \ Below(links, n) = h[d] \ Windows(n)
      BY DEF h, Shown, Windows
    <3>3. Held' = Sets!Gone(Held, d, Windows(n))
      BY <2>1, <3>1, <3>2 DEF Sets!Gone
    <3> QED BY <2>4, <3>3 DEF HandlerKeepsPromise
  <2>5. ASSUME NEW ds \in Desktop, NEW dd \in Desktop, NEW n \in Node,
               NEW f \in Node \union {None}, Transfer(ds, n, dd, f)
        PROVE  HandlerKeepsPromise
    <3>1. PICK W : W = Windows(n)
      OBVIOUS
    <3>2. /\ W \subseteq h[ds]
          /\ ds = dd => h1 = h
          /\ ds # dd => h1 = [h EXCEPT ![ds] = @ \ W, ![dd] = @ \union W]
      BY <1>2, <2>5, <3>1, TransferShown DEF h, h1, Windows
    <3>3. n \in Nodes(links, ds)
      BY <2>5 DEF Transfer, Nodes, InTree, IsDescendant
    <3>4. h1 = Sets!Moved(h, ds, W, dd)
      <4>1. CASE ds = dd
        BY <2>2, <3>2, <4>1, MovedWithin
      <4>2. CASE ds # dd
        BY <3>2, <4>2 DEF Sets!Moved, Sets!Came, Sets!Gone
      <4> QED BY <4>1, <4>2
    <3>5. Held' = Sets!Moved(Held, ds, Windows(n), dd)
      BY <2>1, <3>1, <3>4
    <3> QED BY <2>5, <3>3, <3>5 DEF HandlerKeepsPromise
  <2>6. ASSUME NEW d1 \in Desktop, NEW d2 \in Desktop, NEW n1 \in Node, NEW n2 \in Node,
               Swap(d1, n1, d2, n2)
        PROVE  HandlerKeepsPromise
    <3>1. PICK W1, W2 : W1 = Windows(n1) /\ W2 = Windows(n2)
      OBVIOUS
    <3>2. /\ W1 \subseteq h[d1] /\ W2 \subseteq h[d2]
          /\ d1 = d2 => h1 = h
          /\ d1 # d2 => h1 = [h EXCEPT ![d1] = (@ \ W1) \union W2, ![d2] = (@ \ W2) \union W1]
      BY <1>2, <2>6, <3>1, SwapShown DEF h, h1, Windows
    <3>3. n1 \in Nodes(links, d1) /\ n2 \in Nodes(links, d2)
      BY <2>6 DEF Swap, Nodes, InTree, IsDescendant
    <3>4. h1 = Sets!Exchanged(h, d1, W1, d2, W2)
      <4>1. CASE d1 = d2
        BY <2>2, <3>2, <4>1, MovedWithin DEF Sets!Exchanged
      <4>2. CASE d1 # d2
        <5>1. h[d1] \intersect h[d2] = {}
          BY <1>2, <4>2, TreesDisjoint DEF h, Shown, Inv
        <5> QED BY <2>2, <3>2, <4>2, <5>1, ExchangedApart
      <4> QED BY <4>1, <4>2
    <3>5. Held' = Sets!Exchanged(Held, d1, Windows(n1), d2, Windows(n2))
      BY <2>1, <3>1, <3>4
    <3> QED BY <2>6, <3>3, <3>5 DEF HandlerKeepsPromise
  <2>7. ASSUME NEW n \in links.alive, NEW S \in SUBSET Below(links, n), Rotate(n, S)
        PROVE  HandlerKeepsPromise
    <3>1. links \in Links /\ S \in SUBSET Node /\ links' = Turn(links, S)
      BY <1>2, <2>7 DEF Inv, Forest, Links, Below, Rotate
    <3>2. links'.window = links.window /\ \A e \in Desktop : Nodes(links', e) = Nodes(links, e)
      BY <3>1, TurnSame
    <3>3. Held' = Held
      BY <3>2 DEF Held
    <3> QED BY <2>7, <3>3 DEF HandlerKeepsPromise
  <2> QED BY <1>2, <2>3, <2>4, <2>5, <2>6, <2>7 DEF Next
<1>3. Inv /\ [Next]_links => [HandlerKeepsPromise]_links
  BY <1>2
<1> QED BY <1>1, <1>3, LinksInvariant, PTL DEF Spec, HoldsWindows

(* The trees implement WindowSets: the effects of the calls are steps of   *)
(* the abstract specification.                                             *)
THEOREM ImplementsWindowSets == Spec => Sets!Spec
<1>1. ASSUME Inv, Inv', HandlerKeepsPromise  PROVE [Sets!Next]_Held
  <2> DEFINE now == Held
             then == Held'
  <2>1. \A d \in Desktop : now[d] = links.window \intersect Nodes(links, d)
    BY DEF Held
  <2>2. \A d \in Desktop, n \in Node : n \in Nodes(links, d) => Windows(n) \subseteq now[d]
    BY <1>1, <2>1, ShownApart DEF Windows, Inv, Nodes
  <2> HIDE DEF now, then
  <2>3. ASSUME NEW d \in Desktop, NEW n \in Node, Remove(d, n),
               then = Sets!Gone(now, d, Windows(n))
        PROVE  [Sets!Next]_Held
    <3>1. Windows(n) \in SUBSET now[d]
      BY <2>2, <2>3 DEF Remove, Nodes, InTree, IsDescendant
    <3> QED BY <2>3, <3>1 DEF Sets!Next, now, then
  <2>4. ASSUME NEW d \in Desktop, NEW n \in Node, NEW f \in Node \union {None},
               Add(d, n, f, TRUE), then = Sets!Came(now, d, {n})
        PROVE  [Sets!Next]_Held
    <3>1. \A e \in Desktop : n \notin now[e]
      BY <2>1, <2>4 DEF Add, Nodes
    <3> QED BY <2>4, <3>1 DEF Sets!Next, now, then
  <2>5. ASSUME NEW ds \in Desktop, NEW dd \in Desktop, NEW n \in Nodes(links, ds),
               then = Sets!Moved(now, ds, Windows(n), dd)
        PROVE  [Sets!Next]_Held
    <3>1. Windows(n) \in SUBSET now[ds]
      BY <1>1, <2>2, <2>5 DEF Nodes, Inv, Forest, Links
    <3> QED BY <2>5, <3>1 DEF Sets!Next, now, then
  <2>6. ASSUME NEW d1 \in Desktop, NEW d2 \in Desktop,
               NEW n1 \in Nodes(links, d1), NEW n2 \in Nodes(links, d2),
               then = Sets!Exchanged(now, d1, Windows(n1), d2, Windows(n2))
        PROVE  [Sets!Next]_Held
    <3>1. Windows(n1) \in SUBSET now[d1] /\ Windows(n2) \in SUBSET now[d2]
      BY <1>1, <2>2, <2>6 DEF Nodes, Inv, Forest, Links
    <3> QED BY <2>6, <3>1 DEF Sets!Next, now, then
  <2>7. then = now => [Sets!Next]_Held
    BY DEF now, then
  <2> QED BY <1>1, <2>3, <2>4, <2>5, <2>6, <2>7 DEF HandlerKeepsPromise, now, then
<1>2. UNCHANGED links => UNCHANGED Held
  BY DEF Held, Nodes, InTree, IsDescendant, UpClosed
<1>3. Inv /\ Inv' /\ [HandlerKeepsPromise]_links => [Sets!Next]_Held
  BY <1>1, <1>2
<1> QED BY <1>3, LinksInvariant, HoldsWindowsHolds, PTL DEF HoldsWindows, Sets!Spec
=============================================================================
