------------------------- MODULE StackingListProofs -------------------------
(***************************************************************************)
(* For any set of windows, the list of stack.c has no duplicate and no     *)
(* freed window, agrees with the X server, and is ordered by level once    *)
(* every window whose level changed has been restacked.                    *)
(***************************************************************************)
EXTENDS StackingList, ListFacts, FiniteSetTheorems

-----------------------------------------------------------------------------
(* The inductive invariant.  ListSound and ServerAgrees are inductive with *)
(* the types; the order is not, for a window that changes level spoils it  *)
(* until it is restacked: what every step keeps is the order of the other  *)
(* windows.                                                                *)
OthersOrdered ==
  \A u, v \in Listed(stacking) \ {unsettled} :
    Under(stacking, u, v) => Level[u] <= Level[v]

Inv == TypeOK /\ ListSound /\ ServerAgrees /\ OthersOrdered

LEMMA LevelType ==
  ASSUME TypeOK
  PROVE  Level \in [Window -> Int]
<1>1. \A ly, st : StackLevel(ly, st) \in Int
  BY DEF StackLevel
<1> QED  BY <1>1 DEF Level

LEMMA InitInv == Init => Inv
<1> SUFFICES ASSUME Init  PROVE Inv
  OBVIOUS
<1>1. Cardinality(Window) \in Nat
  BY WindowAssumption, FS_CardinalityType
<1>2. server \in Seq(Window)
  BY <1>1 DEF Init
<1>3. TypeOK
  BY <1>2 DEF Init, TypeOK, Layers, States
<1>4. Listed(stacking) = {} /\ Unique(stacking) /\ \A u, v : ~Under(stacking, u, v)
  BY DEF Init, Listed, Unique, Under
<1> QED  BY <1>3, <1>4 DEF Init, Inv, ListSound, ServerAgrees, OthersOrdered

(* make_client() and set_layer()/set_state() leave the list and the server *)
(* alone.                                                                  *)
LEMMA MakeClientInv ==
  ASSUME Inv, NEW w \in Window, MakeClient(w)
  PROVE  Inv'
<1>1. TypeOK'
  BY DEF Inv, TypeOK, MakeClient, Layers, States
<1>2. ListSound'
  BY DEF Inv, ListSound, MakeClient
<1>3. ServerAgrees'
  BY DEF Inv, ServerAgrees, MakeClient
<1>4. OthersOrdered'
  <2>1. \A u \in Listed(stacking) : u \in Window /\ u # w
    BY DEF Inv, TypeOK, ListSound, MakeClient
  <2>2. \A u \in Listed(stacking) : Level'[u] = Level[u]
    BY <2>1 DEF Inv, TypeOK, MakeClient, Level
  <2> QED  BY <2>2 DEF Inv, OthersOrdered, MakeClient
<1> QED  BY <1>1, <1>2, <1>3, <1>4 DEF Inv

LEMMA ChangeLevelInv ==
  ASSUME Inv, NEW w \in Window, NEW ly \in Layers, NEW st \in States,
         ChangeLevel(w, ly, st)
  PROVE  Inv'
<1>1. TypeOK'
  BY DEF Inv, TypeOK, ChangeLevel
<1>2. ListSound'
  BY DEF Inv, ListSound, ChangeLevel
<1>3. ServerAgrees'
  BY DEF Inv, ServerAgrees, ChangeLevel
<1>4. OthersOrdered'
  <2>1. \A u \in Listed(stacking) : u \in Window /\ u # None
    BY WindowAssumption DEF Inv, TypeOK, ListSound
  <2>2. \A u \in Listed(stacking) : u # w => Level'[u] = Level[u]
    BY <2>1 DEF Inv, TypeOK, ChangeLevel, Level
  <2>3. Listed(stacking)' \ {unsettled'} = Listed(stacking) \ {w}
    BY <2>1 DEF ChangeLevel
  <2>4. \A u, v \in Listed(stacking) : Under(stacking, u, v) => Level[u] <= Level[v]
    BY <2>1 DEF Inv, OthersOrdered, ChangeLevel
  <2> QED  BY <2>2, <2>3, <2>4 DEF OthersOrdered, ChangeLevel
<1> QED  BY <1>1, <1>2, <1>3, <1>4 DEF Inv

(* A request to the server that puts w next to a keeps the agreement with  *)
(* a list in which w goes to the same side of the same window.             *)
LEMMA SameSide ==
  ASSUME NEW s \in Seq(Window), Unique(s), NEW x \in Seq(Window), Unique(x),
         Listed(s) \subseteq Listed(x),
         \A u, v \in Window : Under(s, u, v) => Under(x, u, v),
         NEW w \in Window, NEW a \in Listed(s), a # w,
         NEW lv \in [Window -> Int], NEW focused \in BOOLEAN
  PROVE  \A u, v \in Window :
           Under(PutNextTo(s, lv, w, a, focused), u, v)
             => Under(PutNextTo(x, lv, w, a, focused), u, v)
<1> DEFINE r == PutNextTo(s, lv, w, a, focused)
           y == PutNextTo(x, lv, w, a, focused)
           below == GoesBelow(lv, w, a, focused)
<1>1. /\ r \in Seq(Window)
      /\ Unique(r)
      /\ Listed(r) = Listed(s) \union {w}
      /\ \A u, v : (u # w /\ v # w) => (Under(r, u, v) <=> Under(s, u, v))
      /\ \A u \in Listed(s) \ {w} :
           /\ Under(r, u, w) <=> (Under(s, u, a) \/ (u = a /\ ~below))
           /\ Under(r, w, u) <=> (Under(s, a, u) \/ (u = a /\ below))
  BY PutNextToOrder, SMTT(30)
<1>2. /\ \A u, v : (u # w /\ v # w) => (Under(y, u, v) <=> Under(x, u, v))
      /\ \A u \in Listed(x) \ {w} :
           /\ Under(y, u, w) <=> (Under(x, u, a) \/ (u = a /\ ~below))
           /\ Under(y, w, u) <=> (Under(x, a, u) \/ (u = a /\ below))
  <2>1. a \in Listed(x)
    OBVIOUS
  <2> QED  BY <2>1, PutNextToOrder, SMTT(30)
<1>3. a \in Window /\ \A u \in Listed(s) : u \in Window
  BY ElementOfSeq DEF Listed
<1> HIDE DEF r, y, below
<1>4. ASSUME NEW u \in Window, NEW v \in Window, Under(r, u, v)
      PROVE  Under(y, u, v)
  <2>1. ~(u = w /\ v = w) /\ u \in Listed(r) /\ v \in Listed(r)
    BY <1>1, <1>4, UnderOrder
  <2>2. CASE u # w /\ v # w
    BY <2>2, <1>1, <1>2, <1>4
  <2>3. CASE u = w /\ v # w
    BY <2>1, <2>3, <1>1, <1>2, <1>3, <1>4
  <2>4. CASE u # w /\ v = w
    BY <2>1, <2>4, <1>1, <1>2, <1>3, <1>4
  <2> QED  BY <2>1, <2>2, <2>3, <2>4
<1> QED  BY <1>4 DEF r, y

(* One turn of the loop of stack().                                        *)
LEMMA StackLeafInv ==
  ASSUME Inv, NEW w \in Window, NEW focused \in BOOLEAN, NEW autoRaise \in BOOLEAN,
         StackLeaf(w, focused, autoRaise)
  PROVE  Inv'
<1> DEFINE lv == Level
           k == Limit(stacking, lv, w, focused)
<1>1. lv \in [Window -> Int]
  BY LevelType DEF Inv
<1>2. /\ stacking \in Seq(Window) /\ Unique(stacking)
      /\ server \in Seq(Window) /\ Unique(server) /\ Listed(server) = Window
      /\ Listed(stacking) \subseteq managed /\ managed \subseteq Window
      /\ w \in managed
      /\ stacking' = StackList(stacking, lv, w, focused)
      /\ server' = StackServer(server, stacking, lv, w, focused)
  BY DEF Inv, TypeOK, ListSound, StackLeaf
<1>3. Level' = lv
  BY DEF StackLeaf, Level
<1> HIDE DEF lv, k
<1>4. \A u, v \in Listed(stacking) \ {w} : Under(stacking, u, v) => lv[u] <= lv[v]
  BY <1>2, WindowAssumption DEF Inv, OthersOrdered, StackLeaf, lv
<1>5. /\ stacking' \in Seq(Window)
      /\ Unique(stacking')
      /\ Listed(stacking') = Listed(stacking) \union {w}
      /\ \A u, v \in Listed(stacking') : Under(stacking', u, v) => lv[u] <= lv[v]
  <2> DEFINE r == StackList(stacking, lv, w, focused)
  <2>1. /\ r \in Seq(Window)
        /\ Unique(r)
        /\ Listed(r) = Listed(stacking) \union {w}
    <3>1. stacking \in Seq(Window) /\ Unique(stacking) /\ lv \in [Window -> Int]
      BY <1>1, <1>2
    <3> QED  BY <3>1, StackListSound
  <2>2. \A u, v \in Listed(r) : Under(r, u, v) => lv[u] <= lv[v]
    BY <1>1, <1>2, <1>4, StackListInOrder, SMTT(30)
  <2> HIDE DEF r
  <2>3. stacking' = r
    BY <1>2 DEF r
  <2> QED  BY <2>1, <2>2, <2>3
<1>6. /\ server' \in Seq(Window)
      /\ Unique(server')
      /\ Listed(server') = Window
      /\ \A u, v \in Window : Under(stacking', u, v) => Under(server', u, v)
  <2>1. CASE stacking = <<>>
    <3>1. stacking' = <<w>> /\ server' = server
      BY <1>2, <2>1 DEF StackList, StackServer
    <3>2. Len(stacking') = 1
      BY <3>1
    <3>3. \A u, v : ~Under(stacking', u, v)
      BY <3>2 DEF Under
    <3> QED  BY <1>2, <3>1, <3>3
  <2>2. CASE stacking # <<>> /\ k \notin 1..Len(stacking)
    <3>1. stacking' = stacking /\ server' = server
      BY <1>2, <2>2 DEF StackList, StackServer, k
    <3> QED  BY <1>2, <3>1 DEF Inv, ServerAgrees
  <2>3. CASE stacking # <<>> /\ k \in 1..Len(stacking)
    <3> DEFINE a == stacking[k]
    <3>1. a \in Listed(stacking) /\ a # w
      BY <1>1, <1>2, <2>3, LimitAbovePlace, LimitBelowPlace DEF Limit, k
    <3>2. /\ stacking' = PutNextTo(stacking, lv, w, a, focused)
          /\ server' = PutNextTo(server, lv, w, a, focused)
      BY <1>2, <2>3 DEF StackList, StackServer, k
    <3> HIDE DEF a
    <3>3. a \in Listed(server)
      BY <1>2, <3>1
    <3>4. /\ server' \in Seq(Window)
          /\ Unique(server')
          /\ Listed(server') = Listed(server) \union {w}
      BY <1>1, <1>2, <3>1, <3>2, <3>3, PutNextToOrder, SMTT(30)
    <3>5. \A u, v \in Window : Under(stacking', u, v) => Under(server', u, v)
      <4>1. \A u, v \in Window : Under(stacking, u, v) => Under(server, u, v)
        BY DEF Inv, ServerAgrees
      <4>2. Listed(stacking) \subseteq Listed(server)
        BY <1>2
      <4>3. \A u, v \in Window :
              Under(PutNextTo(stacking, lv, w, a, focused), u, v)
                => Under(PutNextTo(server, lv, w, a, focused), u, v)
        BY <1>1, <1>2, <3>1, <4>1, <4>2, SameSide
      <4> QED  BY <4>3, <3>2
    <3> QED  BY <1>2, <3>4, <3>5
  <2> QED  BY <2>1, <2>2, <2>3
<1>7. TypeOK'
  BY <1>5, <1>6 DEF Inv, TypeOK, StackLeaf
<1>8. ListSound'
  BY <1>2, <1>5, <1>6 DEF Inv, ListSound, StackLeaf
<1>9. ServerAgrees'
  BY <1>6 DEF ServerAgrees
<1>10. OthersOrdered'
  BY <1>3, <1>5 DEF OthersOrdered
<1> QED  BY <1>7, <1>8, <1>9, <1>10 DEF Inv

(* remove_stack_node() keeps the order of what is left.                    *)
LEMMA RemoveLeafInv ==
  ASSUME Inv, NEW w \in Window, RemoveLeaf(w)
  PROVE  Inv'
<1>1. /\ stacking' \in Seq(Window)
      /\ Unique(stacking')
      /\ Listed(stacking') = Listed(stacking) \ {w}
      /\ \A u, v : Under(stacking', u, v)
                     <=> Under(stacking, u, v) /\ u # w /\ v # w
  BY WithoutOrder DEF Inv, TypeOK, ListSound, RemoveLeaf
<1>2. TypeOK'
  BY <1>1 DEF Inv, TypeOK, RemoveLeaf
<1>3. ListSound'
  BY <1>1 DEF Inv, ListSound, RemoveLeaf
<1>4. ServerAgrees'
  BY <1>1 DEF Inv, ServerAgrees, RemoveLeaf
<1>5. OthersOrdered'
  <2>1. Level' = Level
    BY DEF RemoveLeaf, Level
  <2>2. \A u \in Listed(stacking') : u \in Listed(stacking) /\ u # unsettled
    BY <1>1, WindowAssumption DEF Inv, TypeOK, ListSound, RemoveLeaf
  <2> QED  BY <1>1, <2>1, <2>2 DEF Inv, OthersOrdered
<1> QED  BY <1>2, <1>3, <1>4, <1>5 DEF Inv

(* A window that is not managed is not in the list.                        *)
LEMMA ForeignRestackInv ==
  ASSUME Inv, NEW w \in Window, NEW a \in Window, ForeignRestack(w, a)
  PROVE  Inv'
<1>1. a \in Listed(server) /\ a # w /\ server \in Seq(Window) /\ Unique(server)
  BY DEF Inv, TypeOK, ListSound, ForeignRestack
<1>2. /\ server' \in Seq(Window)
      /\ Unique(server')
      /\ Listed(server') = Listed(server) \union {w}
      /\ \A u, v : (u # w /\ v # w) => (Under(server', u, v) <=> Under(server, u, v))
  <2>1. CASE server' = InsertAfter(server, a, w)
    BY <1>1, <2>1, InsertAfterOrder
  <2>2. CASE server' = InsertBefore(server, a, w)
    BY <1>1, <2>2, InsertBeforeOrder
  <2> QED  BY <2>1, <2>2 DEF ForeignRestack
<1>3. TypeOK'
  BY <1>2 DEF Inv, TypeOK, ForeignRestack
<1>4. ListSound'
  BY <1>2 DEF Inv, ListSound, ForeignRestack
<1>5. ServerAgrees'
  <2>1. \A u, v : Under(stacking, u, v) => u # w /\ v # w
    BY UnderOrder DEF Inv, TypeOK, ListSound, ForeignRestack
  <2> QED  BY <1>2, <2>1 DEF Inv, ServerAgrees, ForeignRestack
<1>6. OthersOrdered'
  BY DEF Inv, OthersOrdered, ForeignRestack, Level
<1> QED  BY <1>3, <1>4, <1>5, <1>6 DEF Inv

LEMMA NextInv == Inv /\ [Next]_vars => Inv'
<1> SUFFICES ASSUME Inv, [Next]_vars  PROVE Inv'
  OBVIOUS
<1>1. ASSUME NEW w \in Window, MakeClient(w)  PROVE Inv'
  BY <1>1, MakeClientInv
<1>2. ASSUME NEW w \in Window, NEW ly \in Layers, NEW st \in States,
             ChangeLevel(w, ly, st)
      PROVE  Inv'
  BY <1>2, ChangeLevelInv
<1>3. ASSUME NEW w \in Window, NEW f \in BOOLEAN, NEW r \in BOOLEAN,
             StackLeaf(w, f, r)
      PROVE  Inv'
  BY <1>3, StackLeafInv
<1>4. ASSUME NEW w \in Window, RemoveLeaf(w)  PROVE Inv'
  BY <1>4, RemoveLeafInv
<1>5. ASSUME NEW w \in Window, NEW a \in Window, ForeignRestack(w, a)  PROVE Inv'
  BY <1>5, ForeignRestackInv
<1>6. CASE UNCHANGED vars
  BY <1>6 DEF vars, Inv, TypeOK, ListSound, ServerAgrees, OthersOrdered, Level
<1> QED  BY <1>1, <1>2, <1>3, <1>4, <1>5, <1>6 DEF Next

LEMMA Invariance == Spec => []Inv
BY InitInv, NextInv, PTL DEF Spec

(* The types are kept, with one order of the X server's windows.           *)
THEOREM TypeCorrect == Spec => []TypeOK
BY Invariance, PTL DEF Inv

(* No operation on the list leaves a duplicate or a freed window in it.    *)
THEOREM NoDanglingCell == Spec => []ListSound
BY Invariance, PTL DEF Inv

(* The requests stack() sends keep the X server's order that of the list.  *)
THEOREM ServerFollowsList == Spec => []ServerAgrees
BY Invariance, PTL DEF Inv

(* The list is ordered by level whenever no window awaits restacking.      *)
THEOREM SettledListOrdered == Spec => []SettledOrder
<1>1. Inv => SettledOrder
  <2> SUFFICES ASSUME Inv, unsettled = None,
                      NEW i \in 1..Len(stacking), NEW j \in 1..Len(stacking), i < j
               PROVE  Level[stacking[i]] <= Level[stacking[j]]
    BY DEF SettledOrder, Ordered
  <2>1. Under(stacking, stacking[i], stacking[j])
    BY DEF Under
  <2>2. stacking[i] \in Listed(stacking) \ {None} /\ stacking[j] \in Listed(stacking) \ {None}
    BY WindowAssumption DEF Inv, TypeOK, ListSound, Listed
  <2> QED  BY <2>1, <2>2 DEF Inv, OthersOrdered
<1> QED  BY <1>1, Invariance, PTL

(* stack() puts a window over, or under, all the windows it is asked to.   *)
THEOREM PlacementCorrect == Spec => PlacedAsAsked
<1>1. Inv /\ [Next]_vars =>
        [\A w \in Window, focused \in BOOLEAN :
           StackLeaf(w, focused, TRUE) =>
             \A v \in Listed(stacking) \ {w} :
               /\ focused /\ Level[v] <= Level[w] => Under(stacking', v, w)
               /\ ~focused /\ Level[v] >= Level[w] => Under(stacking', w, v)]_vars
  <2> SUFFICES ASSUME Inv, NEW w \in Window, NEW focused \in BOOLEAN,
                      StackLeaf(w, focused, TRUE)
               PROVE  \A v \in Listed(stacking) \ {w} :
                        /\ focused /\ Level[v] <= Level[w] => Under(stacking', v, w)
                        /\ ~focused /\ Level[v] >= Level[w] => Under(stacking', w, v)
    OBVIOUS
  <2> DEFINE lv == Level
  <2>1. lv \in [Window -> Int]
    BY LevelType DEF Inv
  <2>2. /\ stacking \in Seq(Window) /\ Unique(stacking)
        /\ stacking' = StackList(stacking, lv, w, focused)
    BY DEF Inv, TypeOK, ListSound, StackLeaf
  <2>3. \A u, v \in Listed(stacking) \ {w} : Under(stacking, u, v) => lv[u] <= lv[v]
    BY WindowAssumption DEF Inv, TypeOK, ListSound, OthersOrdered, StackLeaf
  <2> HIDE DEF lv
  <2>4. \A u \in Listed(stacking) \ {w} :
          /\ focused /\ lv[u] <= lv[w] => Under(stacking', u, w)
          /\ ~focused /\ lv[u] >= lv[w] => Under(stacking', w, u)
    <3> DEFINE r == StackList(stacking, lv, w, focused)
    <3>1. \A u \in Listed(stacking) \ {w} :
            /\ focused /\ lv[u] <= lv[w] => Under(r, u, w)
            /\ ~focused /\ lv[u] >= lv[w] => Under(r, w, u)
      BY <2>1, <2>2, <2>3, StackListInOrder, SMTT(30)
    <3> QED  BY <2>2, <3>1
  <2> QED  BY <2>4 DEF lv
<1> QED  BY <1>1, Invariance, PTL DEF Spec, PlacedAsAsked
=============================================================================
