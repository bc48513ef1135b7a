--------------------------- MODULE ScreensProofs ---------------------------
(***************************************************************************)
(* Proof that the lists of Screens stay sound.  The functions of desktop.c,*)
(* monitor.c and tree.c are operators on records (Places), so each lemma   *)
(* relates the record a function returns to the one it is given: Legal     *)
(* records, of which the relations say what has moved.                     *)
(*   Stays     nothing shown and no list has changed                       *)
(*   Roams     monitors may show another desktop of their own lists        *)
(*   Relists, Tends, Drops, Sends, Swaps, Removes                          *)
(*             a list has changed, a desktop has gone, two desktops have   *)
(*             changed places, a monitor has gone                          *)
(*   Held, Gave, Shrunk, Within                                            *)
(*             what the loops of update_monitors() and of the commands     *)
(*             that rewrite a list of desktops keep                        *)
(* The relations compose.  A loop is a run: a function on 0..n whose values*)
(* stay in the sets that its turns lead through.                           *)
(***************************************************************************)
EXTENDS Screens, ListFacts, FiniteSetTheorems

(* A count of sticky nodes stays within its word.                          *)
LEMMA Modulo ==
  ASSUME NEW x \in Int
  PROVE  x % Word \in 0..(Word - 1)
<1>1. Word \in Nat /\ Word > 0
  BY PlacesAssumption
<1> QED BY <1>1

(* None and the temporary desktops are no desktops, nodes or monitors.     *)
LEMMA Things ==
  /\ None \notin Monitor /\ None \notin Desktop /\ None \notin Node
  /\ Range(Stash) = {Stash[1], Stash[2]}
  /\ Stash[1] # Stash[2] /\ None \notin {Stash[1], Stash[2]}
  /\ Stash[1] \notin Desktop /\ Stash[2] \notin Desktop
<1>1. Range(Stash) = {Stash[1], Stash[2]}
  BY PlacesAssumption DEF Range
<1> QED BY <1>1, PlacesAssumption

(* The desktops that may be in a list.                                     *)
Desk == Desktop \union {Stash[1], Stash[2]}

Records ==
  [monitors : SUBSET Monitor, desks : [Monitor -> Seq(Desk)],
   shown : [Monitor -> Desk \union {None}], count : [Monitor -> 0..(Word - 1)],
   mon : Monitor \union {None}, home : [Node -> Desk \union {None}],
   sticky : SUBSET Node, focus : [Desk -> Node \union {None}],
   visible : SUBSET Node, strayed : BOOLEAN, unseen : BOOLEAN, mislaid : BOOLEAN,
   last : Monitor \union {None},
   recent : [monitors : Seq(Monitor), desktops : Seq(Desktop),
             nodes : Seq(Node), leaves : Seq(Node)]]

(* The newest place of a set that the history knows.                       *)
LEMMA LatestFacts ==
  ASSUME NEW T, None \notin T, NEW places \in Seq(T), NEW S
  PROVE  /\ Latest(places, S) \in (T \intersect S) \union {None}
         /\ Latest(places, S) = None <=> Range(places) \intersect S = {}
<1> DEFINE known == {i \in DOMAIN places : places[i] \in S}
<1>0. Len(places) \in Nat /\ DOMAIN places = 1..Len(places)
      /\ \A i \in 1..Len(places) : places[i] \in T
  BY LenProperties, ElementOfSeq
<1>1. known \subseteq Nat
  BY <1>0
<1>2. CASE known = {}
  BY <1>0, <1>2 DEF Latest, Range
<1>3. CASE known # {}
  <2>1. Min(known) \in known
    BY <1>1, <1>3, LeastPlace
  <2>2. Latest(places, S) = places[Min(known)]
    BY <1>3 DEF Latest
  <2>3. Min(known) \in DOMAIN places /\ places[Min(known)] \in S
    BY <2>1
  <2>4. places[Min(known)] \in Range(places) /\ places[Min(known)] \in T
    BY <1>0, <2>3 DEF Range
  <2> QED BY <2>2, <2>3, <2>4
<1> QED BY <1>2, <1>3
-----------------------------------------------------------------------------
(* The desktops in the lists of a state, and the windows in their trees.   *)
InLists(s) == UNION {Range(s.desks[m]) : m \in Monitor}
InTrees(s) == {n \in Node : s.home[n] # None}

(* What holds of the lists and the trees at every call.                    *)
ListsLegal(s) ==
  /\ \A m \in Monitor : IsInjective(s.desks[m])
  /\ \A m, x \in Monitor : m # x => Range(s.desks[m]) \intersect Range(s.desks[x]) = {}
  /\ \A m \in Monitor : m \notin s.monitors => s.desks[m] = <<>>
  /\ \A m \in Monitor : s.shown[m] \in Range(s.desks[m]) \union {None}
  /\ s.mon \in s.monitors \union {None}

TreesLegal(s) ==
  /\ \A n \in Node : s.home[n] \in InLists(s) \union {None}
  /\ s.sticky \subseteq InTrees(s)
  /\ s.visible \subseteq InTrees(s)

Legal(s) == s \in Records /\ ListsLegal(s) /\ TreesLegal(s)

(* The fields that only the functions on desktops and monitors change, and *)
(* what only a chain of commands notes.                                    *)
SameLists(s, t) ==
  /\ t.monitors = s.monitors /\ t.desks = s.desks
  /\ t.last = s.last /\ t.recent = s.recent /\ t.mislaid = s.mislaid

SamePlaces(s, t) == SameLists(s, t) /\ t.shown = s.shown /\ t.mon = s.mon

SameTrees(s, t) == t.sticky = s.sticky /\ InTrees(t) = InTrees(s)

(* What the functions that move windows leave as it is.                    *)
Stays(s, t) == Legal(t) /\ SamePlaces(s, t) /\ SameTrees(s, t)

(* Doing nothing is such a step.                                           *)
LEMMA StaysSelf ==
  ASSUME NEW s, Legal(s)
  PROVE  Stays(s, s)
BY DEF Stays, SamePlaces, SameLists, SameTrees

(* Such steps compose.                                                     *)
LEMMA StaysOn ==
  ASSUME NEW s, NEW t, NEW u, Stays(s, t), Stays(t, u)
  PROVE  Stays(s, u)
BY DEF Stays, SamePlaces, SameLists, SameTrees

(* The lists are as legal after a change of other fields.                  *)
LEMMA SameIsLegal ==
  ASSUME NEW s, Legal(s), NEW t \in Records, SamePlaces(s, t), TreesLegal(t)
  PROVE  Legal(t)
BY DEF Legal, ListsLegal, SamePlaces, SameLists

(* What a list holds are desktops, and not None.                           *)
LEMMA ListedFacts ==
  ASSUME NEW s, Legal(s), NEW m \in Monitor
  PROVE  /\ Range(s.desks[m]) \subseteq Desk /\ Range(s.desks[m]) \subseteq InLists(s)
         /\ None \notin Range(s.desks[m])
         /\ InLists(s) \subseteq Desk /\ None \notin InLists(s)
<1>1. ASSUME NEW x \in Monitor  PROVE Range(s.desks[x]) \subseteq Desk
  <2>1. s.desks[x] \in Seq(Desk)
    BY DEF Legal, Records
  <2> QED BY <2>1, LenProperties, ElementOfSeq DEF Range
<1>2. None \notin Desk
  BY Things DEF Desk
<1> QED BY <1>1, <1>2 DEF InLists

(* A listed desktop of a monitor and its monitor exist.                    *)
LEMMA PlaceFacts ==
  ASSUME NEW s, Legal(s), NEW m \in s.monitors, NEW d \in Range(s.desks[m])
  PROVE  m \in Monitor /\ m # None /\ d \in Desk /\ d # None /\ d \in InLists(s)
<1>1. m \in Monitor
  BY DEF Legal, Records
<1> QED BY <1>1, ListedFacts, Things

(* Counts of sticky nodes.                                                 *)
LEMMA CountedNat ==
  ASSUME NEW s, Legal(s), NEW m, NEW d, NEW S \in SUBSET Node
  PROVE  Counted(s, m, d, S) \in Nat
<1>1. IsFiniteSet(S \intersect s.sticky)
  BY PlacesAssumption, FS_Subset
<1>2. Cardinality(S \intersect s.sticky) \in Nat
  BY <1>1, FS_CardinalityType
<1> QED BY <1>2 DEF Counted

(* A change of a count of sticky nodes moves nothing.                      *)
LEMMA CountStays ==
  ASSUME NEW s, Legal(s), NEW m \in Monitor, NEW k \in Int,
         NEW t, t = Count(s, m, k)
  PROVE  Stays(s, t) /\ t.home = s.home /\ t.visible = s.visible /\ t.focus = s.focus
<1>1. PICK c : c = (s.count[m] + Word + k) % Word
  OBVIOUS
<1>2. s \in Records /\ s.count \in [Monitor -> 0..(Word - 1)]
  BY DEF Legal, Records
<1>3. c \in 0..(Word - 1)
  <2>1. s.count[m] + Word + k \in Int
    BY <1>2, PlacesAssumption
  <2> QED BY <1>1, <2>1, Modulo
<1>4. t = [s EXCEPT !.count[m] = c]
  BY <1>1, <1>2 DEF Count, Records
<1>5. t \in Records
  <2>1. PICK K : K = [s.count EXCEPT ![m] = c]
    OBVIOUS
  <2>2. K \in [Monitor -> 0..(Word - 1)]
    BY <1>2, <1>3, <2>1
  <2>3. t = [s EXCEPT !.count = K]
    BY <1>4, <2>1
  <2> QED BY <1>2, <2>2, <2>3, ZenonT(60) DEF Records
<1>6. /\ SamePlaces(s, t) /\ SameTrees(s, t) /\ t.home = s.home /\ t.visible = s.visible
      /\ t.focus = s.focus
  BY <1>2, <1>4 DEF Records, SamePlaces, SameLists, SameTrees, InTrees
<1>7. TreesLegal(t)
  BY <1>6 DEF Legal, TreesLegal, SamePlaces, SameLists, SameTrees, InTrees, InLists
<1> QED BY <1>5, <1>6, <1>7, SameIsLegal DEF Stays

(* A change of the focus of a desktop.                                     *)
Refocuses(s, t, d, n) == t.focus = [s.focus EXCEPT ![d] = n]
Refocused(s, d, n) == [s EXCEPT !.focus[d] = n]

(* Nor does a change of the focus of a desktop.                            *)
LEMMA FocusStays ==
  ASSUME NEW s, Legal(s), NEW d \in Desk, NEW n \in Node \union {None},
         NEW t, t = Refocused(s, d, n)
  PROVE  /\ Stays(s, t) /\ t.home = s.home /\ t.visible = s.visible /\ t.count = s.count
         /\ Refocuses(s, t, d, n)
<1>1. PICK K : K = [s.focus EXCEPT ![d] = n]
  OBVIOUS
<1>2. s \in Records /\ K \in [Desk -> Node \union {None}]
  <2>1. s.focus \in [Desk -> Node \union {None}]
    BY DEF Legal, Records
  <2> QED BY <1>1, <2>1 DEF Legal
<1>3. t = [s EXCEPT !.focus = K]
  BY <1>1 DEF Refocused
<1>4. t \in Records
  BY <1>2, <1>3, ZenonT(60) DEF Records
<1>5. /\ SamePlaces(s, t) /\ SameTrees(s, t) /\ t.home = s.home /\ t.visible = s.visible
      /\ t.count = s.count /\ t.focus = K
  BY <1>2, <1>3 DEF Records, SamePlaces, SameLists, SameTrees, InTrees
<1>6. TreesLegal(t)
  BY <1>5 DEF Legal, TreesLegal, SamePlaces, SameLists, SameTrees, InTrees, InLists
<1> QED BY <1>1, <1>4, <1>5, <1>6, SameIsLegal DEF Stays, Refocuses

(* The node that the history gives is a node or none.                      *)
LEMMA GuessNodeFacts ==
  ASSUME NEW s, Legal(s), NEW d \in Desk
  PROVE  GuessNode(s, d) \in Node \union {None}
<1>1. s.focus \in [Desk -> Node \union {None}] /\ s.recent.nodes \in Seq(Node)
  BY DEF Legal, Records
<1>2. Latest(s.recent.nodes, NodesOf(s, d)) \in Node \union {None}
  BY <1>1, Things, LatestFacts
<1> QED BY <1>1, <1>2 DEF GuessNode

(* activate_node() changes a focus only.                                   *)
LEMMA ActivateNodeStays ==
  ASSUME NEW s, Legal(s), NEW d \in Desk, NEW n \in Node \union {None},
         NEW t, t = ActivateNode(s, d, n)
  PROVE  Stays(s, t) /\ t.home = s.home /\ t.visible = s.visible /\ t.count = s.count
<1>1. CASE d = Current(s)
  <2>1. t = s
    BY <1>1 DEF ActivateNode
  <2> QED BY <2>1, StaysSelf
<1>2. CASE d # Current(s)
  <2>1. PICK k : k = Or(n, GuessNode(s, d))
    OBVIOUS
  <2>2. k \in Node \union {None}
    BY <2>1, GuessNodeFacts DEF Or
  <2>3. t = Refocused(s, d, k)
    BY <1>2, <2>1 DEF ActivateNode, Refocused
  <2> QED BY <2>2, <2>3, FocusStays
<1> QED BY <1>1, <1>2

(* A change of what is on the screen.                                      *)
LEMMA VisibleStays ==
  ASSUME NEW s, Legal(s), NEW V \in SUBSET InTrees(s), NEW t, t = [s EXCEPT !.visible = V]
  PROVE  /\ Stays(s, t) /\ t.home = s.home /\ t.visible = V /\ t.count = s.count
         /\ t.focus = s.focus
<1>1. s \in Records /\ V \in SUBSET Node
  BY DEF Legal, InTrees
<1>2. t \in Records
  BY <1>1, ZenonT(60) DEF Records
<1>3. /\ SamePlaces(s, t) /\ SameTrees(s, t) /\ t.home = s.home /\ t.visible = V
      /\ t.count = s.count /\ t.focus = s.focus
  BY <1>1 DEF Records, SamePlaces, SameLists, SameTrees, InTrees
<1>4. TreesLegal(t)
  BY <1>3 DEF Legal, TreesLegal, SamePlaces, SameLists, SameTrees, InTrees, InLists
<1> QED BY <1>2, <1>3, <1>4, SameIsLegal DEF Stays

(* What a monitor shows, and on it the focus.                              *)
Shows(s, t, m, d) ==
  /\ Legal(t) /\ SameLists(s, t) /\ SameTrees(s, t)
  /\ t.shown = [s.shown EXCEPT ![m] = d]

(* A monitor may show any desktop of its list.                             *)
LEMMA ShowStays ==
  ASSUME NEW s, Legal(s), NEW m \in s.monitors, NEW d \in Range(s.desks[m]),
         NEW t, t = [s EXCEPT !.shown[m] = d]
  PROVE  /\ Shows(s, t, m, d) /\ t.mon = s.mon /\ t.home = s.home
         /\ t.count = s.count /\ t.focus = s.focus /\ t.visible = s.visible
<1>0. m \in Monitor
  BY DEF Legal, Records
<1>1. PICK K : K = [s.shown EXCEPT ![m] = d]
  OBVIOUS
<1>2. s \in Records /\ s.shown \in [Monitor -> Desk \union {None}]
  BY DEF Legal, Records
<1>3. K \in [Monitor -> Desk \union {None}]
  BY <1>0, <1>1, <1>2, ListedFacts
<1>4. t = [s EXCEPT !.shown = K]
  BY <1>1
<1>5. t \in Records
  BY <1>2, <1>3, <1>4, ZenonT(60) DEF Records
<1>6. /\ SameLists(s, t) /\ SameTrees(s, t) /\ t.home = s.home /\ t.visible = s.visible
      /\ t.count = s.count /\ t.focus = s.focus /\ t.mon = s.mon /\ t.shown = K
  BY <1>2, <1>4 DEF Records, SameLists, SameTrees, InTrees
<1>7. TreesLegal(t)
  BY <1>6 DEF Legal, TreesLegal, SameLists, SameTrees, InTrees, InLists
<1>8. ListsLegal(t)
  <2>1. \A x \in Monitor : K[x] \in Range(s.desks[x]) \union {None}
    BY <1>0, <1>1, <1>2 DEF Legal, ListsLegal
  <2> QED BY <1>6, <2>1 DEF Legal, ListsLegal, SameLists
<1> QED BY <1>1, <1>5, <1>6, <1>7, <1>8 DEF Shows, Legal

(* Any monitor may have the focus.                                         *)
LEMMA MonStays ==
  ASSUME NEW s, Legal(s), NEW m \in s.monitors, NEW t, t = [s EXCEPT !.mon = m]
  PROVE  /\ Legal(t) /\ SameLists(s, t) /\ SameTrees(s, t) /\ t.shown = s.shown /\ t.mon = m
         /\ t.home = s.home /\ t.count = s.count /\ t.focus = s.focus /\ t.visible = s.visible
<1>0. m \in Monitor
  BY DEF Legal, Records
<1>2. s \in Records
  BY DEF Legal
<1>5. t \in Records
  BY <1>0, <1>2, ZenonT(60) DEF Records
<1>6. /\ SameLists(s, t) /\ SameTrees(s, t) /\ t.home = s.home /\ t.visible = s.visible
      /\ t.count = s.count /\ t.focus = s.focus /\ t.mon = m /\ t.shown = s.shown
  BY <1>2 DEF Records, SameLists, SameTrees, InTrees
<1>7. TreesLegal(t)
  BY <1>6 DEF Legal, TreesLegal, SameLists, SameTrees, InTrees, InLists
<1>8. ListsLegal(t)
  BY <1>6 DEF Legal, ListsLegal, SameLists
<1> QED BY <1>5, <1>6, <1>7, <1>8 DEF Legal

(* The change of the desktop that a monitor shows.                         *)
LEMMA SwitchShows ==
  ASSUME NEW s, Legal(s), NEW m \in s.monitors, NEW d \in Range(s.desks[m]),
         NEW t, t = Switch(s, m, d)
  PROVE  /\ Shows(s, t, m, d) /\ t.mon = s.mon /\ t.home = s.home
         /\ t.count = s.count /\ t.focus = s.focus
<1>0. m \in Monitor /\ d \in Desk /\ s \in Records
  BY ListedFacts DEF Legal, Records
<1>1. PICK V : V = (s.visible \union NodesOf(s, d)) \ (NodesOf(s, s.shown[m]) \ NodesOf(s, d))
  OBVIOUS
<1>2. V \in SUBSET InTrees(s)
  <2>1. NodesOf(s, d) \subseteq InTrees(s)
    BY <1>0, Things DEF NodesOf, InTrees, Desk
  <2> QED BY <1>1, <2>1 DEF Legal, TreesLegal
<1>3. PICK u : u = [s EXCEPT !.visible = V]
  OBVIOUS
<1>4. /\ Stays(s, u) /\ u.home = s.home /\ u.count = s.count /\ u.focus = s.focus
  BY <1>2, <1>3, VisibleStays
<1>5. CASE d = s.shown[m]
  <2>1. t = [s EXCEPT !.shown[m] = d]
    BY <1>0, <1>5 DEF Switch, Records
  <2> QED BY <2>1, ShowStays
<1>6. CASE d # s.shown[m] /\ t = [u EXCEPT !.shown[m] = d]
  <2>1. m \in u.monitors /\ d \in Range(u.desks[m]) /\ Legal(u)
    BY <1>4 DEF Stays, SamePlaces, SameLists
  <2>2. /\ Shows(u, t, m, d) /\ t.mon = u.mon /\ t.home = u.home
        /\ t.count = u.count /\ t.focus = u.focus
    BY <1>6, <2>1, ShowStays
  <2> QED BY <1>4, <2>2 DEF Stays, SamePlaces, SameLists, Shows, SameTrees
<1>7. d # s.shown[m] => t = [u EXCEPT !.shown[m] = d]
  <2>1. Reveal(s, NodesOf(s, d)) = [s EXCEPT !.visible = s.visible \union NodesOf(s, d)]
    BY DEF Reveal
  <2>2. PICK r : r = Reveal(s, NodesOf(s, d))
    OBVIOUS
  <2>3. r.visible = s.visible \union NodesOf(s, d)
    BY <1>0, <2>1, <2>2 DEF Records
  <2>4. Conceal(r, NodesOf(s, s.shown[m]) \ NodesOf(s, d)) = [r EXCEPT !.visible = V]
    BY <1>1, <2>3 DEF Conceal
  <2>5. [r EXCEPT !.visible = V] = u
    BY <1>0, <1>3, <2>1, <2>2 DEF Records
  <2> QED BY <2>2, <2>4, <2>5 DEF Switch
<1> QED BY <1>5, <1>6, <1>7

(* focus_node(), past the sticky nodes.                                    *)
LEMMA FocusAtShows ==
  ASSUME NEW s, Legal(s), NEW m \in s.monitors, NEW d \in Range(s.desks[m]),
         NEW n \in Node \union {None}, NEW t, t = FocusAt(s, m, d, n)
  PROVE  /\ Shows(s, t, m, d) /\ t.mon = m /\ t.home = s.home /\ t.count = s.count
         /\ Refocuses(s, t, d, n)
<1>0. m \in Monitor /\ d \in Desk
  BY ListedFacts DEF Legal, Records
<1>1. PICK u : u = Switch(s, m, d)
  OBVIOUS
<1>2. /\ Shows(s, u, m, d) /\ u.home = s.home /\ u.count = s.count /\ u.focus = s.focus
      /\ Legal(u) /\ m \in u.monitors
  BY <1>1, SwitchShows DEF Shows, SameLists
<1>3. PICK v : v = [u EXCEPT !.mon = m]
  OBVIOUS
<1>4. /\ Legal(v) /\ SameLists(u, v) /\ SameTrees(u, v) /\ v.shown = u.shown /\ v.mon = m
      /\ v.home = u.home /\ v.count = u.count /\ v.focus = u.focus
  BY <1>2, <1>3, MonStays
<1>5. t = Refocused(v, d, n)
  BY <1>1, <1>3 DEF FocusAt, Refocused
<1>6. /\ Stays(v, t) /\ t.home = v.home /\ t.count = v.count
      /\ Refocuses(v, t, d, n)
  BY <1>0, <1>4, <1>5, FocusStays
<1> QED BY <1>2, <1>4, <1>6 DEF Refocuses, Shows, Stays, SamePlaces, SameLists, SameTrees

-----------------------------------------------------------------------------
(* The focused desktop is on the focused monitor alone.                    *)
LEMMA CurrentOwner ==
  ASSUME NEW s, Legal(s), NEW m \in Monitor, NEW d \in Range(s.desks[m]), d = Current(s)
  PROVE  m = s.mon /\ s.shown[m] = d /\ m \in s.monitors
<1>1. s.mon # None /\ d = s.shown[s.mon]
  BY ListedFacts DEF Current
<1>2. s.mon \in s.monitors /\ s.mon \in Monitor
  BY <1>1 DEF Legal, ListsLegal, Records
<1>3. d \in Range(s.desks[s.mon])
  BY <1>1, <1>2, ListedFacts DEF Legal, ListsLegal
<1>4. m = s.mon
  BY <1>2, <1>3 DEF Legal, ListsLegal
<1> QED BY <1>1, <1>2, <1>4

(* On the focused desktop it changes neither lists nor what is shown.      *)
LEMMA FocusAtStays ==
  ASSUME NEW s, Legal(s), NEW m \in Monitor, NEW d \in Range(s.desks[m]), d = Current(s),
         NEW n \in Node \union {None}, NEW t, t = FocusAt(s, m, d, n)
  PROVE  /\ Stays(s, t) /\ t.home = s.home /\ t.count = s.count
         /\ Refocuses(s, t, d, n)
<1>1. m = s.mon /\ s.shown[m] = d /\ m \in s.monitors
  BY CurrentOwner
<1>2. /\ Shows(s, t, m, d) /\ t.mon = m /\ t.home = s.home /\ t.count = s.count
      /\ Refocuses(s, t, d, n)
  BY <1>1, FocusAtShows
<1>3. s.shown \in [Monitor -> Desk \union {None}]
  BY DEF Legal, Records
<1>4. [s.shown EXCEPT ![m] = d] = s.shown
  BY <1>1, <1>3
<1> QED BY <1>1, <1>2, <1>4 DEF Shows, Stays, SamePlaces

(* The end of transfer_node() moves nothing.                               *)
LEMMA SettleStays ==
  ASSUME NEW s, Legal(s), NEW m \in Monitor, NEW d \in Range(s.desks[m]),
         NEW n \in Node \union {None}, NEW t, t = Settle(s, m, d, n)
  PROVE  Stays(s, t) /\ t.home = s.home /\ t.count = s.count
<1>0. d \in Desk
  BY ListedFacts
<1>1. CASE d = Current(s)
  <2>1. PICK k : k = Or(n, GuessNode(s, d))
    OBVIOUS
  <2>2. k \in Node \union {None}
    BY <1>0, <2>1, GuessNodeFacts DEF Or
  <2>3. t = FocusAt(s, m, d, k)
    BY <1>1, <2>1 DEF Settle
  <2> QED BY <1>1, <2>2, <2>3, FocusAtStays
<1>2. CASE d # Current(s)
  <2>1. t = ActivateNode(s, d, n)
    BY <1>2 DEF Settle
  <2> QED BY <1>0, <2>1, ActivateNodeStays
<1> QED BY <1>1, <1>2

(* Windows that change trees.                                              *)
Rehomed(s, H, F, V) == [s EXCEPT !.home = H, !.focus = F, !.visible = V]

(* Any change of the places that keeps each managed window on a listed     *)
(* desktop keeps the trees legal.                                          *)
LEMMA RehomedStays ==
  ASSUME NEW s, Legal(s), NEW H \in [Node -> InLists(s) \union {None}],
         {n \in Node : H[n] # None} = InTrees(s),
         NEW F \in [Desk -> Node \union {None}], NEW V \in SUBSET InTrees(s),
         NEW t, t = Rehomed(s, H, F, V)
  PROVE  Stays(s, t) /\ t.home = H /\ t.count = s.count /\ t.focus = F /\ t.visible = V
<1>1. s \in Records /\ V \in SUBSET Node
  BY DEF Legal, InTrees
<1>2. H \in [Node -> Desk \union {None}]
  <2>1. InLists(s) \subseteq Desk
    <3>1. ASSUME NEW m \in Monitor  PROVE Range(s.desks[m]) \subseteq Desk
      BY ListedFacts
    <3> QED BY <3>1 DEF InLists
  <2> QED BY <2>1
<1>3. t \in Records
  BY <1>1, <1>2, ZenonT(60) DEF Records, Rehomed
<1>4. /\ SamePlaces(s, t) /\ t.sticky = s.sticky
      /\ t.home = H /\ t.count = s.count /\ t.focus = F /\ t.visible = V
  BY <1>1 DEF Records, SamePlaces, SameLists, Rehomed
<1>5. InTrees(t) = InTrees(s) /\ InLists(t) = InLists(s)
  BY <1>4 DEF InTrees, InLists, SamePlaces, SameLists
<1>6. TreesLegal(t)
  BY <1>4, <1>5 DEF Legal, TreesLegal
<1> QED BY <1>3, <1>4, <1>5, <1>6, SameIsLegal DEF Stays, SameTrees

(* The trees when the windows N have gone to the desktop d.                *)
Transferred(h, N, d) == [n \in Node |-> IF n \in N THEN d ELSE h[n]]

(* A transfer to a listed desktop is such a change.                        *)
LEMMA TransferredFacts ==
  ASSUME NEW s, Legal(s), NEW N \in SUBSET InTrees(s), NEW d \in InLists(s)
  PROVE  /\ Transferred(s.home, N, d) \in [Node -> InLists(s) \union {None}]
         /\ {n \in Node : Transferred(s.home, N, d)[n] # None} = InTrees(s)
<1>1. d # None
  <2>1. PICK m \in Monitor : d \in Range(s.desks[m])
    BY DEF InLists
  <2> QED BY <2>1, ListedFacts
<1>2. \A n \in Node : s.home[n] \in InLists(s) \union {None}
  BY DEF Legal, TreesLegal
<1> QED BY <1>1, <1>2 DEF Transferred, InTrees

(* The arguments of a transfer: two desktops on their monitors, and        *)
(* windows of the first.                                                   *)
Transfer(s, ms, ds, N, md, dd) ==
  /\ ms \in Monitor /\ md \in Monitor
  /\ ds \in Range(s.desks[ms]) /\ dd \in Range(s.desks[md])
  /\ N \subseteq NodesOf(s, ds)

(* The two desktops of a transfer, and its windows, exist.                 *)
LEMMA TransferFacts ==
  ASSUME NEW s, Legal(s), NEW ms, NEW ds, NEW N, NEW md, NEW dd, Transfer(s, ms, ds, N, md, dd)
  PROVE  /\ ds \in Desk /\ dd \in Desk /\ ds \in InLists(s) /\ dd \in InLists(s)
         /\ ds # None /\ dd # None /\ N \in SUBSET Node /\ N \in SUBSET InTrees(s)
<1>1. /\ ds \in Desk /\ dd \in Desk /\ ds \in InLists(s) /\ dd \in InLists(s)
      /\ ds # None /\ dd # None
  BY ListedFacts DEF Transfer
<1> QED BY <1>1 DEF Transfer, NodesOf, InTrees

(* The focus that a desktop keeps when the windows N leave it.             *)
Released(s, d, N) == IF s.focus[d] \in N THEN None ELSE s.focus[d]

(* unlink_node() and insert_node() in transfer_node().                     *)
LEMMA RelocateStays ==
  ASSUME NEW s, Legal(s), NEW still, NEW ms, NEW ds, NEW N, NEW md, NEW dd,
         Transfer(s, ms, ds, N, md, dd), NEW t, t = Relocate(s, still, ms, ds, N, md, dd)
  PROVE  /\ Stays(s, t) /\ t.home = Transferred(s.home, N, dd)
         /\ ms = md => t.count = s.count
         /\ Refocuses(s, t, ds, Released(s, ds, N))
<1>0. /\ ds \in Desk /\ dd \in InLists(s) /\ N \in SUBSET Node /\ N \in SUBSET InTrees(s)
      /\ ms \in Monitor /\ md \in Monitor
  BY TransferFacts DEF Transfer
<1>1. PICK F : F = [s.focus EXCEPT ![ds] = IF @ \in N THEN None ELSE @]
  OBVIOUS
<1>2. PICK V : V = CASE still /\ ds = s.shown[ms] /\ dd # s.shown[md] -> s.visible \ N
                     [] still /\ ds # s.shown[ms] /\ dd = s.shown[md] -> s.visible \union N
                     [] OTHER -> s.visible
  OBVIOUS
<1>3. F \in [Desk -> Node \union {None}]
  <2>1. s.focus \in [Desk -> Node \union {None}]
    BY DEF Legal, Records
  <2> QED BY <1>1, <2>1
<1>4. V \in SUBSET InTrees(s)
  <2>1. s.visible \subseteq InTrees(s)
    BY DEF Legal, TreesLegal
  <2>2. V \in {s.visible \ N, s.visible \union N, s.visible}
    BY <1>2
  <2> QED BY <1>0, <2>1, <2>2
<1>5. PICK H : H = Transferred(s.home, N, dd)
  OBVIOUS
<1>6. PICK u : u = Rehomed(s, H, F, V)
  OBVIOUS
<1>7. Stays(s, u) /\ u.home = H /\ u.count = s.count /\ u.focus = F
  <2>1. H \in [Node -> InLists(s) \union {None}] /\ {n \in Node : H[n] # None} = InTrees(s)
    BY <1>0, <1>5, TransferredFacts
  <2> QED BY <1>3, <1>4, <1>6, <2>1, RehomedStays
<1>8. PICK sc : sc = Counted(s, ms, ds, N)
  OBVIOUS
<1>9. t = IF ms = md THEN u ELSE Count(Count(u, ms, Word - sc), md, sc)
  <2>1. u = [s EXCEPT !.home = [n \in Node |-> IF n \in N THEN dd ELSE @[n]],
                      !.focus[ds] = IF @ \in N THEN None ELSE @,
                      !.visible = V]
    BY <1>1, <1>5, <1>6 DEF Rehomed, Transferred
  <2> QED BY <1>2, <1>8, <2>1 DEF Relocate
<1>10. CASE ms = md
  BY <1>1, <1>5, <1>7, <1>9, <1>10 DEF Refocuses, Released
<1>11. CASE ms # md
  <2>1. Word - sc \in Int /\ sc \in Int
    BY <1>0, <1>8, CountedNat, PlacesAssumption
  <2>2. PICK v : v = Count(u, ms, Word - sc)
    OBVIOUS
  <2>3. Stays(u, v) /\ v.home = u.home /\ v.focus = u.focus
    BY <1>0, <1>7, <2>1, <2>2, CountStays DEF Stays
  <2>4. t = Count(v, md, sc)
    BY <1>9, <1>11, <2>2
  <2>5. Stays(v, t) /\ t.home = v.home /\ t.focus = v.focus
    BY <1>0, <2>1, <2>3, <2>4, CountStays DEF Stays
  <2> QED BY <1>1, <1>5, <1>7, <1>11, <2>3, <2>5, StaysOn DEF Refocuses, Released
<1> QED BY <1>10, <1>11

(* transfer_node() moves the windows it is given, or none, and changes no  *)
(* list.                                                                   *)
LEMMA TransferStayStays ==
  ASSUME NEW s, Legal(s), NEW still, NEW ms, NEW ds, NEW N, NEW md, NEW dd,
         Transfer(s, ms, ds, N, md, dd), NEW t, t = TransferStay(s, still, ms, ds, N, md, dd)
  PROVE  /\ Stays(s, t)
         /\ t.home = IF Refused(s, still, ms, ds, N, md, dd) THEN s.home
                     ELSE Transferred(s.home, N, dd)
         /\ ms = md => t.count = s.count
<1>0. /\ ds \in Desk /\ dd \in Desk /\ ds \in Range(s.desks[ms]) /\ dd \in Range(s.desks[md])
      /\ N \in SUBSET Node /\ ms \in Monitor /\ md \in Monitor
  BY TransferFacts DEF Transfer
<1>1. CASE Refused(s, still, ms, ds, N, md, dd)
  <2>1. t = s
    BY <1>1 DEF TransferStay
  <2> QED BY <1>1, <2>1, StaysSelf
<1>2. CASE ~Refused(s, still, ms, ds, N, md, dd)
  <2> DEFINE held == s.focus[ds] \in N
             lead == IF held THEN s.focus[ds] ELSE Latest(s.recent.nodes, N)
             u == Relocate(s, still, ms, ds, N, md, dd)
             v == CASE ~held -> u
                    [] held /\ ds = Current(s) -> FocusAt(u, ms, ds, GuessNode(u, ds))
                    [] OTHER -> ActivateNode(u, ds, None)
             w == IF s.focus[dd] = None THEN Settle(v, md, dd, lead) ELSE v
  <2>1. t = w
    BY <1>2 DEF TransferStay
  <2>2. lead \in Node \union {None}
    <3>1. s.focus[ds] \in Node \union {None} /\ s.recent.nodes \in Seq(Node)
      BY <1>0 DEF Legal, Records
    <3> QED BY <3>1, Things, LatestFacts
  <2>3. Stays(s, u) /\ u.home = Transferred(s.home, N, dd) /\ (ms = md => u.count = s.count)
    BY RelocateStays
  <2> HIDE DEF lead, u
  <2>4. Legal(u) /\ ds \in Range(u.desks[ms]) /\ Current(u) = Current(s)
    BY <1>0, <2>3 DEF Stays, SamePlaces, SameLists, Current
  <2>5. Stays(u, v) /\ v.home = u.home /\ v.count = u.count
    <3>1. CASE ~held
      BY <2>4, <3>1, StaysSelf
    <3>2. CASE held /\ ds = Current(s)
      <4>1. v = FocusAt(u, ms, ds, GuessNode(u, ds))
        BY <3>2
      <4>2. GuessNode(u, ds) \in Node \union {None}
        BY <1>0, <2>4, GuessNodeFacts
      <4> HIDE DEF v
      <4> QED BY <1>0, <2>4, <3>2, <4>1, <4>2, FocusAtStays
    <3>3. CASE held /\ ds # Current(s)
      <4>1. v = ActivateNode(u, ds, None)
        BY <3>3
      <4> HIDE DEF v
      <4> QED BY <1>0, <2>4, <4>1, ActivateNodeStays
    <3> QED BY <3>1, <3>2, <3>3
  <2> HIDE DEF v
  <2>6. Stays(s, v)
    BY <2>3, <2>5, StaysOn
  <2>7. Legal(v) /\ dd \in Range(v.desks[md])
    BY <1>0, <2>6 DEF Stays, SamePlaces, SameLists
  <2>8. Stays(v, w) /\ w.home = v.home /\ w.count = v.count
    <3>1. CASE s.focus[dd] = None
      <4>1. w = Settle(v, md, dd, lead)
        BY <3>1
      <4> HIDE DEF w
      <4> QED BY <1>0, <2>2, <2>7, <4>1, SettleStays
    <3>2. CASE s.focus[dd] # None
      BY <2>7, <3>2, StaysSelf
    <3> QED BY <3>1, <3>2
  <2> HIDE DEF w
  <2>9. Stays(s, t)
    BY <2>1, <2>6, <2>8, StaysOn
  <2> QED BY <1>2, <2>1, <2>3, <2>5, <2>8, <2>9
<1> QED BY <1>1, <1>2

(* A loop stays in a set that each of its turns stays in.                  *)
LEMMA LoopStays ==
  ASSUME NEW n \in Nat, NEW R, NEW g, g[0] \in R,
         \A i \in 1..n : g[i - 1] \in R => g[i] \in R
  PROVE  \A i \in 0..n : g[i] \in R
<1> DEFINE S == {i \in 0..n : g[i] \in R}
<1>1. 0 \in S
  OBVIOUS
<1>2. ASSUME NEW i \in 0..(n - 1), i \in S  PROVE i + 1 \in S
  <2>1. i + 1 \in 0..n /\ i + 1 \in 1..n /\ (i + 1) - 1 = i
    OBVIOUS
  <2> QED BY <1>2, <2>1
<1> HIDE DEF S
<1>3. \A i \in 0..n : i \in S
  BY <1>1, <1>2, Induction
<1> QED BY <1>3 DEF S

(* The values that a loop goes through; they exist when each of its turns, *)
(* F[i] at place i, stays in R.                                            *)
Runs(f, n, a, F) == f = [i \in 0..n |-> IF i = 0 THEN a ELSE F[i][f[i - 1]]]

(* A loop of n turns over a set R that each turn keeps has a run in R: the *)
(* function that the recursive definition of a fold asks for.              *)
LEMMA LoopRuns ==
  ASSUME NEW n \in Nat, NEW R, NEW a \in R, NEW F \in [1..n -> [R -> R]]
  PROVE  \E f \in [0..n -> R] : Runs(f, n, a, F)
<1> DEFINE f == Iterated(n, R, a, F)
<1>1. f \in [0..n -> R] /\ f[0] = a /\ \A i \in 1..n : f[i] = F[i][f[i - 1]]
  BY Recursion
<1> HIDE DEF f
<1>2. \A i \in 0..n : i # 0 => i \in 1..n
  OBVIOUS
<1>3. f = [i \in 0..n |-> IF i = 0 THEN a ELSE F[i][f[i - 1]]]
  BY <1>1, <1>2
<1> QED BY <1>1, <1>3 DEF Runs

-----------------------------------------------------------------------------
(* What the focus of the desktops rests on: the history knows the windows, *)
(* and a focus is a window of its desktop.                                 *)
Wary(s) ==
  /\ InTrees(s) \subseteq Range(s.recent.nodes)
  /\ InTrees(s) \subseteq Range(s.recent.leaves)
  /\ \A d \in Desk : s.focus[d] = None \/ s.home[s.focus[d]] = d

(* The desktops that have windows and no focus.                            *)
Blurred(s) == {d \in Desk : s.focus[d] = None /\ NodesOf(s, d) # {}}

(* No focus is wrong after a step, and only those of B are missing; none   *)
(* is missing that was not; the one of d is not.                           *)
Heeds(s, t, B) == t.mislaid = s.mislaid /\ (Wary(s) => Wary(t) /\ Blurred(t) \subseteq B)
Minds(s, t) == Heeds(s, t, Blurred(s))
Mends(s, t, d) == Heeds(s, t, Blurred(s) \ {d})

(* The node may be the focus of the desktop, and is when there is one.     *)
Placed(s, n, d) == Wary(s) => n = None \/ s.home[n] = d
Fits(s, n, d) == Wary(s) => IF n = None THEN NodesOf(s, d) = {} ELSE s.home[n] = d

(* The step changes nothing that a focus rests on.                         *)
Alike(s, t) ==
  t.home = s.home /\ t.focus = s.focus /\ t.recent = s.recent /\ t.mislaid = s.mislaid

(* Such a step disturbs no focus.                                          *)
LEMMA AlikeMinds ==
  ASSUME NEW s, NEW t, Alike(s, t)
  PROVE  Minds(s, t)
BY DEF Alike, Minds, Heeds, Wary, Blurred, InTrees, NodesOf

(* Nor does doing nothing.                                                 *)
LEMMA MindsSelf ==
  ASSUME NEW s
  PROVE  Minds(s, s)
BY DEF Minds, Heeds

(* Such steps compose.                                                     *)
LEMMA MindsOn ==
  ASSUME NEW s, NEW t, NEW u, Minds(s, t), Minds(t, u)
  PROVE  Minds(s, u)
BY DEF Minds, Heeds

(* A focus that is set is not missing after other steps either.            *)
LEMMA MendsOn ==
  ASSUME NEW s, NEW t, NEW u, NEW d, \/ Minds(s, t) /\ Mends(t, u, d)
                                     \/ Mends(s, t, d) /\ Minds(t, u)
  PROVE  Mends(s, u, d)
BY DEF Minds, Mends, Heeds

(* And nothing else is missing.                                            *)
LEMMA MendsMinds ==
  ASSUME NEW s, NEW t, NEW d, Mends(s, t, d)
  PROVE  Minds(s, t)
BY DEF Minds, Mends, Heeds

(* The focus of a desktop may stay its focus, and none may be asked for.   *)
LEMMA FocusPlaced ==
  ASSUME NEW s, NEW d \in Desk
  PROVE  Placed(s, s.focus[d], d) /\ Placed(s, None, d)
BY DEF Placed, Wary

(* The node that is guessed is the focus, or a window of the desktop.      *)
LEMMA GuessNodeFits ==
  ASSUME NEW s, Legal(s), NEW d \in Desk
  PROVE  Fits(s, GuessNode(s, d), d)
<1>1. s.recent.nodes \in Seq(Node) /\ None \notin Node
  BY Things DEF Legal, Records
<1>2. PICK k : k = Latest(s.recent.nodes, NodesOf(s, d))
  OBVIOUS
<1>3. /\ k \in (Node \intersect NodesOf(s, d)) \union {None}
      /\ k = None <=> Range(s.recent.nodes) \intersect NodesOf(s, d) = {}
  BY <1>1, <1>2, LatestFacts
<1>4. GuessNode(s, d) = IF s.focus[d] # None THEN s.focus[d] ELSE k
  BY <1>2 DEF GuessNode
<1>5. NodesOf(s, d) \subseteq InTrees(s)
  BY Things DEF NodesOf, InTrees, Desk
<1> QED BY <1>3, <1>4, <1>5 DEF Fits, Wary, NodesOf

(* So is one that is given, or else guessed.                               *)
LEMMA OrGuessFits ==
  ASSUME NEW s, Legal(s), NEW d \in Desk, NEW n, Placed(s, n, d)
  PROVE  Fits(s, Or(n, GuessNode(s, d)), d)
BY GuessNodeFits DEF Placed, Fits, Or

(* A desktop gets a focus that fits.                                       *)
LEMMA RefocusMends ==
  ASSUME NEW s, Legal(s), NEW d \in Desk, NEW n, Fits(s, n, d), NEW t,
         t.home = s.home, t.recent = s.recent, t.mislaid = s.mislaid, Refocuses(s, t, d, n)
  PROVE  Mends(s, t, d)
<1>1. DOMAIN s.focus = Desk
  BY DEF Legal, Records
<1>2. t.focus[d] = n /\ \A e \in Desk \ {d} : t.focus[e] = s.focus[e]
  BY <1>1 DEF Refocuses
<1>3. InTrees(t) = InTrees(s) /\ \A e \in Desk : NodesOf(t, e) = NodesOf(s, e)
  BY DEF InTrees, NodesOf
<1>4. ASSUME Wary(s)  PROVE Wary(t)
  BY <1>2, <1>3, <1>4 DEF Fits, Wary
<1>5. ASSUME Wary(s)  PROVE Blurred(t) \subseteq Blurred(s) \ {d}
  BY <1>2, <1>3, <1>5 DEF Fits, Blurred
<1> QED BY <1>4, <1>5 DEF Mends, Heeds

(* activate_node() of a node of the desktop, or of none.                   *)
LEMMA ActivateNodeMinds ==
  ASSUME NEW s, Legal(s), NEW d \in Desk, NEW n \in Node \union {None}, Placed(s, n, d),
         NEW t, t = ActivateNode(s, d, n)
  PROVE  Minds(s, t) /\ (d # Current(s) => Mends(s, t, d))
<1>1. CASE d = Current(s)
  <2>1. t = s
    BY <1>1 DEF ActivateNode
  <2> QED BY <1>1, <2>1, MindsSelf
<1>2. CASE d # Current(s)
  <2>1. PICK k : k = Or(n, GuessNode(s, d))
    OBVIOUS
  <2>2. k \in Node \union {None} /\ Fits(s, k, d)
    BY <2>1, GuessNodeFacts, OrGuessFits DEF Or
  <2>3. t = Refocused(s, d, k)
    BY <1>2, <2>1 DEF ActivateNode, Refocused
  <2>4. Stays(s, t) /\ t.home = s.home /\ Refocuses(s, t, d, k)
    BY <2>2, <2>3, FocusStays
  <2>5. Mends(s, t, d)
    BY <2>2, <2>4, RefocusMends DEF Stays, SamePlaces, SameLists
  <2> QED BY <2>5, MendsMinds
<1> QED BY <1>1, <1>2

(* focus_node(), past the sticky nodes, of a node that fits.               *)
LEMMA FocusAtMends ==
  ASSUME NEW s, Legal(s), NEW m \in s.monitors, NEW d \in Range(s.desks[m]),
         NEW n \in Node \union {None}, Fits(s, n, d), NEW t, t = FocusAt(s, m, d, n)
  PROVE  Mends(s, t, d)
<1>1. d \in Desk
  BY PlaceFacts
<1>2. Shows(s, t, m, d) /\ t.home = s.home /\ Refocuses(s, t, d, n)
  BY FocusAtShows
<1> QED BY <1>1, <1>2, RefocusMends DEF Shows, SameLists

(* The end of transfer_node(), for a node that may be the focus.           *)
LEMMA SettleMends ==
  ASSUME NEW s, Legal(s), NEW m \in Monitor, NEW d \in Range(s.desks[m]),
         NEW n \in Node \union {None}, Placed(s, n, d), NEW t, t = Settle(s, m, d, n)
  PROVE  Mends(s, t, d)
<1>0. d \in Desk
  BY ListedFacts
<1>1. CASE d = Current(s)
  <2>1. PICK k : k = Or(n, GuessNode(s, d))
    OBVIOUS
  <2>2. k \in Node \union {None} /\ Fits(s, k, d)
    BY <1>0, <2>1, GuessNodeFacts, OrGuessFits DEF Or
  <2>3. t = FocusAt(s, m, d, k) /\ m \in s.monitors
    BY <1>1, <2>1, CurrentOwner DEF Settle
  <2> QED BY <2>2, <2>3, FocusAtMends
<1>2. CASE d # Current(s)
  <2>1. t = ActivateNode(s, d, n)
    BY <1>2 DEF Settle
  <2> QED BY <1>0, <1>2, <2>1, ActivateNodeMinds
<1> QED BY <1>1, <1>2

(* unlink_node() and insert_node() leave the first desktop without a focus *)
(* when its focus goes, and the other one when it had none.                *)
Unfocused(s, ds, N, dd) ==
  {d \in {ds} : s.focus[d] \in N} \union {d \in {dd} : s.focus[d] = None}

(* No other focus is touched by them.                                      *)
LEMMA RelocateHeeds ==
  ASSUME NEW s, Legal(s), NEW still, NEW ms, NEW ds, NEW N, NEW md, NEW dd,
         Transfer(s, ms, ds, N, md, dd), ds # dd,
         NEW t, t = Relocate(s, still, ms, ds, N, md, dd)
  PROVE  Heeds(s, t, Blurred(s) \union Unfocused(s, ds, N, dd))
<1>0. ds \in Desk /\ dd \in Desk /\ N \in SUBSET Node /\ N \subseteq NodesOf(s, ds)
      /\ None \notin Node
  BY TransferFacts, Things DEF Transfer
<1>1. Stays(s, t) /\ t.home = Transferred(s.home, N, dd) /\ Refocuses(s, t, ds, Released(s, ds, N))
  BY RelocateStays
<1>2. DOMAIN s.focus = Desk /\ s.focus \in [Desk -> Node \union {None}]
  BY DEF Legal, Records
<1>3. /\ t.focus[ds] = IF s.focus[ds] \in N THEN None ELSE s.focus[ds]
      /\ \A d \in Desk \ {ds} : t.focus[d] = s.focus[d]
  BY <1>0, <1>1, <1>2 DEF Refocuses, Released
<1>4. \A n \in Node : t.home[n] = IF n \in N THEN dd ELSE s.home[n]
  BY <1>1 DEF Transferred
<1>5. t.recent = s.recent /\ t.mislaid = s.mislaid /\ InTrees(t) = InTrees(s)
  BY <1>1 DEF Stays, SamePlaces, SameLists, SameTrees
<1>6. ASSUME Wary(s)  PROVE Wary(t)
  <2>1. ASSUME NEW d \in Desk, t.focus[d] # None  PROVE t.home[t.focus[d]] = d
    <3>1. t.focus[d] = s.focus[d] /\ s.focus[d] \in Node /\ s.home[s.focus[d]] = d
      BY <1>2, <1>3, <1>6, <2>1 DEF Wary
    <3>2. s.focus[d] \notin N
      <4>1. CASE d = ds
        BY <1>3, <2>1, <4>1
      <4>2. CASE d # ds
        BY <1>0, <3>1, <4>2 DEF NodesOf
      <4> QED BY <4>1, <4>2
    <3> QED BY <1>4, <3>1, <3>2
  <2> QED BY <1>5, <1>6, <2>1 DEF Wary
<1>7. Blurred(t) \subseteq Blurred(s) \union Unfocused(s, ds, N, dd)
  <2>1. ASSUME NEW d \in Blurred(t)  PROVE d \in Blurred(s) \union Unfocused(s, ds, N, dd)
    <3>1. d \in Desk /\ t.focus[d] = None
      BY DEF Blurred
    <3>2. PICK n \in Node : t.home[n] = d
      BY DEF Blurred, NodesOf
    <3>3. CASE d = ds
      <4>1. CASE s.focus[ds] \in N
        BY <3>3, <4>1 DEF Unfocused
      <4>2. CASE s.focus[ds] \notin N
        <5>1. s.focus[ds] = None /\ n \notin N /\ s.home[n] = ds
          BY <1>3, <1>4, <3>1, <3>2, <3>3, <4>2
        <5> QED BY <1>0, <3>3, <5>1 DEF Blurred, NodesOf
      <4> QED BY <4>1, <4>2
    <3>4. CASE d = dd
      BY <1>0, <1>3, <3>1, <3>4 DEF Unfocused
    <3>5. CASE d \notin {ds, dd}
      <4>1. s.focus[d] = None /\ s.home[n] = d
        BY <1>3, <1>4, <3>1, <3>2, <3>5
      <4> QED BY <3>1, <4>1 DEF Blurred, NodesOf
    <3> QED BY <3>3, <3>4, <3>5
  <2> QED BY <2>1
<1> QED BY <1>5, <1>6, <1>7 DEF Heeds

(* What a step leaves missing, after one that disturbs no focus and after  *)
(* one that sets the focus of a desktop.                                   *)
LEMMA HeedsOn ==
  ASSUME NEW s, NEW t, NEW u, NEW B, Heeds(s, t, B)
  PROVE  /\ Minds(t, u) => Heeds(s, u, B)
         /\ \A d : Mends(t, u, d) => Heeds(s, u, B \ {d})
BY DEF Minds, Mends, Heeds

(* transfer_node() leaves no desktop without a focus that had one.         *)
LEMMA TransferStayMinds ==
  ASSUME NEW s, Legal(s), NEW still, NEW ms, NEW ds, NEW N, NEW md, NEW dd,
         Transfer(s, ms, ds, N, md, dd), NEW t, t = TransferStay(s, still, ms, ds, N, md, dd)
  PROVE  Minds(s, t)
<1>0. /\ ds \in Desk /\ dd \in Desk /\ ds \in Range(s.desks[ms]) /\ dd \in Range(s.desks[md])
      /\ N \in SUBSET Node /\ ms \in Monitor /\ md \in Monitor
  BY TransferFacts DEF Transfer
<1>1. CASE Refused(s, still, ms, ds, N, md, dd)
  <2>1. t = s
    BY <1>1 DEF TransferStay
  <2> QED BY <2>1, MindsSelf
<1>2. CASE ~Refused(s, still, ms, ds, N, md, dd)
  <2> DEFINE held == s.focus[ds] \in N
             lead == IF held THEN s.focus[ds] ELSE Latest(s.recent.nodes, N)
             u == Relocate(s, still, ms, ds, N, md, dd)
             v == CASE ~held -> u
                    [] held /\ ds = Current(s) -> FocusAt(u, ms, ds, GuessNode(u, ds))
                    [] OTHER -> ActivateNode(u, ds, None)
             w == IF s.focus[dd] = None THEN Settle(v, md, dd, lead) ELSE v
  <2>1. t = w /\ ds # dd
    BY <1>2 DEF TransferStay, Refused
  <2>2. lead \in N \union {None}
    <3>1. s.recent.nodes \in Seq(Node)
      BY DEF Legal, Records
    <3> QED BY <3>1, Things, LatestFacts
  <2>3. Stays(s, u) /\ u.home = Transferred(s.home, N, dd)
    BY RelocateStays
  <2>4. Heeds(s, u, Blurred(s) \union Unfocused(s, ds, N, dd))
    BY <2>1, RelocateHeeds
  <2> HIDE DEF lead, u
  <2>5. Legal(u) /\ ds \in Range(u.desks[ms]) /\ Current(u) = Current(s)
    BY <1>0, <2>3 DEF Stays, SamePlaces, SameLists, Current
  <2>6. /\ Stays(u, v) /\ v.home = u.home
        /\ IF held THEN Mends(u, v, ds) ELSE v = u
    <3>1. CASE ~held
      BY <2>5, <3>1, StaysSelf
    <3>2. CASE held /\ ds = Current(s)
      <4>1. v = FocusAt(u, ms, ds, GuessNode(u, ds))
        BY <3>2
      <4>2. GuessNode(u, ds) \in Node \union {None} /\ Fits(u, GuessNode(u, ds), ds)
        BY <1>0, <2>5, GuessNodeFacts, GuessNodeFits
      <4>3. ms \in u.monitors /\ ds = Current(u)
        BY <1>0, <2>5, <3>2, CurrentOwner
      <4> HIDE DEF v
      <4>4. Stays(u, v) /\ v.home = u.home
        BY <1>0, <2>5, <4>1, <4>2, <4>3, FocusAtStays
      <4>5. Mends(u, v, ds)
        BY <2>5, <4>1, <4>2, <4>3, FocusAtMends
      <4> QED BY <3>2, <4>4, <4>5
    <3>3. CASE held /\ ds # Current(s)
      <4>1. v = ActivateNode(u, ds, None)
        BY <3>3
      <4>2. Placed(u, None, ds) /\ None \in Node \union {None}
        BY <1>0, FocusPlaced
      <4> HIDE DEF v
      <4>3. Stays(u, v) /\ v.home = u.home
        BY <1>0, <2>5, <4>1, ActivateNodeStays
      <4>4. Mends(u, v, ds)
        BY <1>0, <2>5, <3>3, <4>1, <4>2, ActivateNodeMinds
      <4> QED BY <3>3, <4>3, <4>4
    <3> QED BY <3>1, <3>2, <3>3
  <2> HIDE DEF v
  <2>7. Legal(v) /\ dd \in Range(v.desks[md])
    BY <1>0, <2>3, <2>6 DEF Stays, SamePlaces, SameLists
  <2>8. IF s.focus[dd] = None THEN Mends(v, w, dd) ELSE w = v
    <3>1. CASE s.focus[dd] = None
      <4>1. w = Settle(v, md, dd, lead)
        BY <3>1
      <4>2. Placed(v, lead, dd) /\ lead \in Node \union {None}
        BY <1>0, <2>2, <2>3, <2>6 DEF Placed, Transferred
      <4> HIDE DEF w
      <4> QED BY <1>0, <2>7, <3>1, <4>1, <4>2, SettleMends
    <3>2. CASE s.focus[dd] # None
      BY <3>2
    <3> QED BY <3>1, <3>2
  <2> HIDE DEF w
  <2>9. PICK B1 : B1 = Blurred(s) \union {d \in {dd} : s.focus[d] = None}
    OBVIOUS
  <2>10. Heeds(s, v, B1)
    <3>1. CASE held
      <4>1. Heeds(s, v, (Blurred(s) \union Unfocused(s, ds, N, dd)) \ {ds})
        BY <2>4, <2>6, <3>1, HeedsOn
      <4> QED BY <2>9, <4>1 DEF Heeds, Unfocused
    <3>2. CASE ~held
      BY <2>4, <2>6, <2>9, <3>2 DEF Heeds, Unfocused
    <3> QED BY <3>1, <3>2
  <2>11. CASE s.focus[dd] = None
    <3>1. Heeds(s, w, B1 \ {dd})
      BY <2>8, <2>10, <2>11, HeedsOn
    <3> QED BY <2>1, <2>9, <3>1 DEF Heeds, Minds
  <2>12. CASE s.focus[dd] # None
    BY <2>1, <2>8, <2>9, <2>10, <2>12 DEF Heeds, Minds
  <2> QED BY <2>11, <2>12
<1> QED BY <1>1, <1>2

-----------------------------------------------------------------------------
(* What transfer_sticky_nodes() has done: some sticky windows of ds have   *)
(* gone to dd.                                                             *)
Carried(s, t, ms, ds, md, dd) ==
  /\ Stays(s, t)
  /\ ms = md => t.count = s.count
  /\ \A n \in Node : \/ t.home[n] = s.home[n]
                     \/ /\ n \in s.sticky /\ s.home[n] = ds
                        /\ t.home[n] = dd
  /\ Minds(s, t)

(* A sticky window of ds has gone to dd.                                   *)
Followed(s, t, n, ds, dd) ==
  \A x \in Node : t.home[x] = IF x = n /\ s.home[x] = ds /\ x \in s.sticky
                              THEN dd ELSE s.home[x]

(* One turn of its loop.                                                   *)
StickyTurn(t, n, ms, ds, md, dd) ==
  IF n \in NodesOf(t, ds) \intersect t.sticky
  THEN TransferStay(t, FALSE, ms, ds, {n}, md, dd) ELSE t

(* One turn of transfer_sticky_nodes() moves its window if that is sticky. *)
LEMMA StickyTurnFacts ==
  ASSUME NEW s, Legal(s), NEW ms \in Monitor, NEW ds \in Range(s.desks[ms]),
         NEW md \in Monitor, NEW dd \in Range(s.desks[md]),
         NEW t, Carried(s, t, ms, ds, md, dd), NEW n \in Node,
         NEW u, u = StickyTurn(t, n, ms, ds, md, dd)
  PROVE  /\ Carried(s, u, ms, ds, md, dd)
         /\ Followed(t, u, n, ds, dd)
<1>1. /\ Legal(t) /\ t.sticky = s.sticky /\ ds \in Range(t.desks[ms]) /\ dd \in Range(t.desks[md])
      /\ Stays(s, t) /\ t.home \in [Node -> Desk \union {None}]
  BY DEF Carried, Stays, SamePlaces, SameLists, SameTrees, Legal, Records
<1>2. CASE n \in NodesOf(t, ds) \intersect t.sticky
  <2>1. Transfer(t, ms, ds, {n}, md, dd)
    BY <1>1, <1>2 DEF Transfer
  <2>2. u = TransferStay(t, FALSE, ms, ds, {n}, md, dd)
    BY <1>2 DEF StickyTurn
  <2>3. /\ Stays(t, u)
        /\ ms = md => u.count = t.count
        /\ u.home = IF Refused(t, FALSE, ms, ds, {n}, md, dd) THEN t.home
                    ELSE Transferred(t.home, {n}, dd)
    <3>1. PICK b : b = FALSE
      OBVIOUS
    <3>2. u = TransferStay(t, b, ms, ds, {n}, md, dd)
      BY <2>2, <3>1
    <3>3. /\ Stays(t, u)
          /\ ms = md => u.count = t.count
          /\ u.home = IF Refused(t, b, ms, ds, {n}, md, dd) THEN t.home
                      ELSE Transferred(t.home, {n}, dd)
      BY <1>1, <2>1, <3>2, TransferStayStays
    <3> QED BY <3>1, <3>3
  <2>4. Refused(t, FALSE, ms, ds, {n}, md, dd) => ds = dd
    BY DEF Refused
  <2>5. \A x \in Node : u.home[x] = IF x = n THEN dd ELSE t.home[x]
    BY <1>1, <1>2, <2>3, <2>4 DEF Transferred, NodesOf
  <2>6. t.home[n] = ds /\ n \in s.sticky
    BY <1>1, <1>2 DEF NodesOf
  <2>7. Stays(s, u)
    BY <1>1, <2>3, StaysOn
  <2>8. \A x \in Node : \/ u.home[x] = s.home[x]
                        \/ /\ x \in s.sticky /\ s.home[x] = ds
                           /\ u.home[x] = dd
    BY <2>5, <2>6 DEF Carried
  <2>9. Minds(s, u)
    <3>1. PICK b : b = FALSE
      OBVIOUS
    <3>2. u = TransferStay(t, b, ms, ds, {n}, md, dd)
      BY <2>2, <3>1
    <3>3. Minds(t, u)
      BY <1>1, <2>1, <3>2, TransferStayMinds
    <3> QED BY <3>3, MindsOn DEF Carried
  <2> QED BY <1>1, <2>3, <2>5, <2>6, <2>7, <2>8, <2>9 DEF Carried, Followed
<1>3. CASE n \notin NodesOf(t, ds) \intersect t.sticky
  <2>1. u = t
    BY <1>3 DEF StickyTurn
  <2> QED BY <1>1, <1>3, <2>1 DEF NodesOf, Followed
<1> QED BY <1>2, <1>3

(* Before the first turn nothing has moved.                                *)
LEMMA CarriedSelf ==
  ASSUME NEW s, Legal(s), NEW ms, NEW ds, NEW md, NEW dd
  PROVE  Carried(s, s, ms, ds, md, dd)
BY StaysSelf, MindsSelf DEF Carried

(* transfer_sticky_nodes(): no sticky window that the history knows stays. *)
LEMMA StickyTransferred ==
  ASSUME NEW s, Legal(s), NEW ms \in Monitor, NEW ds \in Range(s.desks[ms]),
         NEW md \in Monitor, NEW dd \in Range(s.desks[md]),
         NEW t, t = TransferStickyNodes(s, ms, ds, md, dd)
  PROVE  /\ Carried(s, t, ms, ds, md, dd)
         /\ ds # dd => \A x \in Range(s.recent.leaves) \intersect s.sticky : t.home[x] # ds
<1> DEFINE q == s.recent.leaves
           n == Len(q)
           R == {u \in Records : Carried(s, u, ms, ds, md, dd)}
           Step(u, i) == StickyTurn(u, q[i], ms, ds, md, dd)
           F == [i \in 1..n |-> [u \in R |-> Step(u, i)]]
           Rec(f) == f = [i \in 0..n |-> IF i = 0 THEN s ELSE Step(f[i - 1], i)]
           g == CHOOSE f : Rec(f)
<1>0. n \in Nat /\ DOMAIN q = 1..n /\ \A i \in 1..n : q[i] \in Node
  <2>1. q \in Seq(Node)
    BY DEF Legal, Records
  <2> QED BY <2>1, LenProperties, ElementOfSeq
<1>1. s \in R
  BY CarriedSelf DEF Legal
<1>2. t = g[n]
  BY DEF TransferStickyNodes, Loop, StickyTurn
<1>3. Range(q) = {q[i] : i \in 1..n}
  BY <1>0 DEF Range
<1> HIDE DEF n, q, g
<1>4. ASSUME NEW i \in 1..n, NEW u \in R
      PROVE  /\ Step(u, i) \in R
             /\ Followed(u, Step(u, i), q[i], ds, dd)
  <2>1. q[i] \in Node /\ Carried(s, u, ms, ds, md, dd)
    BY <1>0
  <2>2. PICK v : v = Step(u, i)
    OBVIOUS
  <2>3. v = StickyTurn(u, q[i], ms, ds, md, dd)
    BY <2>2
  <2> HIDE DEF Step
  <2>4. /\ Carried(s, v, ms, ds, md, dd)
        /\ Followed(u, v, q[i], ds, dd)
    BY <2>1, <2>3, StickyTurnFacts
  <2>5. v \in Records
    BY <2>4 DEF Carried, Stays, Legal
  <2> QED BY <2>2, <2>4, <2>5
<1> HIDE DEF Step
<1>5. F \in [1..n -> [R -> R]] /\ \A i \in 1..n : \A u \in R : F[i][u] = Step(u, i)
  BY <1>4
<1> HIDE DEF F
<1> HIDE DEF R
<1>6. PICK f \in [0..n -> R] : Runs(f, n, s, F)
  BY <1>0, <1>1, <1>5, LoopRuns
<1>7. Rec(f)
  <2>1. \A i \in 0..n : i # 0 => i \in 1..n /\ i - 1 \in 0..n
    BY <1>0
  <2> QED BY <1>5, <1>6, <2>1 DEF Runs
<1>8. Rec(g)
  <2> HIDE DEF Rec
  <2> QED BY <1>7 DEF g
<1>9. g[0] = s /\ \A i \in 1..n : g[i] = Step(g[i - 1], i)
  <2>1. 0 \in 0..n /\ \A i \in 1..n : i \in 0..n /\ i # 0
    BY <1>0
  <2> QED BY <1>8, <2>1
<1>10. \A i \in 0..n : g[i] \in R
  <2>1. g[0] \in R /\ \A i \in 1..n : g[i - 1] \in R => g[i] \in R
    BY <1>1, <1>4, <1>9
  <2> HIDE DEF Rec
  <2> QED BY <1>0, <2>1, LoopStays
<1>11. ASSUME ds # dd, NEW j \in 1..n, q[j] \in s.sticky  PROVE g[n].home[q[j]] # ds
  <2> DEFINE S == {i \in 0..n : i >= j => g[i].home[q[j]] # ds}
  <2>1. 0 \in S
    BY <1>0
  <2>2. ASSUME NEW i \in 0..(n - 1), i \in S  PROVE i + 1 \in S
    <3>1. i + 1 \in 0..n /\ i + 1 \in 1..n /\ (i + 1) - 1 = i /\ q[j] \in Node /\ i \in 0..n
      BY <1>0
    <3>2. g[i] \in R /\ g[i + 1] = Step(g[i], i + 1)
      BY <1>9, <1>10, <3>1
    <3>3. g[i + 1].home[q[j]] = IF q[j] = q[i + 1] /\ g[i].home[q[j]] = ds /\ q[j] \in s.sticky
                                THEN dd ELSE g[i].home[q[j]]
      <4>1. Followed(g[i], g[i + 1], q[i + 1], ds, dd)
        BY <1>4, <3>1, <3>2
      <4>2. g[i].sticky = s.sticky
        BY <3>2 DEF R, Carried, Stays, SameTrees
      <4> QED BY <3>1, <4>1, <4>2 DEF Followed
    <3>4. i + 1 >= j => g[i + 1].home[q[j]] # ds
      <4>1. CASE i >= j
        BY <1>11, <2>2, <3>3, <4>1
      <4>2. CASE i + 1 = j
        BY <1>11, <3>3, <4>2
      <4> QED BY <4>1, <4>2
    <3> QED BY <3>1, <3>4
  <2> HIDE DEF S
  <2>3. \A i \in 0..n : i \in S
    BY <1>0, <2>1, <2>2, Induction
  <2>4. n \in S /\ n >= j
    BY <1>0, <2>3
  <2> QED BY <2>4 DEF S
<1>12. Carried(s, t, ms, ds, md, dd)
  <2>1. g[n] \in R
    BY <1>0, <1>10
  <2> QED BY <1>2, <2>1 DEF R
<1> QED BY <1>2, <1>3, <1>11, <1>12 DEF q

-----------------------------------------------------------------------------
(* A function that may also change which desktop of a list is shown, and   *)
(* which monitor is focused; Roams, when no window leaves the trees.       *)
Ranges(s, t) ==
  /\ Legal(t) /\ SameLists(s, t)
  /\ \A m \in Monitor : t.shown[m] = s.shown[m] \/ t.shown[m] \in Range(s.desks[m])
  /\ \/ t.mon = s.mon
     \/ /\ t.mon \in s.monitors
        /\ t.shown[t.mon] \in Range(s.desks[t.mon])

Roams(s, t) == Ranges(s, t) /\ InTrees(t) = InTrees(s)

(* A step that changes no list changes no desktop shown either.            *)
LEMMA StaysRoams ==
  ASSUME NEW s, NEW t, Stays(s, t)
  PROVE  Roams(s, t)
BY DEF Stays, SamePlaces, SameTrees, Roams, Ranges

(* What a monitor shows stays in its list through two such steps.          *)
LEMMA RangesOn ==
  ASSUME NEW s, Legal(s), NEW t, NEW u, Ranges(s, t), Ranges(t, u)
  PROVE  Ranges(s, u)
<1>1. /\ Legal(u) /\ SameLists(s, u)
      /\ t.desks = s.desks /\ t.monitors = s.monitors
  BY DEF Ranges, SameLists
<1>2. \A m \in Monitor : u.shown[m] = s.shown[m] \/ u.shown[m] \in Range(s.desks[m])
  BY <1>1 DEF Ranges
<1>3. \/ u.mon = s.mon
      \/ u.mon \in s.monitors /\ u.shown[u.mon] \in Range(s.desks[u.mon])
  <2>1. CASE u.mon = t.mon /\ t.mon = s.mon
    BY <2>1
  <2>2. CASE u.mon = t.mon /\ t.mon \in s.monitors /\ t.shown[t.mon] \in Range(s.desks[t.mon])
    <3>1. u.mon \in Monitor
      BY <2>2 DEF Legal, Records
    <3>2. u.shown[u.mon] = t.shown[u.mon] \/ u.shown[u.mon] \in Range(s.desks[u.mon])
      BY <1>1, <3>1 DEF Ranges
    <3> QED BY <2>2, <3>2
  <2>3. CASE u.mon \in t.monitors /\ u.shown[u.mon] \in Range(t.desks[u.mon])
    BY <1>1, <2>3
  <2> QED BY <2>1, <2>2, <2>3 DEF Ranges
<1> QED BY <1>1, <1>2, <1>3 DEF Ranges

(* Such steps compose.                                                     *)
LEMMA RoamsOn ==
  ASSUME NEW s, Legal(s), NEW t, NEW u, Roams(s, t), Roams(t, u)
  PROVE  Roams(s, u)
BY RangesOn DEF Roams

(* The focus goes to d, on m.                                              *)
Lands(s, t, m, d) == Shows(s, t, m, d) /\ t.mon = m

(* The monitor shows the desktop; the others are as they were.             *)
LEMMA ShowsFacts ==
  ASSUME NEW s, Legal(s), NEW t, NEW m \in s.monitors, NEW d \in Range(s.desks[m]),
         Shows(s, t, m, d)
  PROVE  /\ m \in Monitor /\ t.shown[m] = d /\ d # None
         /\ \A x \in Monitor \ {m} : t.shown[x] = s.shown[x]
<1>1. m \in Monitor /\ s.shown \in [Monitor -> Desk \union {None}]
  BY DEF Legal, Records
<1> QED BY <1>1, ListedFacts DEF Shows

(* A monitor that shows another of its desktops is such a step.            *)
LEMMA ShowsRoams ==
  ASSUME NEW s, Legal(s), NEW t, NEW m \in s.monitors, NEW d \in Range(s.desks[m]),
         Shows(s, t, m, d), t.mon \in {s.mon, m}
  PROVE  Roams(s, t)
<1>1. /\ m \in Monitor /\ t.shown[m] = d
      /\ \A x \in Monitor \ {m} : t.shown[x] = s.shown[x]
  <2>1. m \in Monitor /\ s.shown \in [Monitor -> Desk \union {None}]
    BY DEF Legal, Records
  <2> QED BY <2>1 DEF Shows
<1> QED BY <1>1 DEF Shows, SameTrees, Roams, Ranges

(* A step that changes no list, and then one that shows a desktop.         *)
LEMMA StaysShows ==
  ASSUME NEW s, NEW t, NEW u, NEW m, NEW d, Stays(s, t), Shows(t, u, m, d)
  PROVE  Shows(s, u, m, d)
BY DEF Stays, SamePlaces, SameLists, SameTrees, Shows

(* The desktop chosen for a monitor is in its list; there is none only     *)
(* when nothing is shown there and the history holds none of its list.     *)
LEMMA GuessDesktopFacts ==
  ASSUME NEW s, Legal(s), NEW m \in Monitor
  PROVE  /\ GuessDesktop(s, m) \in Range(s.desks[m]) \union {None}
         /\ GuessDesktop(s, m) = None <=>
              s.shown[m] = None /\ Range(s.recent.desktops) \intersect Range(s.desks[m]) = {}
<1>1. s.shown[m] \in Range(s.desks[m]) \union {None}
  BY DEF Legal, ListsLegal
<1>2. s.recent.desktops \in Seq(Desktop)
  BY DEF Legal, Records
<1>3. PICK d : d = Latest(s.recent.desktops, Range(s.desks[m]))
  OBVIOUS
<1>4. /\ d \in Range(s.desks[m]) \union {None}
      /\ d = None <=> Range(s.recent.desktops) \intersect Range(s.desks[m]) = {}
  BY <1>2, <1>3, Things, LatestFacts
<1> QED BY <1>1, <1>3, <1>4 DEF GuessDesktop

(* The monitor chosen is one that shows something, when none has the       *)
(* focus.                                                                  *)
LEMMA GuessMonitorFacts ==
  ASSUME NEW s, Legal(s)
  PROVE  /\ GuessMonitor(s) \in s.monitors \union {None}
         /\ s.mon = None => GuessMonitor(s) \in {m \in s.monitors : s.shown[m] # None} \union {None}
         /\ GuessMonitor(s) = None <=>
              /\ s.mon = None
              /\ Range(s.recent.monitors) \intersect {m \in s.monitors : s.shown[m] # None} = {}
<1>1. s.mon \in s.monitors \union {None} /\ s.recent.monitors \in Seq(Monitor)
  BY DEF Legal, ListsLegal, Records
<1>2. PICK S : S = {m \in s.monitors : s.shown[m] # None}
  OBVIOUS
<1>3. PICK d : d = Latest(s.recent.monitors, S)
  OBVIOUS
<1>4. /\ d \in S \union {None}
      /\ d = None <=> Range(s.recent.monitors) \intersect S = {}
  BY <1>1, <1>3, Things, LatestFacts
<1>5. GuessMonitor(s) = IF s.mon # None THEN s.mon ELSE d
  BY <1>2, <1>3 DEF GuessMonitor
<1> QED BY <1>1, <1>2, <1>4, <1>5

(* The sticky nodes that go along change no list; none goes along from the *)
(* desktop that is shown already, or when none is shown.                   *)
LEMMA CarryStays ==
  ASSUME NEW s, Legal(s), NEW m \in s.monitors, NEW d \in Range(s.desks[m]),
         NEW t, t = Carry(s, m, d)
  PROVE  /\ Stays(s, t)
         /\ s.shown[m] \in {d, None} => t.home = s.home
<1>0. m \in Monitor
  BY DEF Legal, Records
<1>1. CASE Carries(s, m, d)
  <2>1. t = TransferStickyNodes(s, m, s.shown[m], m, d)
    BY <1>1 DEF Carry
  <2>2. s.shown[m] \in Range(s.desks[m]) /\ d # s.shown[m] /\ s.shown[m] # None
    BY <1>0, <1>1 DEF Carries, Legal, ListsLegal
  <2>3. Carried(s, t, m, s.shown[m], m, d)
    BY <1>0, <2>1, <2>2, StickyTransferred
  <2> QED BY <2>2, <2>3 DEF Carried
<1>2. CASE ~Carries(s, m, d)
  BY <1>2, StaysSelf DEF Carry
<1> QED BY <1>1, <1>2

(* focus_node() of a desktop shows it and gives its monitor the focus.     *)
LEMMA FocusOnLands ==
  ASSUME NEW s, Legal(s), NEW m \in s.monitors, NEW d \in Range(s.desks[m]),
         NEW n0 \in Node \union {None}, NEW t, t = FocusOn(s, m, d, n0)
  PROVE  /\ Lands(s, t, m, d)
         /\ s.shown[m] \in {d, None} => t.home = s.home
<1> DEFINE old == s.focus[s.shown[m]]
           n == IF n0 = None /\ Carries(s, m, d) /\ old \in s.sticky
                THEN old ELSE Or(n0, GuessNode(s, d))
           u == Carry(s, m, d)
           k == IF n = None THEN u.focus[d] ELSE n
<1>0. m \in Monitor /\ d \in Desk /\ d # None /\ m # None
  BY PlaceFacts
<1>1. t = FocusAt(u, m, d, k)
  BY <1>0 DEF FocusOn
<1>2. n \in Node \union {None}
  <2>1. s.sticky \subseteq Node
    BY DEF Legal, Records
  <2>2. GuessNode(s, d) \in Node \union {None}
    BY <1>0, GuessNodeFacts
  <2> QED BY <2>1, <2>2 DEF Or
<1> HIDE DEF n
<1>3. Stays(s, u) /\ (s.shown[m] \in {d, None} => u.home = s.home)
  BY CarryStays
<1> HIDE DEF u
<1>4. k \in Node \union {None}
  <2>1. u.focus \in [Desk -> Node \union {None}]
    BY <1>3 DEF Stays, Legal, Records
  <2> QED BY <1>0, <1>2, <2>1
<1> HIDE DEF k
<1>5. m \in u.monitors /\ d \in Range(u.desks[m]) /\ Legal(u)
  BY <1>3 DEF Stays, SamePlaces, SameLists
<1>6. Shows(u, t, m, d) /\ t.mon = m /\ t.home = u.home
  BY <1>1, <1>4, <1>5, FocusAtShows
<1> QED BY <1>3, <1>6, StaysShows DEF Lands

(* focus_node() on a desktop, on a monitor, and anywhere.                  *)
LEMMA FocusNodeLands ==
  ASSUME NEW s, Legal(s), NEW m \in s.monitors, NEW d \in Range(s.desks[m]),
         NEW n \in Node \union {None}, NEW t, t = FocusNode(s, m, d, n)
  PROVE  /\ Lands(s, t, m, d)
         /\ s.shown[m] \in {d, None} => t.home = s.home
<1>1. m \in Monitor /\ m # None /\ d # None
  BY PlaceFacts
<1>2. t = FocusOn(s, m, d, n)
  BY <1>1 DEF FocusNode, Or
<1> QED BY <1>2, FocusOnLands

(* Without a desktop it lands on the one the history gives, if any, and no *)
(* window moves.                                                           *)
LEMMA FocusNodeOn ==
  ASSUME NEW s, Legal(s), NEW m \in s.monitors, NEW t, t = FocusNode(s, m, None, None)
  PROVE  /\ IF GuessDesktop(s, m) = None THEN t = s ELSE Lands(s, t, m, GuessDesktop(s, m))
         /\ t.home = s.home
<1>1. m \in Monitor /\ m # None
  BY Things DEF Legal, Records
<1>2. PICK d : d = GuessDesktop(s, m)
  OBVIOUS
<1>3. t = FocusOn(s, m, d, None)
  BY <1>1, <1>2 DEF FocusNode, Or
<1>4. CASE d = None
  BY <1>2, <1>3, <1>4 DEF FocusOn
<1>5. CASE d # None
  <2>1. d \in Range(s.desks[m])
    BY <1>1, <1>2, <1>5, GuessDesktopFacts
  <2>2. s.shown[m] \in {d, None}
    BY <1>2 DEF GuessDesktop
  <2> QED BY <1>2, <1>3, <1>5, <2>1, <2>2, FocusOnLands
<1> QED BY <1>4, <1>5

(* Without a monitor, on the one the history gives, if any.                *)
LEMMA FocusNodeAnywhere ==
  ASSUME NEW s, Legal(s), NEW t, t = FocusNode(s, None, None, None)
  PROVE  /\ IF GuessMonitor(s) = None THEN t = s
            ELSE IF GuessDesktop(s, GuessMonitor(s)) = None THEN t = s
            ELSE Lands(s, t, GuessMonitor(s), GuessDesktop(s, GuessMonitor(s)))
         /\ t.home = s.home
<1>1. PICK m : m = GuessMonitor(s)
  OBVIOUS
<1>2. CASE m = None
  <2>1. t = FocusOn(s, m, None, None)
    BY <1>1, <1>2 DEF FocusNode, Or
  <2> QED BY <1>1, <1>2, <2>1 DEF FocusOn
<1>3. CASE m # None
  <2>1. m \in s.monitors
    BY <1>1, <1>3, GuessMonitorFacts
  <2>2. t = FocusNode(s, m, None, None)
    BY <1>1, <1>3 DEF FocusNode, Or
  <2> QED BY <1>1, <1>3, <2>1, <2>2, FocusNodeOn
<1> QED BY <1>2, <1>3

(* The sticky nodes that go along leave no focus missing; the windows of   *)
(* the desktop they come to stay, and a focus that is sticky comes.        *)
LEMMA CarryMinds ==
  ASSUME NEW s, Legal(s), NEW m \in s.monitors, NEW d \in Range(s.desks[m]),
         NEW t, t = Carry(s, m, d)
  PROVE  /\ Minds(s, t)
         /\ \A n \in Node : s.home[n] = d => t.home[n] = d
         /\ \A n \in s.sticky : Wary(s) /\ Carries(s, m, d) /\ n = s.focus[s.shown[m]] =>
                                  t.home[n] = d
<1>0. m \in Monitor /\ d # None /\ s.sticky \subseteq Node
  BY PlaceFacts DEF Legal, Records
<1>1. CASE Carries(s, m, d)
  <2>1. t = TransferStickyNodes(s, m, s.shown[m], m, d)
    BY <1>1 DEF Carry
  <2>2. s.shown[m] \in Range(s.desks[m]) /\ d # s.shown[m] /\ s.shown[m] # None
    BY <1>0, <1>1 DEF Carries, Legal, ListsLegal
  <2>3. /\ Carried(s, t, m, s.shown[m], m, d)
        /\ \A x \in Range(s.recent.leaves) \intersect s.sticky : t.home[x] # s.shown[m]
    BY <1>0, <2>1, <2>2, StickyTransferred
  <2>4. Minds(s, t) /\ \A n \in Node : s.home[n] = d => t.home[n] = d
    BY <2>2, <2>3 DEF Carried
  <2>5. ASSUME NEW n \in s.sticky, Wary(s), n = s.focus[s.shown[m]]  PROVE t.home[n] = d
    <3>1. s.shown[m] \in Desk /\ n \in Node /\ n # None
      BY <1>0, <2>2, ListedFacts, Things
    <3>2. s.home[n] = s.shown[m] /\ n \in Range(s.recent.leaves)
      BY <2>2, <2>5, <3>1 DEF Wary, InTrees
    <3> QED BY <2>3, <3>1, <3>2 DEF Carried
  <2> QED BY <2>4, <2>5
<1>2. CASE ~Carries(s, m, d)
  <2>1. t = s
    BY <1>2 DEF Carry
  <2> QED BY <1>2, <2>1, MindsSelf
<1> QED BY <1>1, <1>2

(* focus_node() of a node of the desktop, or of none, sets its focus.      *)
LEMMA FocusOnMends ==
  ASSUME NEW s, Legal(s), NEW m \in s.monitors, NEW d \in Range(s.desks[m]),
         NEW n0 \in Node \union {None}, Placed(s, n0, d), NEW t, t = FocusOn(s, m, d, n0)
  PROVE  Mends(s, t, d)
<1> DEFINE old == s.focus[s.shown[m]]
           goes == n0 = None /\ Carries(s, m, d) /\ old \in s.sticky
           n == IF goes THEN old ELSE Or(n0, GuessNode(s, d))
           u == Carry(s, m, d)
           k == IF n = None THEN u.focus[d] ELSE n
<1>0. m \in Monitor /\ d \in Desk /\ d # None /\ m # None
  BY PlaceFacts
<1>1. t = FocusAt(u, m, d, k)
  BY <1>0 DEF FocusOn
<1>2. n \in Node \union {None}
  <2>1. s.sticky \subseteq Node
    BY DEF Legal, Records
  <2>2. GuessNode(s, d) \in Node \union {None}
    BY <1>0, GuessNodeFacts
  <2> QED BY <2>1, <2>2 DEF Or
<1>3. /\ Stays(s, u) /\ Minds(s, u)
      /\ \A x \in Node : s.home[x] = d => u.home[x] = d
      /\ \A x \in s.sticky : Wary(s) /\ Carries(s, m, d) /\ x = s.focus[s.shown[m]] =>
                               u.home[x] = d
  BY CarryStays, CarryMinds
<1> HIDE DEF u
<1>4. Wary(s) => IF n = None THEN NodesOf(s, d) = {} ELSE u.home[n] = d
  <2>1. CASE goes
    <3>1. n = old /\ n # None
      BY <2>1, Things DEF Legal, Records
    <3> QED BY <1>3, <2>1, <3>1
  <2>2. CASE ~goes
    <3>1. PICK j : j = Or(n0, GuessNode(s, d))
      OBVIOUS
    <3>2. Fits(s, j, d) /\ n = j
      BY <1>0, <2>2, <3>1, OrGuessFits
    <3> HIDE DEF n
    <3> QED BY <1>2, <1>3, <3>2 DEF Fits
  <2> QED BY <2>1, <2>2
<1> HIDE DEF n
<1>5. u.focus \in [Desk -> Node \union {None}]
  BY <1>3 DEF Stays, Legal, Records
<1>6. k \in Node \union {None}
  BY <1>0, <1>2, <1>5
<1>7. CASE Wary(s)
  <2>1. Wary(u) /\ Blurred(u) \subseteq Blurred(s)
    BY <1>3, <1>7 DEF Minds, Heeds
  <2>2. Fits(u, k, d)
    <3>1. CASE n # None
      BY <1>4, <1>7, <3>1 DEF Fits
    <3>2. CASE n = None
      <4>1. k = u.focus[d] /\ d \notin Blurred(s)
        BY <1>4, <1>7, <3>2 DEF Blurred
      <4> HIDE DEF k
      <4>2. d \notin Blurred(u) /\ (k = None \/ u.home[k] = d)
        BY <1>0, <2>1, <4>1 DEF Wary
      <4> QED BY <1>0, <4>1, <4>2 DEF Fits, Blurred
    <3> QED BY <3>1, <3>2
  <2> HIDE DEF k
  <2>3. Legal(u) /\ m \in u.monitors /\ d \in Range(u.desks[m])
    BY <1>3 DEF Stays, SamePlaces, SameLists
  <2>4. Mends(u, t, d)
    BY <1>1, <1>6, <2>2, <2>3, FocusAtMends
  <2> QED BY <1>3, <2>4, MendsOn
<1>8. CASE ~Wary(s)
  <2> HIDE DEF k
  <2>1. Legal(u) /\ m \in u.monitors /\ d \in Range(u.desks[m])
    BY <1>3 DEF Stays, SamePlaces, SameLists
  <2>2. Shows(u, t, m, d)
    BY <1>1, <1>6, <2>1, FocusAtShows
  <2> QED BY <1>3, <1>8, <2>2 DEF Mends, Heeds, Minds, Shows, SameLists
<1> QED BY <1>7, <1>8

(* focus_node() on a desktop, on a monitor, and anywhere.                  *)
LEMMA FocusNodeMends ==
  ASSUME NEW s, Legal(s), NEW m \in s.monitors, NEW d \in Range(s.desks[m]),
         NEW n \in Node \union {None}, Placed(s, n, d), NEW t, t = FocusNode(s, m, d, n)
  PROVE  Mends(s, t, d)
<1>1. m \in Monitor /\ m # None /\ d # None
  BY PlaceFacts
<1>2. t = FocusOn(s, m, d, n)
  BY <1>1 DEF FocusNode, Or
<1> QED BY <1>2, FocusOnMends

(* focus_node() of a node that is on the desktop when the sticky nodes have*)
(* gone along sets its focus.                                              *)
LEMMA FocusNodeArrives ==
  ASSUME NEW s, Legal(s), NEW m \in s.monitors, NEW d \in Range(s.desks[m]), NEW n \in Node,
         NEW t, t = FocusNode(s, m, d, n), t.home[n] = d
  PROVE  Minds(s, t)
<1>1. m \in Monitor /\ m # None /\ d # None /\ n # None /\ n \in Node \union {None}
  BY PlaceFacts, Things
<1>2. t = FocusOn(s, m, d, n)
  BY <1>1 DEF FocusNode, Or
<1>3. PICK u : u = Carry(s, m, d)
  OBVIOUS
<1>4. t = FocusAt(u, m, d, n)
  BY <1>1, <1>2, <1>3 DEF FocusOn, Or
<1>5. Stays(s, u) /\ Minds(s, u)
  BY <1>3, CarryStays, CarryMinds
<1>6. Legal(u) /\ m \in u.monitors /\ d \in Range(u.desks[m])
  BY <1>5 DEF Stays, SamePlaces, SameLists
<1>7. t.home = u.home
  BY <1>1, <1>4, <1>6, FocusAtShows
<1>8. Fits(u, n, d)
  BY <1>1, <1>7 DEF Fits
<1>9. Mends(u, t, d)
  BY <1>1, <1>4, <1>6, <1>8, FocusAtMends
<1> QED BY <1>5, <1>9, MendsMinds, MindsOn

(* Without a desktop or a monitor it disturbs no focus.                    *)
LEMMA FocusNodeMinds ==
  ASSUME NEW s, Legal(s), NEW m \in s.monitors \union {None},
         NEW t, t = FocusNode(s, m, None, None)
  PROVE  Minds(s, t)
<1>1. PICK x : x = Or(m, GuessMonitor(s))
  OBVIOUS
<1>2. x \in s.monitors \union {None}
  BY <1>1, GuessMonitorFacts DEF Or
<1>3. CASE x = None
  <2>1. t = FocusOn(s, x, None, None)
    BY <1>1, <1>3 DEF FocusNode
  <2> QED BY <1>3, <2>1, MindsSelf DEF FocusOn
<1>4. CASE x # None
  <2>1. PICK d : d = GuessDesktop(s, x)
    OBVIOUS
  <2>2. t = FocusOn(s, x, d, None) /\ x \in s.monitors /\ x \in Monitor
    BY <1>1, <1>2, <1>4, <2>1 DEF FocusNode, Or, Legal, Records
  <2>3. CASE d = None
    BY <2>2, <2>3, MindsSelf DEF FocusOn
  <2>4. CASE d # None
    <3>1. d \in Range(s.desks[x])
      BY <2>1, <2>2, <2>4, GuessDesktopFacts
    <3>2. Placed(s, None, d)
      BY DEF Placed
    <3>3. Mends(s, t, d)
      BY <2>2, <3>1, <3>2, FocusOnMends
    <3> QED BY <3>3, MendsMinds
  <2> QED BY <2>3, <2>4
<1> QED BY <1>3, <1>4

(* Only the monitors that exist list desktops.                             *)
LEMMA OwnerExists ==
  ASSUME NEW s, Legal(s), NEW m \in Monitor, NEW d \in Range(s.desks[m])
  PROVE  m \in s.monitors
<1>1. Range(<<>>) = {}
  BY DEF Range
<1> QED BY <1>1 DEF Legal, ListsLegal

(* Landing somewhere changes no list.                                      *)
LEMMA LandsRoams ==
  ASSUME NEW s, Legal(s), NEW t, NEW m \in s.monitors, NEW d \in Range(s.desks[m]),
         Lands(s, t, m, d)
  PROVE  Roams(s, t)
BY ShowsRoams DEF Lands

(* focus_node() changes no list.                                           *)
LEMMA FocusNodeRoams ==
  ASSUME NEW s, Legal(s), NEW m \in Monitor, NEW d \in Range(s.desks[m]),
         NEW n \in Node \union {None}, NEW t, t = FocusNode(s, m, d, n)
  PROVE  Roams(s, t)
<1>1. m \in s.monitors
  BY OwnerExists
<1>2. Lands(s, t, m, d)
  BY <1>1, FocusNodeLands
<1> QED BY <1>1, <1>2, LandsRoams

(* Nor does activate_node().                                               *)
LEMMA ActivateNodeRoams ==
  ASSUME NEW s, Legal(s), NEW d \in Desk, NEW n \in Node \union {None},
         NEW t, t = ActivateNode(s, d, n)
  PROVE  Roams(s, t)
BY ActivateNodeStays, StaysRoams

(* What roams keeps the desktops in their lists.                           *)
LEMMA RoamsPlace ==
  ASSUME NEW s, NEW t, Roams(s, t), NEW m, NEW d \in Range(s.desks[m])
  PROVE  d \in Range(t.desks[m]) /\ Legal(t)
BY DEF Roams, Ranges, SameLists

(* The focus of a desktop is a node or none.                               *)
LEMMA FocusTyped ==
  ASSUME NEW s, Legal(s), NEW d \in Desk
  PROVE  s.focus[d] \in Node \union {None}
BY DEF Legal, Records

(* transfer_node()                                                         *)
LEMMA TransferNodeRoams ==
  ASSUME NEW s, Legal(s), NEW ms, NEW ds, NEW N, NEW md, NEW dd,
         Transfer(s, ms, ds, N, md, dd), NEW follow,
         NEW t, t = TransferNode(s, ms, ds, N, md, dd, follow)
  PROVE  Roams(s, t)
<1>0. /\ ds \in Desk /\ dd \in Desk /\ ds \in Range(s.desks[ms]) /\ dd \in Range(s.desks[md])
      /\ ms \in Monitor /\ md \in Monitor
  BY TransferFacts DEF Transfer
<1>1. PICK b : b = TRUE
  OBVIOUS
<1> DEFINE n == s.focus[ds]
           u == Relocate(s, b, ms, ds, N, md, dd)
           v == IF ds = Current(s) THEN FocusNode(u, md, dd, n) ELSE u
           w == ActivateNode(v, ds, None)
           x == IF ds # Current(s) /\ s.focus[dd] = None THEN Settle(w, md, dd, n) ELSE w
<1>2. t \in {s, TransferStay(s, b, ms, ds, N, md, dd), x}
  BY <1>1 DEF TransferNode
<1>3. Roams(s, s)
  BY StaysSelf, StaysRoams
<1>4. Roams(s, TransferStay(s, b, ms, ds, N, md, dd))
  <2>1. PICK y : y = TransferStay(s, b, ms, ds, N, md, dd)
    OBVIOUS
  <2>2. Stays(s, y)
    BY <2>1, TransferStayStays
  <2> QED BY <2>1, <2>2, StaysRoams
<1>5. n \in Node \union {None}
  BY <1>0, FocusTyped
<1> HIDE DEF n
<1>6. Roams(s, u)
  BY RelocateStays, StaysRoams
<1> HIDE DEF u
<1>7. Roams(s, v) 
  <2>1. CASE ds = Current(s)
    <3>1. v = FocusNode(u, md, dd, n)
      BY <2>1
    <3>2. dd \in Range(u.desks[md]) /\ Legal(u)
      BY <1>0, <1>6, RoamsPlace
    <3> HIDE DEF v
    <3>3. Roams(u, v)
      BY <1>0, <1>5, <3>1, <3>2, FocusNodeRoams
    <3> QED BY <1>6, <3>3, RoamsOn
  <2>2. CASE ds # Current(s)
    BY <1>6, <2>2
  <2> QED BY <2>1, <2>2
<1> HIDE DEF v
<1>8. Roams(s, w)
  <2>1. Legal(v)
    BY <1>7 DEF Roams, Ranges
  <2>2. Roams(v, w)
    BY <1>0, <2>1, ActivateNodeRoams
  <2> HIDE DEF w
  <2> QED BY <1>7, <2>2, RoamsOn
<1> HIDE DEF w
<1>9. Roams(s, x)
  <2>1. CASE ds # Current(s) /\ s.focus[dd] = None
    <3>1. x = Settle(w, md, dd, n)
      BY <2>1
    <3>2. dd \in Range(w.desks[md]) /\ Legal(w)
      BY <1>0, <1>8, RoamsPlace
    <3> HIDE DEF x
    <3>3. Roams(w, x)
      BY <1>0, <1>5, <3>1, <3>2, SettleStays, StaysRoams
    <3> QED BY <1>8, <3>3, RoamsOn
  <2>2. CASE ~(ds # Current(s) /\ s.focus[dd] = None)
    BY <1>8, <2>2
  <2> QED BY <2>1, <2>2
<1> HIDE DEF x
<1> QED BY <1>2, <1>3, <1>4, <1>9

(* transfer_node() without follow, and merge_desktops(): every window goes *)
(* along, or none does when one is sticky.                                 *)
LEMMA MergeDesktopsStays ==
  ASSUME NEW s, Legal(s), NEW ms, NEW ds, NEW md, NEW dd,
         Transfer(s, ms, ds, NodesOf(s, ds), md, dd),
         NEW t, t = MergeDesktops(s, ms, ds, md, dd)
  PROVE  /\ Stays(s, t)
         /\ \A n \in Node : t.home[n] = s.home[n] \/ (s.home[n] = ds /\ t.home[n] = dd)
         /\ \/ \A n \in Node : t.home[n] # ds
            \/ ds = dd
            \/ dd # s.shown[md] /\ \E n \in s.sticky : s.home[n] = ds
<1> DEFINE N == NodesOf(s, ds)
<1>1. PICK b : b = TRUE
  OBVIOUS
<1>2. Refused(s, b, ms, ds, N, md, dd) => t = s
  <2>1. Refused(s, b, ms, ds, N, md, dd) => TransferStay(s, b, ms, ds, N, md, dd) = s
    BY DEF TransferStay
  <2> QED BY <1>1, <2>1 DEF MergeDesktops, TransferNode
<1>3. ~Refused(s, b, ms, ds, N, md, dd) => t = TransferStay(s, b, ms, ds, N, md, dd)
  BY <1>1 DEF MergeDesktops, TransferNode
<1>4. CASE Refused(s, b, ms, ds, N, md, dd)
  <2>1. N = {} \/ ds = dd \/ (Counted(s, ms, ds, N) > 0 /\ dd # s.shown[md])
    BY <1>1, <1>4 DEF Refused
  <2>2. CASE N = {}
    BY <1>2, <1>4, <2>2, StaysSelf DEF NodesOf
  <2>3. CASE ds = dd
    BY <1>2, <1>4, <2>3, StaysSelf
  <2>4. CASE Counted(s, ms, ds, N) > 0 /\ dd # s.shown[md]
    <3>1. N \intersect s.sticky # {}
      <4>1. SUFFICES ASSUME N \intersect s.sticky = {} PROVE FALSE
        OBVIOUS
      <4>2. Counted(s, ms, ds, N) = 0
        BY <4>1, FS_EmptySet DEF Counted
      <4> QED BY <2>4, <4>2
    <3> QED BY <1>2, <1>4, <2>4, <3>1, StaysSelf DEF NodesOf
  <2> QED BY <2>1, <2>2, <2>3, <2>4
<1>5. CASE ~Refused(s, b, ms, ds, N, md, dd)
  <2>1. Stays(s, t) /\ t.home = Transferred(s.home, N, dd)
    <3>1. PICK M : M = N
      OBVIOUS
    <3>2. Transfer(s, ms, ds, M, md, dd) /\ t = TransferStay(s, b, ms, ds, M, md, dd)
      BY <1>3, <1>5, <3>1
    <3>3. ~Refused(s, b, ms, ds, M, md, dd)
      BY <1>5, <3>1
    <3>4. Stays(s, t) /\ t.home = Transferred(s.home, M, dd)
      BY <3>2, <3>3, TransferStayStays
    <3> QED BY <3>1, <3>4
  <2>2. ds # dd
    BY <1>5 DEF Refused
  <2> QED BY <2>1, <2>2 DEF Transferred, NodesOf
<1> QED BY <1>4, <1>5

(* Mapping windows moves none.                                             *)
LEMMA RevealStays ==
  ASSUME NEW s, Legal(s), NEW S \in SUBSET InTrees(s), NEW t, t = Reveal(s, S)
  PROVE  Stays(s, t) /\ t.home = s.home /\ t.count = s.count /\ t.focus = s.focus
<1>1. PICK V : V = s.visible \union S
  OBVIOUS
<1>2. V \in SUBSET InTrees(s)
  BY <1>1 DEF Legal, TreesLegal
<1>3. t = [s EXCEPT !.visible = V]
  BY <1>1 DEF Reveal
<1> QED BY <1>2, <1>3, VisibleStays

(* Nor does unmapping them.                                                *)
LEMMA ConcealStays ==
  ASSUME NEW s, Legal(s), NEW S, NEW t, t = Conceal(s, S)
  PROVE  Stays(s, t) /\ t.home = s.home /\ t.count = s.count /\ t.focus = s.focus
<1>1. PICK V : V = s.visible \ S
  OBVIOUS
<1>2. V \in SUBSET InTrees(s)
  BY <1>1 DEF Legal, TreesLegal
<1>3. t = [s EXCEPT !.visible = V]
  BY <1>1 DEF Conceal
<1> QED BY <1>2, <1>3, VisibleStays

(* Both at once, each or not.                                              *)
LEMMA RevealConcealStays ==
  ASSUME NEW s, Legal(s), NEW S \in SUBSET InTrees(s), NEW T, NEW t,
         t \in {s, Reveal(s, S), Conceal(s, T), Conceal(Reveal(s, S), T), Reveal(Conceal(s, T), S)}
  PROVE  Stays(s, t) /\ t.home = s.home /\ t.count = s.count /\ t.focus = s.focus
<1>1. PICK r : r = Reveal(s, S)
  OBVIOUS
<1>2. PICK c : c = Conceal(s, T)
  OBVIOUS
<1>3. Stays(s, r) /\ r.home = s.home /\ r.count = s.count /\ r.focus = s.focus /\ Legal(r)
  BY <1>1, RevealStays DEF Stays
<1>4. Stays(s, c) /\ c.home = s.home /\ c.count = s.count /\ c.focus = s.focus /\ Legal(c)
      /\ InTrees(c) = InTrees(s)
  BY <1>2, ConcealStays DEF Stays, SameTrees
<1>5. CASE t = s
  BY <1>5, StaysSelf
<1>6. CASE t = r \/ t = c
  BY <1>3, <1>4, <1>6
<1>7. CASE t = Conceal(r, T)
  <2>1. Stays(r, t) /\ t.home = r.home /\ t.count = r.count /\ t.focus = r.focus
    BY <1>3, <1>7, ConcealStays
  <2> QED BY <1>3, <2>1, StaysOn
<1>8. CASE t = Reveal(c, S)
  <2>1. Stays(c, t) /\ t.home = c.home /\ t.count = c.count /\ t.focus = c.focus
    BY <1>4, <1>8, RevealStays
  <2> QED BY <1>4, <2>1, StaysOn
<1> QED BY <1>1, <1>2, <1>5, <1>6, <1>7, <1>8

(* What swap_nodes() and swap_desktops() do with the focus.                *)
LEMMA RefocusRoams ==
  ASSUME NEW s, Legal(s), NEW ma \in Monitor, NEW da \in Range(s.desks[ma]),
         NEW mb \in Monitor, NEW db \in Range(s.desks[mb]), NEW n \in Node \union {None},
         NEW t, t \in {s, FocusNode(s, mb, db, n), FocusNode(s, ma, da, s.focus[da]),
                       ActivateNode(s, da, s.focus[da])}
  PROVE  Roams(s, t)
<1>1. da \in Desk
  BY ListedFacts
<1>2. PICK k : k = s.focus[da]
  OBVIOUS
<1>3. k \in Node \union {None}
  BY <1>1, <1>2, FocusTyped
<1>4. t = s => Roams(s, t)
  BY StaysSelf, StaysRoams
<1>5. t = FocusNode(s, mb, db, n) => Roams(s, t)
  BY FocusNodeRoams
<1>6. t = FocusNode(s, ma, da, k) => Roams(s, t)
  BY <1>3, FocusNodeRoams
<1>7. t = ActivateNode(s, da, k) => Roams(s, t)
  BY <1>1, <1>3, ActivateNodeRoams
<1> QED BY <1>2, <1>4, <1>5, <1>6, <1>7

(* The first step of swap_nodes().                                         *)
Swapped(s, d1, n1, d2, n2) ==
  [s EXCEPT !.home[n1] = d2, !.home[n2] = d1,
            !.focus[d1] = IF s.focus[d1] = n1 THEN n2 ELSE @,
            !.focus[d2] = IF s.focus[d2] = n2 THEN n1 ELSE @]

(* Two windows of two desktops change places, and are the focus in the     *)
(* place of each other.                                                    *)
Traded(s, u, d1, n1, d2, n2) ==
  /\ u.home = [s.home EXCEPT ![n1] = d2, ![n2] = d1]
  /\ u.focus = [s.focus EXCEPT ![d1] = IF @ = n1 THEN n2 ELSE @, ![d2] = IF @ = n2 THEN n1 ELSE @]
  /\ u.recent = s.recent /\ u.mislaid = s.mislaid

(* What swap_nodes() does to the trees and the two focuses.                *)
LEMMA SwappedStays ==
  ASSUME NEW s, Legal(s), NEW m1 \in Monitor, NEW d1 \in Range(s.desks[m1]),
         NEW n1 \in NodesOf(s, d1), NEW m2 \in Monitor, NEW d2 \in Range(s.desks[m2]),
         NEW n2 \in NodesOf(s, d2), d1 # d2,
         NEW swapped, swapped = Swapped(s, d1, n1, d2, n2)
  PROVE  Stays(s, swapped) /\ Traded(s, swapped, d1, n1, d2, n2)
<1>0. /\ d1 \in Desk /\ d2 \in Desk /\ n1 \in Node /\ n2 \in Node
      /\ s.home[n1] = d1 /\ s.home[n2] = d2 /\ d1 # None /\ d2 # None
      /\ d1 \in InLists(s) /\ d2 \in InLists(s)
  BY ListedFacts DEF NodesOf
<1>1. PICK H : H = [[s.home EXCEPT ![n1] = d2] EXCEPT ![n2] = d1]
  OBVIOUS
<1>2. PICK F : F = [[s.focus EXCEPT ![d1] = IF s.focus[d1] = n1 THEN n2 ELSE s.focus[d1]]
                      EXCEPT ![d2] = IF s.focus[d2] = n2 THEN n1 ELSE s.focus[d2]]
  OBVIOUS
<1>3. s.home \in [Node -> InLists(s) \union {None}] /\ s \in Records
  BY DEF Legal, TreesLegal, Records
<1>4. H \in [Node -> InLists(s) \union {None}] /\ {n \in Node : H[n] # None} = InTrees(s)
  BY <1>0, <1>1, <1>3 DEF InTrees
<1>5. F \in [Desk -> Node \union {None}]
  <2>1. s.focus \in [Desk -> Node \union {None}]
    BY DEF Legal, Records
  <2> QED BY <1>0, <1>2, <2>1
<1>6. PICK v : v = Rehomed(s, H, F, s.visible)
  OBVIOUS
<1>7. Stays(s, v) /\ v.home = H /\ v.focus = F
  BY <1>4, <1>5, <1>6, RehomedStays DEF Legal, TreesLegal
<1>8. v = swapped
  <2> DEFINE a == [s EXCEPT !.home[n1] = d2]
             b == [a EXCEPT !.home[n2] = d1]
             c == [b EXCEPT !.focus[d1] = IF s.focus[d1] = n1 THEN n2 ELSE s.focus[d1]]
             e == [c EXCEPT !.focus[d2] = IF s.focus[d2] = n2 THEN n1 ELSE s.focus[d2]]
  <2>1. swapped = e
    BY DEF Swapped
  <2>2. a.home = [s.home EXCEPT ![n1] = d2] /\ a.focus = s.focus /\ a = [s EXCEPT !.home = a.home]
    BY <1>3 DEF Records
  <2>3. b = [s EXCEPT !.home = H] /\ b.focus = s.focus
    BY <1>1, <1>3 DEF Records
  <2> HIDE DEF b
  <2>4. e = [b EXCEPT !.focus = F]
    BY <1>2, <1>3, <2>3 DEF Records
  <2> HIDE DEF e
  <2>5. swapped = [b EXCEPT !.focus = F]
    BY <2>1, <2>4
  <2> HIDE DEF c, a
  <2> QED BY <1>3, <1>6, <2>3, <2>5 DEF Rehomed, Records
<1>9. v.recent = s.recent /\ v.mislaid = s.mislaid
  BY <1>7 DEF Stays, SamePlaces, SameLists
<1>10. PICK X : X = [s.focus EXCEPT ![d1] = IF s.focus[d1] = n1 THEN n2 ELSE s.focus[d1]]
  OBVIOUS
<1>11. X[d2] = s.focus[d2]
  BY <1>0, <1>3, <1>10 DEF Records
<1>12. F = [s.focus EXCEPT ![d1] = IF @ = n1 THEN n2 ELSE @, ![d2] = IF @ = n2 THEN n1 ELSE @]
  BY <1>2, <1>10, <1>11
<1> QED BY <1>1, <1>7, <1>8, <1>9, <1>12 DEF Traded

(* swap_nodes()                                                            *)
LEMMA SwapNodesRoams ==
  ASSUME NEW s, Legal(s), NEW m1 \in Monitor, NEW d1 \in Range(s.desks[m1]),
         NEW n1 \in NodesOf(s, d1), NEW m2 \in Monitor, NEW d2 \in Range(s.desks[m2]),
         NEW n2 \in NodesOf(s, d2), d1 # d2, NEW follow,
         NEW t, t = SwapNodes(s, m1, d1, n1, m2, d2, n2, follow)
  PROVE  Roams(s, t)
<1>0. /\ d1 \in Desk /\ d2 \in Desk /\ n1 \in Node /\ n2 \in Node
      /\ s.home[n1] = d1 /\ s.home[n2] = d2 /\ d1 # None /\ d2 # None
      /\ d1 \in InLists(s) /\ d2 \in InLists(s)
  BY ListedFacts DEF NodesOf
<1> DEFINE swapped == Swapped(s, d1, n1, d2, n2)
           mapped == SwapMapped(swapped, s, m1, d1, n1, m2, d2, n2, follow)
           first == SwapFocus(mapped, s, m1, d1, n1, m2, d2, n2, follow)
           second == SwapFocus(first, s, m2, d2, n2, m1, d1, n1, follow)
<1>1. t \in {s, second}
  BY DEF SwapNodes, Swapped
<1>2. Roams(s, s)
  BY StaysSelf, StaysRoams
<1>3. Stays(s, swapped) /\ Traded(s, swapped, d1, n1, d2, n2)
  BY <1>0, SwappedStays
<1> HIDE DEF swapped
<1>4. Legal(swapped) /\ n1 \in InTrees(swapped) /\ n2 \in InTrees(swapped)
  BY <1>0, <1>3 DEF Stays, SameTrees, InTrees
<1>5. Stays(swapped, mapped)
  <2>1. \/ mapped \in {swapped, Reveal(swapped, {n1}), Conceal(Reveal(swapped, {n1}), {n2})}
        \/ mapped \in {Reveal(swapped, {n2}), Reveal(Conceal(swapped, {n1}), {n2})}
    BY DEF SwapMapped
  <2>2. {n1} \in SUBSET InTrees(swapped) /\ {n2} \in SUBSET InTrees(swapped)
    BY <1>4
  <2> HIDE DEF mapped
  <2> QED BY <1>4, <2>1, <2>2, RevealConcealStays
<1> HIDE DEF mapped
<1>6. Roams(s, mapped)
  BY <1>3, <1>5, StaysOn, StaysRoams
<1>7. Roams(mapped, first)
  <2>1. first \in {mapped, FocusNode(mapped, m2, d2, n1), FocusNode(mapped, m1, d1, mapped.focus[d1]),
                   ActivateNode(mapped, d1, mapped.focus[d1])}
    BY DEF SwapFocus
  <2> HIDE DEF first
  <2>2. Legal(mapped) /\ d1 \in Range(mapped.desks[m1]) /\ d2 \in Range(mapped.desks[m2])
    BY <1>6, RoamsPlace
  <2> QED BY <1>0, <2>1, <2>2, RefocusRoams
<1> HIDE DEF first
<1>8. Roams(s, first)
  BY <1>6, <1>7, RoamsOn
<1>9. Roams(first, second)
  <2>1. second \in {first, FocusNode(first, m1, d1, n2), FocusNode(first, m2, d2, first.focus[d2]),
                    ActivateNode(first, d2, first.focus[d2])}
    BY DEF SwapFocus
  <2> HIDE DEF second
  <2>2. Legal(first) /\ d1 \in Range(first.desks[m1]) /\ d2 \in Range(first.desks[m2])
    BY <1>8, RoamsPlace
  <2> QED BY <1>0, <2>1, <2>2, RefocusRoams
<1> HIDE DEF second
<1> QED BY <1>1, <1>2, <1>8, <1>9, RoamsOn

(* set_sticky()                                                            *)
LEMMA SetStickyRoams ==
  ASSUME NEW s, Legal(s), NEW m \in Monitor, NEW d \in Range(s.desks[m]), s.shown[m] # None,
         NEW n \in NodesOf(s, d), NEW value \in BOOLEAN, NEW t, t = SetSticky(s, m, d, n, value)
  PROVE  Roams(s, t)
<1>0. /\ s.shown[m] \in Range(s.desks[m]) /\ n \in Node
      /\ n \in InTrees(s)
  BY ListedFacts DEF Legal, ListsLegal, NodesOf, InTrees
<1>1. PICK b : b = TRUE
  OBVIOUS
<1>2. PICK u : u = IF d = s.shown[m] THEN s ELSE TransferStay(s, b, m, d, {n}, m, s.shown[m])
  OBVIOUS
<1>3. Stays(s, u)
  <2>1. CASE d = s.shown[m]
    BY <1>2, <2>1, StaysSelf
  <2>2. CASE d # s.shown[m]
    <3>1. Transfer(s, m, d, {n}, m, s.shown[m])
      BY <1>0 DEF Transfer
    <3>2. u = TransferStay(s, b, m, d, {n}, m, s.shown[m])
      BY <1>2, <2>2
    <3> QED BY <3>1, <3>2, TransferStayStays
  <2> QED BY <2>1, <2>2
<1>4. PICK S : S = IF value THEN u.sticky \union {n} ELSE u.sticky \ {n}
  OBVIOUS
<1>5. PICK v : v = [u EXCEPT !.sticky = S]
  OBVIOUS
<1>6. PICK k : k = IF value THEN 1 ELSE Word - 1
  OBVIOUS
<1>7. t = s \/ t = Count(v, m, k)
  BY <1>1, <1>2, <1>4, <1>5, <1>6 DEF SetSticky
<1>8. Roams(u, v)
  <2>1. /\ u \in Records /\ Legal(u) /\ S \subseteq InTrees(u) /\ S \subseteq Node
    BY <1>0, <1>3, <1>4 DEF Stays, SameTrees, Legal, TreesLegal, InTrees
  <2>2. v \in Records
    BY <1>5, <2>1, ZenonT(60) DEF Records
  <2>3. /\ SamePlaces(u, v) /\ v.home = u.home /\ v.visible = u.visible /\ v.sticky = S
    BY <1>5, <2>1 DEF Records, SamePlaces, SameLists
  <2>4. TreesLegal(v) /\ InTrees(v) = InTrees(u)
    BY <2>1, <2>3 DEF Legal, TreesLegal, InTrees, InLists, SamePlaces, SameLists
  <2>5. Legal(v)
    BY <2>1, <2>2, <2>3, <2>4, SameIsLegal
  <2> QED BY <2>3, <2>4, <2>5 DEF Roams, Ranges, SamePlaces
<1>9. Roams(s, v)
  BY <1>3, <1>8, StaysRoams, RoamsOn
<1>10. CASE t = s
  BY <1>10, StaysSelf, StaysRoams
<1>11. CASE t = Count(v, m, k)
  <2>1. k \in Int
    BY <1>6, PlacesAssumption
  <2>2. Legal(v)
    BY <1>9 DEF Roams, Ranges
  <2>3. Roams(v, t)
    BY <1>11, <2>1, <2>2, CountStays, StaysRoams
  <2> QED BY <1>9, <2>3, RoamsOn
<1> QED BY <1>7, <1>10, <1>11

(* unlink_node() and the counts in remove_node().                          *)
Uprooted(s, m, d, N) ==
  Count([s EXCEPT !.home = [n \in Node |-> IF n \in N THEN None ELSE s.home[n]],
                  !.focus[d] = IF s.focus[d] \in N THEN None ELSE @,
                  !.sticky = s.sticky \ N, !.visible = s.visible \ N],
        m, Word - Counted(s, m, d, N))

(* The windows N are in no tree any more.                                  *)
LEMMA UprootedFacts ==
  ASSUME NEW s, Legal(s), NEW m \in Monitor, NEW d \in Range(s.desks[m]),
         NEW N \in SUBSET NodesOf(s, d), NEW u, u = Uprooted(s, m, d, N)
  PROVE  /\ Legal(u) /\ SamePlaces(s, u) /\ u.sticky = s.sticky \ N
         /\ \A n \in Node : u.home[n] = IF n \in N THEN None ELSE s.home[n]
         /\ Refocuses(s, u, d, Released(s, d, N))
<1>0. d \in Desk /\ d # None /\ N \subseteq Node /\ s \in Records /\ N \subseteq NodesOf(s, d)
  BY ListedFacts DEF NodesOf, Legal
<1> DEFINE H == [n \in Node |-> IF n \in N THEN None ELSE s.home[n]]
           v == [s EXCEPT !.home = H, !.focus[d] = IF s.focus[d] \in N THEN None ELSE @,
                          !.sticky = s.sticky \ N, !.visible = s.visible \ N]
           k == Word - Counted(s, m, d, N)
<1>1. PICK K : K = [s.focus EXCEPT ![d] = IF s.focus[d] \in N THEN None ELSE @]
  OBVIOUS
<1>2. K \in [Desk -> Node \union {None}]
  <2>1. s.focus \in [Desk -> Node \union {None}]
    BY <1>0 DEF Records
  <2> QED BY <1>0, <1>1, <2>1
<1>3. PICK S : S = s.sticky \ N
  OBVIOUS
<1>4. PICK V : V = s.visible \ N
  OBVIOUS
<1>5. S \in SUBSET Node /\ V \in SUBSET Node /\ s.home \in [Node -> Desk \union {None}]
  BY <1>0, <1>3, <1>4 DEF Records
<1>6. H \in [Node -> Desk \union {None}]
  BY <1>0, <1>5
<1>7. u = Count(v, m, k)
  BY DEF Uprooted
<1>8. \A n \in Node : H[n] = IF n \in N THEN None ELSE s.home[n]
  OBVIOUS
<1> HIDE DEF H
<1>9. v = [s EXCEPT !.home = H, !.focus = K, !.sticky = S, !.visible = V]
  BY <1>1, <1>3, <1>4
<1> HIDE DEF v
<1>10. v \in Records
  BY <1>0, <1>2, <1>5, <1>6, <1>9, ZenonT(60) DEF Records
<1>11. /\ SamePlaces(s, v) /\ v.home = H /\ v.visible = s.visible \ N /\ v.sticky = s.sticky \ N
       /\ v.focus = K
  BY <1>0, <1>3, <1>4, <1>9 DEF Records, SamePlaces, SameLists
<1>12. Legal(v)
  <2>1. InLists(v) = InLists(s) /\ InTrees(v) = InTrees(s) \ N
    BY <1>8, <1>11 DEF SamePlaces, SameLists, InLists, InTrees
  <2>2. TreesLegal(v)
    BY <1>8, <1>11, <2>1 DEF Legal, TreesLegal
  <2> QED BY <1>10, <1>11, <2>2, SameIsLegal
<1>13. k \in Int
  BY <1>0, CountedNat, PlacesAssumption
<1> HIDE DEF k
<1>14. Stays(v, u) /\ u.home = v.home /\ u.focus = v.focus
  BY <1>7, <1>12, <1>13, CountStays
<1> QED BY <1>1, <1>8, <1>11, <1>14
        DEF Stays, SamePlaces, SameLists, SameTrees, Refocuses, Released

(* What remove_node() does then.                                           *)
LEMMA RemoveNodeCases ==
  ASSUME NEW s, NEW m, NEW d, NEW N, N # {}, NEW u, u = Uprooted(s, m, d, N),
         NEW t, t = RemoveNode(s, m, d, N)
  PROVE  CASE s.mon = None \/ u.focus[d] # None -> t = u
           [] s.mon # None /\ u.focus[d] = None /\ d = Current(s) -> t = FocusNode(u, m, d, None)
           [] OTHER -> t = ActivateNode(u, d, None)
BY DEF RemoveNode, Uprooted

(* remove_node()                                                           *)
LEMMA RemoveNodeRanges ==
  ASSUME NEW s, Legal(s), NEW m \in Monitor, NEW d \in Range(s.desks[m]),
         NEW N \in SUBSET NodesOf(s, d), NEW t, t = RemoveNode(s, m, d, N)
  PROVE  /\ Ranges(s, t)
         /\ \A n \in Node : t.home[n] = IF n \in N THEN None ELSE s.home[n]
         /\ t.sticky = s.sticky \ N
         /\ t.mon = s.mon /\ t.shown = s.shown
<1>0. d \in Desk /\ d # None /\ m \in s.monitors
  BY ListedFacts, OwnerExists
<1>1. CASE N = {}
  <2>1. t = s
    BY <1>1 DEF RemoveNode
  <2> QED BY <1>1, <2>1, StaysSelf, StaysRoams DEF Roams
<1>2. CASE N # {}
  <2>1. PICK u : u = Uprooted(s, m, d, N)
    OBVIOUS
  <2>2. /\ Legal(u) /\ SamePlaces(s, u) /\ u.sticky = s.sticky \ N
        /\ \A n \in Node : u.home[n] = IF n \in N THEN None ELSE s.home[n]
    BY <2>1, UprootedFacts
  <2>3. d \in Range(u.desks[m]) /\ m \in u.monitors /\ Current(u) = Current(s)
    BY <1>0, <2>2 DEF SamePlaces, SameLists, Current
  <2>4. Stays(u, t) /\ t.home = u.home
    <3>1. CASE t = u
      BY <2>2, <3>1, StaysSelf
    <3>2. CASE t = ActivateNode(u, d, None)
      BY <1>0, <2>2, <3>2, ActivateNodeStays
    <3>3. CASE t = FocusNode(u, m, d, None) /\ d = Current(s)
      <4>1. m = u.mon /\ u.shown[m] = d
        BY <2>2, <2>3, <3>3, CurrentOwner
      <4>2. Lands(u, t, m, d) /\ t.home = u.home
        BY <2>2, <2>3, <3>3, <4>1, FocusNodeLands
      <4>3. t.shown = u.shown
        <5>1. u.shown \in [Monitor -> Desk \union {None}]
          BY <2>2 DEF Legal, Records
        <5> QED BY <4>1, <4>2, <5>1 DEF Lands, Shows
      <4> QED BY <4>1, <4>2, <4>3 DEF Lands, Shows, Stays, SamePlaces
    <3> QED BY <1>2, <2>1, <3>1, <3>2, <3>3, RemoveNodeCases
  <2>5. Legal(t) /\ SamePlaces(s, t) /\ t.sticky = s.sticky \ N
    BY <2>2, <2>4 DEF Stays, SamePlaces, SameLists, SameTrees
  <2> QED BY <2>2, <2>4, <2>5 DEF Ranges, SamePlaces
<1> QED BY <1>1, <1>2

-----------------------------------------------------------------------------
(* A step that stays, but for a focus that it disturbs.                    *)
LEMMA StaysKnown ==
  ASSUME NEW s, NEW t, Ranges(s, t), NEW m, NEW d \in Range(s.desks[m])
  PROVE  /\ Legal(t) /\ d \in Range(t.desks[m]) /\ t.mislaid = s.mislaid
         /\ t.recent = s.recent /\ t.monitors = s.monitors
BY DEF Ranges, SameLists

(* transfer_node() leaves no desktop without a focus, with follow either.  *)
LEMMA TransferNodeMinds ==
  ASSUME NEW s, Legal(s), NEW ms, NEW ds, NEW N, NEW md, NEW dd,
         Transfer(s, ms, ds, N, md, dd), NEW follow,
         NEW t, t = TransferNode(s, ms, ds, N, md, dd, follow)
  PROVE  Minds(s, t)
<1>0. /\ ds \in Desk /\ dd \in Desk /\ ds \in Range(s.desks[ms]) /\ dd \in Range(s.desks[md])
      /\ ms \in Monitor /\ md \in Monitor /\ md \in s.monitors /\ dd # None
      /\ N \subseteq NodesOf(s, ds) /\ N \subseteq Node /\ None \notin N
  BY TransferFacts, OwnerExists, Things DEF Transfer
<1>1. PICK b : b = TRUE
  OBVIOUS
<1> DEFINE n == s.focus[ds]
           u == Relocate(s, b, ms, ds, N, md, dd)
           v == IF ds = Current(s) THEN FocusNode(u, md, dd, n) ELSE u
           w == ActivateNode(v, ds, None)
           x == IF ds # Current(s) /\ s.focus[dd] = None THEN Settle(w, md, dd, n) ELSE w
<1>2. CASE Refused(s, b, ms, ds, N, md, dd)
  <2>1. t \in {s, TransferStay(s, b, ms, ds, N, md, dd)}
    BY <1>1, <1>2 DEF TransferNode
  <2> QED BY <2>1, MindsSelf, TransferStayMinds
<1>3. CASE ~Refused(s, b, ms, ds, N, md, dd) /\ (~follow \/ n \notin N)
  <2>1. t = TransferStay(s, b, ms, ds, N, md, dd)
    BY <1>1, <1>3 DEF TransferNode
  <2> QED BY <2>1, TransferStayMinds
<1>4. CASE ~Refused(s, b, ms, ds, N, md, dd) /\ n \in N
  <2>1. ds # dd
    BY <1>4 DEF Refused
  <2>2. /\ Stays(s, u) /\ u.home = Transferred(s.home, N, dd)
        /\ Heeds(s, u, Blurred(s) \union Unfocused(s, ds, N, dd))
    BY <2>1, RelocateStays, RelocateHeeds
  <2>3. n \in Node \union {None} /\ u.home[n] = dd
    BY <1>0, <1>4, <2>2 DEF Transferred
  <2>4. Unfocused(s, ds, N, dd) = {ds} \union {d \in {dd} : s.focus[d] = None}
    BY <1>4 DEF Unfocused
  <2> HIDE DEF n, u
  <2>5. /\ Legal(u) /\ dd \in Range(u.desks[md]) /\ md \in u.monitors /\ Current(u) = Current(s)
        /\ ds \in Range(u.desks[ms])
    BY <1>0, <2>2 DEF Stays, SamePlaces, SameLists, Current
  <2>6. PICK B : B = Blurred(s) \union {d \in {dd} : s.focus[d] = None}
    OBVIOUS
  <2>7. Heeds(s, u, B \union {ds})
    BY <2>2, <2>4, <2>6 DEF Heeds
  <2>8. CASE ds = Current(s)
    <3>1. v = FocusNode(u, md, dd, n) /\ x = w
      BY <2>8
    <3>2. Placed(u, n, dd)
      BY <2>3 DEF Placed
    <3> HIDE DEF v
    <3>3. Mends(u, v, dd) /\ Lands(u, v, md, dd)
      BY <2>3, <2>5, <3>1, <3>2, FocusNodeMends, FocusNodeLands
    <3>4. Current(v) = dd /\ Legal(v)
      <4>1. md # None /\ u.shown \in [Monitor -> Desk \union {None}]
        BY <1>0, <2>5, Things DEF Legal, Records
      <4> QED BY <1>0, <3>3, <4>1 DEF Lands, Shows, Current
    <3>5. Mends(v, w, ds)
      <4>1. Placed(v, None, ds)
        BY DEF Placed
      <4> QED BY <1>0, <2>1, <3>4, <4>1, ActivateNodeMinds
    <3> HIDE DEF w
    <3>6. Heeds(s, w, ((B \union {ds}) \ {dd}) \ {ds})
      BY <2>7, <3>3, <3>5, HeedsOn
    <3>7. Minds(s, w)
      BY <2>6, <3>6 DEF Heeds, Minds
    <3>8. t \in {w, TransferStay(s, b, ms, ds, N, md, dd)}
      BY <1>1, <1>4, <3>1 DEF TransferNode, n, u, v, w
    <3> QED BY <3>7, <3>8, TransferStayMinds
  <2>9. CASE ds # Current(s)
    <3>1. v = u
      BY <2>9
    <3>2. w = ActivateNode(u, ds, None)
      BY <3>1
    <3>3. Placed(u, None, ds)
      BY DEF Placed
    <3> HIDE DEF v, w
    <3>4. Stays(u, w) /\ w.home = u.home /\ Mends(u, w, ds)
      BY <1>0, <2>5, <2>9, <3>2, <3>3, ActivateNodeMinds, ActivateNodeStays
    <3>5. Heeds(s, w, (B \union {ds}) \ {ds})
      BY <2>7, <3>4, HeedsOn
    <3>6. Minds(s, x)
      <4>1. CASE s.focus[dd] = None
        <5>1. x = Settle(w, md, dd, n)
          BY <2>9, <4>1
        <5>2. Legal(w) /\ dd \in Range(w.desks[md]) /\ Placed(w, n, dd)
          BY <2>3, <2>5, <3>4 DEF Stays, SamePlaces, SameLists, Placed
        <5> HIDE DEF x
        <5>3. Mends(w, x, dd)
          BY <1>0, <2>3, <5>1, <5>2, SettleMends
        <5>4. Heeds(s, x, ((B \union {ds}) \ {ds}) \ {dd})
          BY <3>5, <5>3, HeedsOn
        <5> QED BY <2>6, <5>4 DEF Heeds, Minds
      <4>2. CASE s.focus[dd] # None
        <5>1. x = w
          BY <4>2
        <5> QED BY <2>6, <3>5, <4>2, <5>1 DEF Heeds, Minds
      <4> QED BY <4>1, <4>2
    <3> HIDE DEF x
    <3>7. t \in {x, TransferStay(s, b, ms, ds, N, md, dd)}
      BY <1>1, <1>4 DEF TransferNode, n, u, v, w, x
    <3> QED BY <3>6, <3>7, TransferStayMinds
  <2> QED BY <2>8, <2>9
<1> QED BY <1>2, <1>3, <1>4

(* merge_desktops() is a transfer.                                         *)
LEMMA MergeDesktopsMinds ==
  ASSUME NEW s, Legal(s), NEW ms, NEW ds, NEW md, NEW dd,
         Transfer(s, ms, ds, NodesOf(s, ds), md, dd),
         NEW t, t = MergeDesktops(s, ms, ds, md, dd)
  PROVE  Minds(s, t)
<1>1. PICK M : M = NodesOf(s, ds)
  OBVIOUS
<1>2. PICK b : b = FALSE
  OBVIOUS
<1>3. Transfer(s, ms, ds, M, md, dd) /\ t = TransferNode(s, ms, ds, M, md, dd, b)
  BY <1>1, <1>2 DEF MergeDesktops
<1> QED BY <1>3, TransferNodeMinds

(* remove_node(), of a whole tree when no monitor has the focus.           *)
LEMMA RemoveNodeMinds ==
  ASSUME NEW s, Legal(s), NEW m \in Monitor, NEW d \in Range(s.desks[m]),
         NEW N \in SUBSET NodesOf(s, d), s.mon # None \/ N = NodesOf(s, d),
         NEW t, t = RemoveNode(s, m, d, N)
  PROVE  Minds(s, t)
<1>0. d \in Desk /\ d # None /\ m \in s.monitors /\ N \subseteq Node /\ N \subseteq NodesOf(s, d)
      /\ None \notin Node
  BY ListedFacts, OwnerExists, Things DEF NodesOf
<1>1. CASE N = {}
  <2>1. t = s
    BY <1>1 DEF RemoveNode
  <2> QED BY <2>1, MindsSelf
<1>2. CASE N # {}
  <2>1. PICK u : u = Uprooted(s, m, d, N)
    OBVIOUS
  <2>2. /\ Legal(u) /\ SamePlaces(s, u)
        /\ \A n \in Node : u.home[n] = IF n \in N THEN None ELSE s.home[n]
        /\ Refocuses(s, u, d, Released(s, d, N))
    BY <2>1, UprootedFacts
  <2>3. d \in Range(u.desks[m]) /\ m \in u.monitors /\ Current(u) = Current(s)
        /\ u.recent = s.recent /\ u.mislaid = s.mislaid
    BY <1>0, <2>2 DEF SamePlaces, SameLists, Current
  <2>4. /\ u.focus[d] = IF s.focus[d] \in N THEN None ELSE s.focus[d]
        /\ \A e \in Desk \ {d} : u.focus[e] = s.focus[e]
        /\ \A e \in Desk : s.focus[e] \in Node \union {None}
    <3>1. s.focus \in [Desk -> Node \union {None}]
      BY DEF Legal, Records
    <3> QED BY <1>0, <2>2, <3>1 DEF Refocuses, Released
  <2>5. ASSUME Wary(s)  PROVE Wary(u)
    <3>1. InTrees(u) \subseteq InTrees(s)
      BY <1>0, <2>2 DEF InTrees
    <3>2. ASSUME NEW e \in Desk, u.focus[e] # None  PROVE u.home[u.focus[e]] = e
      <4>1. u.focus[e] = s.focus[e] /\ s.focus[e] \in Node /\ s.home[s.focus[e]] = e
        BY <2>4, <2>5, <3>2 DEF Wary
      <4>2. s.focus[e] \notin N
        <5>1. CASE e = d
          BY <2>4, <3>2, <5>1
        <5>2. CASE e # d
          BY <1>0, <4>1, <5>2 DEF NodesOf
        <5> QED BY <5>1, <5>2
      <4> QED BY <2>2, <4>1, <4>2
    <3> QED BY <2>3, <2>5, <3>1, <3>2 DEF Wary
  <2>6. Blurred(u) \subseteq Blurred(s) \union {d}
    BY <1>0, <2>2, <2>4, Things DEF Blurred, NodesOf, Desk
  <2>7. Heeds(s, u, Blurred(s) \union {d})
    BY <2>3, <2>5, <2>6 DEF Heeds
  <2>8. CASE s.mon = None \/ u.focus[d] # None
    <3>1. t = u
      BY <1>2, <2>1, <2>8, RemoveNodeCases
    <3>2. d \notin Blurred(u)
      <4>1. CASE u.focus[d] # None
        BY <4>1 DEF Blurred
      <4>2. CASE s.mon = None
        <5>1. \A n \in Node : u.home[n] # d
          BY <1>0, <2>2, <4>2 DEF NodesOf
        <5> QED BY <5>1 DEF Blurred, NodesOf
      <4> QED BY <2>8, <4>1, <4>2
    <3> QED BY <2>7, <3>1, <3>2 DEF Heeds, Minds
  <2>9. CASE s.mon # None /\ u.focus[d] = None
    <3>1. Placed(u, None, d) /\ None \in Node \union {None}
      BY DEF Placed
    <3>2. Mends(u, t, d)
      <4>1. CASE d = Current(s)
        <5>1. t = FocusNode(u, m, d, None)
          BY <1>2, <2>1, <2>9, <4>1, RemoveNodeCases
        <5> QED BY <2>2, <2>3, <3>1, <5>1, FocusNodeMends
      <4>2. CASE d # Current(s)
        <5>1. t = ActivateNode(u, d, None)
          BY <1>2, <2>1, <2>9, <4>2, RemoveNodeCases
        <5> QED BY <1>0, <2>2, <2>3, <3>1, <4>2, <5>1, ActivateNodeMinds
      <4> QED BY <4>1, <4>2
    <3>3. Heeds(s, t, (Blurred(s) \union {d}) \ {d})
      BY <2>7, <3>2, HeedsOn
    <3> QED BY <3>3 DEF Heeds, Minds
  <2> QED BY <2>8, <2>9
<1> QED BY <1>1, <1>2

(* set_sticky()                                                            *)
LEMMA SetStickyMinds ==
  ASSUME NEW s, Legal(s), NEW m \in Monitor, NEW d \in Range(s.desks[m]), s.shown[m] # None,
         NEW n \in NodesOf(s, d), NEW value \in BOOLEAN, NEW t, t = SetSticky(s, m, d, n, value)
  PROVE  Minds(s, t)
<1>0. s.shown[m] \in Range(s.desks[m])
  BY DEF Legal, ListsLegal
<1>1. PICK b : b = TRUE
  OBVIOUS
<1>2. PICK u : u = IF d = s.shown[m] THEN s ELSE TransferStay(s, b, m, d, {n}, m, s.shown[m])
  OBVIOUS
<1>3. Minds(s, u) /\ Legal(u)
  <2>1. CASE d = s.shown[m]
    BY <1>2, <2>1, MindsSelf
  <2>2. CASE d # s.shown[m]
    <3>1. Transfer(s, m, d, {n}, m, s.shown[m])
      BY <1>0 DEF Transfer
    <3>2. u = TransferStay(s, b, m, d, {n}, m, s.shown[m])
      BY <1>2, <2>2
    <3> QED BY <3>1, <3>2, TransferStayMinds, TransferStayStays DEF Stays
  <2> QED BY <2>1, <2>2
<1>4. PICK S : S = IF value THEN u.sticky \union {n} ELSE u.sticky \ {n}
  OBVIOUS
<1>5. PICK v : v = [u EXCEPT !.sticky = S]
  OBVIOUS
<1>6. PICK k : k = IF value THEN 1 ELSE Word - 1
  OBVIOUS
<1>7. t = s \/ t = Count(v, m, k)
  BY <1>1, <1>2, <1>4, <1>5, <1>6 DEF SetSticky
<1>8. CASE t = s
  BY <1>8, MindsSelf
<1>9. CASE t = Count(v, m, k)
  <2>1. t = [u EXCEPT !.sticky = S, !.count = [v.count EXCEPT ![m] = (@ + Word + k) % Word]]
    BY <1>5, <1>9 DEF Count
  <2>2. Alike(u, t)
    BY <1>3, <2>1 DEF Legal, Records, Alike
  <2> QED BY <1>3, <2>2, AlikeMinds, MindsOn
<1> QED BY <1>7, <1>8, <1>9

(* set_sticky() moves no window when the flag is what it is to be, nor one *)
(* of the desktop that the monitor shows.                                  *)
LEMMA SetStickyInPlace ==
  ASSUME NEW s, Legal(s), NEW m, NEW d, NEW n, NEW value \in BOOLEAN,
         d = s.shown[m] \/ (n \in s.sticky) = value, NEW t, t = SetSticky(s, m, d, n, value)
  PROVE  t.home = s.home
<1>1. CASE (n \in s.sticky) = value
  BY <1>1 DEF SetSticky
<1>2. CASE ~((n \in s.sticky) = value) /\ d = s.shown[m]
  <2>1. PICK S : S = IF value THEN s.sticky \union {n} ELSE s.sticky \ {n}
    OBVIOUS
  <2>2. PICK v : v = [s EXCEPT !.sticky = S]
    OBVIOUS
  <2>3. PICK k : k = IF value THEN 1 ELSE Word - 1
    OBVIOUS
  <2>4. t = Count(v, m, k)
    BY <1>2, <2>1, <2>2, <2>3 DEF SetSticky
  <2>5. t = [s EXCEPT !.sticky = S, !.count = [v.count EXCEPT ![m] = (@ + Word + k) % Word]]
    BY <2>2, <2>4 DEF Count
  <2> QED BY <2>5 DEF Legal, Records
<1> QED BY <1>1, <1>2

(* Each fits in the place of the other.                                    *)
LEMMA TradedMinds ==
  ASSUME NEW s, Legal(s), NEW d1 \in Desk, NEW d2 \in Desk, d1 # d2,
         NEW n1 \in NodesOf(s, d1), NEW n2 \in NodesOf(s, d2), NEW u, Traded(s, u, d1, n1, d2, n2)
  PROVE  Minds(s, u) /\ u.home[n1] = d2 /\ u.home[n2] = d1
<1>0. /\ s.home \in [Node -> Desk \union {None}] /\ s.focus \in [Desk -> Node \union {None}]
      /\ n1 \in Node /\ n2 \in Node /\ n1 # n2 /\ s.home[n1] = d1 /\ s.home[n2] = d2
      /\ None \notin Desk /\ None \notin Node
  BY Things DEF Legal, Records, NodesOf, Desk
<1>1. \A n \in Node : u.home[n] = IF n = n1 THEN d2 ELSE IF n = n2 THEN d1 ELSE s.home[n]
  BY <1>0 DEF Traded
<1>2. \A d \in Desk : u.focus[d] = IF d = d1 /\ s.focus[d] = n1 THEN n2
                                   ELSE IF d = d2 /\ s.focus[d] = n2 THEN n1 ELSE s.focus[d]
  BY <1>0 DEF Traded
<1>3. InTrees(u) = InTrees(s) /\ u.recent = s.recent /\ u.mislaid = s.mislaid
  BY <1>0, <1>1 DEF InTrees, Traded
<1>4. ASSUME Wary(s), NEW d \in Desk, u.focus[d] # None  PROVE u.home[u.focus[d]] = d
  <2>1. s.focus[d] \in Node /\ s.home[s.focus[d]] = d
    BY <1>0, <1>2, <1>4 DEF Wary
  <2>2. CASE d = d1
    BY <1>0, <1>1, <1>2, <2>1, <2>2
  <2>3. CASE d = d2
    BY <1>0, <1>1, <1>2, <2>1, <2>3
  <2>4. CASE d \notin {d1, d2}
    BY <1>0, <1>1, <1>2, <2>1, <2>4
  <2> QED BY <2>2, <2>3, <2>4
<1>5. ASSUME NEW d \in Blurred(u)  PROVE d \in Blurred(s)
  <2>1. d \in Desk /\ u.focus[d] = None
    BY DEF Blurred
  <2>2. PICK n \in Node : u.home[n] = d
    BY DEF Blurred, NodesOf
  <2>3. s.focus[d] = None
    BY <1>0, <1>2, <2>1
  <2>4. \E x \in Node : s.home[x] = d
    BY <1>0, <1>1, <2>2
  <2> QED BY <2>1, <2>3, <2>4 DEF Blurred, NodesOf
<1> QED BY <1>0, <1>1, <1>3, <1>4, <1>5 DEF Minds, Heeds, Wary

(* swap_nodes(), of windows of two desktops: only one of them can be       *)
(* focused, so the window that is to be the focus is still where it went.  *)
LEMMA SwapNodesMinds ==
  ASSUME NEW s, Legal(s), NEW m1 \in Monitor, NEW d1 \in Range(s.desks[m1]),
         NEW n1 \in NodesOf(s, d1), NEW m2 \in Monitor, NEW d2 \in Range(s.desks[m2]),
         NEW n2 \in NodesOf(s, d2), d1 # d2, NEW follow,
         NEW t, t = SwapNodes(s, m1, d1, n1, m2, d2, n2, follow)
  PROVE  Minds(s, t)
<1>0. /\ d1 \in Desk /\ d2 \in Desk /\ n1 \in Node /\ n2 \in Node
      /\ m1 \in s.monitors /\ m2 \in s.monitors
  BY ListedFacts, OwnerExists DEF NodesOf
<1> DEFINE swapped == Swapped(s, d1, n1, d2, n2)
           mapped == SwapMapped(swapped, s, m1, d1, n1, m2, d2, n2, follow)
           first == SwapFocus(mapped, s, m1, d1, n1, m2, d2, n2, follow)
           second == SwapFocus(first, s, m2, d2, n2, m1, d1, n1, follow)
<1>1. t \in {s, second}
  BY DEF SwapNodes, Swapped
<1>2. Stays(s, swapped) /\ Traded(s, swapped, d1, n1, d2, n2)
  BY <1>0, SwappedStays
<1> HIDE DEF swapped
<1>3. Minds(s, swapped) /\ swapped.home[n1] = d2 /\ swapped.home[n2] = d1
  BY <1>0, <1>2, TradedMinds
<1>4. Legal(swapped) /\ n1 \in InTrees(swapped) /\ n2 \in InTrees(swapped)
  BY <1>0, <1>2, <1>3, ListedFacts DEF Stays, InTrees
<1>5. Stays(swapped, mapped) /\ mapped.home = swapped.home /\ mapped.focus = swapped.focus
  <2>1. \/ mapped \in {swapped, Reveal(swapped, {n1}), Conceal(Reveal(swapped, {n1}), {n2})}
        \/ mapped \in {Reveal(swapped, {n2}), Reveal(Conceal(swapped, {n1}), {n2})}
    BY DEF SwapMapped
  <2>2. {n1} \in SUBSET InTrees(swapped) /\ {n2} \in SUBSET InTrees(swapped)
    BY <1>4
  <2> HIDE DEF mapped
  <2> QED BY <1>4, <2>1, <2>2, RevealConcealStays
<1> HIDE DEF mapped
<1>6. Minds(s, mapped)
  BY <1>3, <1>5, AlikeMinds, MindsOn DEF Alike, Stays, SamePlaces, SameLists
<1>7. /\ Legal(mapped) /\ d1 \in Range(mapped.desks[m1]) /\ d2 \in Range(mapped.desks[m2])
      /\ m1 \in mapped.monitors /\ m2 \in mapped.monitors
  BY <1>0, <1>2, <1>5 DEF Stays, SamePlaces, SameLists
<1>8. PICK k1 : k1 = mapped.focus[d1]
  OBVIOUS
<1>9. k1 \in Node \union {None} /\ Placed(mapped, k1, d1) /\ Placed(mapped, n1, d2)
  BY <1>0, <1>3, <1>5, <1>7, <1>8, FocusTyped, FocusPlaced DEF Placed
<1>10. /\ Minds(mapped, first) /\ Roams(mapped, first)
       /\ Current(s) = d2 => first.home = mapped.home
  <2>1. CASE s.focus[d1] # n1
    <3>1. first = mapped
      BY <2>1 DEF SwapFocus
    <3> QED BY <1>7, <3>1, MindsSelf, StaysSelf, StaysRoams
  <2>2. CASE s.focus[d1] = n1 /\ d1 = Current(s) /\ follow
    <3>1. first = FocusNode(mapped, m2, d2, n1)
      BY <2>2 DEF SwapFocus
    <3> HIDE DEF first
    <3> QED BY <1>0, <1>7, <1>9, <2>2, <3>1, FocusNodeMends, MendsMinds, FocusNodeRoams
  <2>3. CASE s.focus[d1] = n1 /\ d1 = Current(s) /\ ~follow
    <3>1. first = FocusNode(mapped, m1, d1, k1)
      BY <1>8, <2>3 DEF SwapFocus
    <3> HIDE DEF first
    <3> QED BY <1>0, <1>7, <1>9, <2>3, <3>1, FocusNodeMends, MendsMinds, FocusNodeRoams
  <2>4. CASE s.focus[d1] = n1 /\ d1 # Current(s)
    <3>1. first = ActivateNode(mapped, d1, k1)
      BY <1>8, <2>4 DEF SwapFocus
    <3> HIDE DEF first
    <3> QED BY <1>0, <1>7, <1>9, <3>1, ActivateNodeMinds, ActivateNodeRoams, ActivateNodeStays
  <2> QED BY <2>1, <2>2, <2>3, <2>4
<1> HIDE DEF first
<1>11. /\ Legal(first) /\ d1 \in Range(first.desks[m1]) /\ d2 \in Range(first.desks[m2])
       /\ m1 \in first.monitors /\ m2 \in first.monitors
  BY <1>7, <1>10 DEF Roams, Ranges, SameLists
<1>12. PICK k2 : k2 = first.focus[d2]
  OBVIOUS
<1>13. /\ k2 \in Node \union {None} /\ Placed(first, k2, d2)
       /\ Current(s) = d2 => Placed(first, n2, d1)
  BY <1>0, <1>3, <1>5, <1>10, <1>11, <1>12, FocusTyped, FocusPlaced DEF Placed
<1>14. Minds(first, second)
  <2>1. CASE s.focus[d2] # n2
    <3>1. second = first
      BY <2>1 DEF SwapFocus
    <3> QED BY <3>1, MindsSelf
  <2>2. CASE s.focus[d2] = n2 /\ d2 = Current(s) /\ follow
    <3>1. second = FocusNode(first, m1, d1, n2)
      BY <2>2 DEF SwapFocus
    <3> HIDE DEF second
    <3> QED BY <1>0, <1>11, <1>13, <2>2, <3>1, FocusNodeMends, MendsMinds
  <2>3. CASE s.focus[d2] = n2 /\ d2 = Current(s) /\ ~follow
    <3>1. second = FocusNode(first, m2, d2, k2)
      BY <1>12, <2>3 DEF SwapFocus
    <3> HIDE DEF second
    <3> QED BY <1>0, <1>11, <1>13, <3>1, FocusNodeMends, MendsMinds
  <2>4. CASE s.focus[d2] = n2 /\ d2 # Current(s)
    <3>1. second = ActivateNode(first, d2, k2)
      BY SMTT(60), <1>12, <2>4 DEF SwapFocus
    <3> HIDE DEF second
    <3> QED BY <1>0, <1>11, <1>13, <3>1, ActivateNodeMinds
  <2> QED BY <2>1, <2>2, <2>3, <2>4
<1> HIDE DEF second
<1> QED BY <1>1, <1>6, <1>10, <1>14, MindsSelf, MindsOn

-----------------------------------------------------------------------------
IsListOf(r, R, S) == r \in Seq(R) /\ IsInjective(r) /\ Range(r) = S

(* A list without one of its elements, and with one more.                  *)
LEMMA RemovedFromList ==
  ASSUME NEW R, NEW q \in Seq(R), IsInjective(q), NEW d \in Range(q),
         NEW r, r = RemoveAt(q, CHOOSE i \in 1..Len(q) : q[i] = d)
  PROVE  r \in Seq(R) /\ IsInjective(r) /\ Range(r) = Range(q) \ {d}
<1> DEFINE k == CHOOSE i \in 1..Len(q) : q[i] = d
<1>0. /\ Len(q) \in Nat /\ DOMAIN q = 1..Len(q)
      /\ \A i, j \in 1..Len(q) : q[i] = q[j] => i = j
  BY LenProperties DEF IsInjective
<1>1. k \in 1..Len(q) /\ q[k] = d
  <2>1. \E i \in 1..Len(q) : q[i] = d
    BY <1>0 DEF Range
  <2> QED BY <2>1
<1> HIDE DEF k
<1>2. /\ r \in Seq(R) /\ Len(r) = Len(q) - 1
      /\ \A i \in 1..(Len(q) - 1) : r[i] = IF i < k THEN q[i] ELSE q[i + 1]
  <2>1. r = RemoveAt(q, k)
    BY DEF k
  <2> QED BY ZenonT(60), <1>1, <2>1, RemoveAtFacts
<1>3. DOMAIN r = 1..(Len(q) - 1)
  BY <1>2, LenProperties
<1>4. IsInjective(r)
  <2>1. SUFFICES ASSUME NEW i \in 1..(Len(q) - 1), NEW j \in 1..(Len(q) - 1), r[i] = r[j]
                 PROVE i = j
    BY <1>3 DEF IsInjective
  <2>2. /\ i \in 1..Len(q) /\ i + 1 \in 1..Len(q) /\ j \in 1..Len(q) /\ j + 1 \in 1..Len(q)
        /\ k \in 1..Len(q)
    BY <1>0, <1>1
  <2> DEFINE a == IF i < k THEN i ELSE i + 1
             b == IF j < k THEN j ELSE j + 1
  <2>3. a \in 1..Len(q) /\ b \in 1..Len(q) /\ q[a] = q[b]
    BY <1>2, <2>1, <2>2
  <2>4. a = b
    <3> HIDE DEF a, b
    <3> QED BY <1>0, <2>3
  <2> QED BY <1>0, <2>2, <2>4
<1>5. Range(r) = {r[i] : i \in 1..(Len(q) - 1)} /\ Range(q) = {q[i] : i \in 1..Len(q)}
  BY <1>0, <1>3 DEF Range
<1>6. ASSUME NEW i \in 1..(Len(q) - 1)  PROVE r[i] \in Range(q) \ {d}
  <2>1. i \in 1..Len(q) /\ i + 1 \in 1..Len(q)
    BY <1>0
  <2> DEFINE a == IF i < k THEN i ELSE i + 1
  <2>2. a \in 1..Len(q) /\ a # k /\ r[i] = q[a]
    <3>1. k \in Nat /\ i \in Nat
      BY <1>0, <1>1
    <3>2. a \in 1..Len(q)
      BY <2>1
    <3>3. a # k
      BY <3>1
    <3>4. r[i] = IF i < k THEN q[i] ELSE q[i + 1]
      BY <1>2
    <3> QED BY <3>2, <3>3, <3>4
  <2> HIDE DEF a
  <2>3. q[a] # q[k]
    BY <1>0, <1>1, <2>2
  <2> QED BY <1>1, <1>5, <2>2, <2>3
<1>7. ASSUME NEW i \in 1..Len(q), q[i] # d  PROVE q[i] \in Range(r)
  <2>1. i # k
    BY SMTT(60), <1>1, <1>7
  <2>2. CASE i < k
    <3>1. i \in 1..(Len(q) - 1)
      BY SMTT(60), <1>0, <1>1, <2>2
    <3> QED BY <1>2, <1>5, <2>2, <3>1
  <2>3. CASE i > k
    <3>1. i - 1 \in 1..(Len(q) - 1) /\ ~(i - 1 < k) /\ (i - 1) + 1 = i
      BY <1>0, <1>1, <2>3
    <3> QED BY <1>2, <1>5, <3>1
  <2> QED BY <1>1, <2>1, <2>2, <2>3
<1>8. Range(r) \subseteq Range(q) \ {d}
  BY <1>5, <1>6
<1>9. Range(q) \ {d} \subseteq Range(r)
  BY <1>5, <1>7
<1> QED BY <1>2, <1>4, <1>8, <1>9

(* A list with a desktop appended that it did not hold.                    *)
LEMMA AppendedToList ==
  ASSUME NEW R, NEW q \in Seq(R), IsInjective(q), NEW d \in R, d \notin Range(q),
         NEW r, r = Append(q, d)
  PROVE  IsListOf(r, R, Range(q) \union {d})
<1>0. /\ Len(q) \in Nat /\ DOMAIN q = 1..Len(q)
      /\ \A i, j \in 1..Len(q) : q[i] = q[j] => i = j
      /\ \A i \in 1..Len(q) : q[i] # d
  BY LenProperties DEF IsInjective, Range
<1>1. r \in Seq(R) /\ Len(r) = Len(q) + 1 /\ DOMAIN r = 1..(Len(q) + 1)
      /\ r[Len(q) + 1] = d /\ \A i \in 1..Len(q) : r[i] = q[i]
  BY AppendProperties, LenProperties
<1>2. \A i \in 1..(Len(q) + 1) : i \in 1..Len(q) \/ i = Len(q) + 1
  BY <1>0
<1>3. IsInjective(r)
  BY <1>0, <1>1, <1>2 DEF IsInjective
<1>4. Range(r) = {r[i] : i \in 1..(Len(q) + 1)} /\ Range(q) = {q[i] : i \in 1..Len(q)}
  BY <1>0, <1>1 DEF Range
<1>5. \A i \in 1..Len(q) : i \in 1..(Len(q) + 1) 
  BY <1>0
<1>6. Len(q) + 1 \in 1..(Len(q) + 1)
  BY <1>0
<1>7. Range(r) = Range(q) \union {d}
  BY <1>1, <1>2, <1>4, <1>5, <1>6
<1> QED BY <1>1, <1>3, <1>7 DEF IsListOf

(* What the functions on lists leave as it is.                             *)
SameWindows(s, t) ==
  /\ t.home = s.home /\ t.sticky = s.sticky /\ t.visible = s.visible
  /\ t.focus = s.focus /\ t.count = s.count /\ t.mislaid = s.mislaid

(* The list of m is changed, and what m shows.                             *)
Relists(s, t, m, S, d) ==
  /\ t \in Records /\ ListsLegal(t) /\ SameWindows(s, t)
  /\ t.monitors = s.monitors /\ t.last = s.last /\ t.recent = s.recent /\ t.mon = s.mon
  /\ \A x \in Monitor \ {m} : t.desks[x] = s.desks[x] /\ t.shown[x] = s.shown[x]
  /\ Range(t.desks[m]) = S /\ t.shown[m] = d

Relisted(s, m, q, d) == [s EXCEPT !.desks[m] = q, !.shown[m] = d]

(* A new list for a monitor, disjoint from the others, is legal.           *)
LEMMA RelistedFacts ==
  ASSUME NEW s \in Records, ListsLegal(s), NEW m \in s.monitors, NEW q \in Seq(Desk),
         IsInjective(q), \A x \in Monitor \ {m} : Range(q) \intersect Range(s.desks[x]) = {},
         NEW d \in Range(q) \union {None}, NEW t, t = Relisted(s, m, q, d)
  PROVE  Relists(s, t, m, Range(q), d)
<1>0. m \in Monitor /\ s.desks \in [Monitor -> Seq(Desk)] /\ s.shown \in [Monitor -> Desk \union {None}]
      /\ Range(q) \subseteq Desk
  BY LenProperties, ElementOfSeq DEF Records, Range
<1>1. PICK D : D = [s.desks EXCEPT ![m] = q]
  OBVIOUS
<1>2. PICK K : K = [s.shown EXCEPT ![m] = d]
  OBVIOUS
<1>3. D \in [Monitor -> Seq(Desk)] /\ D[m] = q /\ \A x \in Monitor \ {m} : D[x] = s.desks[x]
  BY <1>0, <1>1
<1>4. K \in [Monitor -> Desk \union {None}] /\ K[m] = d /\ \A x \in Monitor \ {m} : K[x] = s.shown[x]
  BY <1>0, <1>2
<1>5. t = [s EXCEPT !.desks = D, !.shown = K]
  BY <1>1, <1>2 DEF Relisted
<1>6. t \in Records
  BY <1>3, <1>4, <1>5, ZenonT(60) DEF Records
<1>7. /\ SameWindows(s, t) /\ t.desks = D /\ t.shown = K
      /\ t.monitors = s.monitors /\ t.last = s.last /\ t.recent = s.recent /\ t.mon = s.mon
  BY <1>5 DEF Records, SameWindows
<1>8. ListsLegal(t)
  <2>1. \A x \in Monitor : IsInjective(D[x])
    BY <1>3 DEF ListsLegal
  <2>2. \A x, y \in Monitor : x # y => Range(D[x]) \intersect Range(D[y]) = {}
    BY <1>3 DEF ListsLegal
  <2>3. \A x \in Monitor : x \notin s.monitors => D[x] = <<>>
    BY <1>3 DEF ListsLegal
  <2>4. \A x \in Monitor : K[x] \in Range(D[x]) \union {None}
    BY <1>3, <1>4 DEF ListsLegal
  <2> QED BY <1>7, <2>1, <2>2, <2>3, <2>4 DEF ListsLegal
<1> QED BY <1>3, <1>4, <1>6, <1>7, <1>8 DEF Relists

(* unlink_desktop() drops the desktop from the list, and from the screen.  *)
LEMMA UnlinkRelists ==
  ASSUME NEW s \in Records, ListsLegal(s), NEW m \in Monitor, NEW d \in Range(s.desks[m]),
         NEW t, t = UnlinkDesktop(s, m, d)
  PROVE  Relists(s, t, m, Range(s.desks[m]) \ {d}, IF s.shown[m] = d THEN None ELSE s.shown[m])
<1>0. m \in s.monitors /\ s.desks[m] \in Seq(Desk) /\ IsInjective(s.desks[m])
  <2>1. Range(<<>>) = {}
    BY DEF Range
  <2> QED BY <2>1 DEF ListsLegal, Records
<1>1. PICK q : q = RemoveAt(s.desks[m], CHOOSE i \in 1..Len(s.desks[m]) : s.desks[m][i] = d)
  OBVIOUS
<1>2. PICK e : e = IF s.shown[m] = d THEN None ELSE s.shown[m]
  OBVIOUS
<1>3. q \in Seq(Desk) /\ IsInjective(q) /\ Range(q) = Range(s.desks[m]) \ {d}
  BY <1>0, <1>1, RemovedFromList, SMTT(60)
<1>4. e \in Range(q) \union {None}
  BY <1>2, <1>3 DEF ListsLegal
<1>5. t = Relisted(s, m, q, e)
  BY <1>1, <1>2 DEF UnlinkDesktop, Relisted
<1>6. \A x \in Monitor \ {m} : Range(q) \intersect Range(s.desks[x]) = {}
  BY <1>3 DEF ListsLegal
<1>7. Relists(s, t, m, Range(q), e)
  BY <1>0, <1>3, <1>4, <1>5, <1>6, RelistedFacts
<1> QED BY <1>2, <1>3, <1>7

(* insert_desktop() adds it, and shows it where nothing was shown.         *)
LEMMA InsertRelists ==
  ASSUME NEW s \in Records, ListsLegal(s), NEW m \in s.monitors, NEW d \in Desk, d \notin InLists(s),
         NEW t, t = InsertDesktop(s, m, d)
  PROVE  Relists(s, t, m, Range(s.desks[m]) \union {d}, IF s.shown[m] = None THEN d ELSE s.shown[m])
<1>0. m \in Monitor /\ s.desks[m] \in Seq(Desk) /\ IsInjective(s.desks[m])
      /\ \A x \in Monitor : d \notin Range(s.desks[x])
  BY DEF ListsLegal, Records, InLists
<1>1. PICK q : q = Append(s.desks[m], d)
  OBVIOUS
<1>2. PICK e : e = IF s.shown[m] = None THEN d ELSE s.shown[m]
  OBVIOUS
<1>3. q \in Seq(Desk) /\ IsInjective(q) /\ Range(q) = Range(s.desks[m]) \union {d}
  <2>1. PICK p : p = s.desks[m]
    OBVIOUS
  <2>2. p \in Seq(Desk) /\ IsInjective(p) /\ d \notin Range(p) /\ q = Append(p, d)
    BY <1>0, <1>1, <2>1
  <2>3. IsListOf(q, Desk, Range(p) \union {d})
    BY <2>2, AppendedToList
  <2> QED BY <2>1, <2>3 DEF IsListOf
<1>4. e \in Range(q) \union {None}
  BY <1>0, <1>2, <1>3 DEF ListsLegal
<1>5. t = Relisted(s, m, q, e)
  BY <1>1, <1>2 DEF InsertDesktop, Relisted, Or
<1>6. \A x \in Monitor \ {m} : Range(q) \intersect Range(s.desks[x]) = {}
  BY <1>0, <1>3 DEF ListsLegal
<1>7. Relists(s, t, m, Range(q), e)
  BY <1>0, <1>3, <1>4, <1>5, <1>6, RelistedFacts
<1> QED BY <1>2, <1>3, <1>7

-----------------------------------------------------------------------------
(* A function that may change what m shows, and no more of the lists.      *)
Tends(s, t, m) ==
  /\ Roams(s, t) /\ t.mon = s.mon
  /\ \A x \in Monitor \ {m} : t.shown[x] = s.shown[x]

(* A step that changes no list leaves the monitors alone.                  *)
LEMMA StaysTends ==
  ASSUME NEW s, NEW t, NEW m, Stays(s, t)
  PROVE  Tends(s, t, m)
BY StaysRoams DEF Tends, Stays, SamePlaces

(* Such steps compose.                                                     *)
LEMMA TendsOn ==
  ASSUME NEW s, Legal(s), NEW t, NEW u, NEW m, Tends(s, t, m), Tends(t, u, m)
  PROVE  Tends(s, u, m)
<1>1. Roams(s, u)
  BY RoamsOn DEF Tends
<1> QED BY <1>1 DEF Tends

(* A monitor that shows another of its desktops is such a step.            *)
LEMMA ShowsTends ==
  ASSUME NEW s, Legal(s), NEW t, NEW m \in s.monitors, NEW d \in Range(s.desks[m]),
         Shows(s, t, m, d), t.mon = s.mon
  PROVE  Tends(s, t, m) /\ t.shown[m] = d
<1>1. Roams(s, t)
  BY ShowsRoams
<1>2. m \in Monitor /\ s.shown \in [Monitor -> Desk \union {None}]
  BY DEF Legal, Records
<1> QED BY <1>1, <1>2 DEF Tends, Shows

(* activate_desktop()                                                      *)
LEMMA ActivateDesktopShows ==
  ASSUME NEW s, Legal(s), NEW m \in s.monitors, NEW d0 \in Range(s.desks[m]) \union {None},
         NEW d, d = Or(d0, GuessDesktop(s, m)), d # None,
         NEW t, t = ActivateDesktop(s, m, d0)
  PROVE  /\ Tends(s, t, m) /\ t.shown[m] = d /\ d \in Range(s.desks[m])
         /\ s.shown[m] = None => t.home = s.home
         /\ Minds(s, t)
<1>1. d \in Range(s.desks[m])
  <2>1. m \in Monitor
    BY DEF Legal, Records
  <2> QED BY <2>1, GuessDesktopFacts DEF Or
<1>2. PICK u : u = Carry(s, m, d)
  OBVIOUS
<1>3. Stays(s, u) /\ (s.shown[m] = None => u.home = s.home) /\ Minds(s, u)
  BY <1>1, <1>2, CarryStays, CarryMinds
<1>4. m \in u.monitors /\ d \in Range(u.desks[m]) /\ Legal(u) /\ u.mon = s.mon
  BY <1>1, <1>3 DEF Stays, SamePlaces, SameLists
<1>5. t = Switch(u, m, d)
  BY <1>2 DEF ActivateDesktop
<1>6. Shows(u, t, m, d) /\ t.mon = u.mon /\ t.home = u.home /\ t.focus = u.focus
  BY <1>4, <1>5, SwitchShows
<1>7. Shows(s, t, m, d)
  BY <1>3, <1>6, StaysShows
<1>8. Minds(u, t)
  BY <1>6, AlikeMinds DEF Alike, Shows, SameLists
<1> QED BY <1>1, <1>3, <1>4, <1>6, <1>7, <1>8, ShowsTends, MindsOn

(* activate_desktop() of a monitor: it shows something if it did, or if    *)
(* the history knows a desktop of its list.                                *)
LEMMA ActivateIfCanTends ==
  ASSUME NEW s, Legal(s), NEW m \in s.monitors, NEW d0 \in Range(s.desks[m]) \union {None},
         NEW t, t = ActivateIfCan(s, m, d0)
  PROVE  /\ Tends(s, t, m)
         /\ s.shown[m] # None => t.shown[m] # None
         /\ d0 = None /\ GuessDesktop(s, m) # None => t.shown[m] # None
         /\ d0 = None => t.home = s.home
         /\ Minds(s, t)
<1> DEFINE d == Or(d0, GuessDesktop(s, m))
           u == ActivateDesktop(s, m, d0)
<1>0. m \in Monitor
  BY DEF Legal, Records
<1>1. CASE Activates(s, m, d0)
  <2>1. d # None
    BY <1>1 DEF Activates
  <2>2. /\ Tends(s, u, m) /\ u.shown[m] = d /\ d \in Range(s.desks[m])
        /\ s.shown[m] = None => u.home = s.home
        /\ Minds(s, u)
    BY <2>1, ActivateDesktopShows
  <2>3. t = ActivateNode(u, u.shown[m], None)
    BY <1>1 DEF ActivateIfCan
  <2>8. d0 = None => s.shown[m] = None
    BY <1>1 DEF Activates, Or, GuessDesktop
  <2> HIDE DEF u, d
  <2>4. d \in Desk /\ Legal(u)
    BY <1>0, <2>2, ListedFacts DEF Tends, Roams, Ranges
  <2>5. Stays(u, t) /\ t.home = u.home /\ Minds(u, t)
    <3>1. Placed(u, None, d)
      BY DEF Placed
    <3> QED BY <2>2, <2>3, <2>4, <3>1, ActivateNodeStays, ActivateNodeMinds
  <2>6. Tends(s, t, m)
    BY <2>2, <2>5, StaysTends, TendsOn
  <2>7. t.shown[m] = d
    BY <2>2, <2>5 DEF Stays, SamePlaces
  <2> QED BY <2>1, <2>2, <2>5, <2>6, <2>7, <2>8, MindsOn
<1>2. CASE ~Activates(s, m, d0)
  <2>1. t = s
    BY <1>2 DEF ActivateIfCan
  <2>2. d0 = None /\ GuessDesktop(s, m) # None => s.shown[m] # None
    BY <1>2 DEF Activates, Or
  <2> QED BY <2>1, <2>2, StaysSelf, StaysTends, MindsSelf
<1> QED BY <1>1, <1>2

(* The end of remove_desktop().                                            *)
LEMMA ShowAnotherTends ==
  ASSUME NEW s, Legal(s), NEW m \in s.monitors, NEW t, t = ShowAnother(s, m)
  PROVE  /\ Tends(s, t, m) /\ t.home = s.home /\ Minds(s, t)
         /\ s.mon # None /\ GuessDesktop(s, m) # None => t.shown[m] # None
<1>0. m \in Monitor
  BY DEF Legal, Records
<1>1. CASE s.mon = None \/ s.shown[m] # None
  <2>0. ~(s.mon = m /\ s.shown[m] = None)
    BY <1>0, <1>1, Things
  <2>1. t = s
    BY <1>1, <2>0 DEF ShowAnother
  <2> QED BY <1>1, <2>1, StaysSelf, StaysTends, MindsSelf
<1>2. CASE s.mon = m /\ s.shown[m] = None
  <2>0. s.mon # None
    BY <1>0, <1>2, Things
  <2>1. t = FocusNode(s, m, None, None)
    BY <1>2, <2>0 DEF ShowAnother
  <2>2. CASE GuessDesktop(s, m) = None
    <3>1. t = s
      BY <2>1, <2>2, FocusNodeOn
    <3> QED BY <2>2, <3>1, StaysSelf, StaysTends, MindsSelf
  <2>3. CASE GuessDesktop(s, m) # None
    <3>1. PICK d : d = GuessDesktop(s, m)
      OBVIOUS
    <3>2. d \in Range(s.desks[m]) /\ d # None
      BY <1>0, <2>3, <3>1, GuessDesktopFacts
    <3>3. Lands(s, t, m, d) /\ t.home = s.home
      BY <2>1, <2>3, <3>1, FocusNodeOn
    <3>4. Tends(s, t, m) /\ t.shown[m] = d
      BY <1>2, <3>2, <3>3, ShowsTends DEF Lands
    <3>5. Minds(s, t)
      BY <2>1, FocusNodeMinds
    <3> QED BY <3>2, <3>3, <3>4, <3>5
  <2> QED BY <2>2, <2>3
<1>3. CASE s.mon # None /\ s.mon # m /\ s.shown[m] = None
  <2> DEFINE u == IF Activates(s, m, None) THEN ActivateDesktop(s, m, None) ELSE s
             v == IF u.shown[m] = None THEN u ELSE ActivateNode(u, u.shown[m], u.focus[u.shown[m]])
  <2>1. t = v
    BY <1>3 DEF ShowAnother
  <2>2. /\ Tends(s, u, m) /\ u.home = s.home /\ Minds(s, u)
        /\ GuessDesktop(s, m) # None => u.shown[m] # None
    <3>1. CASE Activates(s, m, None)
      <4>1. PICK d : d = Or(None, GuessDesktop(s, m))
        OBVIOUS
      <4>2. d # None
        BY <3>1, <4>1 DEF Activates
      <4>3. u = ActivateDesktop(s, m, None)
        BY <3>1
      <4> HIDE DEF u
      <4>4. Tends(s, u, m) /\ u.shown[m] = d /\ u.home = s.home /\ Minds(s, u)
        BY <1>3, <4>1, <4>2, <4>3, ActivateDesktopShows
      <4> QED BY <4>2, <4>4
    <3>2. CASE ~Activates(s, m, None)
      <4>1. GuessDesktop(s, m) = None
        BY <1>3, <3>2 DEF Activates, Or
      <4> QED BY <3>2, <4>1, StaysSelf, StaysTends, MindsSelf
    <3> QED BY <3>1, <3>2
  <2> HIDE DEF u
  <2>3. Stays(u, v) /\ v.home = u.home /\ Minds(u, v)
    <3>1. Legal(u)
      BY <2>2 DEF Tends, Roams, Ranges
    <3>2. CASE u.shown[m] = None
      BY <3>1, <3>2, StaysSelf, MindsSelf
    <3>3. CASE u.shown[m] # None
      <4>1. u.shown[m] \in Desk /\ u.focus \in [Desk -> Node \union {None}]
        BY <1>0, <3>1, <3>3 DEF Legal, Records
      <4>2. PICK d : d = u.shown[m]
        OBVIOUS
      <4>3. PICK n : n = u.focus[d]
        OBVIOUS
      <4>4. v = ActivateNode(u, d, n) /\ n \in Node \union {None} /\ d \in Desk
        BY <3>3, <4>1, <4>2, <4>3
      <4>5. Placed(u, n, d)
        BY <4>3, <4>4, FocusPlaced
      <4> HIDE DEF v
      <4> QED BY <3>1, <4>4, <4>5, ActivateNodeStays, ActivateNodeMinds
    <3> QED BY <3>2, <3>3
  <2> HIDE DEF v
  <2>4. Tends(s, v, m)
    BY <2>2, <2>3, StaysTends, TendsOn
  <2> QED BY <2>1, <2>2, <2>3, <2>4, MindsOn DEF Stays, SamePlaces
<1> QED BY <1>1, <1>2, <1>3

(* remove_desktop()                                                        *)
Drops(s, t, m, S) ==
  /\ Legal(t) /\ t.monitors = s.monitors /\ t.last = s.last /\ t.recent = s.recent
  /\ t.mon = s.mon
  /\ \A x \in Monitor \ {m} : t.desks[x] = s.desks[x] /\ t.shown[x] = s.shown[x]
  /\ Range(t.desks[m]) = S

(* remove_desktop() drops one desktop and its windows; the monitor shows   *)
(* another when the history knows its desktops.                            *)
LEMMA RemoveDesktopDrops ==
  ASSUME NEW s, Legal(s), NEW m \in Monitor, NEW d \in Range(s.desks[m]),
         NEW t, t = RemoveDesktop(s, m, d)
  PROVE  /\ Drops(s, t, m, Range(s.desks[m]) \ {d})
         /\ InTrees(t) = InTrees(s) \ NodesOf(s, d) /\ Minds(s, t)
         /\ \A n \in Node : t.home[n] = IF s.home[n] = d THEN None ELSE s.home[n]
         /\ /\ s.mon # None
            /\ Range(s.desks[m]) \ {d} # {}
            /\ Range(s.desks[m]) \subseteq Range(s.recent.desktops)
            => t.shown[m] # None
<1> DEFINE N == NodesOf(s, d)
           u == RemoveNode(s, m, d, N)
           v == UnlinkDesktop(u, m, d)
           S == Range(s.desks[m]) \ {d}
<1>0. m \in s.monitors
  BY OwnerExists
<1>1. t = ShowAnother(v, m)
  BY DEF RemoveDesktop
<1>2. /\ Ranges(s, u) /\ u.mon = s.mon /\ u.shown = s.shown /\ Minds(s, u)
      /\ \A n \in Node : u.home[n] = IF n \in N THEN None ELSE s.home[n]
  <2>1. PICK M : M = N
    OBVIOUS
  <2>2. M \in SUBSET NodesOf(s, d) /\ u = RemoveNode(s, m, d, M)
    BY <2>1
  <2> HIDE DEF u
  <2>3. /\ Ranges(s, u) /\ u.mon = s.mon /\ u.shown = s.shown
        /\ \A n \in Node : u.home[n] = IF n \in M THEN None ELSE s.home[n]
    BY <2>2, RemoveNodeRanges
  <2>4. Minds(s, u)
    BY <2>1, <2>2, RemoveNodeMinds
  <2> QED BY <2>1, <2>3, <2>4
<1> HIDE DEF u
<1>3. /\ u \in Records /\ ListsLegal(u) /\ TreesLegal(u) /\ d \in Range(u.desks[m])
      /\ SameLists(s, u)
  BY <1>2 DEF Ranges, SameLists, Legal
<1>4. PICK e : e = IF u.shown[m] = d THEN None ELSE u.shown[m]
  OBVIOUS
<1>5. Relists(u, v, m, S, e)
  <2>1. Relists(u, v, m, Range(u.desks[m]) \ {d}, IF u.shown[m] = d THEN None ELSE u.shown[m])
    BY <1>3, UnlinkRelists
  <2> QED BY <1>3, <1>4, <2>1 DEF SameLists
<1> HIDE DEF v
<1>6. InTrees(u) = InTrees(s) \ N
  BY <1>2 DEF InTrees
<1>7. \A n \in Node : u.home[n] # d
  <2>1. d # None
    BY ListedFacts
  <2> QED BY <1>2, <2>1 DEF NodesOf
<1>8. TreesLegal(v) /\ InTrees(v) = InTrees(u)
  <2>1. InLists(u) \ {d} \subseteq InLists(v)
    <3>1. ASSUME NEW x \in Monitor, NEW y \in Range(u.desks[x]), y # d
          PROVE  y \in Range(v.desks[x])
      BY <1>3, <1>5, <3>1 DEF Relists, SameLists
    <3> QED BY <3>1 DEF InLists
  <2>2. v.home = u.home /\ v.sticky = u.sticky /\ v.visible = u.visible
    BY <1>5 DEF Relists, SameWindows
  <2>3. InTrees(v) = InTrees(u)
    BY <2>2 DEF InTrees
  <2> QED BY <1>3, <1>7, <2>1, <2>2, <2>3 DEF TreesLegal
<1>9. Legal(v) /\ m \in v.monitors
  BY <1>0, <1>3, <1>5, <1>8 DEF Relists, Legal, SameLists
<1>10. /\ Tends(v, t, m) /\ t.home = v.home /\ Minds(v, t)
       /\ v.mon # None /\ GuessDesktop(v, m) # None => t.shown[m] # None
  BY <1>1, <1>9, ShowAnotherTends
<1>11. Drops(s, t, m, S)
  BY <1>2, <1>3, <1>5, <1>10 DEF Drops, Tends, Roams, Ranges, SameLists, Relists
<1>12. InTrees(t) = InTrees(s) \ NodesOf(s, d)
  BY <1>6, <1>8, <1>10 DEF Tends, Roams
<1>13. ASSUME s.mon # None, S # {}, Range(s.desks[m]) \subseteq Range(s.recent.desktops)
       PROVE  t.shown[m] # None
  <2>1. v.mon = s.mon /\ Range(v.desks[m]) = S /\ v.recent = s.recent
    BY <1>2, <1>3, <1>5 DEF Relists, SameLists
  <2>2. Range(v.recent.desktops) \intersect Range(v.desks[m]) # {}
    BY <1>13, <2>1
  <2> QED BY <1>9, <1>10, <1>13, <2>1, <2>2, GuessDesktopFacts
<1>14. \A n \in Node : t.home[n] = IF s.home[n] = d THEN None ELSE s.home[n]
  BY <1>2, <1>5, <1>10 DEF Relists, SameWindows, NodesOf
<1>15. Minds(s, t)
  <2>1. Minds(u, v)
    BY <1>5, AlikeMinds DEF Relists, SameWindows, Alike
  <2> QED BY <1>2, <1>10, <2>1, MindsOn
<1> QED BY <1>11, <1>12, <1>13, <1>14, <1>15
-----------------------------------------------------------------------------
(* A change of the counts and of what is hidden, when the lists and the    *)
(* trees do not go together.                                               *)
Quiet(s, t) ==
  /\ t \in Records /\ SamePlaces(s, t)
  /\ t.home = s.home /\ t.sticky = s.sticky /\ t.visible \subseteq s.visible
  /\ t.focus = s.focus

(* A step that touches no list keeps the lists legal.                      *)
LEMMA QuietLists ==
  ASSUME NEW s, ListsLegal(s), NEW t, Quiet(s, t)
  PROVE  ListsLegal(t)
BY DEF Quiet, ListsLegal, SamePlaces, SameLists

(* The counts are not in the lists.                                        *)
LEMMA CountQuiet ==
  ASSUME NEW s \in Records, NEW m \in Monitor, NEW k \in Int, NEW t, t = Count(s, m, k)
  PROVE  Quiet(s, t)
<1>1. PICK c : c = (s.count[m] + Word + k) % Word
  OBVIOUS
<1>2. s.count \in [Monitor -> 0..(Word - 1)]
  BY DEF Records
<1>3. c \in 0..(Word - 1)
  <2>1. s.count[m] + Word + k \in Int
    BY <1>2, PlacesAssumption
  <2> QED BY <1>1, <2>1, Modulo
<1>4. PICK K : K = [s.count EXCEPT ![m] = c]
  OBVIOUS
<1>5. K \in [Monitor -> 0..(Word - 1)]
  BY <1>2, <1>3, <1>4
<1>6. t = [s EXCEPT !.count = K]
  BY <1>1, <1>2, <1>4 DEF Count, Records
<1>7. t \in Records
  BY <1>5, <1>6, ZenonT(60) DEF Records
<1> QED BY <1>6, <1>7 DEF Quiet, Records, SamePlaces, SameLists

(* Nor are the windows mapped.                                             *)
LEMMA ConcealQuiet ==
  ASSUME NEW s \in Records, NEW S, NEW t \in {s, Conceal(s, S)}
  PROVE  Quiet(s, t)
<1>1. PICK V : V = s.visible \ S
  OBVIOUS
<1>2. s.visible \in SUBSET Node /\ V \in SUBSET Node
  BY <1>1 DEF Records
<1>3. CASE t = s
  BY <1>3 DEF Quiet, SamePlaces, SameLists
<1>4. CASE t = [s EXCEPT !.visible = V]
  <2>1. t \in Records
    BY <1>2, <1>4, ZenonT(60) DEF Records
  <2> QED BY <1>1, <1>4, <2>1 DEF Quiet, Records, SamePlaces, SameLists
<1> QED BY <1>1, <1>3, <1>4 DEF Conceal

(* What transfer_desktop() does to the lists: d goes from ms to md.        *)
Sends(s, t, ms, md, d) ==
  /\ Legal(t) /\ InTrees(t) = InTrees(s)
  /\ t.monitors = s.monitors /\ t.last = s.last /\ t.recent = s.recent
  /\ \A x \in Monitor \ {ms, md} : Range(t.desks[x]) = Range(s.desks[x])
  /\ Range(t.desks[ms]) = Range(s.desks[ms]) \ {d}
  /\ Range(t.desks[md]) = Range(s.desks[md]) \union {d}
  /\ \A x \in Monitor \ {ms} : s.shown[x] # None => t.shown[x] # None
  /\ t.shown[md] # None
  /\ t.mon = s.mon \/ (t.mon \in t.monitors /\ t.shown[t.mon] # None)

Posted(s, ms, md, d, a, b, S, hides) ==
  LET u == Count(UnlinkDesktop(s, ms, d), ms, a)
  IN Count(InsertDesktop(IF hides THEN Conceal(u, S) ELSE u, md, d), md, b)

(* The lists of transfer_desktop(): the desktop leaves one and joins the   *)
(* other.                                                                  *)
LEMMA SentFacts ==
  ASSUME NEW s, Legal(s), NEW ms \in s.monitors, NEW md \in s.monitors, ms # md,
         NEW d \in Range(s.desks[ms]), NEW a \in Int, NEW b \in Int, NEW S, NEW hides,
         NEW t, t = Posted(s, ms, md, d, a, b, S, hides)
  PROVE  /\ Sends(s, t, ms, md, d) /\ t.mon = s.mon /\ t.home = s.home /\ Minds(s, t)
         /\ s.shown[ms] # d => t.shown[ms] = s.shown[ms]
<1>0. /\ ms \in Monitor /\ md \in Monitor /\ d \in Desk /\ d # None
      /\ s \in Records /\ ListsLegal(s)
      /\ Range(s.desks[md]) \intersect Range(s.desks[ms]) = {}
  BY PlaceFacts DEF Legal, ListsLegal, Records
<1>1. PICK e : e = IF s.shown[ms] = d THEN None ELSE s.shown[ms]
  OBVIOUS
<1>2. PICK r : r = UnlinkDesktop(s, ms, d)
  OBVIOUS
<1> DEFINE u == Count(r, ms, a)
           v == IF hides THEN Conceal(u, S) ELSE u
<1>16. t = Count(InsertDesktop(v, md, d), md, b)
  BY <1>2 DEF Posted
<1>17. v \in {u, Conceal(u, S)}
  OBVIOUS
<1> HIDE DEF v
<1>3. Relists(s, r, ms, Range(s.desks[ms]) \ {d}, e)
  BY <1>0, <1>1, <1>2, UnlinkRelists
<1>4. Quiet(r, u) /\ ListsLegal(u)
  BY <1>0, <1>2, <1>3, CountQuiet, QuietLists DEF Relists
<1>5. Quiet(u, v) /\ ListsLegal(v)
  BY <1>4, <1>17, ConcealQuiet, QuietLists DEF Quiet
<1> HIDE DEF u
<1>6. /\ v \in Records /\ v.monitors = s.monitors /\ v.last = s.last /\ v.recent = s.recent
      /\ v.mon = s.mon /\ v.desks = r.desks /\ v.shown = r.shown
      /\ v.home = s.home /\ v.sticky = s.sticky /\ v.visible \subseteq s.visible
      /\ v.focus = s.focus /\ v.mislaid = s.mislaid
  BY <1>3, <1>4, <1>5 DEF Relists, SameWindows, Quiet, SamePlaces, SameLists
<1>7. PICK f : f = IF v.shown[md] = None THEN d ELSE v.shown[md]
  OBVIOUS
<1>8. PICK w : w = InsertDesktop(v, md, d)
  OBVIOUS
<1>9. Relists(v, w, md, Range(v.desks[md]) \union {d}, f)
  <2>1. d \notin InLists(v)
    <3>1. ASSUME NEW x \in Monitor  PROVE d \notin Range(v.desks[x])
      BY <1>0, <1>3, <1>6 DEF Relists, ListsLegal
    <3> QED BY <3>1 DEF InLists
  <2> QED BY <1>0, <1>5, <1>6, <1>7, <1>8, <2>1, InsertRelists
<1>10. Quiet(w, t) /\ ListsLegal(t)
  BY <1>0, <1>8, <1>9, <1>16, CountQuiet, QuietLists DEF Relists
<1>11. /\ t \in Records /\ t.monitors = s.monitors /\ t.last = s.last /\ t.recent = s.recent
       /\ t.mon = s.mon /\ t.desks = w.desks /\ t.shown = w.shown
       /\ t.home = s.home /\ t.sticky = s.sticky /\ t.visible \subseteq s.visible
       /\ t.focus = s.focus /\ t.mislaid = s.mislaid
  BY <1>6, <1>9, <1>10 DEF Relists, SameWindows, Quiet, SamePlaces, SameLists
<1>12. /\ \A x \in Monitor \ {ms, md} : Range(t.desks[x]) = Range(s.desks[x])
       /\ Range(t.desks[ms]) = Range(s.desks[ms]) \ {d}
       /\ Range(t.desks[md]) = Range(s.desks[md]) \union {d}
  BY <1>0, <1>3, <1>6, <1>9, <1>11 DEF Relists
<1>13. /\ \A x \in Monitor \ {ms, md} : t.shown[x] = s.shown[x]
       /\ t.shown[ms] = e /\ t.shown[md] = f /\ f # None
       /\ s.shown[md] # None => f = s.shown[md]
  BY <1>0, <1>3, <1>6, <1>7, <1>9, <1>11 DEF Relists
<1>14. InTrees(t) = InTrees(s)
  BY <1>11 DEF InTrees
<1>15. TreesLegal(t)
  <2>1. InLists(s) \subseteq InLists(t)
    <3>1. ASSUME NEW x \in Monitor, NEW y \in Range(s.desks[x])
          PROVE  y \in Range(t.desks[x]) \/ y \in Range(t.desks[md])
      BY <1>0, <1>12
    <3> QED BY <1>0, <3>1 DEF InLists
  <2> QED BY <1>11, <1>14, <2>1 DEF Legal, TreesLegal
<1>18. Minds(s, t)
  BY <1>11, AlikeMinds DEF Alike
<1> QED BY <1>0, <1>1, <1>10, <1>11, <1>12, <1>13, <1>14, <1>15, <1>18 DEF Sends, Legal
(* What follows in transfer_desktop() changes no list.                     *)
LEMMA SendsOn ==
  ASSUME NEW s, Legal(s), NEW ms \in s.monitors, NEW md \in s.monitors, NEW d,
         NEW t, Sends(s, t, ms, md, d), NEW u, Roams(t, u)
  PROVE  Sends(s, u, ms, md, d)
<1>1. /\ Legal(u) /\ u.monitors = t.monitors /\ u.desks = t.desks
      /\ u.last = t.last /\ u.recent = t.recent /\ InTrees(u) = InTrees(t)
  BY DEF Roams, Ranges, SameLists
<1>2. \A x \in Monitor : u.shown[x] = t.shown[x] \/ u.shown[x] # None
  <2>1. \A x \in Monitor : u.shown[x] = t.shown[x] \/ u.shown[x] \in Range(u.desks[x])
    BY <1>1 DEF Roams, Ranges
  <2> QED BY <1>1, <2>1, ListedFacts
<1>3. u.mon = t.mon \/ (u.mon \in u.monitors /\ u.shown[u.mon] # None)
  <2>1. CASE u.mon = t.mon
    BY <2>1
  <2>2. CASE u.mon \in t.monitors /\ u.shown[u.mon] \in Range(t.desks[u.mon])
    <3>1. u.mon \in Monitor
      BY <1>1, <2>2 DEF Legal, Records
    <3> QED BY <1>1, <2>2, <3>1, ListedFacts
  <2> QED BY <2>1, <2>2 DEF Roams, Ranges
<1>4. \A x \in u.monitors : x \in Monitor
  BY <1>1 DEF Legal, Records
<1>5. md \in Monitor
  BY DEF Legal, Records
<1>6. /\ \A x \in Monitor \ {ms} : s.shown[x] # None => u.shown[x] # None
      /\ u.shown[md] # None
  BY <1>2, <1>5 DEF Sends
<1>7. u.mon = s.mon \/ (u.mon \in u.monitors /\ u.shown[u.mon] # None)
  BY <1>1, <1>2, <1>3, <1>4 DEF Sends
<1> QED BY <1>1, <1>6, <1>7 DEF Sends

(* A window that has moved is then on one of the monitors ms and md.       *)
MovesIn(s, t, ms, md) ==
  \A n \in Node : t.home[n] = s.home[n] \/ t.home[n] \in Range(t.desks[ms]) \union Range(t.desks[md])

(* What transfer_desktop() notes: a variable of the model alone.           *)
Remarked(s, b1, b2) == [s EXCEPT !.strayed = b1, !.unseen = b2]

(* The two marks of transfer_desktop() change nothing else.                *)
LEMMA RemarkedStays ==
  ASSUME NEW s, Legal(s), NEW b1 \in BOOLEAN, NEW b2 \in BOOLEAN, NEW t, t = Remarked(s, b1, b2)
  PROVE  Stays(s, t) /\ t.home = s.home /\ t.focus = s.focus
<1>1. s \in Records
  BY DEF Legal
<1>2. t \in Records
  BY <1>1, ZenonT(60) DEF Records, Remarked
<1>3. /\ SamePlaces(s, t) /\ SameTrees(s, t) /\ t.home = s.home /\ t.visible = s.visible
      /\ t.focus = s.focus
  BY <1>1 DEF Records, Remarked, SamePlaces, SameLists, SameTrees, InTrees
<1>4. TreesLegal(t)
  BY <1>3 DEF Legal, TreesLegal, SamePlaces, SameLists, SameTrees, InTrees, InLists
<1> QED BY <1>2, <1>3, <1>4, SameIsLegal DEF Stays

(* The desktop that the old monitor then shows.                            *)
LEMMA LeftRoams ==
  ASSUME NEW s, Legal(s), NEW ms \in s.monitors, NEW md \in s.monitors, ms # md,
         NEW d \in Range(s.desks[md]), NEW u, u = ActivateIfCan(s, ms, None),
         NEW t \in {u, FocusNode(u, md, d, u.focus[d])}
  PROVE  /\ Roams(s, t)
         /\ GuessDesktop(s, ms) # None => t.shown[ms] # None
         /\ u.home = s.home
         /\ Minds(s, t)
<1>0. ms \in Monitor /\ md \in Monitor /\ d \in Desk
  BY PlaceFacts DEF Legal, Records
<1>1. /\ Tends(s, u, ms) /\ u.home = s.home /\ Minds(s, u)
      /\ GuessDesktop(s, ms) # None => u.shown[ms] # None
  BY ActivateIfCanTends
<1>2. Roams(s, u) /\ Legal(u) /\ md \in u.monitors /\ d \in Range(u.desks[md])
  BY <1>1 DEF Tends, Roams, Ranges, SameLists
<1>3. PICK n : n = u.focus[d]
  OBVIOUS
<1>5. CASE t = u
  BY <1>1, <1>2, <1>5
<1>6. CASE t = FocusNode(u, md, d, n)
  <2>1. n \in Node \union {None}
    BY <1>0, <1>2, <1>3, FocusTyped
  <2>2. Lands(u, t, md, d)
    BY <1>2, <1>6, <2>1, FocusNodeLands
  <2>3. Roams(u, t)
    BY <1>2, <2>2, LandsRoams
  <2>4. t.shown[ms] = u.shown[ms]
    BY <1>0, <1>2, <2>2, ShowsFacts DEF Lands
  <2>5. Minds(u, t)
    <3>1. Placed(u, n, d)
      BY <1>0, <1>3, FocusPlaced
    <3> QED BY <1>2, <1>6, <2>1, <3>1, FocusNodeMends, MendsMinds
  <2> QED BY <1>1, <1>2, <2>3, <2>4, <2>5, RoamsOn, MindsOn
<1> QED BY <1>1, <1>3, <1>5, <1>6

(* The focus on a monitor whose desktop has gone.                          *)
LEMMA RefocusedRoams ==
  ASSUME NEW s, Legal(s), NEW m \in s.monitors, NEW t, t = FocusNode(s, m, None, None)
  PROVE  /\ Roams(s, t) /\ t.home = s.home /\ Minds(s, t)
         /\ GuessDesktop(s, m) # None => t.shown[m] # None /\ t.mon = m
<1>0. Minds(s, t)
  BY FocusNodeMinds
<1>1. PICK d : d = GuessDesktop(s, m)
  OBVIOUS
<1>2. m \in Monitor
  BY DEF Legal, Records
<1>3. CASE d = None
  <2>1. t = s
    BY <1>1, <1>3, FocusNodeOn
  <2> QED BY <1>0, <1>1, <1>3, <2>1, StaysSelf, StaysRoams
<1>4. CASE d # None
  <2>1. d \in Range(s.desks[m])
    BY <1>1, <1>2, <1>4, GuessDesktopFacts
  <2>2. Lands(s, t, m, d) /\ t.home = s.home
    BY <1>1, <1>4, FocusNodeOn
  <2>3. t.shown[m] = d
    BY <2>1, <2>2, ShowsFacts DEF Lands
  <2> QED BY <1>0, <1>1, <1>4, <2>1, <2>2, <2>3, LandsRoams DEF Lands
<1> QED BY <1>3, <1>4

(* The end of transfer_desktop(), when the desktop is in its new list: the *)
(* old monitor shows another one, the count of sticky nodes is remarked    *)
(* upon, and the sticky nodes go to a desktop that is shown.               *)
LEMMA StuckStays ==
  ASSUME NEW s, Legal(s), NEW ms \in s.monitors, NEW md \in s.monitors,
         NEW d \in Range(s.desks[md]), s.shown[md] # None,
         NEW t, \/ t = s
                \/ t = TransferStickyNodes(s, md, d, ms, s.shown[ms]) /\ s.shown[ms] # None
                \/ t = TransferStickyNodes(s, md, d, md, s.shown[md])
  PROVE  Stays(s, t) /\ MovesIn(s, t, ms, md) /\ Minds(s, t)
<1>0. /\ ms \in Monitor /\ md \in Monitor /\ s.shown[md] \in Range(s.desks[md])
      /\ s.shown[ms] # None => s.shown[ms] \in Range(s.desks[ms])
  BY DEF Legal, ListsLegal, Records
<1>1. CASE t = s
  BY <1>1, StaysSelf, MindsSelf DEF MovesIn
<1>2. CASE t = TransferStickyNodes(s, md, d, ms, s.shown[ms]) /\ s.shown[ms] # None
  <2>1. Carried(s, t, md, d, ms, s.shown[ms])
    BY <1>0, <1>2, StickyTransferred
  <2> QED BY <1>0, <1>2, <2>1 DEF Carried, Stays, SamePlaces, SameLists, MovesIn
<1>3. CASE t = TransferStickyNodes(s, md, d, md, s.shown[md])
  <2>1. Carried(s, t, md, d, md, s.shown[md])
    BY <1>0, <1>3, StickyTransferred
  <2> QED BY <1>0, <2>1 DEF Carried, Stays, SamePlaces, SameLists, MovesIn
<1> QED BY <1>1, <1>2, <1>3

(* transfer_desktop() between two monitors                                 *)
LEMMA TransferDesktopSends ==
  ASSUME NEW s, Legal(s), NEW ms \in s.monitors, NEW md \in s.monitors, ms # md,
         NEW d \in Range(s.desks[ms]), NEW follow \in BOOLEAN,
         NEW t, t = TransferDesktop(s, ms, md, d, follow)
  PROVE  /\ Sends(s, t, ms, md, d) /\ Minds(s, t)
         /\ ~follow => MovesIn(s, t, ms, md)
         /\ (/\ s.shown[ms] # None
             /\ (Range(s.desks[ms]) \ {d}) \intersect Range(s.recent.desktops) # {})
            => t.shown[ms] # None
<1> DEFINE active == d = s.shown[ms]
           focused == ms = s.mon
           stays == ~follow \/ ~active \/ ~focused
           sc == Counted(s, ms, d, NodesOf(s, d))
           u == Count(UnlinkDesktop(s, ms, d), ms, Word - sc)
           v == IF stays /\ s.shown[md] # None THEN Conceal(u, NodesOf(s, d) \ s.sticky) ELSE u
           w == Count(InsertDesktop(v, md, d), md, sc)
           a == ActivateIfCan(w, ms, None)
           x == CASE ~active -> w
                  [] active /\ follow -> IF focused THEN FocusNode(a, md, d, a.focus[d]) ELSE a
                  [] active /\ ~follow /\ focused -> FocusNode(w, ms, None, None)
                  [] OTHER -> a
           b1 == x.strayed \/ (sc > 0 /\ x.shown[ms] # None /\ x.shown[md] # d)
           b2 == x.unseen \/ (~active /\ s.shown[md] = None)
           y == [x EXCEPT !.strayed = @ \/ (sc > 0 /\ x.shown[ms] # None /\ x.shown[md] # d),
                          !.unseen = @ \/ (~active /\ s.shown[md] = None)]
           z == CASE sc > 0 /\ y.shown[ms] # None -> TransferStickyNodes(y, md, d, ms, y.shown[ms])
                  [] sc > 0 /\ y.shown[ms] = None /\ d # y.shown[md] ->
                       TransferStickyNodes(y, md, d, md, y.shown[md])
                  [] OTHER -> y
<1>0. /\ ms \in Monitor /\ md \in Monitor /\ d \in Desk /\ d # None
      /\ s.mon \in s.monitors \union {None} /\ s.shown[ms] \in Range(s.desks[ms]) \union {None}
  BY ZenonT(60), PlaceFacts DEF Legal, ListsLegal, Records
<1>1. t = IF stays /\ z.shown[md] = d THEN Settle(z, md, d, z.focus[d]) ELSE z
  <2>1. w = SentTo(u, s, ms, md, d, follow)
    BY DEF SentTo, Remains
  <2> HIDE DEF w
  <2>2. x = LeftBehind(w, s, ms, md, d, follow)
    BY DEF LeftBehind, FocusAlong
  <2> HIDE DEF x
  <2>3. y = Flagged(x, s, ms, md, d)
    BY DEF Flagged
  <2> HIDE DEF y
  <2>4. z = StickyBack(y, s, ms, md, d)
    BY DEF StickyBack
  <2> HIDE DEF z
  <2>5. t = SettleDesktop(StickyBack(Flagged(LeftBehind(SentTo(u, s, ms, md, d, follow),
                 s, ms, md, d, follow), s, ms, md, d), s, ms, md, d), s, ms, md, d, follow)
    BY DEF TransferDesktop
  <2> QED BY <2>1, <2>2, <2>3, <2>4, <2>5 DEF SettleDesktop, Remains
<1>2. /\ Sends(s, w, ms, md, d) /\ w.mon = s.mon /\ w.home = s.home /\ Minds(s, w)
      /\ s.shown[ms] # d => w.shown[ms] = s.shown[ms]
  <2>1. PICK k : k = sc
    OBVIOUS
  <2>2. Word - k \in Int /\ k \in Int
    <3>1. NodesOf(s, d) \in SUBSET Node
      BY DEF NodesOf
    <3> QED BY <2>1, <3>1, CountedNat, PlacesAssumption
  <2>3. PICK S : S = NodesOf(s, d) \ s.sticky
    OBVIOUS
  <2>6. PICK j : j = Word - k
    OBVIOUS
  <2>5. j \in Int /\ k \in Int
    BY <2>2, <2>6
  <2>7. w = Posted(s, ms, md, d, j, k, S, stays /\ s.shown[md] # None)
    BY <2>1, <2>3, <2>6 DEF Posted
  <2>8. PICK h : h = (stays /\ s.shown[md] # None)
    OBVIOUS
  <2>9. w = Posted(s, ms, md, d, j, k, S, h)
    BY <2>7, <2>8
  <2> HIDE DEF w
  <2> QED BY <2>5, <2>9, SentFacts
<1> HIDE DEF w
<1>3. /\ Legal(w) /\ ms \in w.monitors /\ md \in w.monitors /\ d \in Range(w.desks[md])
      /\ w.shown[md] # None /\ w.recent = s.recent
      /\ Range(w.desks[ms]) = Range(s.desks[ms]) \ {d}
  BY <1>2 DEF Sends
<1>4. /\ Roams(w, x) /\ (~follow => x.home = w.home) /\ Minds(w, x)
      /\ (/\ s.shown[ms] # None
          /\ (Range(s.desks[ms]) \ {d}) \intersect Range(s.recent.desktops) # {})
         => x.shown[ms] # None
  <2>1. ASSUME (Range(s.desks[ms]) \ {d}) \intersect Range(s.recent.desktops) # {}
        PROVE  GuessDesktop(w, ms) # None
    BY <1>0, <1>3, <2>1, GuessDesktopFacts
  <2>2. CASE ~active
    <3>1. x = w
      BY <2>2
    <3> QED BY <1>2, <1>3, <2>2, <3>1, StaysSelf, StaysRoams, MindsSelf
  <2>3. CASE active /\ (follow \/ ~focused)
    <3>1. x \in {a, FocusNode(a, md, d, a.focus[d])}
      BY <2>3
    <3>2. PICK c : c = a
      OBVIOUS
    <3>3. x \in {c, FocusNode(c, md, d, c.focus[d])} /\ c = ActivateIfCan(w, ms, None)
      BY <3>1, <3>2
    <3>4. ~follow => x = c
      BY <2>3, <3>2
    <3> HIDE DEF x, a
    <3> QED BY <1>3, <2>1, <3>3, <3>4, LeftRoams
  <2>4. CASE active /\ ~follow /\ focused
    <3>1. x = FocusNode(w, ms, None, None)
      BY <2>4
    <3> HIDE DEF x
    <3> QED BY <1>3, <2>1, <3>1, RefocusedRoams
  <2> QED BY <2>2, <2>3, <2>4
<1> HIDE DEF x
<1>5. Sends(s, x, ms, md, d)
  BY <1>2, <1>4, SendsOn
<1>6. /\ Legal(x) /\ ms \in x.monitors /\ md \in x.monitors /\ d \in Range(x.desks[md])
      /\ x.shown[md] # None
  BY <1>5 DEF Sends
<1>7. Stays(x, y) /\ y.home = x.home /\ y.focus = x.focus
  <2>1. y = Remarked(x, b1, b2)
    BY DEF Remarked
  <2>2. b1 \in BOOLEAN /\ b2 \in BOOLEAN
    <3>1. x.strayed \in BOOLEAN /\ x.unseen \in BOOLEAN
      BY <1>6 DEF Legal, Records
    <3> QED BY <3>1, Zenon
  <2> HIDE DEF y, b1, b2
  <2> QED BY <1>6, <2>1, <2>2, RemarkedStays
<1> HIDE DEF y
<1>8. /\ Legal(y) /\ ms \in y.monitors /\ md \in y.monitors /\ d \in Range(y.desks[md])
      /\ y.shown[md] # None
  BY <1>6, <1>7 DEF Stays, SamePlaces, SameLists
<1>9. Stays(y, z) /\ MovesIn(y, z, ms, md) /\ Minds(y, z)
  <2>1. \/ z = y
        \/ z = TransferStickyNodes(y, md, d, ms, y.shown[ms]) /\ y.shown[ms] # None
        \/ z = TransferStickyNodes(y, md, d, md, y.shown[md])
    OBVIOUS
  <2> HIDE DEF z
  <2> QED BY <1>8, <2>1, StuckStays
<1> HIDE DEF z
<1>10. Legal(z) /\ d \in Range(z.desks[md])
  BY <1>8, <1>9 DEF Stays, SamePlaces, SameLists
<1>11. Stays(z, t) /\ t.home = z.home /\ Minds(z, t)
  <2>1. PICK n : n = z.focus[d]
    OBVIOUS
  <2>2. n \in Node \union {None}
    BY <1>0, <1>10, <2>1, FocusTyped
  <2>3. t = z \/ t = Settle(z, md, d, n)
    BY <1>1, <2>1
  <2>4. Placed(z, n, d)
    BY <1>0, <2>1, FocusPlaced
  <2>5. CASE t = z
    BY <1>10, <2>5, StaysSelf, MindsSelf
  <2>6. CASE t = Settle(z, md, d, n)
    BY <1>0, <1>10, <2>2, <2>4, <2>6, SettleStays, SettleMends, MendsMinds
  <2> QED BY <2>3, <2>5, <2>6
<1>12. Stays(x, t)
  BY <1>7, <1>9, <1>11, StaysOn
<1>13. Sends(s, t, ms, md, d)
  BY <1>5, <1>12, StaysRoams, SendsOn
<1>14. ~follow => MovesIn(s, t, ms, md)
  <2>1. t.desks = z.desks
    BY <1>11 DEF Stays, SamePlaces, SameLists
  <2> QED BY <1>2, <1>4, <1>7, <1>9, <1>11, <2>1 DEF MovesIn
<1>15. Minds(s, t)
  <2>1. Minds(x, y)
    BY <1>7, AlikeMinds DEF Alike, Stays, SamePlaces, SameLists
  <2>2. Minds(s, x) /\ Minds(y, t)
    BY <1>2, <1>4, <1>9, <1>11, MindsOn
  <2> QED BY <2>1, <2>2, MindsOn
<1> QED BY <1>4, <1>12, <1>13, <1>14, <1>15 DEF Stays, SamePlaces
-----------------------------------------------------------------------------
(* A loop whose turn i leads from R[i - 1] to R[i] ends in R[n].           *)
Turns(n, C, R, F) ==
  /\ n \in Nat /\ R \in [0..n -> SUBSET C] /\ F \in [1..n -> [C -> C]]
  /\ \A i \in 1..n : \A u \in R[i - 1] : F[i][u] \in R[i]

RunsThrough(f, n, C, R, a, F) ==
  f \in [0..n -> C] /\ Runs(f, n, a, F) /\ \A i \in 0..n : f[i] \in R[i]

(* A loop each turn of which goes from one set of states to the next has a *)
(* run through those sets.                                                 *)
LEMMA LoopRunsOn ==
  ASSUME NEW n, NEW C, NEW R, NEW a, NEW F, Turns(n, C, R, F), a \in R[0]
  PROVE  \E f : RunsThrough(f, n, C, R, a, F)
<1>0. /\ n \in Nat /\ R \in [0..n -> SUBSET C] /\ F \in [1..n -> [C -> C]]
      /\ \A i \in 1..n : \A u \in R[i - 1] : F[i][u] \in R[i]
  BY DEF Turns
<1>1. a \in C
  BY <1>0, 0 \in 0..n
<1>2. PICK f \in [0..n -> C] : Runs(f, n, a, F)
  BY <1>0, <1>1, LoopRuns
<1> DEFINE S == {i \in 0..n : f[i] \in R[i]}
<1>3. f[0] = a /\ \A i \in 1..n : f[i] = F[i][f[i - 1]]
  <2>1. 0 \in 0..n /\ \A i \in 1..n : i \in 0..n /\ i # 0
    BY <1>0
  <2> QED BY <1>2, <2>1 DEF Runs
<1>4. 0 \in S
  BY <1>0, <1>3
<1>5. ASSUME NEW i \in 0..(n - 1), i \in S  PROVE i + 1 \in S
  <2>1. i + 1 \in 0..n /\ i + 1 \in 1..n /\ (i + 1) - 1 = i
    BY <1>0
  <2> QED BY <1>0, <1>3, <1>5, <2>1
<1> HIDE DEF S
<1>6. \A i \in 0..n : i \in S
  BY <1>0, <1>4, <1>5, Induction
<1> QED BY <1>2, <1>6 DEF S, RunsThrough

(* A run that each turn keeps in its set ends in the last one.             *)
LEMMA LoopHolds ==
  ASSUME NEW n \in Nat, NEW R, NEW g, g[0] \in R[0],
         \A i \in 1..n : g[i - 1] \in R[i - 1] => g[i] \in R[i]
  PROVE  g[n] \in R[n]
<1> DEFINE S == {i \in 0..n : g[i] \in R[i]}
<1>1. 0 \in S
  OBVIOUS
<1>2. ASSUME NEW i \in 0..(n - 1), i \in S  PROVE i + 1 \in S
  <2>1. i + 1 \in 0..n /\ i + 1 \in 1..n /\ (i + 1) - 1 = i
    OBVIOUS
  <2> QED BY <1>2, <2>1
<1> HIDE DEF S
<1>3. \A i \in 0..n : i \in S
  BY <1>1, <1>2, Induction
<1> QED BY <1>3 DEF S

(* What merge_monitors() has done when S are the desktops still on ms.     *)
Empties(s, t, ms, md, S) ==
  /\ Legal(t) /\ InTrees(t) = InTrees(s)
  /\ t.monitors = s.monitors /\ t.last = s.last /\ t.recent = s.recent
  /\ \A x \in Monitor \ {ms, md} : Range(t.desks[x]) = Range(s.desks[x])
  /\ Range(t.desks[ms]) = S
  /\ Range(t.desks[md]) = Range(s.desks[md]) \union (Range(s.desks[ms]) \ S)
  /\ \A x \in Monitor \ {ms} : s.shown[x] # None => t.shown[x] # None
  /\ S # Range(s.desks[ms]) => t.shown[md] # None
  /\ t.mon \in {s.mon, ms} \/ (t.mon \in t.monitors /\ t.shown[t.mon] # None)
  /\ MovesIn(s, t, ms, md)
  /\ Minds(s, t)

(* One turn of the loop that empties a monitor into another.               *)
LEMMA EmptiesTurn ==
  ASSUME NEW s, Legal(s), NEW ms \in s.monitors, NEW md \in s.monitors, ms # md,
         NEW S \in SUBSET Range(s.desks[ms]), NEW t, Empties(s, t, ms, md, S),
         NEW d \in S, NEW u, u = TransferDesktop(t, ms, md, d, FALSE)
  PROVE  Empties(s, u, ms, md, S \ {d})
<1>1. /\ Legal(t) /\ ms \in t.monitors /\ md \in t.monitors /\ d \in Range(t.desks[ms])
      /\ ms \in Monitor /\ md \in Monitor
  BY DEF Empties, Legal, Records
<1>2. Sends(t, u, ms, md, d) /\ MovesIn(t, u, ms, md) /\ Minds(t, u)
  <2>1. PICK b : b = FALSE
    OBVIOUS
  <2>2. b \in BOOLEAN /\ u = TransferDesktop(t, ms, md, d, b)
    BY <2>1
  <2> QED BY <1>1, <2>2, TransferDesktopSends
<1>3. /\ \A x \in Monitor \ {ms, md} : Range(u.desks[x]) = Range(s.desks[x])
      /\ Range(u.desks[ms]) = S \ {d}
      /\ Range(u.desks[md]) = Range(s.desks[md]) \union (Range(s.desks[ms]) \ (S \ {d}))
  BY <1>2 DEF Sends, Empties
<1>4. \A x \in Monitor \ {ms} : s.shown[x] # None => u.shown[x] # None
  BY <1>2 DEF Sends, Empties
<1>5. u.mon \in {s.mon, ms} \/ (u.mon \in u.monitors /\ u.shown[u.mon] # None)
  <2>1. CASE u.mon = t.mon
    <3>1. \A x \in t.monitors : x \in Monitor
      BY <1>1 DEF Legal, Records
    <3> QED BY <1>2, <2>1, <3>1 DEF Sends, Empties
  <2>2. CASE u.mon # t.mon
    BY <1>2, <2>2 DEF Sends
  <2> QED BY <2>1, <2>2
<1>6. /\ Legal(u) /\ InTrees(u) = InTrees(s) /\ u.shown[md] # None
      /\ u.monitors = s.monitors /\ u.last = s.last /\ u.recent = s.recent
  BY <1>2 DEF Sends, Empties
<1>7. MovesIn(s, u, ms, md)
  <2>1. Range(u.desks[ms]) \union Range(u.desks[md]) = Range(t.desks[ms]) \union Range(t.desks[md])
    BY <1>1, <1>2 DEF Sends
  <2> QED BY <1>2, <2>1 DEF Empties, MovesIn
<1>8. Minds(s, u)
  BY <1>2, MindsOn DEF Empties
<1> QED BY <1>3, <1>4, <1>5, <1>6, <1>7, <1>8 DEF Empties

(* merge_monitors() between two monitors                                   *)
LEMMA MergeMonitorsEmpties ==
  ASSUME NEW s, Legal(s), NEW ms \in s.monitors, NEW md \in s.monitors, ms # md,
         NEW t, t = MergeMonitors(s, ms, md)
  PROVE  Empties(s, t, ms, md, {})
<1> DEFINE q == s.desks[ms]
           n == Len(q)
           Left(i) == {q[j] : j \in (i + 1)..n}
           R == [i \in 0..n |-> {u \in Records : Empties(s, u, ms, md, Left(i))}]
           Step(u, i) == TransferDesktop(u, ms, md, q[i], FALSE)
           F == [i \in 1..n |-> [u \in Records |-> IF u \in R[i - 1] THEN Step(u, i) ELSE u]]
           Rec(f) == f = [i \in 0..n |-> IF i = 0 THEN s ELSE Step(f[i - 1], i)]
           g == CHOOSE f : Rec(f)
<1>0. /\ n \in Nat /\ DOMAIN q = 1..n /\ \A i, j \in 1..n : q[i] = q[j] => i = j
      /\ Range(q) = {q[i] : i \in 1..n}
  <2>1. q \in Seq(Desk) /\ IsInjective(q)
    BY DEF Legal, ListsLegal, Records
  <2> QED BY <2>1, LenProperties DEF IsInjective, Range
<1>1. t = g[n]
  <2>1. md \notin {None, ms}
    BY Things DEF Legal, Records
  <2> QED BY <2>1 DEF MergeMonitors, Loop
<1>2. \A i \in 0..n : Left(i) \subseteq Range(q)
  BY <1>0
<1>3. Left(0) = Range(q) /\ Left(n) = {}
  BY <1>0
<1>4. \A i \in 1..n : q[i] \in Left(i - 1) /\ Left(i) = Left(i - 1) \ {q[i]}
  <2>1. ASSUME NEW i \in 1..n  PROVE q[i] \in Left(i - 1) /\ Left(i) = Left(i - 1) \ {q[i]}
    <3>1. /\ \A j \in (i + 1)..n : j \in 1..n /\ j # i /\ j \in ((i - 1) + 1)..n
          /\ \A j \in ((i - 1) + 1)..n : j \in 1..n /\ (j = i \/ j \in (i + 1)..n)
          /\ i \in ((i - 1) + 1)..n
      BY <1>0
    <3> QED BY <1>0, <3>1
  <2> QED BY <2>1
<1> HIDE DEF q, n, Left, g
<1>5. s \in R[0]
  <2>1. s \in Records /\ Empties(s, s, ms, md, Left(0))
    BY <1>3, MindsSelf DEF Legal, Empties, MovesIn, q
  <2> QED BY <1>0, <2>1
<1>6. ASSUME NEW i \in 1..n, NEW u \in R[i - 1]  PROVE Step(u, i) \in R[i]
  <2>1. i - 1 \in 0..n /\ i \in 0..n
    BY <1>0
  <2>2. Empties(s, u, ms, md, Left(i - 1))
    BY <1>6, <2>1
  <2>3. PICK v : v = Step(u, i)
    OBVIOUS
  <2>4. PICK S : S = Left(i - 1)
    OBVIOUS
  <2>5. PICK d : d = q[i]
    OBVIOUS
  <2>6. S \in SUBSET Range(s.desks[ms]) /\ d \in S /\ v = TransferDesktop(u, ms, md, d, FALSE)
    BY <1>2, <1>4, <2>1, <2>3, <2>4, <2>5 DEF q
  <2>7. Empties(s, v, ms, md, S \ {d})
    BY <2>2, <2>4, <2>6, EmptiesTurn
  <2>8. Empties(s, v, ms, md, Left(i)) /\ v \in Records
    BY <1>4, <2>4, <2>5, <2>7 DEF Empties, Legal
  <2> QED BY <2>1, <2>3, <2>8
<1>7. R \in [0..n -> SUBSET Records]
  OBVIOUS
<1> HIDE DEF R, Step
<1>8. F \in [1..n -> [Records -> Records]] /\ \A i \in 1..n : \A u \in R[i - 1] : F[i][u] = Step(u, i)
  <2>1. \A i \in 1..n : i \in 0..n /\ i - 1 \in 0..n
    BY <1>0
  <2> QED BY <1>6, <1>7, <2>1
<1> HIDE DEF F
<1>9. PICK f : RunsThrough(f, n, Records, R, s, F)
  <2>1. Turns(n, Records, R, F)
    BY <1>0, <1>6, <1>7, <1>8 DEF Turns
  <2> QED BY <1>5, <2>1, LoopRunsOn
<1>10. Rec(g)
  <2>1. \A i \in 0..n : i # 0 => i \in 1..n /\ i - 1 \in 0..n
    BY <1>0
  <2>2. Rec(f)
    BY <1>8, <1>9, <2>1 DEF Runs, RunsThrough
  <2> HIDE DEF Rec
  <2> QED BY <2>2 DEF g
<1>11. g[0] = s /\ \A i \in 1..n : g[i] = Step(g[i - 1], i)
  <2>1. 0 \in 0..n /\ \A i \in 1..n : i \in 0..n /\ i # 0
    BY <1>0
  <2> QED BY <1>10, <2>1
<1> HIDE DEF Rec
<1>12. g[n] \in R[n]
  <2>1. g[0] \in R[0] /\ \A i \in 1..n : g[i - 1] \in R[i - 1] => g[i] \in R[i]
    BY <1>5, <1>6, <1>11
  <2> QED BY <1>0, <2>1, LoopHolds
<1>13. n \in 0..n
  BY <1>0
<1>14. Empties(s, t, ms, md, Left(n))
  BY <1>1, <1>12, <1>13 DEF R
<1> QED BY <1>3, <1>14

(* What the loop of remove_monitor() has done when S are the desktops that *)
(* are left on m.                                                          *)
Clears(s, t, m, S) ==
  /\ Drops(s, t, m, S) /\ InTrees(t) \subseteq InTrees(s)
  /\ \A n \in Node : t.home[n] = IF s.home[n] \in Range(s.desks[m]) \ S THEN None ELSE s.home[n]
  /\ Minds(s, t)

(* One turn of the loop that removes the desktops of a monitor.            *)
LEMMA ClearsTurn ==
  ASSUME NEW s, Legal(s), NEW m \in Monitor, NEW S, NEW t, Clears(s, t, m, S),
         S \subseteq Range(s.desks[m]), NEW d \in S, NEW u, u = RemoveDesktop(t, m, d)
  PROVE  Clears(s, u, m, S \ {d})
<1>1. Legal(t) /\ d \in Range(t.desks[m]) /\ Range(t.desks[m]) = S
  BY DEF Clears, Drops
<1>2. /\ Drops(t, u, m, S \ {d}) /\ InTrees(u) = InTrees(t) \ NodesOf(t, d) /\ Minds(t, u)
      /\ \A n \in Node : u.home[n] = IF t.home[n] = d THEN None ELSE t.home[n]
  <2>1. /\ Drops(t, u, m, Range(t.desks[m]) \ {d}) /\ InTrees(u) = InTrees(t) \ NodesOf(t, d)
        /\ Minds(t, u)
        /\ \A n \in Node : u.home[n] = IF t.home[n] = d THEN None ELSE t.home[n]
    BY <1>1, RemoveDesktopDrops
  <2> QED BY <1>1, <2>1
<1>3. d # None /\ d \in Range(s.desks[m])
  BY ListedFacts
<1>4. \A n \in Node : u.home[n] = IF s.home[n] \in Range(s.desks[m]) \ (S \ {d}) THEN None ELSE s.home[n]
  BY <1>2, <1>3 DEF Clears
<1>5. Minds(s, u)
  BY <1>2, MindsOn DEF Clears
<1> QED BY <1>2, <1>4, <1>5 DEF Clears, Drops

Cleared(s, m) == Loop(LAMBDA u, d : RemoveDesktop(u, m, d), s, s.desks[m])

(* remove_monitor() removes every desktop of the monitor.                  *)
LEMMA ClearsLoop ==
  ASSUME NEW s, Legal(s), NEW m \in s.monitors, NEW t, t = Cleared(s, m)
  PROVE  Clears(s, t, m, {})
<1> DEFINE q == s.desks[m]
           n == Len(q)
           Left(i) == {q[j] : j \in (i + 1)..n}
           R == [i \in 0..n |-> {u \in Records : Clears(s, u, m, Left(i))}]
           Step(u, i) == RemoveDesktop(u, m, q[i])
           F == [i \in 1..n |-> [u \in Records |-> IF u \in R[i - 1] THEN Step(u, i) ELSE u]]
           Rec(f) == f = [i \in 0..n |-> IF i = 0 THEN s ELSE Step(f[i - 1], i)]
           g == CHOOSE f : Rec(f)
<1>0. /\ n \in Nat /\ DOMAIN q = 1..n /\ \A i, j \in 1..n : q[i] = q[j] => i = j
      /\ Range(q) = {q[i] : i \in 1..n} /\ m \in Monitor
  <2>1. q \in Seq(Desk) /\ IsInjective(q) /\ m \in Monitor
    BY DEF Legal, ListsLegal, Records
  <2> QED BY <2>1, LenProperties DEF IsInjective, Range
<1>1. t = g[n]
  BY DEF Cleared, Loop
<1>3. Left(0) = Range(q) /\ Left(n) = {}
  BY <1>0
<1>4. \A i \in 1..n : /\ q[i] \in Left(i - 1) /\ Left(i) = Left(i - 1) \ {q[i]}
                     /\ Left(i - 1) \subseteq Range(q)
  <2>1. ASSUME NEW i \in 1..n
        PROVE  /\ q[i] \in Left(i - 1) /\ Left(i) = Left(i - 1) \ {q[i]}
               /\ Left(i - 1) \subseteq Range(q)
    <3>1. /\ \A j \in (i + 1)..n : j \in 1..n /\ j # i /\ j \in ((i - 1) + 1)..n
          /\ \A j \in ((i - 1) + 1)..n : j \in 1..n /\ (j = i \/ j \in (i + 1)..n)
          /\ i \in ((i - 1) + 1)..n
      BY <1>0
    <3> QED BY <1>0, <3>1
  <2> QED BY <2>1
<1> HIDE DEF q, n, Left, g
<1>5. s \in R[0]
  <2>1. s \in Records /\ Clears(s, s, m, Left(0))
    BY <1>3, MindsSelf DEF Legal, Clears, Drops, q
  <2> QED BY <1>0, <2>1
<1>6. ASSUME NEW i \in 1..n, NEW u \in R[i - 1]  PROVE Step(u, i) \in R[i]
  <2>1. i - 1 \in 0..n /\ i \in 0..n
    BY <1>0
  <2>2. Clears(s, u, m, Left(i - 1))
    BY <1>6, <2>1
  <2>3. PICK v : v = Step(u, i)
    OBVIOUS
  <2>4. PICK S : S = Left(i - 1)
    OBVIOUS
  <2>5. PICK d : d = q[i]
    OBVIOUS
  <2>6. d \in S /\ S \subseteq Range(s.desks[m]) /\ v = RemoveDesktop(u, m, d)
    BY <1>4, <2>1, <2>3, <2>4, <2>5 DEF q
  <2>7. Clears(s, v, m, S \ {d})
    BY <1>0, <2>2, <2>4, <2>6, ClearsTurn
  <2>8. Clears(s, v, m, Left(i)) /\ v \in Records
    BY <1>4, <2>4, <2>5, <2>7 DEF Clears, Drops, Legal
  <2> QED BY <2>1, <2>3, <2>8
<1>7. R \in [0..n -> SUBSET Records]
  OBVIOUS
<1> HIDE DEF R, Step
<1>8. F \in [1..n -> [Records -> Records]] /\ \A i \in 1..n : \A u \in R[i - 1] : F[i][u] = Step(u, i)
  <2>1. \A i \in 1..n : i \in 0..n /\ i - 1 \in 0..n
    BY <1>0
  <2> QED BY <1>6, <1>7, <2>1
<1> HIDE DEF F
<1>9. PICK f : RunsThrough(f, n, Records, R, s, F)
  <2>1. Turns(n, Records, R, F)
    BY <1>0, <1>6, <1>7, <1>8 DEF Turns
  <2> QED BY <1>5, <2>1, LoopRunsOn
<1>10. Rec(g)
  <2>1. \A i \in 0..n : i # 0 => i \in 1..n /\ i - 1 \in 0..n
    BY <1>0
  <2>2. Rec(f)
    BY <1>8, <1>9, <2>1 DEF Runs, RunsThrough
  <2> HIDE DEF Rec
  <2> QED BY <2>2 DEF g
<1>11. g[0] = s /\ \A i \in 1..n : g[i] = Step(g[i - 1], i)
  <2>1. 0 \in 0..n /\ \A i \in 1..n : i \in 0..n /\ i # 0
    BY <1>0
  <2> QED BY <1>10, <2>1
<1> HIDE DEF Rec
<1>12. g[n] \in R[n]
  <2>1. g[0] \in R[0] /\ \A i \in 1..n : g[i - 1] \in R[i - 1] => g[i] \in R[i]
    BY <1>5, <1>6, <1>11
  <2> QED BY <1>0, <2>1, LoopHolds
<1>13. n \in 0..n
  BY <1>0
<1>14. Clears(s, t, m, Left(n))
  BY <1>1, <1>12, <1>13 DEF R
<1> QED BY <1>3, <1>14

(* The monitor m leaves the list; mon is the focused one without it.       *)
Departed(s, m) ==
  [s EXCEPT !.monitors = @ \ {m}, !.count[m] = 0, !.mon = IF @ = m THEN None ELSE @]

(* A monitor without desktops leaves the list of monitors.                 *)
LEMMA DepartedFacts ==
  ASSUME NEW s, Legal(s), NEW m \in s.monitors, Range(s.desks[m]) = {}, NEW t, t = Departed(s, m)
  PROVE  /\ Legal(t) /\ t.monitors = s.monitors \ {m} /\ t.desks = s.desks /\ t.shown = s.shown
         /\ t.last = s.last /\ t.recent = s.recent /\ t.home = s.home /\ InTrees(t) = InTrees(s)
         /\ t.mon = IF s.mon = m THEN None ELSE s.mon
         /\ Minds(s, t)
<1>0. s \in Records /\ m \in Monitor /\ s.count \in [Monitor -> 0..(Word - 1)]
  BY DEF Legal, Records
<1>1. PICK M : M = s.monitors \ {m}
  OBVIOUS
<1>2. PICK K : K = [s.count EXCEPT ![m] = 0]
  OBVIOUS
<1>3. PICK f : f = IF s.mon = m THEN None ELSE s.mon
  OBVIOUS
<1>4. t = [s EXCEPT !.monitors = M, !.count = K, !.mon = f]
  BY <1>1, <1>2, <1>3 DEF Departed
<1>5. M \in SUBSET Monitor /\ f \in Monitor \union {None} /\ K \in [Monitor -> 0..(Word - 1)]
  <2>1. M \in SUBSET Monitor /\ f \in Monitor \union {None}
    BY <1>0, <1>1, <1>3 DEF Records
  <2>2. 0 \in 0..(Word - 1)
    BY PlacesAssumption
  <2> QED BY <1>0, <1>2, <2>1, <2>2
<1>6. t \in Records
  BY <1>0, <1>4, <1>5, ZenonT(60) DEF Records
<1>7. /\ t.monitors = M /\ t.desks = s.desks /\ t.shown = s.shown /\ t.mon = f
      /\ t.last = s.last /\ t.recent = s.recent /\ t.home = s.home
      /\ t.sticky = s.sticky /\ t.visible = s.visible
      /\ t.focus = s.focus /\ t.mislaid = s.mislaid
  BY <1>0, <1>4 DEF Records
<1>8. s.desks[m] = <<>>
  <2>1. PICK q : q = s.desks[m]
    OBVIOUS
  <2>2. q \in Seq(Desk)
    BY <1>0, <2>1 DEF Records
  <2>3. Len(q) = 0
    <3>1. Len(q) \in Nat /\ DOMAIN q = 1..Len(q)
      BY <2>2, LenProperties
    <3>2. ~(1 \in 1..Len(q))
      BY <2>1, <3>1 DEF Range
    <3> QED BY <3>1, <3>2
  <2> QED BY <2>1, <2>2, <2>3, EmptySeq
<1>9. ListsLegal(t)
  BY <1>0, <1>1, <1>3, <1>7, <1>8 DEF Legal, ListsLegal
<1>10. TreesLegal(t) /\ InTrees(t) = InTrees(s)
  BY <1>7 DEF Legal, TreesLegal, InTrees, InLists
<1>11. Minds(s, t)
  BY <1>7, AlikeMinds DEF Alike
<1> QED BY <1>1, <1>3, <1>6, <1>7, <1>9, <1>10, <1>11 DEF Legal

(* remove_monitor()                                                        *)
Removes(s, t, m) ==
  /\ Legal(t) /\ InTrees(t) \subseteq InTrees(s)
  /\ t.monitors = s.monitors \ {m} /\ t.last = s.last /\ t.recent = s.recent
  /\ \A x \in Monitor \ {m} : Range(t.desks[x]) = Range(s.desks[x])
  /\ Range(t.desks[m]) = {}
  /\ \A x \in Monitor \ {m} : s.shown[x] # None => t.shown[x] # None
  /\ s.mon # m => t.mon = s.mon
  /\ (s.mon = m /\ \E x \in t.monitors : s.shown[x] # None /\ x \in Range(s.recent.monitors))
       => (t.mon \in t.monitors /\ t.shown[t.mon] # None)
  /\ \A n \in Node : t.home[n] = IF s.home[n] \in Range(s.desks[m]) THEN None ELSE s.home[n]

(* remove_monitor() takes its desktops along; the focus goes to a monitor  *)
(* that shows something.                                                   *)
LEMMA RemoveMonitorRemoves ==
  ASSUME NEW s, Legal(s), NEW m \in s.monitors, NEW t, t = RemoveMonitor(s, m)
  PROVE  Removes(s, t, m) /\ Minds(s, t)
<1> DEFINE u == Cleared(s, m)
           w == Departed(u, m)
<1>0. m \in Monitor /\ m # None /\ \A x \in s.monitors : x \in Monitor
  BY Things DEF Legal, Records
<1>1. t = IF u.mon = m THEN FocusNode(w, None, None, None) ELSE w
  BY DEF RemoveMonitor, Departed, Cleared
<1>2. Clears(s, u, m, {})
  BY ClearsLoop
<1> HIDE DEF u
<1>3. /\ Legal(u) /\ m \in u.monitors /\ Range(u.desks[m]) = {}
      /\ u.monitors = s.monitors /\ u.last = s.last /\ u.recent = s.recent /\ u.mon = s.mon
      /\ \A x \in Monitor \ {m} : u.desks[x] = s.desks[x] /\ u.shown[x] = s.shown[x]
      /\ InTrees(u) \subseteq InTrees(s)
      /\ \A n \in Node : u.home[n] = IF s.home[n] \in Range(s.desks[m]) THEN None ELSE s.home[n]
      /\ Minds(s, u)
  BY <1>2 DEF Clears, Drops
<1>4. /\ Legal(w) /\ w.monitors = s.monitors \ {m} /\ w.desks = u.desks /\ w.shown = u.shown
      /\ w.last = s.last /\ w.recent = s.recent /\ w.home = u.home /\ InTrees(w) \subseteq InTrees(s)
      /\ w.mon = IF s.mon = m THEN None ELSE s.mon
      /\ Minds(u, w)
  BY <1>3, DepartedFacts
<1> HIDE DEF w
<1>7. Minds(s, t)
  <2>1. t \in {w, FocusNode(w, None, None, None)}
    BY <1>1
  <2>2. Minds(w, t)
    BY <1>4, <2>1, MindsSelf, FocusNodeMinds
  <2> QED BY <1>3, <1>4, <2>2, MindsOn
<1>5. CASE s.mon # m
  <2>1. t = w
    BY <1>1, <1>3, <1>5
  <2> QED BY <1>3, <1>4, <1>5, <1>7, <2>1 DEF Removes
<1>6. CASE s.mon = m
  <2>1. t = FocusNode(w, None, None, None)
    BY <1>1, <1>3, <1>6
  <2>2. PICK x : x = GuessMonitor(w)
    OBVIOUS
  <2>3. w.mon = None
    BY <1>4, <1>6
  <2>4. /\ x \in {y \in w.monitors : w.shown[y] # None} \union {None}
        /\ x = None <=> Range(s.recent.monitors) \intersect {y \in w.monitors : w.shown[y] # None} = {}
    BY <1>4, <2>2, <2>3, GuessMonitorFacts
  <2>5. CASE x = None
    <3>1. t = w
      BY <1>4, <2>1, <2>2, <2>5, FocusNodeAnywhere
    <3>2. ~\E y \in t.monitors : s.shown[y] # None /\ y \in Range(s.recent.monitors)
      BY <1>0, <1>3, <1>4, <2>4, <2>5, <3>1
    <3> QED BY <1>3, <1>4, <1>6, <1>7, <3>1, <3>2 DEF Removes
  <2>6. CASE x # None
    <3>1. x \in w.monitors /\ w.shown[x] # None /\ x \in Monitor
      BY <1>0, <1>4, <2>4, <2>6
    <3>2. PICK d : d = GuessDesktop(w, x)
      OBVIOUS
    <3>3. d \in Range(w.desks[x]) /\ d # None
      BY <1>4, <3>1, <3>2, GuessDesktopFacts
    <3>4. Lands(w, t, x, d) /\ t.home = w.home
      BY <1>4, <2>1, <2>2, <2>6, <3>2, <3>3, FocusNodeAnywhere
    <3>5. /\ t.shown[x] = d /\ \A y \in Monitor \ {x} : t.shown[y] = w.shown[y]
          /\ t.mon = x
      BY <1>4, <3>1, <3>3, <3>4, ShowsFacts DEF Lands
    <3>6. Roams(w, t)
      BY <1>4, <3>1, <3>3, <3>4, LandsRoams
    <3>7. /\ Legal(t) /\ t.monitors = w.monitors /\ t.desks = w.desks /\ t.last = w.last
          /\ t.recent = w.recent /\ InTrees(t) = InTrees(w)
      BY <3>6 DEF Roams, Ranges, SameLists
    <3>8. \A y \in Monitor \ {m} : s.shown[y] # None => t.shown[y] # None
      BY <1>3, <1>4, <3>3, <3>5
    <3> QED BY <1>3, <1>4, <1>6, <1>7, <3>1, <3>3, <3>4, <3>5, <3>7, <3>8 DEF Removes
  <2> QED BY <2>5, <2>6
<1> QED BY <1>5, <1>6
-----------------------------------------------------------------------------
(* What the steps of swap_desktops() keep.                                 *)
Keeps(s, t) ==
  /\ Legal(t) /\ t.monitors = s.monitors /\ t.last = s.last /\ t.recent = s.recent
  /\ t.mon = s.mon /\ t.sticky = s.sticky /\ InTrees(t) = InTrees(s) /\ Minds(s, t)

(* What is kept through two steps is kept.                                 *)
LEMMA KeepsOn ==
  ASSUME NEW s, NEW t, NEW u, Keeps(s, t), Keeps(t, u)
  PROVE  Keeps(s, u)
BY MindsOn DEF Keeps

(* A step that changes no list and disturbs no focus keeps it.             *)
LEMMA StaysKeeps ==
  ASSUME NEW s, NEW t, Stays(s, t), Minds(s, t)
  PROVE  Keeps(s, t)
BY DEF Stays, SamePlaces, SameLists, SameTrees, Keeps

(* The temporary desktop e is on m, when b.                                *)
Extra(b, x, m, e) == {y \in {e} : b /\ x = m}

(* The sticky windows of d are put on e, when b.                           *)
Stashed(s, t, m, d, e, b) ==
  /\ Keeps(s, t) /\ t.shown = s.shown /\ t.count = s.count
  /\ \A x \in Monitor : Range(t.desks[x]) = Range(s.desks[x]) \union Extra(b, x, m, e)
  /\ \A n \in Node : \/ t.home[n] = s.home[n]
                     \/ n \in s.sticky /\ s.home[n] = d /\ t.home[n] = e

(* The sticky windows of a desktop go to a temporary desktop of the same   *)
(* monitor.                                                                *)
LEMMA StashAwayFacts ==
  ASSUME NEW s, Legal(s), NEW m \in s.monitors, NEW d \in Range(s.desks[m]),
         NEW e \in Desk, e \notin InLists(s), NEW b, b = Stashes(s, m, d),
         NEW t, t = StashAway(s, m, d, e)
  PROVE  Stashed(s, t, m, d, e, b)
<1>0. m \in Monitor /\ d # None /\ e # None
  BY PlaceFacts, Things DEF Legal, Records, Desk
<1>1. CASE ~b
  <2>1. t = s
    BY <1>1 DEF StashAway
  <2> QED BY <1>1, <2>1, MindsSelf DEF Stashed, Keeps, Extra
<1>2. CASE b
  <2>1. s.shown[m] = d
    <3>1. Counted(s, m, d, NodesOf(s, d)) > 0
      BY <1>2 DEF Stashes
    <3> QED BY <3>1 DEF Counted
  <2>2. PICK u : u = InsertDesktop(s, m, e)
    OBVIOUS
  <2>3. Relists(s, u, m, Range(s.desks[m]) \union {e}, d)
    <3>1. s \in Records /\ ListsLegal(s)
      BY DEF Legal
    <3>2. Relists(s, u, m, Range(s.desks[m]) \union {e},
                  IF s.shown[m] = None THEN e ELSE s.shown[m])
      BY <2>2, <3>1, InsertRelists
    <3> QED BY <1>0, <2>1, <3>2
  <2>4. /\ u \in Records /\ ListsLegal(u) /\ u.monitors = s.monitors /\ u.last = s.last
        /\ u.recent = s.recent /\ u.mon = s.mon /\ u.home = s.home /\ u.sticky = s.sticky
        /\ u.visible = s.visible /\ u.count = s.count /\ Minds(s, u)
    BY <2>3, AlikeMinds DEF Relists, SameWindows, Alike
  <2>5. /\ \A x \in Monitor : Range(u.desks[x]) = Range(s.desks[x]) \union Extra(b, x, m, e)
        /\ u.shown = s.shown
    <3>1. s.shown \in [Monitor -> Desk \union {None}] /\ u.shown \in [Monitor -> Desk \union {None}]
      BY <2>4 DEF Legal, Records
    <3>2. \A x \in Monitor : u.shown[x] = s.shown[x]
      BY <1>0, <2>1, <2>3 DEF Relists
    <3>3. \A x \in Monitor : Range(u.desks[x]) = Range(s.desks[x]) \union Extra(b, x, m, e)
      BY <1>2, <2>3 DEF Relists, Extra
    <3> QED BY <3>1, <3>2, <3>3
  <2>6. InTrees(u) = InTrees(s) /\ InLists(s) \subseteq InLists(u)
    BY <2>4, <2>5 DEF InTrees, InLists
  <2>7. Legal(u)
    BY <2>4, <2>6 DEF Legal, TreesLegal
  <2>8. t = TransferStickyNodes(u, m, d, m, e)
    BY <1>2, <2>2 DEF StashAway
  <2>9. Carried(u, t, m, d, m, e)
    <3>1. d \in Range(u.desks[m]) /\ e \in Range(u.desks[m])
      BY <1>0, <1>2, <2>5 DEF Extra
    <3> QED BY <1>0, <2>7, <2>8, <3>1, StickyTransferred
  <2>10. /\ Stays(u, t) /\ t.count = u.count /\ Minds(u, t)
         /\ \A n \in Node : \/ t.home[n] = u.home[n]
                            \/ n \in u.sticky /\ u.home[n] = d /\ t.home[n] = e
    BY <2>9 DEF Carried
  <2>11. Keeps(s, u) /\ Keeps(u, t) /\ t.shown = u.shown /\ t.desks = u.desks
    BY <2>4, <2>6, <2>7, <2>10, StaysKeeps DEF Keeps, Stays, SamePlaces, SameLists
  <2> QED BY <2>4, <2>5, <2>10, <2>11, KeepsOn DEF Stashed
<1> QED BY <1>1, <1>2

(* Whether the second desktop is stashed does not depend on the first.     *)
LEMMA StashesSame ==
  ASSUME NEW s, Legal(s), NEW m, NEW d, NEW e, NEW b, NEW t, Stashed(s, t, m, d, e, b),
         NEW m2, NEW d2, d2 # d, d2 # e
  PROVE  Stashes(t, m2, d2) = Stashes(s, m2, d2)
<1>1. NodesOf(t, d2) = NodesOf(s, d2)
  BY DEF Stashed, NodesOf
<1>2. t.count = s.count /\ t.shown = s.shown /\ t.sticky = s.sticky
  BY DEF Stashed, Keeps
<1> QED BY <1>1, <1>2 DEF Stashes, Counted

(* d1 and d2 in the place of each other.                                   *)
Turned(d1, d2, d) == IF d = d1 THEN d2 ELSE IF d = d2 THEN d1 ELSE d
TurnedAll(d1, d2, S) == {Turned(d1, d2, d) : d \in S}

(* The exchange turns one desktop into the other in every list and on      *)
(* every screen.                                                           *)
LEMMA ExchangeFacts ==
  ASSUME NEW s, Legal(s), NEW d1 \in InLists(s), NEW d2 \in InLists(s), d1 # d2,
         NEW t, t = Exchange(s, d1, d2)
  PROVE  /\ Keeps(s, t) /\ t.home = s.home
         /\ \A x \in Monitor : /\ Range(t.desks[x]) = TurnedAll(d1, d2, Range(s.desks[x]))
                               /\ t.shown[x] = Turned(d1, d2, s.shown[x])
<1>0. /\ s \in Records /\ d1 \in Desk /\ d2 \in Desk /\ d1 # None /\ d2 # None
      /\ s.desks \in [Monitor -> Seq(Desk)] /\ s.shown \in [Monitor -> Desk \union {None}]
  <2>1. PICK m \in Monitor : d1 \in Range(s.desks[m])
    BY DEF InLists
  <2>2. /\ d1 \in Desk /\ d2 \in Desk /\ d1 # None /\ d2 # None
    BY <2>1, ListedFacts
  <2> QED BY <2>2 DEF Legal, Records
<1> DEFINE Other(d) == CASE d = d1 -> d2 [] d = d2 -> d1 [] OTHER -> d
<1>1. \A d : Other(d) = Turned(d1, d2, d)
  BY DEF Turned
<1>2. PICK D : D = [m \in Monitor |-> [i \in DOMAIN s.desks[m] |-> Other(s.desks[m][i])]]
  OBVIOUS
<1>3. PICK K : K = [m \in Monitor |-> Other(s.shown[m])]
  OBVIOUS
<1>4. t = [s EXCEPT !.desks = D, !.shown = K]
  BY <1>0, <1>2, <1>3 DEF Exchange, Records
<1> HIDE DEF Other
<1>5. K \in [Monitor -> Desk \union {None}] /\ \A x \in Monitor : K[x] = Turned(d1, d2, s.shown[x])
  BY <1>0, <1>1, <1>3 DEF Turned
<1>6. ASSUME NEW x \in Monitor
      PROVE  /\ D[x] \in Seq(Desk) /\ DOMAIN D[x] = DOMAIN s.desks[x]
             /\ \A i \in DOMAIN s.desks[x] : D[x][i] = Turned(d1, d2, s.desks[x][i])
  <2>1. PICK q : q = s.desks[x]
    OBVIOUS
  <2>2. q \in Seq(Desk) /\ Len(q) \in Nat /\ DOMAIN q = 1..Len(q) /\ \A i \in 1..Len(q) : q[i] \in Desk
    <3>1. q \in Seq(Desk)
      BY <1>0, <2>1
    <3> QED BY <3>1, LenProperties, ElementOfSeq
  <2>3. D[x] = [i \in 1..Len(q) |-> Turned(d1, d2, q[i])]
    BY <1>1, <1>2, <2>1, <2>2
  <2>4. \A i \in 1..Len(q) : Turned(d1, d2, q[i]) \in Desk
    BY <1>0, <2>2 DEF Turned
  <2>5. D[x] \in [1..Len(q) -> Desk]
    BY <2>3, <2>4
  <2> QED BY <2>1, <2>2, <2>3, <2>5, SeqDef
<1>7. D \in [Monitor -> Seq(Desk)]
  BY <1>2, <1>6
<1>8. t \in Records
  BY <1>0, <1>4, <1>5, <1>7, ZenonT(60) DEF Records
<1>9. /\ t.monitors = s.monitors /\ t.last = s.last /\ t.recent = s.recent /\ t.mon = s.mon
      /\ t.desks = D /\ t.shown = K /\ t.home = s.home /\ t.sticky = s.sticky
      /\ t.visible = s.visible /\ Minds(s, t)
  <2>1. /\ t.monitors = s.monitors /\ t.last = s.last /\ t.recent = s.recent /\ t.mon = s.mon
        /\ t.desks = D /\ t.shown = K /\ t.home = s.home /\ t.sticky = s.sticky
        /\ t.visible = s.visible /\ t.focus = s.focus /\ t.mislaid = s.mislaid
    BY <1>0, <1>4 DEF Records
  <2> QED BY <2>1, AlikeMinds DEF Alike
<1>10. \A x \in Monitor : Range(D[x]) = TurnedAll(d1, d2, Range(s.desks[x]))
  BY <1>6 DEF Range, TurnedAll
<1>11. \A x, y : Turned(d1, d2, x) = Turned(d1, d2, y) => x = y
  BY DEF Turned
<1>12. ListsLegal(t)
  <2>1. \A x \in Monitor : IsInjective(D[x])
    BY <1>6, <1>11 DEF Legal, ListsLegal, IsInjective
  <2>2. \A x, y \in Monitor : x # y => Range(D[x]) \intersect Range(D[y]) = {}
    <3>1. SUFFICES ASSUME NEW x \in Monitor, NEW y \in Monitor, x # y,
                          NEW z \in Range(D[x]), z \in Range(D[y])
                   PROVE FALSE
      OBVIOUS
    <3>2. PICK a \in Range(s.desks[x]) : z = Turned(d1, d2, a)
      BY <1>10 DEF TurnedAll
    <3>3. PICK c \in Range(s.desks[y]) : z = Turned(d1, d2, c)
      BY <1>10, <3>1 DEF TurnedAll
    <3>4. a = c
      BY <1>11, <3>2, <3>3
    <3> QED BY <3>1, <3>4 DEF Legal, ListsLegal
  <2>3. \A x \in Monitor : x \notin s.monitors => D[x] = <<>>
    <3>1. SUFFICES ASSUME NEW x \in Monitor, x \notin s.monitors  PROVE D[x] = <<>>
      OBVIOUS
    <3>2. s.desks[x] = <<>>
      BY <3>1 DEF Legal, ListsLegal
    <3>3. D[x] \in Seq(Desk) /\ DOMAIN D[x] = {}
      BY <1>6, <3>2
    <3>4. Len(D[x]) = 0
      <4>1. Len(D[x]) \in Nat /\ DOMAIN D[x] = 1..Len(D[x])
        BY <3>3, LenProperties
      <4>2. ~(1 \in 1..Len(D[x]))
        BY <3>3, <4>1
      <4> QED BY <4>1, <4>2
    <3> QED BY <3>3, <3>4, EmptySeq
  <2>4. \A x \in Monitor : K[x] \in Range(D[x]) \union {None}
    <3>1. Turned(d1, d2, None) = None
      BY <1>0 DEF Turned
    <3> QED BY SMTT(60), <1>5, <1>10, <3>1 DEF Legal, ListsLegal, TurnedAll
  <2> QED BY <1>9, <2>1, <2>2, <2>3, <2>4 DEF Legal, ListsLegal
<1>13. InLists(t) = InLists(s)
  <2>1. ASSUME NEW y \in InLists(t)  PROVE y \in InLists(s)
    <3>1. PICK x \in Monitor : y \in Range(D[x])
      BY <1>9 DEF InLists
    <3>2. PICK a \in Range(s.desks[x]) : y = Turned(d1, d2, a)
      BY <1>10, <3>1 DEF TurnedAll
    <3> QED BY <3>2 DEF Turned, InLists
  <2>2. ASSUME NEW y \in InLists(s)  PROVE y \in InLists(t)
    <3>1. Turned(d1, d2, y) \in InLists(s) /\ Turned(d1, d2, Turned(d1, d2, y)) = y
      BY DEF Turned
    <3>2. PICK x \in Monitor : Turned(d1, d2, y) \in Range(s.desks[x])
      BY <3>1 DEF InLists
    <3>3. y \in Range(D[x])
      BY <1>10, <3>1, <3>2 DEF TurnedAll
    <3> QED BY <1>9, <3>3 DEF InLists
  <2> QED BY <2>1, <2>2
<1>14. InTrees(t) = InTrees(s)
  BY <1>9 DEF InTrees
<1>15. TreesLegal(t)
  BY <1>9, <1>13, <1>14 DEF Legal, TreesLegal
<1> QED BY <1>5, <1>8, <1>9, <1>10, <1>12, <1>14, <1>15 DEF Keeps, Legal

(* The windows on the temporary desktop are sticky, and history knows them.*)
Guests(s, e) ==
  \A n \in Node : s.home[n] = e => n \in s.sticky /\ n \in Range(s.recent.leaves)

Guest(s, b, m, e) == (b => e \in Range(s.desks[m])) /\ Guests(s, e)
Returned(s, t, m, d, e, b) ==
  /\ Keeps(s, t) /\ t.shown = s.shown
  /\ \A x \in Monitor : Range(t.desks[x]) = Range(s.desks[x]) \ Extra(b, x, m, e)
  /\ \A n \in Node : t.home[n] = s.home[n] \/ (s.home[n] = e /\ t.home[n] = d)

(* The temporary desktop is emptied and dropped again.                     *)
LEMMA BringBackFacts ==
  ASSUME NEW s, Legal(s), NEW m \in Monitor, NEW d \in Range(s.desks[m]), NEW b,
         NEW e, Guest(s, b, m, e), e # d, s.shown[m] # e,
         NEW t, t = BringBack(s, b, m, d, e)
  PROVE  Returned(s, t, m, d, e, b)
<1> USE DEF Guest, Returned
<1>1. CASE ~b
  <2>1. t = s
    BY <1>1 DEF BringBack
  <2> QED BY <1>1, <2>1, MindsSelf DEF Keeps, Extra
<1>2. CASE b
  <2>1. PICK u : u = TransferStickyNodes(s, m, e, m, d)
    OBVIOUS
  <2>2. /\ Carried(s, u, m, e, m, d)
        /\ \A n \in Range(s.recent.leaves) \intersect s.sticky : u.home[n] # e
    BY <1>2, <2>1, StickyTransferred
  <2>3. /\ Stays(s, u) /\ Minds(s, u)
        /\ \A n \in Node : u.home[n] = s.home[n] \/ (s.home[n] = e /\ u.home[n] = d)
    BY <2>2 DEF Carried
  <2>4. \A n \in Node : u.home[n] # e
    BY <2>2, <2>3 DEF Guests
  <2>5. Keeps(s, u) /\ u.shown = s.shown /\ u.desks = s.desks
    BY <2>3, StaysKeeps DEF Stays, SamePlaces, SameLists
  <2>6. Legal(u) /\ u \in Records /\ ListsLegal(u) /\ e \in Range(u.desks[m])
    BY <1>2, <2>5 DEF Keeps, Legal
  <2>7. t = UnlinkDesktop(u, m, e)
    BY <1>2, <2>1 DEF BringBack
  <2>8. Relists(u, t, m, Range(u.desks[m]) \ {e}, u.shown[m])
    <3>1. Relists(u, t, m, Range(u.desks[m]) \ {e}, IF u.shown[m] = e THEN None ELSE u.shown[m])
      BY <2>6, <2>7, UnlinkRelists
    <3> QED BY <2>5, <3>1
  <2>9. /\ t \in Records /\ ListsLegal(t) /\ t.monitors = u.monitors /\ t.last = u.last
        /\ t.recent = u.recent /\ t.mon = u.mon /\ t.home = u.home /\ t.sticky = u.sticky
        /\ t.visible = u.visible /\ Minds(u, t)
    BY <2>8, AlikeMinds DEF Relists, SameWindows, Alike
  <2>10. /\ \A x \in Monitor : Range(t.desks[x]) = Range(s.desks[x]) \ Extra(b, x, m, e)
         /\ t.shown = u.shown
    <3>1. t.shown \in [Monitor -> Desk \union {None}] /\ u.shown \in [Monitor -> Desk \union {None}]
      BY <2>6, <2>9 DEF Records
    <3>2. \A x \in Monitor : t.shown[x] = u.shown[x]
      BY <2>8 DEF Relists
    <3>3. \A x \in Monitor : Range(t.desks[x]) = Range(u.desks[x]) \ Extra(b, x, m, e)
      <4>1. e \notin {} /\ \A x \in Monitor : Extra(b, x, m, e) = IF x = m THEN {e} ELSE {}
        BY <1>2 DEF Extra
      <4> QED BY <2>8, <4>1 DEF Relists
    <3> QED BY <2>5, <3>1, <3>2, <3>3
  <2>11. InTrees(t) = InTrees(u)
    BY <2>9 DEF InTrees
  <2>12. InLists(u) \ {e} \subseteq InLists(t)
    <3>1. ASSUME NEW x \in Monitor, NEW y \in Range(u.desks[x]), y # e  PROVE y \in Range(t.desks[x])
      BY <2>5, <2>10, <3>1 DEF Extra
    <3> QED BY <3>1 DEF InLists
  <2>13. TreesLegal(t)
    BY <2>4, <2>6, <2>9, <2>11, <2>12 DEF Legal, TreesLegal
  <2>14. Keeps(u, t)
    BY <2>9, <2>11, <2>13 DEF Keeps, Legal
  <2> QED BY <2>3, <2>5, <2>9, <2>10, <2>14, KeepsOn
<1> QED BY <1>1, <1>2

(* What swap_desktops() does.                                              *)
Swaps(s, t, d1, d2) ==
  /\ Legal(t) /\ t.monitors = s.monitors /\ t.last = s.last /\ t.recent = s.recent
  /\ InTrees(t) = InTrees(s) /\ Minds(s, t)
  /\ \A x \in Monitor : /\ Range(t.desks[x]) = TurnedAll(d1, d2, Range(s.desks[x]))
                        /\ s.shown[x] # None => t.shown[x] # None
  /\ t.mon = s.mon \/ (t.mon \in t.monitors /\ t.shown[t.mon] # None)

(* What follows in swap_desktops() changes no list.                        *)
LEMMA SwapsOn ==
  ASSUME NEW s, NEW t, NEW u, NEW d1, NEW d2, Swaps(s, t, d1, d2),
         Roams(t, u), Minds(t, u)
  PROVE  Swaps(s, u, d1, d2)
<1>1. /\ Legal(u) /\ u.monitors = t.monitors /\ u.last = t.last /\ u.recent = t.recent
      /\ InTrees(u) = InTrees(t) /\ u.desks = t.desks
  BY DEF Roams, Ranges, SameLists
<1>2. \A x \in Monitor : t.shown[x] # None => u.shown[x] # None
  <2>1. \A x \in Monitor : u.shown[x] = t.shown[x] \/ u.shown[x] \in Range(u.desks[x])
    BY <1>1 DEF Roams, Ranges
  <2> QED BY <1>1, <2>1, ListedFacts
<1>3. \A x \in u.monitors : x \in Monitor
  BY <1>1 DEF Legal, Records
<1>4. u.mon = t.mon \/ (u.mon \in u.monitors /\ u.shown[u.mon] # None)
  <2>1. CASE u.mon = t.mon
    BY <2>1
  <2>2. CASE u.mon \in t.monitors /\ u.shown[u.mon] \in Range(t.desks[u.mon])
    BY <1>1, <1>3, <2>2, ListedFacts
  <2> QED BY <2>1, <2>2 DEF Roams, Ranges
<1>5. u.mon = s.mon \/ (u.mon \in u.monitors /\ u.shown[u.mon] # None)
  BY <1>1, <1>2, <1>3, <1>4 DEF Swaps
<1>6. Minds(s, u)
  BY MindsOn DEF Swaps
<1> QED BY <1>1, <1>2, <1>5, <1>6 DEF Swaps

(* Stashing, exchanging and bringing back is an exchange.                  *)
LEMMA CrossedSwaps ==
  ASSUME NEW s, Legal(s), InLists(s) \subseteq Desktop, InTrees(s) \subseteq Range(s.recent.leaves),
         NEW m1 \in s.monitors, NEW d1 \in Range(s.desks[m1]),
         NEW m2 \in s.monitors, NEW d2 \in Range(s.desks[m2]), d1 # d2,
         NEW t, t = Crossed(s, m1, d1, m2, d2)
  PROVE  Swaps(s, t, d1, d2) /\ t.mon = s.mon
<1>1. PICK e1 : e1 = Stash[1]
  OBVIOUS
<1>2. PICK e2 : e2 = Stash[2]
  OBVIOUS
<1>3. PICK b1 : b1 = Stashes(s, m1, d1)
  OBVIOUS
<1>4. PICK b2 : b2 = Stashes(s, m2, d2)
  OBVIOUS
<1>0. /\ m1 \in Monitor /\ m2 \in Monitor /\ d1 \in Desktop /\ d2 \in Desktop
      /\ d1 \in InLists(s) /\ d2 \in InLists(s) /\ d1 # None /\ d2 # None
      /\ e1 \in Desk /\ e2 \in Desk /\ e1 # e2 /\ e1 \notin Desktop /\ e2 \notin Desktop
      /\ e1 # None /\ e2 # None
  <2>1. m1 \in Monitor /\ m2 \in Monitor /\ d1 \in InLists(s) /\ d2 \in InLists(s)
        /\ d1 # None /\ d2 # None
    BY PlaceFacts
  <2> QED BY <1>1, <1>2, <2>1, Things DEF Desk
<1>5. PICK u : u = StashAway(s, m1, d1, e1)
  OBVIOUS
<1>6. Stashed(s, u, m1, d1, e1, b1)
  BY <1>0, <1>3, <1>5, StashAwayFacts
<1>7. PICK v : v = StashAway(u, m2, d2, e2)
  OBVIOUS
<1>8. Stashed(u, v, m2, d2, e2, b2)
  <2>1. Legal(u) /\ m2 \in u.monitors
    BY <1>6 DEF Stashed, Keeps
  <2>2. /\ \A x \in Monitor : Range(s.desks[x]) \subseteq Range(u.desks[x])
        /\ InLists(u) \subseteq InLists(s) \union {e1}
    BY <1>6 DEF Stashed, Extra, InLists
  <2>3. d2 \in Range(u.desks[m2]) /\ e2 \notin InLists(u)
    BY <1>0, <2>2
  <2>4. b2 = Stashes(u, m2, d2)
    BY <1>0, <1>4, <1>6, StashesSame
  <2> QED BY <1>0, <1>7, <2>1, <2>3, <2>4, StashAwayFacts
<1>9. Keeps(s, v) /\ v.shown = s.shown
  BY <1>6, <1>8, KeepsOn DEF Stashed
<1>10. \A x \in Monitor :
         Range(v.desks[x]) = Range(s.desks[x]) \union Extra(b1, x, m1, e1) \union Extra(b2, x, m2, e2)
  BY <1>6, <1>8 DEF Stashed
<1>11. \A n \in Node : v.home[n] \in {e1, e2} => n \in s.sticky
  <2>1. \A n \in Node : s.home[n] \notin {e1, e2}
    BY <1>0 DEF Legal, TreesLegal
  <2> QED BY <1>6, <1>8, <2>1 DEF Stashed, Keeps
<1>12. PICK w : w = Exchange(v, d1, d2)
  OBVIOUS
<1>13. /\ Keeps(v, w) /\ w.home = v.home
       /\ \A x \in Monitor : /\ Range(w.desks[x]) = TurnedAll(d1, d2, Range(v.desks[x]))
                             /\ w.shown[x] = Turned(d1, d2, v.shown[x])
  <2>1. InLists(s) \subseteq InLists(v)
    BY <1>10 DEF InLists
  <2>2. Legal(v) /\ d1 \in InLists(v) /\ d2 \in InLists(v)
    BY <1>0, <1>9, <2>1 DEF Keeps
  <2> QED BY <1>12, <2>2, ExchangeFacts
<1>14. Keeps(s, w)
  BY <1>9, <1>13, KeepsOn
<1>15. \A x \in Monitor :
         Range(w.desks[x]) = TurnedAll(d1, d2, Range(s.desks[x]))
                             \union Extra(b1, x, m1, e1) \union Extra(b2, x, m2, e2)
  <2>1. ASSUME NEW x \in Monitor
        PROVE  TurnedAll(d1, d2, Range(s.desks[x]) \union Extra(b1, x, m1, e1) \union Extra(b2, x, m2, e2))
               = TurnedAll(d1, d2, Range(s.desks[x]))
                 \union Extra(b1, x, m1, e1) \union Extra(b2, x, m2, e2)
    <3>1. Turned(d1, d2, e1) = e1 /\ Turned(d1, d2, e2) = e2
      BY <1>0 DEF Turned
    <3> QED BY <3>1 DEF TurnedAll, Extra
  <2> QED BY <1>10, <1>13, <2>1
<1>16. \A x \in Monitor : w.shown[x] \notin {e1, e2} /\ (s.shown[x] # None => w.shown[x] # None)
  <2>1. \A x \in Monitor : s.shown[x] \in InLists(s) \union {None}
    BY DEF Legal, ListsLegal, InLists
  <2> QED BY <1>0, <1>9, <1>13, <2>1 DEF Turned
<1>17. Guests(w, e1) /\ Guests(w, e2)
  <2>1. \A n \in Node : w.home[n] \in {e1, e2} => n \in s.sticky /\ n \in InTrees(s)
    BY <1>0, <1>11, <1>13 DEF Legal, TreesLegal
  <2> QED BY <1>14, <2>1 DEF Guests, Keeps
<1>18. /\ d2 \in Range(w.desks[m1]) /\ d1 \in Range(w.desks[m2])
       /\ b1 => e1 \in Range(w.desks[m1])
       /\ b2 => e2 \in Range(w.desks[m2])
  <2>1. Turned(d1, d2, d1) = d2 /\ Turned(d1, d2, d2) = d1
    BY DEF Turned
  <2>2. /\ Turned(d1, d2, d1) \in TurnedAll(d1, d2, Range(s.desks[m1]))
        /\ Turned(d1, d2, d2) \in TurnedAll(d1, d2, Range(s.desks[m2]))
    BY DEF TurnedAll
  <2>3. (b1 => e1 \in Extra(b1, m1, m1, e1)) /\ (b2 => e2 \in Extra(b2, m2, m2, e2))
    BY DEF Extra
  <2> QED BY <1>0, <1>15, <2>1, <2>2, <2>3
<1>19. PICK x : x = BringBack(w, b1, m1, d2, e1)
  OBVIOUS
<1>20. Returned(w, x, m1, d2, e1, b1)
  <2>1. Legal(w) /\ e1 # d2 /\ w.shown[m1] # e1 /\ Guest(w, b1, m1, e1)
    BY <1>0, <1>14, <1>16, <1>17, <1>18 DEF Keeps, Guest
  <2>2. m1 \in Monitor /\ d2 \in Range(w.desks[m1])
    BY <1>0, <1>18
  <2> QED BY <1>19, <2>1, <2>2, BringBackFacts
<1>21. t = BringBack(x, b2, m2, d1, e2)
  BY <1>1, <1>2, <1>3, <1>4, <1>5, <1>7, <1>12, <1>19 DEF Crossed
<1>22. Returned(x, t, m2, d1, e2, b2)
  <2>1. Legal(x) /\ e2 # d1 /\ x.shown[m2] # e2
    BY <1>0, <1>16, <1>20 DEF Keeps, Returned
  <2>2. d1 \in Range(x.desks[m2]) /\ (b2 => e2 \in Range(x.desks[m2]))
    BY <1>0, <1>18, <1>20 DEF Extra, Returned
  <2>3. Guests(x, e2)
    BY <1>0, <1>17, <1>20 DEF Guests, Keeps, Returned
  <2>4. Guest(x, b2, m2, e2) /\ m2 \in Monitor
    BY <1>0, <2>2, <2>3 DEF Guest
  <2> QED BY <1>21, <2>1, <2>2, <2>4, BringBackFacts
<1>23. Keeps(s, t)
  BY <1>14, <1>20, <1>22, KeepsOn DEF Returned
<1>24. \A y \in Monitor : Range(t.desks[y]) = TurnedAll(d1, d2, Range(s.desks[y]))
  <2>1. ASSUME NEW y \in Monitor  PROVE e1 \notin TurnedAll(d1, d2, Range(s.desks[y]))
                                       /\ e2 \notin TurnedAll(d1, d2, Range(s.desks[y]))
    <3>1. Range(s.desks[y]) \subseteq Desktop
      BY DEF InLists
    <3> QED BY <1>0, <3>1 DEF TurnedAll, Turned
  <2>2. ASSUME NEW y \in Monitor
        PROVE  Range(t.desks[y]) = TurnedAll(d1, d2, Range(s.desks[y]))
    <3>1. Extra(b1, y, m1, e1) \subseteq {e1} /\ Extra(b2, y, m2, e2) \subseteq {e2}
      BY DEF Extra
    <3>2. /\ Range(w.desks[y]) = TurnedAll(d1, d2, Range(s.desks[y]))
                                \union Extra(b1, y, m1, e1) \union Extra(b2, y, m2, e2)
          /\ Range(x.desks[y]) = Range(w.desks[y]) \ Extra(b1, y, m1, e1)
          /\ Range(t.desks[y]) = Range(x.desks[y]) \ Extra(b2, y, m2, e2)
      BY <1>15, <1>20, <1>22 DEF Returned
    <3>3. PICK T : T = TurnedAll(d1, d2, Range(s.desks[y]))
      OBVIOUS
    <3>4. e1 \notin T /\ e2 \notin T
      BY <2>1, <3>3
    <3> QED BY <3>1, <3>2, <3>3, <3>4
  <2> QED BY <2>2
<1> QED BY <1>16, <1>20, <1>22, <1>23, <1>24 DEF Swaps, Keeps, Returned
-----------------------------------------------------------------------------
(* The focus, when the desktop d was focused or shown.                     *)
LEMMA SwapRefocused ==
  ASSUME NEW s, Legal(s), NEW m \in Monitor, NEW d \in Range(s.desks[m]),
         NEW t \in {s, FocusNode(s, m, d, s.focus[d]), ActivateNode(s, d, s.focus[d])}
  PROVE  Roams(s, t) /\ Minds(s, t)
<1>1. d \in Desk
  BY ListedFacts
<1>2. PICK n : n = s.focus[d]
  OBVIOUS
<1>3. n \in Node \union {None} /\ Placed(s, n, d)
  BY <1>1, <1>2, FocusTyped, FocusPlaced
<1>4. CASE t = s
  BY <1>4, StaysSelf, StaysRoams, MindsSelf
<1>5. CASE t = FocusNode(s, m, d, n)
  <2>1. m \in s.monitors
    BY OwnerExists
  <2> QED BY <1>3, <1>5, <2>1, FocusNodeRoams, FocusNodeMends, MendsMinds
<1>6. CASE t = ActivateNode(s, d, n)
  BY <1>1, <1>3, <1>6, ActivateNodeRoams, ActivateNodeMinds
<1> QED BY <1>2, <1>4, <1>5, <1>6

(* The windows of the two desktops are mapped and unmapped.                *)
Remapped(s, d1, d2) ==
  {s, Reveal(s, NodesOf(s, d2)), Reveal(Conceal(s, NodesOf(s, d1)), NodesOf(s, d2)),
   Reveal(s, NodesOf(s, d1)), Reveal(Conceal(s, NodesOf(s, d2)), NodesOf(s, d1))}

(* No focus is disturbed by it.                                            *)
LEMMA RevealConcealMinds ==
  ASSUME NEW s, Legal(s), NEW S \in SUBSET InTrees(s), NEW T, NEW t,
         t \in {s, Reveal(s, S), Conceal(s, T), Conceal(Reveal(s, S), T), Reveal(Conceal(s, T), S)}
  PROVE  Minds(s, t)
<1>1. PICK r : r = Reveal(s, S)
  OBVIOUS
<1>2. PICK c : c = Conceal(s, T)
  OBVIOUS
<1>3. Minds(s, r) /\ Legal(r)
  <2>1. Stays(s, r) /\ r.home = s.home /\ r.count = s.count /\ r.focus = s.focus
    BY <1>1, RevealStays
  <2>2. Alike(s, r)
    BY <2>1 DEF Stays, SamePlaces, SameLists, Alike
  <2> QED BY <2>1, <2>2, AlikeMinds DEF Stays
<1>4. Minds(s, c) /\ Legal(c) /\ InTrees(c) = InTrees(s)
  <2>1. Stays(s, c) /\ c.home = s.home /\ c.count = s.count /\ c.focus = s.focus
    BY <1>2, ConcealStays
  <2>2. Alike(s, c)
    BY <2>1 DEF Stays, SamePlaces, SameLists, Alike
  <2> QED BY <2>1, <2>2, AlikeMinds DEF Stays, SameTrees
<1>5. t = Conceal(r, T) => Minds(s, t)
  <2>1. SUFFICES ASSUME t = Conceal(r, T)  PROVE Minds(r, t)
    BY <1>3, MindsOn
  <2>2. Stays(r, t) /\ t.home = r.home /\ t.count = r.count /\ t.focus = r.focus
    BY <1>3, <2>1, ConcealStays
  <2>3. Alike(r, t)
    BY <2>2 DEF Stays, SamePlaces, SameLists, Alike
  <2> QED BY <2>3, AlikeMinds
<1>6. t = Reveal(c, S) => Minds(s, t)
  <2>1. SUFFICES ASSUME t = Reveal(c, S)  PROVE Minds(c, t)
    BY <1>4, MindsOn
  <2>2. Stays(c, t) /\ t.home = c.home /\ t.count = c.count /\ t.focus = c.focus
    BY <1>4, <2>1, RevealStays
  <2>3. Alike(c, t)
    BY <2>2 DEF Stays, SamePlaces, SameLists, Alike
  <2> QED BY <2>3, AlikeMinds
<1>7. t \in {s, r, c, Conceal(r, T), Reveal(c, S)}
  BY <1>1, <1>2
<1> QED BY <1>3, <1>4, <1>5, <1>6, <1>7, MindsSelf

(* The windows that swap_desktops() maps and unmaps stay where they are.   *)
LEMMA RemappedStays ==
  ASSUME NEW s, Legal(s), NEW d1 \in InLists(s), NEW d2 \in InLists(s),
         NEW t \in Remapped(s, d1, d2)
  PROVE  Stays(s, t) /\ Minds(s, t)
<1>1. PICK S1 : S1 = NodesOf(s, d1)
  OBVIOUS
<1>2. PICK S2 : S2 = NodesOf(s, d2)
  OBVIOUS
<1>3. None \notin InLists(s)
  BY Things DEF InLists, Legal, Records, Range, Desk
<1>4. S1 \in SUBSET InTrees(s) /\ S2 \in SUBSET InTrees(s)
  BY <1>1, <1>2, <1>3 DEF NodesOf, InTrees
<1>5. \/ t \in {s, Reveal(s, S2), Conceal(s, S1), Conceal(Reveal(s, S2), S1), Reveal(Conceal(s, S1), S2)}
      \/ t \in {s, Reveal(s, S1), Conceal(s, S2), Conceal(Reveal(s, S1), S2), Reveal(Conceal(s, S2), S1)}
  BY <1>1, <1>2 DEF Remapped
<1>6. Stays(s, t)
  BY <1>4, <1>5, RevealConcealStays
<1>7. Minds(s, t)
  BY <1>4, <1>5, RevealConcealMinds
<1> QED BY <1>6, <1>7

(* swap_desktops()                                                         *)
LEMMA SwapDesktopsSwaps ==
  ASSUME NEW s, Legal(s), InLists(s) \subseteq Desktop, InTrees(s) \subseteq Range(s.recent.leaves),
         NEW m1 \in s.monitors, NEW d1 \in Range(s.desks[m1]),
         NEW m2 \in s.monitors, NEW d2 \in Range(s.desks[m2]), NEW follow,
         NEW t, t = SwapDesktops(s, m1, d1, m2, d2, follow)
  PROVE  Swaps(s, t, d1, d2)
<1>1. CASE d1 = d2
  <2>1. t = s
    BY <1>1 DEF SwapDesktops
  <2>2. \A S : TurnedAll(d1, d2, S) = S
    BY <1>1 DEF TurnedAll, Turned
  <2> QED BY <2>1, <2>2, MindsSelf DEF Swaps
<1>2. CASE d1 # d2
  <2> DEFINE goes == follow \/ m1 = m2
             focused1 == Current(s) = d1
             focused2 == Current(s) = d2
             active1 == s.shown[m1] = d1
             active2 == s.shown[m2] = d2
             c == Crossed(s, m1, d1, m2, d2)
             v == SwapMapping(c, s, m1, d1, m2, d2, goes)
  <2>1. t = SwapFocuses(v, s, m1, d1, m2, d2, goes)
    BY <1>2 DEF SwapDesktops
  <2>2. Swaps(s, c, d1, d2)
    BY <1>2, CrossedSwaps
  <2>3. v \in Remapped(c, d1, d2)
    BY DEF Remapped, SwapMapping, SwapShown
  <2>4. \A x, m, d, focused, active : SwapRefocus(x, m, d, focused, active) \in
            {x, FocusNode(x, m, d, x.focus[d]), ActivateNode(x, d, x.focus[d])}
    BY DEF SwapRefocus
  <2> HIDE DEF c, v
  <2>5. PICK p \in {<<m2, d1, m1, d2>>, <<m1, d2, m2, d1>>} :
          t = SwapRefocus(SwapRefocus(v, p[1], p[2], focused1, active1),
                          p[3], p[4], focused2, active2)
    BY <2>1 DEF SwapFocuses
  <2> HIDE DEF focused1, focused2, active1, active2
  <2>6. /\ Legal(c) /\ d2 \in Range(c.desks[m1]) /\ d1 \in Range(c.desks[m2])
        /\ m1 \in Monitor /\ m2 \in Monitor
    <3>1. m1 \in Monitor /\ m2 \in Monitor
      BY DEF Legal, Records
    <3>2. Turned(d1, d2, d1) = d2 /\ Turned(d1, d2, d2) = d1
      BY DEF Turned
    <3> QED BY <2>2, <3>1, <3>2 DEF Swaps, TurnedAll
  <2>7. Roams(c, v) /\ Minds(c, v)
    <3>1. d1 \in InLists(c) /\ d2 \in InLists(c)
      BY <2>6 DEF InLists
    <3> QED BY <2>3, <2>6, <3>1, RemappedStays, StaysRoams
  <2>8. PICK w : w = SwapRefocus(v, p[1], p[2], focused1, active1)
    OBVIOUS
  <2>9. /\ p[1] \in Monitor /\ p[2] \in Range(c.desks[p[1]])
        /\ p[3] \in Monitor /\ p[4] \in Range(c.desks[p[3]])
    BY <2>6
  <2>10. Roams(v, w) /\ Minds(v, w)
    <3>1. w \in {v, FocusNode(v, p[1], p[2], v.focus[p[2]]), ActivateNode(v, p[2], v.focus[p[2]])}
      BY <2>4, <2>8
    <3>2. Legal(v) /\ p[2] \in Range(v.desks[p[1]])
      BY <2>7, <2>9, RoamsPlace
    <3>3. PICK d : d = p[2]
      OBVIOUS
    <3>4. PICK m : m = p[1]
      OBVIOUS
    <3> QED BY <2>9, <3>1, <3>2, <3>3, <3>4, SwapRefocused
  <2>11. Roams(c, w) /\ Minds(c, w)
    BY <2>6, <2>7, <2>10, RoamsOn, MindsOn
  <2>12. Roams(w, t) /\ Minds(w, t)
    <3>0. t = SwapRefocus(w, p[3], p[4], focused2, active2)
      BY <2>5, <2>8
    <3>1. t \in {w, FocusNode(w, p[3], p[4], w.focus[p[4]]), ActivateNode(w, p[4], w.focus[p[4]])}
      BY <2>4, <3>0
    <3>2. Legal(w) /\ p[4] \in Range(w.desks[p[3]])
      BY <2>9, <2>11, RoamsPlace
    <3>3. PICK d : d = p[4]
      OBVIOUS
    <3>4. PICK m : m = p[3]
      OBVIOUS
    <3> QED BY <2>9, <3>1, <3>2, <3>3, <3>4, SwapRefocused
  <2> QED BY <2>2, <2>6, <2>11, <2>12, RoamsOn, SwapsOn
<1> QED BY <1>1, <1>2
-----------------------------------------------------------------------------
(* What holds of the state between two handlers.                           *)
Sound(s) ==
  /\ Legal(s) /\ InLists(s) \subseteq Desktop
  /\ s.mon # None
  /\ \A m \in s.monitors : s.shown[m] # None

(* What the history knows of it.                                           *)
Known(s) ==
  /\ InLists(s) \subseteq Range(s.recent.desktops)
  /\ InTrees(s) \subseteq Range(s.recent.nodes)
  /\ InTrees(s) \subseteq Range(s.recent.leaves)
  /\ Range(s.recent.monitors) = Monitor
(* The focused monitor exists, and every monitor shows one of its          *)
(* desktops.                                                               *)
LEMMA SoundFacts ==
  ASSUME NEW s, Sound(s)
  PROVE  /\ s.mon \in s.monitors
         /\ \A m \in s.monitors : m \in Monitor /\ s.shown[m] \in Range(s.desks[m])
BY DEF Sound, Legal, ListsLegal, Records

(* A step that keeps what is shown within the lists keeps the state sound. *)
LEMMA RangesSound ==
  ASSUME NEW s, Sound(s), NEW t, Ranges(s, t)
  PROVE  Sound(t)
<1>1. /\ Legal(t) /\ t.monitors = s.monitors /\ t.desks = s.desks
      /\ \A m \in s.monitors : m \in Monitor /\ s.shown[m] \in Range(s.desks[m])
      /\ s.mon \in s.monitors
  BY SoundFacts DEF Ranges, SameLists
<1>2. InLists(t) = InLists(s)
  BY <1>1 DEF InLists
<1>3. \A m \in s.monitors : t.shown[m] # None
  <2>1. \A m \in s.monitors : t.shown[m] \in Range(s.desks[m])
    BY <1>1 DEF Ranges
  <2> QED BY <1>1, <2>1, ListedFacts DEF Sound
<1>4. t.mon # None
  <2>1. t.mon \in s.monitors
    BY <1>1 DEF Ranges
  <2> QED BY <1>1, <2>1, Things
<1> QED BY <1>1, <1>2, <1>3, <1>4 DEF Sound

(* A step that changes no list keeps it sound.                             *)
LEMMA RoamsSound ==
  ASSUME NEW s, Sound(s), NEW t, Roams(s, t)
  PROVE  Sound(t)
BY RangesSound DEF Roams

(* And so does one that changes nothing shown.                             *)
LEMMA StaysSound ==
  ASSUME NEW s, Sound(s), NEW t, Stays(s, t)
  PROVE  Sound(t)
BY StaysRoams, RoamsSound

(* An exchange of two desktops keeps it sound.                             *)
LEMMA SwapsSound ==
  ASSUME NEW s, Sound(s), NEW d1 \in InLists(s), NEW d2 \in InLists(s), NEW t, Swaps(s, t, d1, d2)
  PROVE  Sound(t)
<1>1. /\ Legal(t) /\ t.monitors = s.monitors
      /\ s.mon \in s.monitors
      /\ \A m \in s.monitors : m \in Monitor /\ s.shown[m] # None
  BY SoundFacts DEF Swaps, Sound
<1>2. InLists(t) \subseteq Desktop
  <2>1. SUFFICES ASSUME NEW m \in Monitor, NEW d \in Range(t.desks[m])  PROVE d \in InLists(s)
    BY DEF InLists, Sound
  <2>2. PICK e \in Range(s.desks[m]) : d = Turned(d1, d2, e)
    BY DEF Swaps, TurnedAll
  <2>3. e \in InLists(s)
    BY DEF InLists
  <2> QED BY <2>2, <2>3 DEF Turned
<1>3. \A m \in s.monitors : t.shown[m] # None
  BY <1>1 DEF Swaps
<1>4. t.mon # None
  <2>1. t.mon \in s.monitors
    BY <1>1 DEF Swaps
  <2> QED BY <1>1, <2>1, Things
<1> QED BY <1>1, <1>2, <1>3, <1>4 DEF Sound

(* So does sending a desktop, when the monitor it left shows another.      *)
LEMMA SendsSound ==
  ASSUME NEW s, Sound(s), NEW ms \in s.monitors, NEW md \in s.monitors, NEW d \in Range(s.desks[ms]),
         NEW t, Sends(s, t, ms, md, d), t.shown[ms] # None
  PROVE  Sound(t)
<1>1. /\ Legal(t) /\ t.monitors = s.monitors
      /\ s.mon \in s.monitors
      /\ \A m \in s.monitors : m \in Monitor /\ s.shown[m] # None
  BY SoundFacts DEF Sends, Sound
<1>2. InLists(t) \subseteq Desktop
  <2>1. SUFFICES ASSUME NEW m \in Monitor, NEW e \in Range(t.desks[m])  PROVE e \in InLists(s)
    BY DEF InLists, Sound
  <2>2. e \in Range(s.desks[m]) \/ e \in Range(s.desks[ms])
    BY DEF Sends
  <2> QED BY <1>1, <2>2 DEF InLists
<1>3. \A m \in s.monitors : t.shown[m] # None
  BY <1>1 DEF Sends
<1>4. t.mon # None
  <2>1. t.mon \in s.monitors
    BY <1>1 DEF Sends
  <2> QED BY <1>1, <2>1, Things
<1> QED BY <1>1, <1>2, <1>3, <1>4 DEF Sound

(* And dropping one, when its monitor shows another.                       *)
LEMMA DropsSound ==
  ASSUME NEW s, Sound(s), NEW m \in s.monitors, NEW d \in Range(s.desks[m]),
         NEW t, Drops(s, t, m, Range(s.desks[m]) \ {d}), t.shown[m] # None
  PROVE  Sound(t)
<1>1. /\ Legal(t) /\ t.monitors = s.monitors /\ t.mon = s.mon
      /\ \A x \in s.monitors : x \in Monitor /\ s.shown[x] # None
  BY SoundFacts DEF Drops, Sound
<1>2. InLists(t) \subseteq Desktop
  <2>1. SUFFICES ASSUME NEW x \in Monitor, NEW e \in Range(t.desks[x])  PROVE e \in InLists(s)
    BY DEF InLists, Sound
  <2>2. e \in Range(s.desks[x])
    BY DEF Drops
  <2> QED BY <2>2 DEF InLists
<1>3. \A x \in s.monitors : t.shown[x] # None
  BY <1>1 DEF Drops
<1> QED BY <1>1, <1>2, <1>3 DEF Sound

(* And removing a monitor, when it is not the last.                        *)
LEMMA RemovesSound ==
  ASSUME NEW s, Sound(s), NEW m \in s.monitors, s.monitors # {m},
         Range(s.recent.monitors) = Monitor, NEW t, Removes(s, t, m)
  PROVE  Sound(t)
<1>1. /\ Legal(t) /\ t.monitors = s.monitors \ {m}
      /\ s.mon \in s.monitors
      /\ \A x \in s.monitors : x \in Monitor /\ s.shown[x] # None
  BY SoundFacts DEF Removes, Sound
<1>2. InLists(t) \subseteq Desktop
  <2>1. SUFFICES ASSUME NEW x \in Monitor, NEW e \in Range(t.desks[x])  PROVE e \in InLists(s)
    BY DEF InLists, Sound
  <2>2. e \in Range(s.desks[x])
    BY DEF Removes
  <2> QED BY <2>2 DEF InLists
<1>3. \A x \in t.monitors : t.shown[x] # None
  BY <1>1 DEF Removes
<1>4. t.mon # None
  <2>1. PICK x \in s.monitors : x # m
    BY <1>1
  <2>2. t.mon \in t.monitors
    BY <1>1, <2>1 DEF Removes
  <2> QED BY <1>1, <2>2, Things
<1> QED BY <1>1, <1>2, <1>3, <1>4 DEF Sound
-----------------------------------------------------------------------------
(* A change of last_wired alone.                                           *)
Relast(s, l) == [s EXCEPT !.last = l]

(* The monitor that add_monitor() calls the last one touches no list.      *)
LEMMA RelastFacts ==
  ASSUME NEW s, Legal(s), NEW l \in Monitor \union {None}, NEW t, t = Relast(s, l)
  PROVE  /\ Legal(t) /\ t.last = l /\ InTrees(t) = InTrees(s)
         /\ t.monitors = s.monitors /\ t.desks = s.desks /\ t.shown = s.shown
         /\ t.mon = s.mon /\ t.recent = s.recent /\ t.home = s.home /\ Minds(s, t)
<1>1. s \in Records
  BY DEF Legal
<1>2. t \in Records
  BY <1>1, ZenonT(60) DEF Records, Relast
<1>3. /\ t.last = l /\ t.monitors = s.monitors /\ t.desks = s.desks /\ t.shown = s.shown
      /\ t.mon = s.mon /\ t.recent = s.recent /\ t.home = s.home
      /\ t.sticky = s.sticky /\ t.visible = s.visible /\ t.focus = s.focus
      /\ t.mislaid = s.mislaid
  BY <1>1 DEF Records, Relast
<1>4. ListsLegal(t)
  BY <1>3 DEF Legal, ListsLegal
<1>5. TreesLegal(t) /\ InTrees(t) = InTrees(s)
  BY <1>3 DEF Legal, TreesLegal, InTrees, InLists
<1>6. Minds(s, t)
  BY <1>3, AlikeMinds DEF Alike
<1> QED BY <1>2, <1>3, <1>4, <1>5, <1>6 DEF Legal

(* add_monitor()                                                           *)
LEMMA AddMonitorFacts ==
  ASSUME NEW s, Legal(s), NEW m \in Monitor, NEW t, t = AddMonitor(s, m)
  PROVE  /\ Legal(t) /\ t.monitors = s.monitors \union {m} /\ InTrees(t) = InTrees(s)
         /\ t.desks = s.desks /\ t.shown = s.shown /\ t.recent = s.recent /\ t.last = s.last
         /\ t.home = s.home /\ t.mon = IF s.mon = None THEN m ELSE s.mon
         /\ Minds(s, t)
<1>1. s \in Records
  BY DEF Legal
<1>2. PICK M : M = s.monitors \union {m}
  OBVIOUS
<1>3. PICK f : f = IF s.mon = None THEN m ELSE s.mon
  OBVIOUS
<1>4. M \in SUBSET Monitor /\ f \in Monitor \union {None} /\ f \in M \union {None}
  BY <1>1, <1>2, <1>3 DEF Records, Legal, ListsLegal
<1>5. t = [s EXCEPT !.monitors = M, !.mon = f]
  BY <1>2, <1>3 DEF AddMonitor
<1>6. t \in Records
  BY <1>1, <1>4, <1>5, ZenonT(60) DEF Records
<1>7. /\ t.monitors = M /\ t.desks = s.desks /\ t.shown = s.shown /\ t.mon = f
      /\ t.last = s.last /\ t.recent = s.recent /\ t.home = s.home
      /\ t.sticky = s.sticky /\ t.visible = s.visible /\ t.focus = s.focus
      /\ t.mislaid = s.mislaid
  BY <1>1, <1>5 DEF Records
<1>8. ListsLegal(t)
  BY <1>2, <1>4, <1>7 DEF Legal, ListsLegal
<1>9. TreesLegal(t) /\ InTrees(t) = InTrees(s)
  BY <1>7 DEF Legal, TreesLegal, InTrees, InLists
<1>10. Minds(s, t)
  BY <1>7, AlikeMinds DEF Alike
<1> QED BY <1>2, <1>3, <1>6, <1>7, <1>8, <1>9, <1>10 DEF Legal

-----------------------------------------------------------------------------
(* What the first loop of update_monitors() has done when D are the        *)
(* monitors it has seen.                                                   *)
Scanned(s, t, screen, D) ==
  /\ Legal(t) /\ InTrees(t) = InTrees(s) /\ t.home = s.home /\ Minds(s, t)
  /\ t.desks = s.desks /\ t.shown = s.shown /\ t.recent = s.recent /\ t.mon = s.mon
  /\ t.monitors = s.monitors \union (screen.on \intersect D)
  /\ t.last \in (screen.on \intersect D) \union {None}
  /\ t.last = None => screen.on \intersect D = {}

ScanTurn(t, m, screen) == IF m \in screen.on THEN Light(t, m) ELSE t

(* One turn of the scan: a monitor that the screen shows and that is new   *)
(* joins without desktops.                                                 *)
LEMMA ScanTurnFacts ==
  ASSUME NEW s, Sound(s), NEW screen, NEW D, NEW t, Scanned(s, t, screen, D),
         NEW m \in Monitor, NEW u, u = ScanTurn(t, m, screen)
  PROVE  Scanned(s, u, screen, D \union {m})
<1>1. CASE m \notin screen.on
  <2>1. u = t /\ screen.on \intersect (D \union {m}) = screen.on \intersect D
    BY <1>1 DEF ScanTurn
  <2> QED BY <2>1 DEF Scanned
<1>2. CASE m \in screen.on
  <2>1. PICK v : v = IF m \in t.monitors THEN t ELSE AddMonitor(t, m)
    OBVIOUS
  <2>2. u = Relast(v, m)
    BY <1>2, <2>1 DEF ScanTurn, Light, Relast
  <2>3. t.mon # None /\ m # None
    BY Things DEF Scanned, Sound
  <2>4. /\ Legal(v) /\ v.monitors = t.monitors \union {m} /\ InTrees(v) = InTrees(t)
        /\ v.desks = t.desks /\ v.shown = t.shown /\ v.recent = t.recent /\ v.mon = t.mon
        /\ v.home = t.home /\ Minds(t, v)
    <3>1. Legal(t)
      BY DEF Scanned
    <3>2. CASE m \in t.monitors
      BY <2>1, <3>1, <3>2, MindsSelf
    <3>3. CASE m \notin t.monitors
      BY <2>1, <2>3, <3>1, <3>3, AddMonitorFacts
    <3> QED BY <3>2, <3>3
  <2>5. /\ Legal(u) /\ u.last = m /\ InTrees(u) = InTrees(v)
        /\ u.monitors = v.monitors /\ u.desks = v.desks /\ u.shown = v.shown
        /\ u.mon = v.mon /\ u.recent = v.recent /\ u.home = v.home /\ Minds(v, u)
    BY <2>2, <2>4, RelastFacts
  <2>6. u.monitors = s.monitors \union (screen.on \intersect (D \union {m}))
    BY <1>2, <2>4, <2>5 DEF Scanned
  <2>7. Minds(s, u)
    BY <2>4, <2>5, MindsOn DEF Scanned
  <2> QED BY <1>2, <2>3, <2>4, <2>5, <2>6, <2>7 DEF Scanned
<1> QED BY <1>1, <1>2

(* The scan of the screen.                                                 *)
LEMMA ScanLoop ==
  ASSUME NEW s, Sound(s), Range(s.recent.monitors) = Monitor, s.last = None, NEW screen,
         NEW t, t = Scan(s, screen)
  PROVE  Scanned(s, t, screen, Monitor)
<1> DEFINE q == s.recent.monitors
           n == Len(q)
           Done(i) == {q[j] : j \in 1..i}
           R == [i \in 0..n |-> {u \in Records : Scanned(s, u, screen, Done(i))}]
           Step(u, i) == ScanTurn(u, q[i], screen)
           F == [i \in 1..n |-> [u \in Records |-> IF u \in R[i - 1] THEN Step(u, i) ELSE u]]
           Rec(f) == f = [i \in 0..n |-> IF i = 0 THEN s ELSE Step(f[i - 1], i)]
           g == CHOOSE f : Rec(f)
<1>0. n \in Nat /\ Range(q) = {q[i] : i \in 1..n}
  <2>1. q \in Seq(Monitor)
    BY DEF Sound, Legal, Records
  <2> QED BY <2>1, LenProperties DEF Range
<1>1. t = g[n]
  BY DEF Scan, ScanTurn, Loop
<1>3. Done(0) = {} /\ Done(n) = Range(q)
  BY <1>0
<1>4. \A i \in 1..n : q[i] \in Range(q) /\ Done(i) = Done(i - 1) \union {q[i]}
  <2>1. ASSUME NEW i \in 1..n  PROVE q[i] \in Range(q) /\ Done(i) = Done(i - 1) \union {q[i]}
    <3>1. /\ \A j \in 1..(i - 1) : j \in 1..i
          /\ \A j \in 1..i : j \in 1..(i - 1) \/ j = i
          /\ i \in 1..i
      BY <1>0
    <3> QED BY <1>0, <3>1
  <2> QED BY <2>1
<1> HIDE DEF q, n, Done, g
<1>5. s \in R[0]
  <2>1. PICK D : D = {}
    OBVIOUS
  <2>2. s \in Records /\ Scanned(s, s, screen, D)
    BY <2>1, MindsSelf DEF Sound, Legal, Scanned
  <2> QED BY <1>0, <1>3, <2>1, <2>2
<1>6. ASSUME NEW i \in 1..n, NEW u \in R[i - 1]  PROVE Step(u, i) \in R[i]
  <2>1. i - 1 \in 0..n /\ i \in 0..n
    BY <1>0
  <2>2. PICK v : v = Step(u, i)
    OBVIOUS
  <2>3. PICK D : D = Done(i - 1)
    OBVIOUS
  <2>4. PICK d : d = q[i]
    OBVIOUS
  <2>5. Scanned(s, u, screen, D)
    BY <1>6, <2>1, <2>3
  <2>6. d \in Range(q) /\ v = ScanTurn(u, d, screen)
    BY <1>4, <2>2, <2>3, <2>4
  <2>7. Scanned(s, v, screen, D \union {d}) /\ v \in Records
    <3>1. d \in Monitor
      BY <2>6 DEF q
    <3>2. Scanned(s, v, screen, D \union {d})
      BY <2>5, <2>6, <3>1, ScanTurnFacts
    <3> QED BY <3>2 DEF Scanned, Legal
  <2> QED BY <1>4, <2>1, <2>2, <2>3, <2>4, <2>7
<1>7. R \in [0..n -> SUBSET Records]
  OBVIOUS
<1> HIDE DEF R, Step
<1>8. F \in [1..n -> [Records -> Records]] /\ \A i \in 1..n : \A u \in R[i - 1] : F[i][u] = Step(u, i)
  <2>1. \A i \in 1..n : i \in 0..n /\ i - 1 \in 0..n
    BY <1>0
  <2> QED BY <1>6, <1>7, <2>1
<1> HIDE DEF F
<1>9. PICK f : RunsThrough(f, n, Records, R, s, F)
  <2>1. Turns(n, Records, R, F)
    BY <1>0, <1>6, <1>7, <1>8 DEF Turns
  <2> QED BY <1>5, <2>1, LoopRunsOn
<1>10. Rec(g)
  <2>1. \A i \in 0..n : i # 0 => i \in 1..n /\ i - 1 \in 0..n
    BY <1>0
  <2>2. Rec(f)
    BY <1>8, <1>9, <2>1 DEF Runs, RunsThrough
  <2> HIDE DEF Rec
  <2> QED BY <2>2 DEF g
<1>11. g[0] = s /\ \A i \in 1..n : g[i] = Step(g[i - 1], i)
  <2>1. 0 \in 0..n /\ \A i \in 1..n : i \in 0..n /\ i # 0
    BY <1>0
  <2> QED BY <1>10, <2>1
<1> HIDE DEF Rec
<1>12. g[n] \in R[n]
  <2>1. g[0] \in R[0] /\ \A i \in 1..n : g[i - 1] \in R[i - 1] => g[i] \in R[i]
    BY <1>5, <1>6, <1>11
  <2> QED BY <1>0, <2>1, LoopHolds
<1>13. n \in 0..n
  BY <1>0
<1>14. Scanned(s, t, screen, Done(n))
  BY <1>1, <1>12, <1>13 DEF R
<1> QED BY <1>3, <1>14 DEF q
-----------------------------------------------------------------------------
(* The window n has been lost with a monitor that was removed.             *)
Lost(s, t, n) ==
  /\ \E x \in Monitor \ t.monitors : s.home[n] \in Range(s.desks[x])
  /\ s.home[n] \in Range(s.recent.desktops) \ InLists(t)

(* No window is lost otherwise; while there is no last_wired the monitors  *)
(* that are not wired take nothing in.                                     *)
Spares(s, t, screen) ==
  /\ \A n \in InTrees(s) \ InTrees(t) : Lost(s, t, n)
  /\ t.last = None =>
       \A x \in Monitor \ screen.wired :
         /\ Range(t.desks[x]) \subseteq Range(s.desks[x])
         /\ \A n \in InTrees(s) : t.home[n] \in Range(t.desks[x]) => t.home[n] = s.home[n]

(* What is lost remains lost.                                              *)
LEMMA StillLost ==
  ASSUME NEW s, NEW t, NEW u, u.monitors \subseteq t.monitors, InLists(u) \subseteq InLists(t),
         NEW n, Lost(s, t, n)
  PROVE  Lost(s, u, n)
BY DEF Lost

(* What holds between the loops of update_monitors() from there on: a      *)
(* monitor with desktops shows one, the focused one does, and those that   *)
(* do not are new; last_wired exists, or one that is wired shows a desktop;*)
(* and no window has been lost but with its monitor.                       *)
Held(s, t, screen) ==
  /\ Legal(t) /\ t.recent = s.recent /\ Minds(s, t)
  /\ InLists(t) \subseteq Range(s.recent.desktops)
  /\ \A x \in Monitor : Range(t.desks[x]) # {} => t.shown[x] # None
  /\ t.mon \in t.monitors /\ t.shown[t.mon] # None
  /\ \A x \in t.monitors : t.shown[x] = None => x \in screen.on \ s.monitors
  /\ t.last # None => t.last \in t.monitors \intersect screen.wired
  /\ t.last = None => \E x \in t.monitors \intersect screen.wired : t.shown[x] # None
  /\ Spares(s, t, screen)

(* A monitor shows something exactly when it has desktops.                 *)
LEMMA HeldFacts ==
  ASSUME NEW s, NEW screen, NEW t, Held(s, t, screen)
  PROVE  \A x \in t.monitors : /\ x \in Monitor
                               /\ t.shown[x] # None <=> Range(t.desks[x]) # {}
BY DEF Held, Legal, ListsLegal, Records

(* A monitor gives its desktops to m and is removed.                       *)
LEMMA AbsorbedHeld ==
  ASSUME NEW s, Range(s.recent.monitors) = Monitor, NEW screen, NEW t, Held(s, t, screen),
         NEW mb \in t.monitors, NEW m \in t.monitors \intersect screen.wired, m # mb, t.last # mb,
         mb \in screen.wired \/ t.last # None,
         NEW u, u = RemoveMonitor(MergeMonitors(t, mb, m), mb)
  PROVE  Held(s, u, screen)
<1>1. /\ Legal(t) /\ m \in t.monitors /\ m \in Monitor /\ mb \in Monitor
      /\ \A x \in t.monitors : x \in Monitor /\ (t.shown[x] # None <=> Range(t.desks[x]) # {})
  BY HeldFacts DEF Held
<1>2. PICK v : v = MergeMonitors(t, mb, m)
  OBVIOUS
<1>3. Empties(t, v, mb, m, {})
  BY <1>1, <1>2, MergeMonitorsEmpties
<1>4. /\ Legal(v) /\ v.monitors = t.monitors /\ v.last = t.last /\ v.recent = t.recent
      /\ \A x \in Monitor \ {mb, m} : Range(v.desks[x]) = Range(t.desks[x])
      /\ Range(v.desks[mb]) = {}
      /\ Range(v.desks[m]) = Range(t.desks[m]) \union Range(t.desks[mb])
      /\ \A x \in Monitor \ {mb} : t.shown[x] # None => v.shown[x] # None
      /\ Range(t.desks[mb]) # {} => v.shown[m] # None
      /\ v.mon \in {t.mon, mb} \/ (v.mon \in v.monitors /\ v.shown[v.mon] # None)
  BY <1>3 DEF Empties
<1>5. Removes(v, u, mb)
  BY <1>2, <1>4, RemoveMonitorRemoves
<1>6. /\ Legal(u) /\ u.monitors = t.monitors \ {mb} /\ u.last = t.last /\ u.recent = t.recent
      /\ \A x \in Monitor \ {mb} : Range(u.desks[x]) = Range(v.desks[x])
      /\ Range(u.desks[mb]) = {}
      /\ \A x \in Monitor \ {mb} : v.shown[x] # None => u.shown[x] # None
  BY <1>4, <1>5 DEF Removes
<1>7. u.mon \in u.monitors /\ u.shown[u.mon] # None
  <2>1. CASE v.mon # mb
    <3>1. u.mon = v.mon /\ v.mon \in t.monitors /\ v.shown[v.mon] # None
      <4>1. t.mon \in t.monitors /\ t.shown[t.mon] # None
        BY DEF Held
      <4> QED BY <1>1, <1>4, <1>5, <2>1, <4>1 DEF Removes
    <3> QED BY <1>1, <1>6, <2>1, <3>1
  <2>2. CASE v.mon = mb
    <3>1. PICK x \in t.monitors \ {mb} : v.shown[x] # None
      <4>1. t.mon \in t.monitors /\ t.shown[t.mon] # None
        BY DEF Held
      <4>2. CASE t.mon # mb
        BY <1>1, <1>4, <4>1, <4>2
      <4>3. CASE t.mon = mb
        BY <1>1, <1>4, <4>1, <4>3
      <4> QED BY <4>2, <4>3
    <3>2. x \in u.monitors /\ x \in Range(v.recent.monitors)
      BY <1>1, <1>4, <1>6, <3>1 DEF Held
    <3> QED BY <1>5, <2>2, <3>1, <3>2 DEF Removes
  <2> QED BY <2>1, <2>2
<1>8. \A x \in Monitor \ {mb} : t.shown[x] # None => u.shown[x] # None
  BY <1>4, <1>6
<1>9. \A x \in Monitor : Range(u.desks[x]) # {} => u.shown[x] # None
  <2>1. CASE Range(t.desks[mb]) # {}
    BY <1>1, <1>4, <1>6, <1>8, <2>1 DEF Held
  <2>2. CASE Range(t.desks[mb]) = {}
    BY <1>1, <1>4, <1>6, <1>8, <2>2 DEF Held
  <2> QED BY <2>1, <2>2
<1>10. InLists(u) \subseteq Range(s.recent.desktops)
  <2>1. SUFFICES ASSUME NEW x \in Monitor, NEW d \in Range(u.desks[x])  PROVE d \in InLists(t)
    BY DEF InLists, Held
  <2>2. d \in Range(t.desks[x]) \/ d \in Range(t.desks[mb])
    BY <1>4, <1>6
  <2> QED BY <1>1, <2>2 DEF InLists
<1>11. \A x \in u.monitors : u.shown[x] = None => x \in screen.on \ s.monitors
  BY <1>1, <1>6, <1>8 DEF Held
<1>12. u.last # None => u.last \in u.monitors \intersect screen.wired
  BY <1>6 DEF Held
<1>13. u.last = None => \E x \in u.monitors \intersect screen.wired : u.shown[x] # None
  <2>1. SUFFICES ASSUME u.last = None  PROVE \E x \in u.monitors \intersect screen.wired : u.shown[x] # None
    OBVIOUS
  <2>2. PICK x \in t.monitors \intersect screen.wired : t.shown[x] # None
    BY <1>6, <2>1 DEF Held
  <2>3. CASE x # mb
    BY <1>1, <1>6, <1>8, <2>2, <2>3
  <2>4. CASE x = mb
    BY <1>1, <1>4, <1>6, <2>2, <2>4
  <2> QED BY <2>3, <2>4
<1>14. InLists(u) \subseteq InLists(t)
  <2>1. SUFFICES ASSUME NEW x \in Monitor, NEW d \in Range(u.desks[x])  PROVE d \in InLists(t)
    BY DEF InLists
  <2>2. d \in Range(t.desks[x]) \/ d \in Range(t.desks[mb])
    BY <1>4, <1>6
  <2> QED BY <1>1, <2>2 DEF InLists
<1>15. \A n \in Node : u.home[n] = v.home[n]
  BY <1>4, <1>5 DEF Removes
<1>16. \A n \in InTrees(s) \ InTrees(u) : Lost(s, u, n)
  <2>1. InTrees(u) = InTrees(t)
    BY <1>3, <1>15 DEF Empties, InTrees
  <2> QED BY <1>6, <1>14, <2>1, StillLost DEF Held, Spares
<1>17. ASSUME u.last = None, NEW x \in Monitor \ screen.wired
       PROVE  /\ Range(u.desks[x]) \subseteq Range(s.desks[x])
              /\ \A n \in InTrees(s) : u.home[n] \in Range(u.desks[x]) => u.home[n] = s.home[n]
  <2>1. t.last = None /\ x \notin {m, mb}
    BY <1>6, <1>17
  <2>2. Range(u.desks[x]) = Range(v.desks[x]) /\ Range(v.desks[x]) = Range(t.desks[x])
    BY <1>4, <1>6, <2>1
  <2>3. /\ Range(t.desks[x]) \subseteq Range(s.desks[x])
        /\ \A n \in InTrees(s) : t.home[n] \in Range(t.desks[x]) => t.home[n] = s.home[n]
    BY <2>1 DEF Held, Spares
  <2>4. ASSUME NEW n \in InTrees(s), u.home[n] \in Range(u.desks[x])  PROVE u.home[n] = s.home[n]
    <3>1. n \in Node /\ u.home[n] = v.home[n]
      BY <1>15 DEF InTrees
    <3>2. \A d \in Range(v.desks[x]) : d \notin Range(v.desks[mb]) \union Range(v.desks[m])
      BY <1>1, <1>4, <2>1 DEF Legal, ListsLegal
    <3>3. v.home[n] = t.home[n]
      BY <1>3, <2>2, <2>4, <3>1, <3>2 DEF Empties, MovesIn
    <3> QED BY <2>2, <2>3, <2>4, <3>1, <3>3
  <2> QED BY <2>2, <2>3, <2>4
<1>18. Spares(s, u, screen)
  BY <1>16, <1>17 DEF Spares
<1>19. Minds(s, u)
  <2>1. Minds(s, t) /\ Minds(t, v) /\ Minds(v, u)
    BY <1>2, <1>3, <1>4, RemoveMonitorRemoves DEF Held, Empties
  <2> QED BY <2>1, MindsOn
<1> QED BY <1>6, <1>7, <1>9, <1>10, <1>11, <1>12, <1>13, <1>18, <1>19 DEF Held

(* A monitor that is not wired is removed, its desktops too when there is  *)
(* no monitor to take them.                                                *)
LEMMA RemovedHeld ==
  ASSUME NEW s, Range(s.recent.monitors) = Monitor, NEW screen, NEW t, Held(s, t, screen),
         NEW mb \in t.monitors, mb \notin screen.wired, t.last = None,
         NEW u, u = RemoveMonitor(t, mb)
  PROVE  Held(s, u, screen)
<1>1. /\ Legal(t) /\ mb \in Monitor
      /\ \A x \in t.monitors : x \in Monitor /\ (t.shown[x] # None <=> Range(t.desks[x]) # {})
  BY HeldFacts DEF Held
<1>2. Removes(t, u, mb)
  BY <1>1, RemoveMonitorRemoves
<1>3. /\ Legal(u) /\ u.monitors = t.monitors \ {mb} /\ u.last = t.last /\ u.recent = t.recent
      /\ \A x \in Monitor \ {mb} : Range(u.desks[x]) = Range(t.desks[x])
      /\ Range(u.desks[mb]) = {}
      /\ \A x \in Monitor \ {mb} : t.shown[x] # None => u.shown[x] # None
  BY <1>2 DEF Removes
<1>4. PICK x \in t.monitors \intersect screen.wired : t.shown[x] # None
  BY DEF Held
<1>5. x \in u.monitors /\ x # mb /\ x \in Monitor /\ u.shown[x] # None
  BY <1>1, <1>3, <1>4
<1>6. u.mon \in u.monitors /\ u.shown[u.mon] # None
  <2>1. CASE t.mon # mb
    <3>1. u.mon = t.mon /\ t.mon \in t.monitors /\ t.shown[t.mon] # None
      BY <1>2, <2>1 DEF Removes, Held
    <3> QED BY <1>1, <1>3, <2>1, <3>1
  <2>2. CASE t.mon = mb
    <3>1. x \in Range(t.recent.monitors)
      BY <1>5 DEF Held
    <3> QED BY <1>2, <1>4, <1>5, <2>2, <3>1 DEF Removes
  <2> QED BY <2>1, <2>2
<1>7. \A y \in Monitor : Range(u.desks[y]) # {} => u.shown[y] # None
  BY <1>3 DEF Held
<1>8. InLists(u) \subseteq Range(s.recent.desktops)
  <2>1. SUFFICES ASSUME NEW y \in Monitor, NEW d \in Range(u.desks[y])  PROVE d \in InLists(t)
    BY DEF InLists, Held
  <2>2. d \in Range(t.desks[y])
    BY <1>3
  <2> QED BY <2>2 DEF InLists
<1>9. \A y \in u.monitors : u.shown[y] = None => y \in screen.on \ s.monitors
  BY <1>1, <1>3 DEF Held
<1>10. /\ InLists(u) \subseteq InLists(t)
       /\ \A n \in Node : u.home[n] = IF t.home[n] \in Range(t.desks[mb]) THEN None ELSE t.home[n]
  <2>1. \A y \in Monitor : Range(u.desks[y]) \subseteq Range(t.desks[y])
    BY <1>3
  <2> QED BY <1>2, <2>1 DEF InLists, Removes
<1>11. ASSUME NEW n \in InTrees(s) \ InTrees(u)  PROVE Lost(s, u, n)
  <2>0. n \in Node /\ u.home[n] = None
    BY <1>11 DEF InTrees
  <2>1. CASE n \notin InTrees(t)
    BY <1>3, <1>10, <1>11, <2>1, StillLost DEF Held, Spares
  <2>2. CASE n \in InTrees(t)
    <3>1. t.home[n] \in Range(t.desks[mb])
      BY <1>10, <2>0, <2>2 DEF InTrees
    <3>2. t.home[n] = s.home[n] /\ Range(t.desks[mb]) \subseteq Range(s.desks[mb])
      BY <1>1, <1>11, <3>1 DEF Held, Spares
    <3>3. s.home[n] \in Range(s.recent.desktops)
      BY <1>1, <3>1, <3>2 DEF Held, InLists
    <3>4. ASSUME NEW y \in Monitor  PROVE s.home[n] \notin Range(u.desks[y])
      <4>1. CASE y = mb
        BY <1>3, <4>1
      <4>2. CASE y # mb
        BY <1>1, <1>3, <3>1, <3>2, <4>2 DEF Legal, ListsLegal
      <4> QED BY <4>1, <4>2
    <3>5. mb \in Monitor \ u.monitors /\ s.home[n] \in Range(s.desks[mb])
      BY <1>1, <1>3, <3>1, <3>2
    <3> QED BY <3>3, <3>4, <3>5 DEF Lost, InLists
  <2> QED BY <2>1, <2>2
<1>12. ASSUME NEW y \in Monitor \ screen.wired
       PROVE  /\ Range(u.desks[y]) \subseteq Range(s.desks[y])
              /\ \A n \in InTrees(s) : u.home[n] \in Range(u.desks[y]) => u.home[n] = s.home[n]
  <2>1. Range(u.desks[y]) \subseteq Range(t.desks[y]) /\ None \notin Range(u.desks[y])
    BY <1>3, ListedFacts
  <2>2. /\ Range(t.desks[y]) \subseteq Range(s.desks[y])
        /\ \A n \in InTrees(s) : t.home[n] \in Range(t.desks[y]) => t.home[n] = s.home[n]
    BY DEF Held, Spares
  <2>3. ASSUME NEW n \in InTrees(s), u.home[n] \in Range(u.desks[y])  PROVE u.home[n] = s.home[n]
    <3>1. n \in Node /\ u.home[n] # None
      BY <2>1, <2>3 DEF InTrees
    <3>2. u.home[n] = t.home[n]
      BY <1>10, <3>1
    <3> QED BY <2>1, <2>2, <2>3, <3>2
  <2> QED BY <2>1, <2>2, <2>3
<1>13. Spares(s, u, screen)
  BY <1>11, <1>12 DEF Spares
<1>14. Minds(s, u)
  <2>1. Minds(s, t) /\ Minds(t, u)
    BY <1>1, RemoveMonitorRemoves DEF Held
  <2> QED BY <2>1, MindsOn
<1> QED BY <1>3, <1>4, <1>5, <1>6, <1>7, <1>8, <1>9, <1>13, <1>14 DEF Held

(* The loops over the monitors that are covered, ...                       *)
LEMMA AbsorbHeld ==
  ASSUME NEW s, Range(s.recent.monitors) = Monitor, NEW screen, NEW t, Held(s, t, screen),
         NEW m, NEW mb, NEW u, u = Absorb(t, m, mb, screen)
  PROVE  Held(s, u, screen)
<1>1. CASE m # mb /\ {m, mb} \subseteq t.monitors \intersect screen.wired
           /\ <<m, mb>> \in screen.covers
  <2>1. PICK l : l = IF t.last = mb THEN m ELSE t.last
    OBVIOUS
  <2>2. PICK v : v = Relast(t, l)
    OBVIOUS
  <2>3. u = RemoveMonitor(MergeMonitors(v, mb, m), mb)
    BY <1>1, <2>1, <2>2 DEF Absorb, Relast
  <2>4. /\ Legal(t) /\ m \in t.monitors /\ m \in Monitor /\ mb \in Monitor /\ m # None /\ mb # None
        /\ l \in Monitor \union {None} /\ l # mb
    BY SMTT(60), <1>1, <2>1, HeldFacts, Things DEF Held, Legal, Records
  <2>5. /\ Legal(v) /\ v.last = l /\ v.monitors = t.monitors /\ v.desks = t.desks
        /\ v.shown = t.shown /\ v.mon = t.mon /\ v.recent = t.recent
        /\ v.home = t.home /\ InTrees(v) = InTrees(t) /\ Minds(t, v)
    BY <2>2, <2>4, RelastFacts
  <2>6. Held(s, v, screen)
    <3>1. InLists(v) = InLists(t)
      BY <2>5 DEF InLists
    <3>2. v.last # None => v.last \in v.monitors \intersect screen.wired
      BY <1>1, <2>1, <2>5 DEF Held
    <3>3. v.last = None => t.last = None
      BY <2>1, <2>4, <2>5
    <3>4. Spares(s, t, screen)
      BY DEF Held
    <3>5. Spares(s, v, screen)
      BY <2>5, <3>1, <3>3, <3>4 DEF Spares, Lost
    <3>6. Minds(s, v)
      BY <2>5, MindsOn DEF Held
    <3> QED BY <2>5, <3>1, <3>2, <3>3, <3>5, <3>6 DEF Held
  <2>7. /\ mb \in v.monitors \intersect screen.wired /\ m \in v.monitors \intersect screen.wired
        /\ m # mb /\ v.last # mb
    BY <1>1, <2>4, <2>5
  <2> QED BY <2>3, <2>6, <2>7, AbsorbedHeld
<1>2. CASE ~(m # mb /\ {m, mb} \subseteq t.monitors \intersect screen.wired
             /\ <<m, mb>> \in screen.covers)
  BY <1>2 DEF Absorb
<1> QED BY <1>1, <1>2

(* One monitor absorbs those that overlap it.                              *)
LEMMA AbsorbAllLoop ==
  ASSUME NEW r, Range(r.recent.monitors) = Monitor, NEW screen, NEW s, Held(r, s, screen), NEW m,
         NEW t, t = AbsorbAll(s, m, screen)
  PROVE  Held(r, t, screen)
<1> DEFINE q == s.recent.monitors
           n == Len(q)
           Done(i) == {q[j] : j \in 1..i}
           R == [i \in 0..n |-> {u \in Records : Held(r, u, screen)}]
           Step(u, i) == Absorb(u, m, q[i], screen)
           F == [i \in 1..n |-> [u \in Records |-> IF u \in R[i - 1] THEN Step(u, i) ELSE u]]
           Rec(f) == f = [i \in 0..n |-> IF i = 0 THEN s ELSE Step(f[i - 1], i)]
           g == CHOOSE f : Rec(f)
<1>0. n \in Nat /\ Range(q) = {q[i] : i \in 1..n}
  <2>1. q \in Seq(Monitor)
    BY DEF Held, Legal, Records
  <2> QED BY <2>1, LenProperties DEF Range
<1>1. t = g[n]
  BY DEF AbsorbAll, Loop
<1>3. Done(0) = {} /\ Done(n) = Range(q)
  BY <1>0
<1>4. \A i \in 1..n : q[i] \in Range(q) /\ Done(i) = Done(i - 1) \union {q[i]}
  <2>1. ASSUME NEW i \in 1..n  PROVE q[i] \in Range(q) /\ Done(i) = Done(i - 1) \union {q[i]}
    <3>1. /\ \A j \in 1..(i - 1) : j \in 1..i
          /\ \A j \in 1..i : j \in 1..(i - 1) \/ j = i
          /\ i \in 1..i
      BY <1>0
    <3> QED BY <1>0, <3>1
  <2> QED BY <2>1
<1> HIDE DEF q, n, Done, g
<1>5. s \in R[0]
  <2>1. PICK D : D = {}
    OBVIOUS
  <2>2. s \in Records /\ Held(r, s, screen)
    BY DEF Held, Legal
  <2> QED BY <1>0, <1>3, <2>1, <2>2
<1>6. ASSUME NEW i \in 1..n, NEW u \in R[i - 1]  PROVE Step(u, i) \in R[i]
  <2>1. i - 1 \in 0..n /\ i \in 0..n
    BY <1>0
  <2>2. PICK v : v = Step(u, i)
    OBVIOUS
  <2>3. PICK D : D = Done(i - 1)
    OBVIOUS
  <2>4. PICK d : d = q[i]
    OBVIOUS
  <2>5. Held(r, u, screen)
    BY <1>6, <2>1, <2>3
  <2>6. d \in Range(q) /\ v = Absorb(u, m, d, screen)
    BY <1>4, <2>2, <2>3, <2>4
  <2>7. Held(r, v, screen) /\ v \in Records
    <3>1. Held(r, v, screen)
      BY <2>5, <2>6, AbsorbHeld
    <3> QED BY <3>1 DEF Held, Legal
  <2> QED BY <1>4, <2>1, <2>2, <2>3, <2>4, <2>7
<1>7. R \in [0..n -> SUBSET Records]
  OBVIOUS
<1> HIDE DEF R, Step
<1>8. F \in [1..n -> [Records -> Records]] /\ \A i \in 1..n : \A u \in R[i - 1] : F[i][u] = Step(u, i)
  <2>1. \A i \in 1..n : i \in 0..n /\ i - 1 \in 0..n
    BY <1>0
  <2> QED BY <1>6, <1>7, <2>1
<1> HIDE DEF F
<1>9. PICK f : RunsThrough(f, n, Records, R, s, F)
  <2>1. Turns(n, Records, R, F)
    BY <1>0, <1>6, <1>7, <1>8 DEF Turns
  <2> QED BY <1>5, <2>1, LoopRunsOn
<1>10. Rec(g)
  <2>1. \A i \in 0..n : i # 0 => i \in 1..n /\ i - 1 \in 0..n
    BY <1>0
  <2>2. Rec(f)
    BY <1>8, <1>9, <2>1 DEF Runs, RunsThrough
  <2> HIDE DEF Rec
  <2> QED BY <2>2 DEF g
<1>11. g[0] = s /\ \A i \in 1..n : g[i] = Step(g[i - 1], i)
  <2>1. 0 \in 0..n /\ \A i \in 1..n : i \in 0..n /\ i # 0
    BY <1>0
  <2> QED BY <1>10, <2>1
<1> HIDE DEF Rec
<1>12. g[n] \in R[n]
  <2>1. g[0] \in R[0] /\ \A i \in 1..n : g[i - 1] \in R[i - 1] => g[i] \in R[i]
    BY <1>5, <1>6, <1>11
  <2> QED BY <1>0, <2>1, LoopHolds
<1>13. n \in 0..n
  BY <1>0
<1>14. Held(r, t, screen)
  BY <1>1, <1>12, <1>13 DEF R
<1> QED BY <1>14

(* The loops of update_monitors() over the overlapping monitors.           *)
LEMMA MergeOverlappingLoop ==
  ASSUME NEW r, Range(r.recent.monitors) = Monitor, NEW screen, NEW s, Held(r, s, screen),
         NEW t, t = MergeOverlapping(s, screen)
  PROVE  Held(r, t, screen)
<1> DEFINE q == s.recent.monitors
           n == Len(q)
           Done(i) == {q[j] : j \in 1..i}
           R == [i \in 0..n |-> {u \in Records : Held(r, u, screen)}]
           Step(u, i) == AbsorbAll(u, q[i], screen)
           F == [i \in 1..n |-> [u \in Records |-> IF u \in R[i - 1] THEN Step(u, i) ELSE u]]
           Rec(f) == f = [i \in 0..n |-> IF i = 0 THEN s ELSE Step(f[i - 1], i)]
           g == CHOOSE f : Rec(f)
<1>0. n \in Nat /\ Range(q) = {q[i] : i \in 1..n}
  <2>1. q \in Seq(Monitor)
    BY DEF Held, Legal, Records
  <2> QED BY <2>1, LenProperties DEF Range
<1>1. t = g[n]
  BY DEF MergeOverlapping, Loop
<1>3. Done(0) = {} /\ Done(n) = Range(q)
  BY <1>0
<1>4. \A i \in 1..n : q[i] \in Range(q) /\ Done(i) = Done(i - 1) \union {q[i]}
  <2>1. ASSUME NEW i \in 1..n  PROVE q[i] \in Range(q) /\ Done(i) = Done(i - 1) \union {q[i]}
    <3>1. /\ \A j \in 1..(i - 1) : j \in 1..i
          /\ \A j \in 1..i : j \in 1..(i - 1) \/ j = i
          /\ i \in 1..i
      BY <1>0
    <3> QED BY <1>0, <3>1
  <2> QED BY <2>1
<1> HIDE DEF q, n, Done, g
<1>5. s \in R[0]
  <2>1. PICK D : D = {}
    OBVIOUS
  <2>2. s \in Records /\ Held(r, s, screen)
    BY DEF Held, Legal
  <2> QED BY <1>0, <1>3, <2>1, <2>2
<1>6. ASSUME NEW i \in 1..n, NEW u \in R[i - 1]  PROVE Step(u, i) \in R[i]
  <2>1. i - 1 \in 0..n /\ i \in 0..n
    BY <1>0
  <2>2. PICK v : v = Step(u, i)
    OBVIOUS
  <2>3. PICK D : D = Done(i - 1)
    OBVIOUS
  <2>4. PICK d : d = q[i]
    OBVIOUS
  <2>5. Held(r, u, screen)
    BY <1>6, <2>1, <2>3
  <2>6. d \in Range(q) /\ v = AbsorbAll(u, d, screen)
    BY <1>4, <2>2, <2>3, <2>4
  <2>7. Held(r, v, screen) /\ v \in Records
    <3>1. Held(r, v, screen)
      BY <2>5, <2>6, AbsorbAllLoop
    <3> QED BY <3>1 DEF Held, Legal
  <2> QED BY <1>4, <2>1, <2>2, <2>3, <2>4, <2>7
<1>7. R \in [0..n -> SUBSET Records]
  OBVIOUS
<1> HIDE DEF R, Step
<1>8. F \in [1..n -> [Records -> Records]] /\ \A i \in 1..n : \A u \in R[i - 1] : F[i][u] = Step(u, i)
  <2>1. \A i \in 1..n : i \in 0..n /\ i - 1 \in 0..n
    BY <1>0
  <2> QED BY <1>6, <1>7, <2>1
<1> HIDE DEF F
<1>9. PICK f : RunsThrough(f, n, Records, R, s, F)
  <2>1. Turns(n, Records, R, F)
    BY <1>0, <1>6, <1>7, <1>8 DEF Turns
  <2> QED BY <1>5, <2>1, LoopRunsOn
<1>10. Rec(g)
  <2>1. \A i \in 0..n : i # 0 => i \in 1..n /\ i - 1 \in 0..n
    BY <1>0
  <2>2. Rec(f)
    BY <1>8, <1>9, <2>1 DEF Runs, RunsThrough
  <2> HIDE DEF Rec
  <2> QED BY <2>2 DEF g
<1>11. g[0] = s /\ \A i \in 1..n : g[i] = Step(g[i - 1], i)
  <2>1. 0 \in 0..n /\ \A i \in 1..n : i \in 0..n /\ i # 0
    BY <1>0
  <2> QED BY <1>10, <2>1
<1> HIDE DEF Rec
<1>12. g[n] \in R[n]
  <2>1. g[0] \in R[0] /\ \A i \in 1..n : g[i - 1] \in R[i - 1] => g[i] \in R[i]
    BY <1>5, <1>6, <1>11
  <2> QED BY <1>0, <2>1, LoopHolds
<1>13. n \in 0..n
  BY <1>0
<1>14. Held(r, t, screen)
  BY <1>1, <1>12, <1>13 DEF R
<1> QED BY <1>14

(* ... and over those that are not wired.                                  *)
UnpluggedTurn(t, m, screen) ==
  IF m \in t.monitors \ screen.wired THEN RemoveMonitor(MergeMonitors(t, m, t.last), m) ELSE t

(* One turn of its loop over the unplugged monitors.                       *)
LEMMA UnpluggedHeld ==
  ASSUME NEW s, Range(s.recent.monitors) = Monitor, NEW screen, NEW t, Held(s, t, screen),
         NEW m, NEW u, u = UnpluggedTurn(t, m, screen)
  PROVE  Held(s, u, screen)
<1>1. CASE m \notin t.monitors \ screen.wired
  BY <1>1 DEF UnpluggedTurn
<1>2. CASE m \in t.monitors \ screen.wired
  <2>1. u = RemoveMonitor(MergeMonitors(t, m, t.last), m)
    BY <1>2 DEF UnpluggedTurn
  <2>2. PICK l : l = t.last
    OBVIOUS
  <2>3. CASE l = None
    <3>1. u = RemoveMonitor(t, m)
      BY <2>1, <2>2, <2>3 DEF MergeMonitors
    <3> QED BY <1>2, <2>2, <2>3, <3>1, RemovedHeld
  <2>4. CASE l # None
    <3>1. l \in t.monitors \intersect screen.wired
      BY <2>2, <2>4 DEF Held
    <3>2. l # m
      BY <1>2, <3>1
    <3> QED BY <1>2, <2>1, <2>2, <2>4, <3>1, <3>2, AbsorbedHeld
  <2> QED BY <2>3, <2>4
<1> QED BY <1>1, <1>2

(* All of its turns.                                                       *)
LEMMA RemoveUnpluggedLoop ==
  ASSUME NEW r, Range(r.recent.monitors) = Monitor, NEW screen, NEW s, Held(r, s, screen),
         NEW t, t = RemoveUnplugged(s, screen)
  PROVE  Held(r, t, screen)
<1> DEFINE q == s.recent.monitors
           n == Len(q)
           Done(i) == {q[j] : j \in 1..i}
           R == [i \in 0..n |-> {u \in Records : Held(r, u, screen)}]
           Step(u, i) == UnpluggedTurn(u, q[i], screen)
           F == [i \in 1..n |-> [u \in Records |-> IF u \in R[i - 1] THEN Step(u, i) ELSE u]]
           Rec(f) == f = [i \in 0..n |-> IF i = 0 THEN s ELSE Step(f[i - 1], i)]
           g == CHOOSE f : Rec(f)
<1>0. n \in Nat /\ Range(q) = {q[i] : i \in 1..n}
  <2>1. q \in Seq(Monitor)
    BY DEF Held, Legal, Records
  <2> QED BY <2>1, LenProperties DEF Range
<1>1. t = g[n]
  BY DEF RemoveUnplugged, UnpluggedTurn, Loop
<1>3. Done(0) = {} /\ Done(n) = Range(q)
  BY <1>0
<1>4. \A i \in 1..n : q[i] \in Range(q) /\ Done(i) = Done(i - 1) \union {q[i]}
  <2>1. ASSUME NEW i \in 1..n  PROVE q[i] \in Range(q) /\ Done(i) = Done(i - 1) \union {q[i]}
    <3>1. /\ \A j \in 1..(i - 1) : j \in 1..i
          /\ \A j \in 1..i : j \in 1..(i - 1) \/ j = i
          /\ i \in 1..i
      BY <1>0
    <3> QED BY <1>0, <3>1
  <2> QED BY <2>1
<1> HIDE DEF q, n, Done, g
<1>5. s \in R[0]
  <2>1. PICK D : D = {}
    OBVIOUS
  <2>2. s \in Records /\ Held(r, s, screen)
    BY DEF Held, Legal
  <2> QED BY <1>0, <1>3, <2>1, <2>2
<1>6. ASSUME NEW i \in 1..n, NEW u \in R[i - 1]  PROVE Step(u, i) \in R[i]
  <2>1. i - 1 \in 0..n /\ i \in 0..n
    BY <1>0
  <2>2. PICK v : v = Step(u, i)
    OBVIOUS
  <2>3. PICK D : D = Done(i - 1)
    OBVIOUS
  <2>4. PICK d : d = q[i]
    OBVIOUS
  <2>5. Held(r, u, screen)
    BY <1>6, <2>1, <2>3
  <2>6. d \in Range(q) /\ v = UnpluggedTurn(u, d, screen)
    BY <1>4, <2>2, <2>3, <2>4
  <2>7. Held(r, v, screen) /\ v \in Records
    <3>1. Held(r, v, screen)
      BY <2>5, <2>6, UnpluggedHeld
    <3> QED BY <3>1 DEF Held, Legal
  <2> QED BY <1>4, <2>1, <2>2, <2>3, <2>4, <2>7
<1>7. R \in [0..n -> SUBSET Records]
  OBVIOUS
<1> HIDE DEF R, Step
<1>8. F \in [1..n -> [Records -> Records]] /\ \A i \in 1..n : \A u \in R[i - 1] : F[i][u] = Step(u, i)
  <2>1. \A i \in 1..n : i \in 0..n /\ i - 1 \in 0..n
    BY <1>0
  <2> QED BY <1>6, <1>7, <2>1
<1> HIDE DEF F
<1>9. PICK f : RunsThrough(f, n, Records, R, s, F)
  <2>1. Turns(n, Records, R, F)
    BY <1>0, <1>6, <1>7, <1>8 DEF Turns
  <2> QED BY <1>5, <2>1, LoopRunsOn
<1>10. Rec(g)
  <2>1. \A i \in 0..n : i # 0 => i \in 1..n /\ i - 1 \in 0..n
    BY <1>0
  <2>2. Rec(f)
    BY <1>8, <1>9, <2>1 DEF Runs, RunsThrough
  <2> HIDE DEF Rec
  <2> QED BY <2>2 DEF g
<1>11. g[0] = s /\ \A i \in 1..n : g[i] = Step(g[i - 1], i)
  <2>1. 0 \in 0..n /\ \A i \in 1..n : i \in 0..n /\ i # 0
    BY <1>0
  <2> QED BY <1>10, <2>1
<1> HIDE DEF Rec
<1>12. g[n] \in R[n]
  <2>1. g[0] \in R[0] /\ \A i \in 1..n : g[i - 1] \in R[i - 1] => g[i] \in R[i]
    BY <1>5, <1>6, <1>11
  <2> QED BY <1>0, <2>1, LoopHolds
<1>13. n \in 0..n
  BY <1>0
<1>14. Held(r, t, screen)
  BY <1>1, <1>12, <1>13 DEF R
<1> QED BY <1>14

(* The desktops given to the monitors without any: new ones, and different.*)
Gift(s, given) ==
  /\ \A x \in DOMAIN given : given[x] \in Desktop \ Range(s.recent.desktops)
  /\ \A x, y \in DOMAIN given : given[x] = given[y] => x = y

Gave(s, t, given, D) ==
  /\ Legal(t) /\ t.recent = s.recent /\ Minds(s, t)
  /\ \A x \in Monitor : \A d \in Range(t.desks[x]) :
       d \in Range(s.recent.desktops) \/ (x \in DOMAIN given /\ d = given[x])
  /\ \A x \in Monitor : Range(t.desks[x]) # {} => t.shown[x] # None
  /\ t.mon \in t.monitors
  /\ \A x \in t.monitors : t.shown[x] = None => x \in DOMAIN given \ D
  /\ \A n \in InTrees(s) \ InTrees(t) : Lost(s, t, n)

GiveTurn(t, m, given) ==
  IF m \in t.monitors /\ t.shown[m] = None THEN InsertDesktop(t, m, given[m]) ELSE t

(* One turn of the loop that gives a desktop to each monitor without one.  *)
LEMMA GiveTurnFacts ==
  ASSUME NEW s, NEW given, Gift(s, given), NEW D, NEW t, Gave(s, t, given, D),
         NEW m, NEW u, u = GiveTurn(t, m, given)
  PROVE  Gave(s, u, given, D \union {m})
<1>1. CASE ~(m \in t.monitors /\ t.shown[m] = None)
  <2>1. u = t
    BY <1>1 DEF GiveTurn
  <2> QED BY <1>1, <2>1 DEF Gave
<1>2. CASE m \in t.monitors /\ t.shown[m] = None
  <2>1. PICK d : d = given[m]
    OBVIOUS
  <2>2. /\ m \in DOMAIN given /\ d \in Desktop /\ d \notin Range(s.recent.desktops)
        /\ Legal(t) /\ m \in Monitor /\ Range(t.desks[m]) = {} /\ d # None /\ d \in Desk
    <3>1. Legal(t) /\ m \in DOMAIN given
      BY <1>2 DEF Gave
    <3>2. m \in Monitor
      BY <1>2, <3>1 DEF Legal, Records
    <3>3. d \in Desktop /\ d \notin Range(s.recent.desktops)
      BY <2>1, <3>1 DEF Gift
    <3> QED BY <1>2, <3>1, <3>2, <3>3, Things DEF Gave, Desk
  <2>3. \A x \in Monitor : d \notin Range(t.desks[x])
    <3>1. SUFFICES ASSUME NEW x \in Monitor, d \in Range(t.desks[x])  PROVE FALSE
      OBVIOUS
    <3>2. x \in DOMAIN given /\ d = given[x]
      BY <2>2, <3>1 DEF Gave
    <3>3. x = m
      BY <2>1, <2>2, <3>2 DEF Gift
    <3> QED BY <2>2, <3>1, <3>3
  <2>4. u = InsertDesktop(t, m, d)
    BY <1>2, <2>1 DEF GiveTurn
  <2>5. Relists(t, u, m, Range(t.desks[m]) \union {d}, d)
    <3>1. d \notin InLists(t)
      BY <2>3 DEF InLists
    <3>2. t \in Records /\ ListsLegal(t)
      BY <2>2 DEF Legal
    <3>3. Relists(t, u, m, Range(t.desks[m]) \union {d}, IF t.shown[m] = None THEN d ELSE t.shown[m])
      BY <1>2, <2>2, <2>4, <3>1, <3>2, InsertRelists
    <3> QED BY <1>2, <3>3
  <2>6. /\ u \in Records /\ ListsLegal(u) /\ u.monitors = t.monitors /\ u.recent = t.recent
        /\ u.mon = t.mon /\ u.home = t.home /\ u.sticky = t.sticky /\ u.visible = t.visible
        /\ Range(u.desks[m]) = {d} /\ u.shown[m] = d
        /\ \A x \in Monitor \ {m} : u.desks[x] = t.desks[x] /\ u.shown[x] = t.shown[x]
        /\ Minds(t, u)
    BY <2>2, <2>5, AlikeMinds DEF Relists, SameWindows, Alike
  <2>7. Legal(u)
    <3>1. InTrees(u) = InTrees(t)
      BY <2>6 DEF InTrees
    <3>2. InLists(t) \subseteq InLists(u)
      <4>1. ASSUME NEW x \in Monitor, NEW y \in Range(t.desks[x])  PROVE y \in Range(u.desks[x])
        BY <2>2, <2>6, <4>1
      <4> QED BY <4>1 DEF InLists
    <3> QED BY <2>2, <2>6, <3>1, <3>2 DEF Legal, TreesLegal
  <2>8. \A x \in t.monitors : x \in Monitor
    BY <2>2 DEF Legal, Records
  <2>9. \A x \in Monitor : \A e \in Range(u.desks[x]) :
          e \in Range(s.recent.desktops) \/ (x \in DOMAIN given /\ e = given[x])
    BY <2>1, <2>2, <2>6 DEF Gave
  <2>10. \A x \in Monitor : Range(u.desks[x]) # {} => u.shown[x] # None
    BY <2>2, <2>6 DEF Gave
  <2>11. \A x \in u.monitors : u.shown[x] = None => x \in DOMAIN given \ (D \union {m})
    BY <2>2, <2>6, <2>8 DEF Gave
  <2>12. \A n \in InTrees(s) \ InTrees(u) : Lost(s, u, n)
    <3>1. InTrees(u) = InTrees(t)
      BY <2>6 DEF InTrees
    <3>2. InLists(u) \subseteq InLists(t) \union {d}
      <4>1. ASSUME NEW x \in Monitor, NEW y \in Range(u.desks[x]), y # d  PROVE y \in Range(t.desks[x])
        BY <2>2, <2>6, <4>1
      <4> QED BY <4>1 DEF InLists
    <3>3. \A n \in InTrees(s) \ InTrees(t) : Lost(s, t, n)
      BY DEF Gave
    <3> QED BY <2>2, <2>6, <3>1, <3>2, <3>3 DEF Lost
  <2>13. Minds(s, u)
    BY <2>6, MindsOn DEF Gave
  <2> QED BY <2>6, <2>7, <2>9, <2>10, <2>11, <2>12, <2>13 DEF Gave
<1> QED BY <1>1, <1>2

(* All of its turns: every monitor has desktops.                           *)
LEMMA GiveDesktopsLoop ==
  ASSUME NEW r, NEW given, Gift(r, given), NEW s, Gave(r, s, given, {}),
         NEW t, t = GiveDesktops(s, given)
  PROVE  Gave(r, t, given, Range(s.recent.monitors))
<1> DEFINE q == s.recent.monitors
           n == Len(q)
           Done(i) == {q[j] : j \in 1..i}
           R == [i \in 0..n |-> {u \in Records : Gave(r, u, given, Done(i))}]
           Step(u, i) == GiveTurn(u, q[i], given)
           F == [i \in 1..n |-> [u \in Records |-> IF u \in R[i - 1] THEN Step(u, i) ELSE u]]
           Rec(f) == f = [i \in 0..n |-> IF i = 0 THEN s ELSE Step(f[i - 1], i)]
           g == CHOOSE f : Rec(f)
<1>0. n \in Nat /\ Range(q) = {q[i] : i \in 1..n}
  <2>1. q \in Seq(Monitor)
    BY DEF Gave, Legal, Records
  <2> QED BY <2>1, LenProperties DEF Range
<1>1. t = g[n]
  BY DEF GiveDesktops, GiveTurn, Loop
<1>3. Done(0) = {} /\ Done(n) = Range(q)
  BY <1>0
<1>4. \A i \in 1..n : q[i] \in Range(q) /\ Done(i) = Done(i - 1) \union {q[i]}
  <2>1. ASSUME NEW i \in 1..n  PROVE q[i] \in Range(q) /\ Done(i) = Done(i - 1) \union {q[i]}
    <3>1. /\ \A j \in 1..(i - 1) : j \in 1..i
          /\ \A j \in 1..i : j \in 1..(i - 1) \/ j = i
          /\ i \in 1..i
      BY <1>0
    <3> QED BY <1>0, <3>1
  <2> QED BY <2>1
<1> HIDE DEF q, n, Done, g
<1>5. s \in R[0]
  <2>1. PICK D : D = {}
    OBVIOUS
  <2>2. s \in Records /\ Gave(r, s, given, D)
    BY <2>1 DEF Gave, Legal
  <2> QED BY <1>0, <1>3, <2>1, <2>2
<1>6. ASSUME NEW i \in 1..n, NEW u \in R[i - 1]  PROVE Step(u, i) \in R[i]
  <2>1. i - 1 \in 0..n /\ i \in 0..n
    BY <1>0
  <2>2. PICK v : v = Step(u, i)
    OBVIOUS
  <2>3. PICK D : D = Done(i - 1)
    OBVIOUS
  <2>4. PICK d : d = q[i]
    OBVIOUS
  <2>5. Gave(r, u, given, D)
    BY <1>6, <2>1, <2>3
  <2>6. d \in Range(q) /\ v = GiveTurn(u, d, given)
    BY <1>4, <2>2, <2>3, <2>4
  <2>7. Gave(r, v, given, D \union {d}) /\ v \in Records
    <3>1. Gave(r, v, given, D \union {d})
      BY <2>5, <2>6, GiveTurnFacts
    <3> QED BY <3>1 DEF Gave, Legal
  <2> QED BY <1>4, <2>1, <2>2, <2>3, <2>4, <2>7
<1>7. R \in [0..n -> SUBSET Records]
  OBVIOUS
<1> HIDE DEF R, Step
<1>8. F \in [1..n -> [Records -> Records]] /\ \A i \in 1..n : \A u \in R[i - 1] : F[i][u] = Step(u, i)
  <2>1. \A i \in 1..n : i \in 0..n /\ i - 1 \in 0..n
    BY <1>0
  <2> QED BY <1>6, <1>7, <2>1
<1> HIDE DEF F
<1>9. PICK f : RunsThrough(f, n, Records, R, s, F)
  <2>1. Turns(n, Records, R, F)
    BY <1>0, <1>6, <1>7, <1>8 DEF Turns
  <2> QED BY <1>5, <2>1, LoopRunsOn
<1>10. Rec(g)
  <2>1. \A i \in 0..n : i # 0 => i \in 1..n /\ i - 1 \in 0..n
    BY <1>0
  <2>2. Rec(f)
    BY <1>8, <1>9, <2>1 DEF Runs, RunsThrough
  <2> HIDE DEF Rec
  <2> QED BY <2>2 DEF g
<1>11. g[0] = s /\ \A i \in 1..n : g[i] = Step(g[i - 1], i)
  <2>1. 0 \in 0..n /\ \A i \in 1..n : i \in 0..n /\ i # 0
    BY <1>0
  <2> QED BY <1>10, <2>1
<1> HIDE DEF Rec
<1>12. g[n] \in R[n]
  <2>1. g[0] \in R[0] /\ \A i \in 1..n : g[i - 1] \in R[i - 1] => g[i] \in R[i]
    BY <1>5, <1>6, <1>11
  <2> QED BY <1>0, <2>1, LoopHolds
<1>13. n \in 0..n
  BY <1>0
<1>14. Gave(r, t, given, Done(n))
  BY <1>1, <1>12, <1>13 DEF R
<1> QED BY <1>3, <1>14 DEF q

(* update_monitors()                                                       *)
LEMMA UpdateMonitorsSound ==
  ASSUME NEW s, Sound(s), Known(s), s.last = None, NEW screen,
         screen.on \subseteq Monitor, screen.on \subseteq screen.wired,
         screen.on # {} \/ s.monitors \intersect screen.wired # {},
         NEW given, DOMAIN given = screen.on \ s.monitors, Gift(s, given),
         NEW t, t = UpdateMonitors(s, screen, given)
  PROVE  Sound(t) /\ Minds(s, t) /\ \A n \in InTrees(s) \ InTrees(t) : Lost(s, t, n)
<1>1. PICK u : u = Scan(s, screen)
  OBVIOUS
<1>2. Scanned(s, u, screen, Monitor)
  BY <1>1, ScanLoop DEF Known
<1>3. Held(s, u, screen)
  <2>1. \A m \in s.monitors : m \in Monitor /\ s.shown[m] # None
    BY SoundFacts DEF Sound
  <2>2. u.monitors = s.monitors \union screen.on /\ Legal(u)
    BY <1>2 DEF Scanned
  <2>3. s.mon \in s.monitors /\ u.mon = s.mon /\ u.shown = s.shown /\ u.desks = s.desks
        /\ u.recent = s.recent
    BY <1>2, SoundFacts DEF Scanned
  <2>4. InLists(u) \subseteq Range(s.recent.desktops)
    BY <2>3 DEF InLists, Known
  <2>5. \A x \in Monitor : Range(u.desks[x]) # {} => u.shown[x] # None
    <3>1. \A x \in Monitor : Range(s.desks[x]) # {} => x \in s.monitors
      BY OwnerExists DEF Sound
    <3> QED BY <2>1, <2>3, <3>1
  <2>6. u.last # None => u.last \in u.monitors \intersect screen.wired
    BY <1>2, <2>2 DEF Scanned
  <2>7. u.last = None => \E x \in u.monitors \intersect screen.wired : u.shown[x] # None
    <3>1. u.last = None => screen.on = {}
      BY <1>2 DEF Scanned
    <3> QED BY <2>1, <2>2, <2>3, <3>1
  <2>8. Spares(s, u, screen)
    <3>1. u.home = s.home /\ InTrees(u) = InTrees(s)
      BY <1>2 DEF Scanned
    <3> QED BY <2>3, <3>1 DEF Spares
  <2>9. Minds(s, u)
    BY <1>2 DEF Scanned
  <2> QED BY <2>1, <2>2, <2>3, <2>4, <2>5, <2>6, <2>7, <2>8, <2>9 DEF Held
<1>4. PICK v : v = MergeOverlapping(u, screen)
  OBVIOUS
<1>5. Held(s, v, screen)
  BY <1>3, <1>4, MergeOverlappingLoop DEF Known
<1>6. PICK w : w = IF screen.unplugged THEN RemoveUnplugged(v, screen) ELSE v
  OBVIOUS
<1>7. Held(s, w, screen)
  <2>1. CASE screen.unplugged
    BY <1>5, <1>6, <2>1, RemoveUnpluggedLoop DEF Known
  <2>2. CASE ~screen.unplugged
    BY <1>5, <1>6, <2>2
  <2> QED BY <2>1, <2>2
<1>8. t = GiveDesktops(w, given)
  BY <1>1, <1>4, <1>6 DEF UpdateMonitors
<1>9. Gave(s, w, given, {})
  <2>1. \A x \in Monitor : \A d \in Range(w.desks[x]) : d \in Range(s.recent.desktops)
    BY <1>7 DEF Held, InLists
  <2>2. \A n \in InTrees(s) \ InTrees(w) : Lost(s, w, n)
    BY <1>7 DEF Held, Spares
  <2> QED BY <1>7, <2>1, <2>2 DEF Held, Gave
<1>10. Gave(s, t, given, Monitor)
  <2>1. Range(w.recent.monitors) = Monitor
    BY <1>7 DEF Held, Known
  <2>2. Gave(s, t, given, Range(w.recent.monitors))
    BY <1>8, <1>9, GiveDesktopsLoop
  <2> QED BY <2>1, <2>2
<1>11. Legal(t) /\ \A m \in t.monitors : m \in Monitor
  BY <1>10 DEF Gave, Legal, Records
<1>12. InLists(t) \subseteq Desktop
  <2>1. Range(s.recent.desktops) \subseteq Desktop
    <3>1. s.recent.desktops \in Seq(Desktop)
      BY DEF Sound, Legal, Records
    <3>2. PICK q : q = s.recent.desktops
      OBVIOUS
    <3> QED BY <3>1, <3>2, LenProperties, ElementOfSeq DEF Range
  <2>2. SUFFICES ASSUME NEW x \in Monitor, NEW d \in Range(t.desks[x])  PROVE d \in Desktop
    BY DEF InLists
  <2>3. d \in Range(s.recent.desktops) \/ (x \in DOMAIN given /\ d = given[x])
    BY <1>10 DEF Gave
  <2> QED BY <2>1, <2>3 DEF Gift
<1>13. \A m \in t.monitors : t.shown[m] # None
  BY <1>10, <1>11 DEF Gave
<1>14. t.mon # None
  BY <1>10, <1>11, Things DEF Gave
<1> QED BY <1>10, <1>11, <1>12, <1>13, <1>14 DEF Sound, Gave
-----------------------------------------------------------------------------
(* What the swaps of two desktops of one list keep, and the removal of     *)
(* desktops D from it.                                                     *)
Shrunk(s, t, m, D) ==
  /\ Sound(t) /\ t.recent = s.recent /\ m \in t.monitors
  /\ Range(t.desks[m]) = Range(s.desks[m]) \ D /\ Minds(s, t)

Within(s, t, m) ==
  Shrunk(s, t, m, {}) /\ InTrees(t) = InTrees(s) /\ InTrees(t) \subseteq Range(t.recent.leaves)

(* An exchange of two desktops of one monitor keeps every list's desktops. *)
LEMMA SwapWithin ==
  ASSUME NEW s, NEW m, NEW t, Within(s, t, m), NEW d1 \in Range(s.desks[m]),
         NEW d2 \in Range(s.desks[m]), NEW b, NEW u, u = SwapDesktops(t, m, d1, m, d2, b)
  PROVE  Within(s, u, m)
<1>1. /\ Sound(t) /\ t.recent = s.recent /\ m \in t.monitors /\ m \in Monitor
      /\ Range(t.desks[m]) = Range(s.desks[m]) /\ InTrees(t) \subseteq Range(t.recent.leaves)
      /\ InTrees(t) = InTrees(s)
  BY SoundFacts DEF Within, Shrunk
<1>2. Legal(t) /\ InLists(t) \subseteq Desktop
  BY <1>1 DEF Sound
<1>3. Swaps(t, u, d1, d2)
  BY <1>1, <1>2, SwapDesktopsSwaps
<1>4. d1 \in InLists(t) /\ d2 \in InLists(t)
  BY <1>1 DEF InLists
<1>5. Sound(u)
  BY <1>1, <1>3, <1>4, SwapsSound
<1>6. Range(u.desks[m]) = Range(s.desks[m])
  <2>1. TurnedAll(d1, d2, Range(s.desks[m])) = Range(s.desks[m])
    BY DEF TurnedAll, Turned
  <2> QED BY <1>1, <1>3, <2>1 DEF Swaps
<1>7. Minds(s, u)
  BY <1>3, MindsOn DEF Swaps, Within, Shrunk
<1> QED BY <1>1, <1>3, <1>5, <1>6, <1>7 DEF Swaps, Within, Shrunk

(* One desktop is swapped with others, one after the other.                *)
Bubbled(s, m, d, others) ==
  Loop(LAMBDA t, e : SwapDesktops(t, m, d, m, e, FALSE), s, others)

(* So do the exchanges that bubble a desktop past others.                  *)
LEMMA BubbledLoop ==
  ASSUME NEW s, NEW m, Within(s, s, m), NEW d1 \in Range(s.desks[m]), NEW others \in Seq(Range(s.desks[m])),
         NEW t, t = Bubbled(s, m, d1, others)
  PROVE  Within(s, t, m)
<1> DEFINE q == others
           n == Len(q)
           Done(i) == {q[j] : j \in 1..i}
           R == [i \in 0..n |-> {u \in Records : Within(s, u, m)}]
           Step(u, i) == SwapDesktops(u, m, d1, m, q[i], FALSE)
           F == [i \in 1..n |-> [u \in Records |-> IF u \in R[i - 1] THEN Step(u, i) ELSE u]]
           Rec(f) == f = [i \in 0..n |-> IF i = 0 THEN s ELSE Step(f[i - 1], i)]
           g == CHOOSE f : Rec(f)
<1>0. n \in Nat /\ Range(q) = {q[i] : i \in 1..n}
  <2>1. q \in Seq(Range(s.desks[m]))
    OBVIOUS
  <2> QED BY <2>1, LenProperties DEF Range
<1>1. t = g[n]
  BY DEF Bubbled, Loop
<1>3. Done(0) = {} /\ Done(n) = Range(q)
  BY <1>0
<1>4. \A i \in 1..n : q[i] \in Range(q) /\ Done(i) = Done(i - 1) \union {q[i]}
  <2>1. ASSUME NEW i \in 1..n  PROVE q[i] \in Range(q) /\ Done(i) = Done(i - 1) \union {q[i]}
    <3>1. /\ \A j \in 1..(i - 1) : j \in 1..i
          /\ \A j \in 1..i : j \in 1..(i - 1) \/ j = i
          /\ i \in 1..i
      BY <1>0
    <3> QED BY <1>0, <3>1
  <2> QED BY <2>1
<1> HIDE DEF q, n, Done, g
<1>5. s \in R[0]
  <2>1. PICK D : D = {}
    OBVIOUS
  <2>2. s \in Records /\ Within(s, s, m)
    BY DEF Within, Shrunk, Sound, Legal
  <2> QED BY <1>0, <1>3, <2>1, <2>2
<1>6. ASSUME NEW i \in 1..n, NEW u \in R[i - 1]  PROVE Step(u, i) \in R[i]
  <2>1. i - 1 \in 0..n /\ i \in 0..n
    BY <1>0
  <2>2. PICK v : v = Step(u, i)
    OBVIOUS
  <2>3. PICK D : D = Done(i - 1)
    OBVIOUS
  <2>4. PICK d : d = q[i]
    OBVIOUS
  <2>5. Within(s, u, m)
    BY <1>6, <2>1, <2>3
  <2>6. d \in Range(q) /\ v = SwapDesktops(u, m, d1, m, d, FALSE)
    BY <1>4, <2>2, <2>3, <2>4
  <2>7. Within(s, v, m) /\ v \in Records
    <3>1. PICK b : b = FALSE
      OBVIOUS
    <3>2. d \in Range(s.desks[m])
      BY <1>0, <2>6, ElementOfSeq DEF n, q
    <3>3. Within(s, v, m)
      BY <2>5, <2>6, <3>1, <3>2, SwapWithin
    <3> QED BY <3>3 DEF Within, Shrunk, Sound, Legal
  <2> QED BY <1>4, <2>1, <2>2, <2>3, <2>4, <2>7
<1>7. R \in [0..n -> SUBSET Records]
  OBVIOUS
<1> HIDE DEF R, Step
<1>8. F \in [1..n -> [Records -> Records]] /\ \A i \in 1..n : \A u \in R[i - 1] : F[i][u] = Step(u, i)
  <2>1. \A i \in 1..n : i \in 0..n /\ i - 1 \in 0..n
    BY <1>0
  <2> QED BY <1>6, <1>7, <2>1
<1> HIDE DEF F
<1>9. PICK f : RunsThrough(f, n, Records, R, s, F)
  <2>1. Turns(n, Records, R, F)
    BY <1>0, <1>6, <1>7, <1>8 DEF Turns
  <2> QED BY <1>5, <2>1, LoopRunsOn
<1>10. Rec(g)
  <2>1. \A i \in 0..n : i # 0 => i \in 1..n /\ i - 1 \in 0..n
    BY <1>0
  <2>2. Rec(f)
    BY <1>8, <1>9, <2>1 DEF Runs, RunsThrough
  <2> HIDE DEF Rec
  <2> QED BY <2>2 DEF g
<1>11. g[0] = s /\ \A i \in 1..n : g[i] = Step(g[i - 1], i)
  <2>1. 0 \in 0..n /\ \A i \in 1..n : i \in 0..n /\ i # 0
    BY <1>0
  <2> QED BY <1>10, <2>1
<1> HIDE DEF Rec
<1>12. g[n] \in R[n]
  <2>1. g[0] \in R[0] /\ \A i \in 1..n : g[i - 1] \in R[i - 1] => g[i] \in R[i]
    BY <1>5, <1>6, <1>11
  <2> QED BY <1>0, <2>1, LoopHolds
<1>13. n \in 0..n
  BY <1>0
<1>14. Within(s, t, m)
  BY <1>1, <1>12, <1>13 DEF R
<1> QED BY <1>14


(* As many desktops in a list as places.                                   *)
LEMMA ListLength ==
  ASSUME NEW R, NEW q \in Seq(R), IsInjective(q)
  PROVE  Cardinality(Range(q)) = Len(q)
<1>1. Len(q) \in Nat /\ q \in [1..Len(q) -> R]
  BY LenProperties
<1>2. q \in [1..Len(q) -> Range(q)] /\ \A e \in Range(q) : \E i \in 1..Len(q) : q[i] = e
  BY <1>1 DEF Range
<1>3. q \in Bijection(1..Len(q), Range(q))
  BY <1>2 DEF Bijection, Injection, Surjection
<1>4. ExistsBijection(1..Len(q), Range(q))
  BY <1>3 DEF ExistsBijection
<1> QED BY <1>1, <1>4, FS_CountingElements

(* Place after place takes the desktop that is named for it.               *)
Reordered(s, m, names) ==
  Loop(LAMBDA t, i : SwapDesktops(t, m, t.desks[m][i], m, names[i], FALSE), s,
       [i \in DOMAIN names |-> i])

(* Each place of the list holds one of its desktops.                       *)
LEMMA PlacedIn ==
  ASSUME NEW s, NEW m, NEW t, Within(s, t, m), NEW i \in 1..Cardinality(Range(s.desks[m]))
  PROVE  t.desks[m][i] \in Range(s.desks[m])
<1>1. PICK q : q = t.desks[m]
  OBVIOUS
<1>2. q \in Seq(Desk) /\ IsInjective(q) /\ Range(q) = Range(s.desks[m])
  BY <1>1, SoundFacts DEF Within, Shrunk, Sound, Legal, ListsLegal, Records
<1>3. Len(q) = Cardinality(Range(q)) /\ DOMAIN q = 1..Len(q)
  BY <1>2, ListLength, LenProperties
<1> QED BY <1>1, <1>2, <1>3 DEF Range

(* So do the exchanges that reorder a list.                                *)
LEMMA ReorderedLoop ==
  ASSUME NEW s, NEW m, Within(s, s, m), NEW names \in Orders(Range(s.desks[m])),
         NEW t, t = Reordered(s, m, names)
  PROVE  Within(s, t, m)
<1> DEFINE q == [i \in DOMAIN names |-> i]
           n == Len(q)
           Done(i) == {q[j] : j \in 1..i}
           R == [i \in 0..n |-> {u \in Records : Within(s, u, m)}]
           Step(u, i) == SwapDesktops(u, m, u.desks[m][q[i]], m, names[q[i]], FALSE)
           F == [i \in 1..n |-> [u \in Records |-> IF u \in R[i - 1] THEN Step(u, i) ELSE u]]
           Rec(f) == f = [i \in 0..n |-> IF i = 0 THEN s ELSE Step(f[i - 1], i)]
           g == CHOOSE f : Rec(f)
<1>a. /\ Len(names) \in Nat /\ DOMAIN names = 1..Len(names)
      /\ Len(names) = Cardinality(Range(s.desks[m]))
      /\ \A i \in 1..Len(names) : names[i] \in Range(s.desks[m])
  <2>1. PICK p : p = s.desks[m]
    OBVIOUS
  <2>2. p \in Seq(Desk) /\ IsInjective(p)
    BY <2>1, SoundFacts DEF Within, Shrunk, Sound, Legal, ListsLegal, Records
  <2>3. Cardinality(Range(p)) = Len(p) /\ Len(p) \in Nat
    BY <2>2, ListLength, LenProperties
  <2>4. names \in [1..Len(p) -> Range(p)]
    BY <2>1, <2>3 DEF Orders
  <2>5. names \in Seq(Range(p)) /\ Len(names) = Len(p)
    BY <2>3, <2>4, SeqDef
  <2> QED BY <2>1, <2>3, <2>4, <2>5
<1>0. n \in Nat /\ Range(q) = {q[i] : i \in 1..n}
  <2>1. q \in Seq(1..Len(names))
    <3>1. Len(names) \in Nat /\ DOMAIN names = 1..Len(names)
      BY <1>a
    <3>2. [i \in DOMAIN names |-> i] \in [1..Len(names) -> 1..Len(names)]
      BY <3>1
    <3> QED BY <3>1, <3>2, SeqDef
  <2> QED BY <2>1, LenProperties DEF Range
<1>1. t = g[n]
  BY DEF Reordered, Loop
<1>3. Done(0) = {} /\ Done(n) = Range(q)
  BY <1>0
<1>4. \A i \in 1..n : q[i] \in Range(q) /\ Done(i) = Done(i - 1) \union {q[i]}
  <2>1. ASSUME NEW i \in 1..n  PROVE q[i] \in Range(q) /\ Done(i) = Done(i - 1) \union {q[i]}
    <3>1. /\ \A j \in 1..(i - 1) : j \in 1..i
          /\ \A j \in 1..i : j \in 1..(i - 1) \/ j = i
          /\ i \in 1..i
      BY <1>0
    <3> QED BY <1>0, <3>1
  <2> QED BY <2>1
<1> HIDE DEF q, n, Done, g
<1>5. s \in R[0]
  <2>1. PICK D : D = {}
    OBVIOUS
  <2>2. s \in Records /\ Within(s, s, m)
    BY DEF Within, Shrunk, Sound, Legal
  <2> QED BY <1>0, <1>3, <2>1, <2>2
<1>6. ASSUME NEW i \in 1..n, NEW u \in R[i - 1]  PROVE Step(u, i) \in R[i]
  <2>1. i - 1 \in 0..n /\ i \in 0..n
    BY <1>0
  <2>2. PICK v : v = Step(u, i)
    OBVIOUS
  <2>3. PICK D : D = Done(i - 1)
    OBVIOUS
  <2>4. PICK d : d = q[i]
    OBVIOUS
  <2>5. Within(s, u, m)
    BY <1>6, <2>1, <2>3
  <2>6. d \in Range(q) /\ v = SwapDesktops(u, m, u.desks[m][d], m, names[d], FALSE)
    BY <1>4, <2>2, <2>3, <2>4
  <2>7. Within(s, v, m) /\ v \in Records
    <3>1. PICK b : b = FALSE
      OBVIOUS
    <3>2. d \in 1..Len(names)
      BY <1>0, <2>6, ElementOfSeq DEF n, q
    <3>3. PICK d1 : d1 = u.desks[m][d]
      OBVIOUS
    <3>4. PICK d2 : d2 = names[d]
      OBVIOUS
    <3>5. d1 \in Range(s.desks[m])
      BY <1>a, <2>5, <3>2, <3>3, PlacedIn
    <3>6. d2 \in Range(s.desks[m])
      BY <1>a, <3>2, <3>4
    <3>7. v = SwapDesktops(u, m, d1, m, d2, b)
      BY <2>6, <3>1, <3>3, <3>4
    <3>8. Within(s, v, m)
      BY <2>5, <3>5, <3>6, <3>7, SwapWithin
    <3> QED BY <3>8 DEF Within, Shrunk, Sound, Legal
  <2> QED BY <1>4, <2>1, <2>2, <2>3, <2>4, <2>7
<1>7. R \in [0..n -> SUBSET Records]
  OBVIOUS
<1> HIDE DEF R, Step
<1>8. F \in [1..n -> [Records -> Records]] /\ \A i \in 1..n : \A u \in R[i - 1] : F[i][u] = Step(u, i)
  <2>1. \A i \in 1..n : i \in 0..n /\ i - 1 \in 0..n
    BY <1>0
  <2> QED BY <1>6, <1>7, <2>1
<1> HIDE DEF F
<1>9. PICK f : RunsThrough(f, n, Records, R, s, F)
  <2>1. Turns(n, Records, R, F)
    BY <1>0, <1>6, <1>7, <1>8 DEF Turns
  <2> QED BY <1>5, <2>1, LoopRunsOn
<1>10. Rec(g)
  <2>1. \A i \in 0..n : i # 0 => i \in 1..n /\ i - 1 \in 0..n
    BY <1>0
  <2>2. Rec(f)
    BY <1>8, <1>9, <2>1 DEF Runs, RunsThrough
  <2> HIDE DEF Rec
  <2> QED BY <2>2 DEF g
<1>11. g[0] = s /\ \A i \in 1..n : g[i] = Step(g[i - 1], i)
  <2>1. 0 \in 0..n /\ \A i \in 1..n : i \in 0..n /\ i # 0
    BY <1>0
  <2> QED BY <1>10, <2>1
<1> HIDE DEF Rec
<1>12. g[n] \in R[n]
  <2>1. g[0] \in R[0] /\ \A i \in 1..n : g[i - 1] \in R[i - 1] => g[i] \in R[i]
    BY <1>5, <1>6, <1>11
  <2> QED BY <1>0, <2>1, LoopHolds
<1>13. n \in 0..n
  BY <1>0
<1>14. Within(s, t, m)
  BY <1>1, <1>12, <1>13 DEF R
<1> QED BY <1>14
-----------------------------------------------------------------------------
(* The windows that are lost when d is removed, merged into a desktop dd    *)
(* of md.                                                                  *)
Merges(s, t, d, md, dd) ==
  /\ InTrees(t) \subseteq InTrees(s) /\ InLists(t) \subseteq InLists(s) \ {d}
  /\ d # dd => \A n \in InTrees(s) \ InTrees(t) :
                 s.home[n] = d /\ dd # s.shown[md] /\ \E x \in s.sticky : s.home[x] = d

(* The windows of a desktop go to another one, and it is removed: those of *)
(* a desktop with sticky windows may be lost.                              *)
LEMMA MergedShrinks ==
  ASSUME NEW s, Sound(s), NEW m \in s.monitors, NEW d \in Range(s.desks[m]),
         Range(s.desks[m]) \ {d} # {}, Range(s.desks[m]) \subseteq Range(s.recent.desktops),
         NEW md \in s.monitors, NEW dd \in Range(s.desks[md]),
         NEW t, t = RemoveDesktop(MergeDesktops(s, m, d, md, dd), m, d)
  PROVE  Shrunk(s, t, m, {d}) /\ Merges(s, t, d, md, dd)
<1>1. m \in Monitor /\ md \in Monitor /\ Legal(s)
  BY SoundFacts DEF Sound
<1>2. PICK u : u = MergeDesktops(s, m, d, md, dd)
  OBVIOUS
<1>3. /\ Stays(s, u)
      /\ \A n \in Node : u.home[n] = s.home[n] \/ (s.home[n] = d /\ u.home[n] = dd)
      /\ \/ \A n \in Node : u.home[n] # d
         \/ d = dd
         \/ dd # s.shown[md] /\ \E n \in s.sticky : s.home[n] = d
  <2>1. Transfer(s, m, d, NodesOf(s, d), md, dd)
    BY <1>1 DEF Transfer
  <2> QED BY <1>1, <1>2, <2>1, MergeDesktopsStays
<1>11. Minds(s, u)
  <2>1. Transfer(s, m, d, NodesOf(s, d), md, dd)
    BY <1>1 DEF Transfer
  <2> QED BY <1>1, <1>2, <2>1, MergeDesktopsMinds
<1>4. /\ Sound(u) /\ Legal(u) /\ u.desks = s.desks /\ u.monitors = s.monitors
      /\ u.recent = s.recent /\ u.mon # None
  BY <1>3, StaysSound DEF Stays, SamePlaces, SameLists, Sound
<1>5. /\ Drops(u, t, m, Range(u.desks[m]) \ {d})
      /\ t.shown[m] # None /\ InTrees(t) = InTrees(u) \ NodesOf(u, d) /\ Minds(u, t)
  BY <1>1, <1>2, <1>4, RemoveDesktopDrops, SMTT(60)
<1>6. Sound(t)
  BY <1>4, <1>5, DropsSound
<1>7. InTrees(u) = InTrees(s)
  BY <1>3 DEF Stays, SameTrees
<1>8. InLists(t) \subseteq InLists(s) \ {d}
  <2>1. ASSUME NEW y \in Monitor, y # m  PROVE d \notin Range(s.desks[y])
    BY <1>1, <2>1 DEF Legal, ListsLegal
  <2>2. PICK L : L = [y \in Monitor |-> Range(s.desks[y])]
    OBVIOUS
  <2>3. PICK K : K = [y \in Monitor |-> Range(t.desks[y])]
    OBVIOUS
  <2>4. K[m] = L[m] \ {d}
    BY <1>1, <1>4, <1>5, <2>2, <2>3 DEF Drops
  <2>5. ASSUME NEW y \in Monitor, y # m  PROVE K[y] = L[y] \ {d}
    <3>1. t.desks[y] = s.desks[y]
      BY <1>4, <1>5, <2>5 DEF Drops
    <3> QED BY <2>1, <2>2, <2>3, <2>5, <3>1
  <2>6. InLists(t) = UNION {K[y] : y \in Monitor} /\ InLists(s) = UNION {L[y] : y \in Monitor}
    BY <2>2, <2>3 DEF InLists
  <2> QED BY <1>1, <2>4, <2>5, <2>6
<1>9. ASSUME d # dd, NEW n \in InTrees(s) \ InTrees(t)
      PROVE  s.home[n] = d /\ dd # s.shown[md] /\ \E y \in s.sticky : s.home[y] = d
  <2>1. n \in Node /\ u.home[n] = d
    BY <1>5, <1>7, <1>9 DEF InTrees, NodesOf
  <2> QED BY <1>3, <1>9, <2>1
<1>10. Merges(s, t, d, md, dd)
  BY <1>5, <1>7, <1>8, <1>9 DEF Merges
<1>12. Minds(s, t)
  BY <1>5, <1>11, MindsOn
<1> QED BY <1>4, <1>5, <1>6, <1>10, <1>12 DEF Drops, Shrunk

(* monitor -d: one of the desktops too many.                               *)
DropTurn(s, m, d, prev) ==
  LET t == IF d = Current(s) THEN FocusNode(s, m, prev, s.focus[prev]) ELSE s
  IN RemoveDesktop(MergeDesktops(t, m, d, t.mon, Current(t)), m, d)

(* One turn of the loop that drops the desktops in excess: its windows go  *)
(* to the focused desktop, which takes the sticky ones too.                *)
LEMMA DropTurnShrinks ==
  ASSUME NEW s, NEW m, Range(s.desks[m]) \subseteq Range(s.recent.desktops), NEW D,
         NEW t, Shrunk(s, t, m, D), NEW prev \in Range(s.desks[m]) \ D,
         NEW d \in Range(s.desks[m]) \ D, d # prev, NEW u, u = DropTurn(t, m, d, prev)
  PROVE  Shrunk(s, u, m, D \union {d}) /\ InTrees(u) = InTrees(t)
<1>1. /\ Sound(t) /\ t.recent = s.recent /\ m \in t.monitors /\ m \in Monitor /\ Legal(t)
      /\ Range(t.desks[m]) = Range(s.desks[m]) \ D
  BY SoundFacts DEF Shrunk, Sound
<1>2. PICK n : n = t.focus[prev]
  OBVIOUS
<1>3. n \in Node \union {None}
  <2>1. prev \in Desk
    BY <1>1, ListedFacts
  <2> QED BY <1>1, <1>2, <2>1, FocusTyped
<1>4. PICK v : v = IF d = Current(t) THEN FocusNode(t, m, prev, n) ELSE t
  OBVIOUS
<1>5. Roams(t, v) /\ Minds(t, v)
  <2>1. CASE d = Current(t)
    <3>1. Placed(t, n, prev)
      BY <1>1, <1>2, ListedFacts, FocusPlaced
    <3> QED BY <1>1, <1>3, <1>4, <2>1, <3>1, FocusNodeRoams, FocusNodeMends, MendsMinds
  <2>2. CASE d # Current(t)
    BY <1>1, <1>4, <2>2, StaysSelf, StaysRoams, MindsSelf
  <2> QED BY <2>1, <2>2
<1>6. Sound(v) /\ v.desks = t.desks /\ v.monitors = t.monitors /\ v.recent = t.recent
  BY <1>1, <1>5, RoamsSound DEF Roams, Ranges, SameLists
<1>7. PICK md : md = v.mon
  OBVIOUS
<1>8. PICK dd : dd = Current(v)
  OBVIOUS
<1>9. md \in v.monitors /\ dd \in Range(v.desks[md])
  <2>1. v.mon \in v.monitors /\ v.mon # None /\ v.shown[v.mon] \in Range(v.desks[v.mon])
    BY <1>6, SoundFacts DEF Sound
  <2> QED BY <1>7, <1>8, <2>1 DEF Current
<1>10. u = RemoveDesktop(MergeDesktops(v, m, d, md, dd), m, d)
  BY <1>2, <1>4, <1>7, <1>8 DEF DropTurn
<1>12. d # dd /\ dd = v.shown[md]
  <2>1. v.mon # None
    BY <1>6 DEF Sound
  <2>2. dd = v.shown[md]
    BY <1>7, <1>8, <2>1 DEF Current
  <2>3. CASE d = Current(t)
    <3>1. v = FocusNode(t, m, prev, n) /\ prev \in Range(t.desks[m])
      BY <1>1, <1>4, <2>3
    <3>2. v.mon = m /\ v.shown[m] = prev
      BY <1>1, <1>3, <3>1, FocusNodeLands, ShowsFacts DEF Lands
    <3> QED BY <1>7, <2>2, <3>2
  <2>4. CASE d # Current(t)
    BY <1>4, <1>8, <2>2, <2>4
  <2> QED BY <2>2, <2>3, <2>4
<1>11. Shrunk(v, u, m, {d}) /\ InTrees(u) = InTrees(v)
  <2>1. /\ m \in v.monitors /\ d \in Range(v.desks[m]) /\ Range(v.desks[m]) \ {d} # {}
        /\ Range(v.desks[m]) \subseteq Range(v.recent.desktops)
    BY <1>1, <1>6
  <2>2. Shrunk(v, u, m, {d}) /\ Merges(v, u, d, md, dd)
    BY <1>6, <1>9, <1>10, <2>1, MergedShrinks
  <2> QED BY <1>12, <2>2 DEF Merges
<1>13. Minds(s, u)
  <2>1. Minds(s, t) /\ Minds(t, v) /\ Minds(v, u)
    BY <1>5, <1>11 DEF Shrunk
  <2> QED BY <2>1, MindsOn
<1> QED BY <1>1, <1>5, <1>6, <1>11, <1>13 DEF Shrunk, Roams

Sparing(s, t, m, D, prev) == Shrunk(s, t, m, D) /\ prev \notin D /\ InTrees(t) = InTrees(s)

Trimmed(s, m, prev, others) == Loop(LAMBDA t, d : DropTurn(t, m, d, prev), s, others)

(* All of its turns drop those desktops and no other, and no window.       *)
LEMMA TrimmedLoop ==
  ASSUME NEW s, Sound(s), NEW m \in s.monitors, Range(s.desks[m]) \subseteq Range(s.recent.desktops),
         NEW others \in Seq(Range(s.desks[m])), IsInjective(others),
         NEW prev \in Range(s.desks[m]) \ Range(others),
         NEW t, t = Trimmed(s, m, prev, others)
  PROVE  Shrunk(s, t, m, Range(others)) /\ InTrees(t) = InTrees(s)
<1> DEFINE q == others
           n == Len(q)
           Done(i) == {q[j] : j \in 1..i}
           R == [i \in 0..n |-> {u \in Records : Sparing(s, u, m, Done(i), prev)}]
           Step(u, i) == DropTurn(u, m, q[i], prev)
           F == [i \in 1..n |-> [u \in Records |-> IF u \in R[i - 1] THEN Step(u, i) ELSE u]]
           Rec(f) == f = [i \in 0..n |-> IF i = 0 THEN s ELSE Step(f[i - 1], i)]
           g == CHOOSE f : Rec(f)
<1>0. n \in Nat /\ Range(q) = {q[i] : i \in 1..n} /\ \A i, j \in 1..n : q[i] = q[j] => i = j
  <2>1. q \in Seq(Range(s.desks[m])) /\ IsInjective(q)
    OBVIOUS
  <2> QED BY <2>1, LenProperties DEF Range, IsInjective
<1>1. t = g[n]
  BY DEF Trimmed, Loop
<1>3. Done(0) = {} /\ Done(n) = Range(q)
  BY <1>0
<1>4. \A i \in 1..n : q[i] \in Range(q) /\ q[i] \notin Done(i - 1) /\ Done(i) = Done(i - 1) \union {q[i]}
  <2>1. ASSUME NEW i \in 1..n  PROVE q[i] \in Range(q) /\ q[i] \notin Done(i - 1) /\ Done(i) = Done(i - 1) \union {q[i]}
    <3>1. /\ \A j \in 1..(i - 1) : j \in 1..i /\ j \in 1..n /\ j # i
          /\ \A j \in 1..i : j \in 1..(i - 1) \/ j = i
          /\ i \in 1..i
      BY <1>0
    <3> QED BY <1>0, <3>1
  <2> QED BY <2>1
<1> HIDE DEF q, n, Done, g
<1>5. s \in R[0]
  <2>1. PICK D : D = {}
    OBVIOUS
  <2>2. s \in Records /\ Sparing(s, s, m, D, prev)
    BY <2>1, MindsSelf DEF Sparing, Shrunk, Sound, Legal
  <2>3. R[0] = {u \in Records : Sparing(s, u, m, Done(0), prev)}
    BY <1>0
  <2>4. Done(0) = D
    BY <1>3, <2>1
  <2> HIDE DEF R
  <2> QED BY <2>2, <2>3, <2>4
<1>6. ASSUME NEW i \in 1..n, NEW u \in R[i - 1]  PROVE Step(u, i) \in R[i]
  <2>1. i - 1 \in 0..n /\ i \in 0..n
    BY <1>0
  <2>2. PICK v : v = Step(u, i)
    OBVIOUS
  <2>3. PICK D : D = Done(i - 1)
    OBVIOUS
  <2>4. PICK d : d = q[i]
    OBVIOUS
  <2>5. Sparing(s, u, m, D, prev)
    BY <1>6, <2>1, <2>3
  <2>6. d \in Range(q) /\ d \notin D /\ v = DropTurn(u, m, d, prev)
    BY <1>4, <2>2, <2>3, <2>4
  <2>7. Sparing(s, v, m, D \union {d}, prev) /\ v \in Records
    <3>1. d \in Range(s.desks[m]) \ D /\ d # prev
      BY <1>0, <2>6, ElementOfSeq DEF n, q
    <3>2. Shrunk(s, v, m, D \union {d}) /\ InTrees(v) = InTrees(u)
      BY <2>5, <2>6, <3>1, DropTurnShrinks DEF Sparing
    <3> QED BY <2>5, <3>1, <3>2 DEF Sparing, Shrunk, Sound, Legal
  <2>8. R[i] = {x \in Records : Sparing(s, x, m, Done(i), prev)}
    BY <2>1
  <2>9. Done(i) = D \union {d}
    BY <1>4, <2>3, <2>4
  <2> HIDE DEF R
  <2> QED BY <2>2, <2>7, <2>8, <2>9
<1>7. R \in [0..n -> SUBSET Records]
  OBVIOUS
<1> HIDE DEF R, Step
<1>8. F \in [1..n -> [Records -> Records]] /\ \A i \in 1..n : \A u \in R[i - 1] : F[i][u] = Step(u, i)
  <2>1. \A i \in 1..n : i \in 0..n /\ i - 1 \in 0..n
    BY <1>0
  <2> QED BY <1>6, <1>7, <2>1
<1> HIDE DEF F
<1>9. PICK f : RunsThrough(f, n, Records, R, s, F)
  <2>1. Turns(n, Records, R, F)
    BY <1>0, <1>6, <1>7, <1>8 DEF Turns
  <2> QED BY <1>5, <2>1, LoopRunsOn
<1>10. Rec(g)
  <2>1. \A i \in 0..n : i # 0 => i \in 1..n /\ i - 1 \in 0..n
    BY <1>0
  <2>2. Rec(f)
    BY <1>8, <1>9, <2>1 DEF Runs, RunsThrough
  <2> HIDE DEF Rec
  <2> QED BY <2>2 DEF g
<1>11. g[0] = s /\ \A i \in 1..n : g[i] = Step(g[i - 1], i)
  <2>1. 0 \in 0..n /\ \A i \in 1..n : i \in 0..n /\ i # 0
    BY <1>0
  <2> QED BY <1>10, <2>1
<1> HIDE DEF Rec
<1>12. g[n] \in R[n]
  <2>1. g[0] \in R[0] /\ \A i \in 1..n : g[i - 1] \in R[i - 1] => g[i] \in R[i]
    BY <1>5, <1>6, <1>11
  <2> QED BY <1>0, <2>1, LoopHolds
<1>13. n \in 0..n
  BY <1>0
<1>14. Sparing(s, t, m, Done(n), prev)
  BY <1>1, <1>12, <1>13 DEF R
<1> QED BY <1>3, <1>14 DEF q, Sparing
-----------------------------------------------------------------------------
(* The lists are sound, and a monitor that is not there shows nothing: the *)
(* invariant that the handlers keep.                                       *)
IInv == ListsSound /\ \A m \in Monitor : m \notin monitors => shown[m] = None

(* An order of a finite set is a sequence over it that holds all of it.    *)
LEMMA OrdersFacts ==
  ASSUME NEW S, IsFiniteSet(S), NEW q \in Orders(S)
  PROVE  q \in Seq(S) /\ Range(q) = S
<1>1. Cardinality(S) \in Nat
  BY FS_CardinalityType
<1>2. q \in [1..Cardinality(S) -> S] /\ Range(q) = S
  BY DEF Orders
<1> QED BY <1>1, <1>2, SeqDef

(* And so is the one chosen when the order does not matter.                *)
LEMMA AnyOrderFacts ==
  ASSUME NEW S, IsFiniteSet(S), NEW q \in AnyOrder(S)
  PROVE  q \in Orders(S)
<1>1. ExistsBijection(1..Cardinality(S), S)
  BY FS_CardinalityType
<1>2. PICK f \in [1..Cardinality(S) -> S] : \A e \in S : \E i \in 1..Cardinality(S) : f[i] = e
  BY <1>1 DEF ExistsBijection, Bijection, Surjection
<1>3. Range(f) = S
  BY <1>2 DEF Range
<1>4. f \in Orders(S)
  BY <1>2, <1>3 DEF Orders
<1>5. q = CHOOSE p \in Orders(S) : TRUE
  BY DEF AnyOrder
<1> QED BY <1>4, <1>5

(* What the history answers is an order of places.                         *)
Answers(r) ==
  /\ r \in [monitors : Seq(Monitor), desktops : Seq(Desktop), nodes : Seq(Node), leaves : Seq(Node)]
  /\ Range(r.monitors) = Monitor /\ Range(r.desktops) = Used
  /\ Range(r.nodes) = Managed /\ Range(r.leaves) = Managed

(* A sequence over a set is one over a larger set.                         *)
LEMMA SubsetSeq ==
  ASSUME NEW S, NEW T, S \subseteq T, NEW q \in Seq(S)
  PROVE  q \in Seq(T)
<1>1. Len(q) \in Nat /\ q \in [1..Len(q) -> S]
  BY LenProperties
<1>2. q \in [1..Len(q) -> T]
  BY <1>1
<1> QED BY <1>1, <1>2, SeqDef

(* A sequence is one over any set that holds its members.                  *)
LEMMA SequenceOn ==
  ASSUME NEW S, NEW T, NEW q \in Seq(S), Range(q) \subseteq T
  PROVE  q \in Seq(T)
<1>1. Len(q) \in Nat /\ q \in [1..Len(q) -> S]
  BY LenProperties
<1>2. q \in [1..Len(q) -> T]
  BY <1>1 DEF Range
<1> QED BY <1>1, <1>2, SeqDef

(* The desktops and the windows there are, are finitely many.              *)
LEMMA UsedFacts ==
  ASSUME IInv
  PROVE  /\ Used \subseteq Desktop /\ Managed \subseteq Node
         /\ IsFiniteSet(Used) /\ IsFiniteSet(Managed)
<1>1. monitors \subseteq Monitor /\ desks \in [Monitor -> Seq(Desktop)]
  BY DEF IInv, ListsSound, TypeOK
<1>2. ASSUME NEW m \in monitors  PROVE Occupied(m) \subseteq Desktop
  <2>1. PICK q : q = desks[m]
    OBVIOUS
  <2>2. q \in Seq(Desktop)
    BY <1>1, <2>1
  <2>3. Len(q) \in Nat /\ q \in [1..Len(q) -> Desktop]
    BY <2>2, LenProperties
  <2> QED BY <2>1, <2>3 DEF Occupied, Range
<1>3. Used \subseteq Desktop
  BY <1>2 DEF Used
<1>4. Managed \subseteq Node
  BY DEF Managed
<1>5. IsFiniteSet(Used)
  BY <1>3, FS_Subset, ScreensAssumption
<1>6. IsFiniteSet(Managed)
  BY <1>4, FS_Subset, PlacesAssumption
<1> QED BY <1>3, <1>4, <1>5, <1>6

(* Each answer of the history that an action may get is one of the answers *)
(* the state allows.                                                       *)
LEMMA RecentAnswers ==
  ASSUME IInv, NEW r \in RecentPlaces \union RecentNodes
  PROVE  Answers(r)
<1>1. IsFiniteSet(Monitor) /\ IsFiniteSet(Used) /\ IsFiniteSet(Managed)
      /\ Used \subseteq Desktop /\ Managed \subseteq Node
  BY UsedFacts, ScreensAssumption
<1>2. /\ r = [monitors |-> r.monitors, desktops |-> r.desktops, nodes |-> r.nodes, leaves |-> r.leaves]
      /\ r.monitors \in Orders(Monitor) /\ r.desktops \in Orders(Used)
      /\ r.nodes \in Orders(Managed) /\ r.leaves \in Orders(Managed)
  <2>1. CASE r \in RecentPlaces
    BY <2>1 DEF RecentPlaces
  <2>2. CASE r \in RecentNodes
    <3>1. /\ r = [monitors |-> r.monitors, desktops |-> r.desktops, nodes |-> r.nodes, leaves |-> r.leaves]
          /\ r.monitors \in AnyOrder(Monitor) /\ r.desktops \in AnyOrder(Used)
          /\ r.nodes \in Orders(Managed) /\ r.leaves \in Orders(Managed)
      BY <2>2 DEF RecentNodes
    <3> QED BY <1>1, <3>1, AnyOrderFacts
  <2> QED BY <2>1, <2>2
<1>3. r.monitors \in Seq(Monitor) /\ Range(r.monitors) = Monitor
  BY <1>1, <1>2, OrdersFacts
<1>4. r.desktops \in Seq(Used) /\ Range(r.desktops) = Used
  BY <1>1, <1>2, OrdersFacts
<1>5. r.nodes \in Seq(Managed) /\ Range(r.nodes) = Managed
  BY <1>1, <1>2, OrdersFacts
<1>6. r.leaves \in Seq(Managed) /\ Range(r.leaves) = Managed
  BY <1>1, <1>2, OrdersFacts
<1>7. r.desktops \in Seq(Desktop)
  BY <1>1, <1>4, SubsetSeq
<1>8. r.nodes \in Seq(Node) /\ r.leaves \in Seq(Node)
  BY <1>1, <1>5, <1>6, SubsetSeq
<1> QED BY <1>2, <1>3, <1>4, <1>5, <1>6, <1>7, <1>8 DEF Answers

(* The state that a handler is given.                                      *)
Given(s, r) ==
  /\ s.monitors = monitors /\ s.desks = desks /\ s.shown = shown /\ s.mon = mon
  /\ s.home = home /\ s.sticky = sticky /\ s.focus = focus /\ s.visible = visible
  /\ s.mislaid = mislaid /\ s.last = None /\ s.recent = r
(* The record that an action starts from is sound, and the history knows   *)
(* its desktops and windows.                                               *)
LEMMA StateFacts ==
  ASSUME IInv, NEW r, Answers(r), NEW s, s = State(r)
  PROVE  Sound(s) /\ Known(s) /\ Given(s, r)
<1>0. Given(s, r)
  BY DEF State, Given
<1>1. /\ monitors \subseteq Monitor /\ desks \in [Monitor -> Seq(Desktop)]
      /\ shown \in [Monitor -> Desktop \union {None}] /\ count \in [Monitor -> 0..(Word - 1)]
      /\ mon \in Monitor \union {None} /\ home \in [Node -> Desktop \union {None}]
      /\ sticky \subseteq Managed /\ focus \in [Desktop \union Range(Stash) -> Node \union {None}]
      /\ visible \subseteq Managed /\ strayed \in BOOLEAN /\ unseen \in BOOLEAN /\ mislaid \in BOOLEAN
  BY DEF IInv, ListsSound, TypeOK
<1>2. Desktop \subseteq Desk /\ Desktop \union Range(Stash) = Desk
  BY Things DEF Desk
<1>3. desks \in [Monitor -> Seq(Desk)]
  <2>1. \A m \in Monitor : desks[m] \in Seq(Desk)
    BY <1>1, <1>2, SubsetSeq
  <2> QED BY <1>1, <2>1
<1>4. Managed \subseteq Node
  BY DEF Managed
<1>5. s \in Records
  <2>1. r \in [monitors : Seq(Monitor), desktops : Seq(Desktop), nodes : Seq(Node), leaves : Seq(Node)]
    BY DEF Answers
  <2>2. shown \in [Monitor -> Desk \union {None}] /\ home \in [Node -> Desk \union {None}]
    BY <1>1, <1>2
  <2>3. focus \in [Desk -> Node \union {None}]
    BY <1>1, <1>2
  <2>4. sticky \in SUBSET Node /\ visible \in SUBSET Node /\ monitors \in SUBSET Monitor
    BY <1>1, <1>4
  <2>5. None \in Monitor \union {None}
    OBVIOUS
  <2> QED BY <1>1, <1>3, <2>1, <2>2, <2>3, <2>4, <2>5 DEF Records, State
<1>6. /\ \A m \in Monitor : IsInjective(desks[m]) /\ (m \notin monitors => desks[m] = <<>>)
      /\ \A m, x \in Monitor : m # x => Range(desks[m]) \intersect Range(desks[x]) = {}
      /\ mon \in monitors
      /\ \A m \in monitors : shown[m] \in Range(desks[m])
      /\ \A m \in Monitor : m \notin monitors => shown[m] = None
      /\ \A n \in Managed : home[n] \in Used
  BY DEF IInv, ListsSound, Occupied
<1>7. ListsLegal(s)
  BY <1>0, <1>6 DEF ListsLegal, Given
<1>8. InLists(s) = Used
  <2>1. \A m \in Monitor : m \notin monitors => Range(desks[m]) = {}
    BY <1>6 DEF Range
  <2> QED BY <1>0, <1>1, <2>1 DEF InLists, Used, Occupied, Given
<1>9. InTrees(s) = Managed
  BY <1>0 DEF InTrees, Managed, Given
<1>10. TreesLegal(s)
  BY <1>0, <1>1, <1>6, <1>8, <1>9 DEF TreesLegal, Managed, Given
<1>11. Used \subseteq Desktop /\ None \notin Desktop
  BY UsedFacts, Things
<1>12. Sound(s)
  <2>1. \A m \in monitors : shown[m] # None
    BY <1>6, <1>11 DEF Used, Occupied
  <2>2. mon # None
    BY <1>1, <1>6, Things
  <2> QED BY <1>0, <1>5, <1>7, <1>8, <1>10, <1>11, <2>1, <2>2 DEF Sound, Legal, Given
<1>13. Known(s)
  BY <1>0, <1>8, <1>9 DEF Known, Answers, Given
<1> QED BY <1>0, <1>12, <1>13

(* ... and the state that it leaves.                                       *)
LEMMA BecomesSound ==
  ASSUME NEW t, Sound(t), Becomes(t)
  PROVE  IInv'
<1>0. /\ t \in Records /\ ListsLegal(t) /\ TreesLegal(t) /\ InLists(t) \subseteq Desktop /\ t.mon # None
      /\ \A m \in t.monitors : t.shown[m] # None
  BY DEF Sound, Legal
<1>1. /\ monitors' = t.monitors /\ desks' = t.desks /\ shown' = t.shown /\ count' = t.count
      /\ mon' = t.mon /\ home' = t.home /\ sticky' = t.sticky /\ focus' = t.focus
      /\ visible' = t.visible /\ strayed' = t.strayed /\ unseen' = t.unseen /\ mislaid' = t.mislaid
  BY DEF Becomes
<1>2. /\ t.monitors \subseteq Monitor /\ t.desks \in [Monitor -> Seq(Desk)]
      /\ t.shown \in [Monitor -> Desk \union {None}] /\ t.count \in [Monitor -> 0..(Word - 1)]
      /\ t.mon \in Monitor \union {None} /\ t.home \in [Node -> Desk \union {None}]
      /\ t.focus \in [Desk -> Node \union {None}]
      /\ t.strayed \in BOOLEAN /\ t.unseen \in BOOLEAN /\ t.mislaid \in BOOLEAN
  BY <1>0 DEF Records
<1>3. /\ \A m \in Monitor : Range(t.desks[m]) \subseteq Desktop
      /\ \A m \in Monitor : m \notin t.monitors => t.desks[m] = <<>> /\ Range(t.desks[m]) = {}
  <2>1. Range(<<>>) = {}
    BY DEF Range
  <2> QED BY <1>0, <2>1 DEF ListsLegal, InLists
<1>4. t.desks \in [Monitor -> Seq(Desktop)]
  <2>1. \A m \in Monitor : t.desks[m] \in Seq(Desktop)
    BY <1>2, <1>3, SequenceOn
  <2> QED BY <1>2, <2>1
<1>5. t.shown \in [Monitor -> Desktop \union {None}]
  BY <1>0, <1>2, <1>3 DEF ListsLegal
<1>6. InTrees(t) = Managed'
  BY <1>1 DEF InTrees, Managed
<1>7. t.home \in [Node -> Desktop \union {None}]
  BY <1>0, <1>2 DEF TreesLegal
<1>8. InLists(t) = Used'
  <2>1. Used' = UNION {Range(t.desks[m]) : m \in t.monitors}
    BY <1>1 DEF Used, Occupied
  <2>2. InLists(t) = UNION {Range(t.desks[m]) : m \in t.monitors}
    <3>1. ASSUME NEW e, NEW m \in Monitor, e \in Range(t.desks[m])  PROVE m \in t.monitors
      BY <1>3, <3>1
    <3>2. t.monitors \subseteq Monitor
      BY <1>2
    <3>3. PICK D : D = t.desks
      OBVIOUS
    <3>4. PICK M : M = t.monitors
      OBVIOUS
    <3>5. UNION {Range(D[m]) : m \in Monitor} = UNION {Range(D[m]) : m \in M}
      BY <3>1, <3>2, <3>3, <3>4
    <3> QED BY <3>3, <3>4, <3>5 DEF InLists
  <2> QED BY <2>1, <2>2
<1>9. TypeOK'
  <2>1. Desktop \union Range(Stash) = Desk
    BY Things DEF Desk
  <2>2. t.sticky \subseteq InTrees(t) /\ t.visible \subseteq InTrees(t)
    BY <1>0 DEF TreesLegal
  <2> QED BY <1>1, <1>2, <1>4, <1>5, <1>6, <1>7, <2>1, <2>2 DEF TypeOK
<1>10. ListsSound'
  <2>1. /\ \A m \in Monitor : IsInjective(t.desks[m]) /\ (m \notin t.monitors => t.desks[m] = <<>>)
        /\ \A m, x \in Monitor : m # x => Range(t.desks[m]) \intersect Range(t.desks[x]) = {}
        /\ t.mon \in t.monitors
    BY <1>0 DEF ListsLegal
  <2>2. \A m \in t.monitors : t.shown[m] \in Range(t.desks[m])
    BY <1>0, <1>2 DEF ListsLegal
  <2>3. \A n \in Managed' : t.home[n] \in Used'
    BY <1>0, <1>6, <1>8 DEF TreesLegal, InTrees
  <2> QED BY <1>1, <1>9, <2>1, <2>2, <2>3 DEF ListsSound, Occupied
<1>11. \A m \in Monitor : m \notin monitors' => shown'[m] = None
  BY <1>0, <1>1, <1>3 DEF ListsLegal
<1> QED BY <1>10, <1>11 DEF IInv
-----------------------------------------------------------------------------
(* Where a handler finds the desktops and the windows.                     *)
LEMMA Started ==
  ASSUME IInv, NEW r \in RecentPlaces \union RecentNodes, NEW s, s = State(r)
  PROVE  Sound(s) /\ Legal(s) /\ Known(s) /\ Given(s, r)
<1>1. Answers(r)
  BY RecentAnswers
<1> QED BY <1>1, StateFacts DEF Sound

Places(s, m, d) == m \in s.monitors /\ m \in Monitor /\ d \in Range(s.desks[m]) /\ d \in Desk

(* The monitor of a desktop that is in use lists it.                       *)
LEMMA HomeFacts ==
  ASSUME IInv, NEW d \in Used, NEW m, m = Home(d), NEW s, NEW r, Given(s, r)
  PROVE  Places(s, m, d)
<1>1. PICK x \in monitors : d \in Occupied(x)
  BY DEF Used
<1>2. m \in monitors /\ d \in Occupied(m)
  BY <1>1 DEF Home
<1>3. m \in Monitor
  BY <1>2 DEF IInv, ListsSound, TypeOK
<1>4. d \in Desk
  BY UsedFacts DEF Desk
<1> QED BY <1>2, <1>3, <1>4 DEF Places, Given, Occupied

(* The monitor of a managed window, and its desktop.                       *)
LEMMA OnFacts ==
  ASSUME IInv, NEW n \in Managed, NEW m, m = On(n), NEW d, d = home[n], NEW s, NEW r, Given(s, r)
  PROVE  Places(s, m, d) /\ n \in NodesOf(s, d) /\ d \in Used /\ n \in Node
<1>1. d \in Used /\ n \in Node
  BY DEF IInv, ListsSound, Managed
<1>2. m = Home(d)
  BY DEF On
<1>3. Places(s, m, d)
  BY <1>1, <1>2, HomeFacts
<1> QED BY <1>1, <1>3 DEF NodesOf, Given

(* The focus of a desktop is one of its windows, and only a desktop without*)
(* windows has none, unless a chain of commands has mislaid a window.      *)
Focused ==
  mislaid \/ \A d \in Desk : /\ focus[d] = None \/ home[focus[d]] = d
                             /\ focus[d] = None => \A n \in Node : home[n] # d

(* The handler disturbs no focus, or has mislaid a window.                 *)
Attends(s, t) == Minds(s, t) \/ t.mislaid

(* The focus stays right when the handler disturbs none.                   *)
LEMMA FocusStands ==
  ASSUME Focused, NEW r, NEW s, Known(s), Given(s, r), NEW t, Attends(s, t), Becomes(t)
  PROVE  Focused'
<1>1. /\ s.home = home /\ s.focus = focus /\ s.mislaid = mislaid
      /\ home' = t.home /\ focus' = t.focus /\ mislaid' = t.mislaid
  BY DEF Given, Becomes
<1>2. CASE t.mislaid
  BY <1>1, <1>2 DEF Focused
<1>3. CASE ~t.mislaid
  <2>1. Minds(s, t) /\ ~mislaid
    BY <1>1, <1>3 DEF Attends, Minds, Heeds
  <2>2. Wary(s)
    BY <1>1, <2>1 DEF Wary, Known, Focused
  <2>3. \A d \in Desk : s.focus[d] = None => NodesOf(s, d) = {}
    BY <1>1, <2>1 DEF Focused, NodesOf
  <2>4. Wary(t) /\ Blurred(t) \subseteq Blurred(s)
    BY <2>1, <2>2 DEF Minds, Heeds
  <2>5. \A d \in Desk : t.focus[d] = None => NodesOf(t, d) = {}
    BY <2>3, <2>4 DEF Blurred
  <2>6. \A d \in Desk : t.focus[d] = None => \A n \in Node : t.home[n] # d
    BY <2>5 DEF NodesOf
  <2>7. \A d \in Desk : t.focus[d] = None \/ t.home[t.focus[d]] = d
    BY <2>4 DEF Wary
  <2> QED BY <1>1, <2>6, <2>7 DEF Focused
<1> QED BY <1>2, <1>3

(* A window leaves the trees as WindowsKept allows it.                     *)
Departs(s, t, n) ==
  \/ \A x \in Node \ {n} : t.home[x] = s.home[x]
  \/ /\ s.home[n] \notin InLists(t)
     /\ \/ \E x \in Monitor \ t.monitors : s.home[n] \in Range(s.desks[x])
        \/ \E x \in s.sticky : s.home[x] = s.home[n]

(* What a step keeps: the invariant, the focus and the windows.            *)
Kept ==
  /\ IInv'
  /\ Focused => Focused'
  /\ \A n \in Managed : home'[n] = None =>
        \/ \A x \in Node \ {n} : home'[x] = home[x]
        \/ /\ home[n] \notin Used'
           /\ On(n) \notin monitors' \/ \E x \in sticky : home[x] = home[n]

(* A handler that leaves a sound state, and lets no other window depart.   *)
LEMMA HandlerKeeps ==
  ASSUME IInv, NEW r, NEW s, Sound(s), Known(s), Given(s, r), NEW t, Sound(t), Attends(s, t),
         Becomes(t), \A n \in InTrees(s) \ InTrees(t) : Departs(s, t, n)
  PROVE  Kept
<1>1. IInv'
  BY BecomesSound
<1>2. home' = t.home /\ monitors' = t.monitors /\ desks' = t.desks
  BY DEF Becomes
<1>3. /\ s.home = home /\ s.monitors = monitors /\ s.desks = desks /\ s.sticky = sticky
      /\ ListsLegal(s)
  BY DEF Given, Sound, Legal
<1>4. Used' \subseteq InLists(t)
  <2>1. monitors' \subseteq Monitor
    BY <1>1 DEF IInv, ListsSound, TypeOK
  <2> QED BY <1>2, <2>1 DEF Used, Occupied, InLists
<1>5. ASSUME NEW n \in Managed, home'[n] = None
      PROVE  \/ \A x \in Node \ {n} : home'[x] = home[x]
             \/ /\ home[n] \notin Used'
                /\ On(n) \notin monitors' \/ \E x \in sticky : home[x] = home[n]
  <2>1. n \in InTrees(s) \ InTrees(t)
    BY <1>2, <1>3, <1>5 DEF Managed, InTrees
  <2>2. Departs(s, t, n)
    BY <2>1
  <2>3. PICK m : m = On(n)
    OBVIOUS
  <2>4. m \in Monitor /\ home[n] \in Range(s.desks[m])
    <3>1. PICK d : d = home[n]
      OBVIOUS
    <3>2. Places(s, m, d)
      BY <2>3, <3>1, OnFacts
    <3> QED BY <3>1, <3>2 DEF Places
  <2>5. \A x \in Monitor : home[n] \in Range(s.desks[x]) => x = m
    BY <1>3, <2>4 DEF ListsLegal
  <2> QED BY <1>2, <1>3, <1>4, <2>2, <2>3, <2>5 DEF Departs
<1>6. Focused => Focused'
  BY FocusStands
<1> QED BY <1>1, <1>5, <1>6 DEF Kept

(* A handler that leaves every window in a tree.                           *)
LEMMA SparingKeeps ==
  ASSUME IInv, NEW r, NEW s, Sound(s), Known(s), Given(s, r), NEW t, Sound(t), Attends(s, t),
         Becomes(t), InTrees(s) \subseteq InTrees(t)
  PROVE  Kept
BY HandlerKeeps

(* As one does that moves no desktop.                                      *)
LEMMA RoamingKeeps ==
  ASSUME IInv, NEW r, NEW s, Sound(s), Known(s), Given(s, r), NEW t, Roams(s, t), Minds(s, t),
         Becomes(t)
  PROVE  Kept
<1>1. Sound(t) /\ InTrees(s) \subseteq InTrees(t) /\ Attends(s, t)
  BY RoamsSound DEF Roams, Attends
<1> QED BY <1>1, SparingKeeps

(* The commands on a node.                                                 *)
LEMMA UnmanageSound ==
  ASSUME IInv, NEW n \in Managed, Unmanage(n)
  PROVE  Kept
<1>1. PICK r \in RecentNodes : Becomes(RemoveNode(State(r), On(n), home[n], {n}))
  BY DEF Unmanage, Command
<1>2. PICK s : s = State(r)
  OBVIOUS
<1>3. Sound(s) /\ Legal(s) /\ Known(s) /\ Given(s, r)
  BY <1>2, Started
<1>4. PICK m : m = On(n)
  OBVIOUS
<1>5. PICK d : d = home[n]
  OBVIOUS
<1>6. PICK N : N = {n}
  OBVIOUS
<1>7. Places(s, m, d) /\ N \in SUBSET NodesOf(s, d)
  BY <1>3, <1>4, <1>5, <1>6, OnFacts
<1>8. PICK t : t = RemoveNode(s, m, d, N)
  OBVIOUS
<1>9. Ranges(s, t)
  BY <1>3, <1>7, <1>8, RemoveNodeRanges DEF Places
<1>10. Becomes(t)
  BY <1>1, <1>2, <1>4, <1>5, <1>6, <1>8
<1>11. \A x \in Node : t.home[x] = IF x \in N THEN None ELSE s.home[x]
  BY <1>3, <1>7, <1>8, RemoveNodeRanges DEF Places
<1>12. Sound(t)
  BY <1>3, <1>9, RangesSound
<1>13. \A x \in InTrees(s) \ InTrees(t) : Departs(s, t, x)
  BY <1>6, <1>11 DEF InTrees, Departs
<1>14. Attends(s, t)
  <2>1. s.mon # None /\ m \in Monitor /\ d \in Range(s.desks[m])
    BY <1>3, <1>7 DEF Sound, Places
  <2>2. Minds(s, t)
    BY <1>3, <1>7, <1>8, <2>1, RemoveNodeMinds
  <2> QED BY <2>2 DEF Attends
<1> QED BY <1>3, <1>10, <1>12, <1>13, <1>14, HandlerKeeps

(* The focus on a window keeps the invariant.                              *)
LEMMA FocusWindowSound ==
  ASSUME IInv, NEW n \in Managed, FocusWindow(n)
  PROVE  Kept
<1>1. PICK r \in RecentNodes : Becomes(FocusNode(State(r), On(n), home[n], n))
  BY DEF FocusWindow, Command
<1>2. PICK s : s = State(r)
  OBVIOUS
<1>3. Sound(s) /\ Legal(s) /\ Known(s) /\ Given(s, r)
  BY <1>2, Started
<1>4. PICK m : m = On(n)
  OBVIOUS
<1>5. PICK d : d = home[n]
  OBVIOUS
<1>6. Places(s, m, d) /\ n \in Node \union {None} /\ n \in NodesOf(s, d)
  BY <1>3, <1>4, <1>5, OnFacts
<1>7. PICK t : t = FocusNode(s, m, d, n)
  OBVIOUS
<1>8. Roams(s, t)
  BY <1>3, <1>6, <1>7, FocusNodeRoams DEF Places
<1>9. Becomes(t)
  BY <1>1, <1>2, <1>4, <1>5, <1>7
<1>10. Minds(s, t)
  <2>1. Placed(s, n, d)
    BY <1>6 DEF Placed, NodesOf
  <2>2. Mends(s, t, d)
    BY <1>3, <1>6, <1>7, <2>1, FocusNodeMends DEF Places
  <2> QED BY <2>2, MendsMinds
<1> QED BY <1>3, <1>8, <1>9, <1>10, RoamingKeeps

(* The activation of a window keeps it.                                    *)
LEMMA ActivateWindowSound ==
  ASSUME IInv, NEW n \in Managed, ActivateWindow(n)
  PROVE  Kept
<1>1. PICK r \in RecentNodes : Becomes(ActivateNode(State(r), home[n], n))
  BY DEF ActivateWindow, Command
<1>2. PICK s : s = State(r)
  OBVIOUS
<1>3. Sound(s) /\ Legal(s) /\ Known(s) /\ Given(s, r)
  BY <1>2, Started
<1>4. PICK m : m = On(n)
  OBVIOUS
<1>5. PICK d : d = home[n]
  OBVIOUS
<1>6. Places(s, m, d) /\ n \in Node \union {None} /\ n \in NodesOf(s, d)
  BY <1>3, <1>4, <1>5, OnFacts
<1>7. PICK t : t = ActivateNode(s, d, n)
  OBVIOUS
<1>8. Roams(s, t)
  BY <1>3, <1>6, <1>7, ActivateNodeRoams DEF Places
<1>9. Becomes(t)
  BY <1>1, <1>2, <1>5, <1>7
<1>10. Minds(s, t)
  <2>1. Placed(s, n, d)
    BY <1>6 DEF Placed, NodesOf
  <2> QED BY <1>3, <1>6, <1>7, <2>1, ActivateNodeMinds DEF Places
<1> QED BY <1>3, <1>8, <1>9, <1>10, RoamingKeeps

(* A window sent to a desktop keeps it.                                    *)
LEMMA ToDesktopSound ==
  ASSUME IInv, NEW n \in Managed, NEW d2 \in Used, NEW follow, ToDesktop(n, d2, follow)
  PROVE  Kept
<1>1. PICK r \in RecentNodes :
        Becomes(TransferNode(State(r), On(n), home[n], {n}, Home(d2), d2, follow))
  BY DEF ToDesktop, Command
<1>2. PICK s : s = State(r)
  OBVIOUS
<1>3. Sound(s) /\ Legal(s) /\ Known(s) /\ Given(s, r)
  BY <1>2, Started
<1>4. PICK m : m = On(n)
  OBVIOUS
<1>5. PICK d : d = home[n]
  OBVIOUS
<1>6. PICK m2 : m2 = Home(d2)
  OBVIOUS
<1>7. PICK N : N = {n}
  OBVIOUS
<1>8. Places(s, m, d) /\ N \subseteq NodesOf(s, d) /\ Places(s, m2, d2)
  BY <1>3, <1>4, <1>5, <1>6, <1>7, OnFacts, HomeFacts
<1>9. PICK t : t = TransferNode(s, m, d, N, m2, d2, follow)
  OBVIOUS
<1>10. Roams(s, t) /\ Minds(s, t)
  <2>1. Transfer(s, m, d, N, m2, d2)
    BY <1>8 DEF Transfer, Places
  <2> QED BY <1>3, <1>9, <2>1, TransferNodeRoams, TransferNodeMinds
<1>11. Becomes(t)
  BY <1>1, <1>2, <1>4, <1>5, <1>6, <1>7, <1>9
<1> QED BY <1>3, <1>10, <1>11, RoamingKeeps

(* The exchange of two windows keeps it.                                   *)
LEMMA SwapWindowsSound ==
  ASSUME IInv, NEW n1 \in Managed, NEW n2 \in Managed, NEW follow, SwapWindows(n1, n2, follow)
  PROVE  Kept
<1>1. PICK r \in RecentNodes :
        Becomes(SwapNodes(State(r), On(n1), home[n1], n1, On(n2), home[n2], n2, follow))
  BY DEF SwapWindows, Command
<1>2. PICK s : s = State(r)
  OBVIOUS
<1>3. Sound(s) /\ Legal(s) /\ Known(s) /\ Given(s, r)
  BY <1>2, Started
<1>4. PICK m1 : m1 = On(n1)
  OBVIOUS
<1>5. PICK d1 : d1 = home[n1]
  OBVIOUS
<1>6. PICK m2 : m2 = On(n2)
  OBVIOUS
<1>7. PICK d2 : d2 = home[n2]
  OBVIOUS
<1>8. Places(s, m1, d1) /\ n1 \in NodesOf(s, d1)
  BY <1>3, <1>4, <1>5, OnFacts
<1>9. Places(s, m2, d2) /\ n2 \in NodesOf(s, d2)
  BY <1>3, <1>6, <1>7, OnFacts
<1>10. PICK t : t = SwapNodes(s, m1, d1, n1, m2, d2, n2, follow)
  OBVIOUS
<1>13. d1 # d2
  BY <1>5, <1>7 DEF SwapWindows
<1>11. Roams(s, t)
  BY <1>3, <1>8, <1>9, <1>10, <1>13, SwapNodesRoams DEF Places
<1>14. Minds(s, t)
  BY <1>3, <1>8, <1>9, <1>10, <1>13, SwapNodesMinds DEF Places
<1>12. Becomes(t)
  BY <1>1, <1>2, <1>4, <1>5, <1>6, <1>7, <1>10
<1> QED BY <1>3, <1>11, <1>12, <1>14, RoamingKeeps

(* A change of the sticky flag changes no list.                            *)
LEMMA StuckRoams ==
  ASSUME IInv, NEW n \in Managed, NEW s, NEW r, Sound(s), Given(s, r), NEW t, t = Stuck(s, n)
  PROVE  Roams(s, t) /\ Minds(s, t)
<1>1. PICK m : m = On(n)
  OBVIOUS
<1>2. PICK d : d = home[n]
  OBVIOUS
<1>3. PICK b \in BOOLEAN : b <=> n \notin sticky
  <2>1. (n \notin sticky) \in BOOLEAN
    OBVIOUS
  <2> QED BY <2>1
<1>4. Places(s, m, d) /\ n \in NodesOf(s, d) /\ Legal(s)
  BY <1>1, <1>2, OnFacts DEF Sound
<1>5. s.shown[m] # None
  BY <1>4 DEF Places, Sound
<1>6. t = SetSticky(s, m, d, n, b)
  <2>1. b = (n \notin sticky)
    BY <1>3
  <2> QED BY <1>1, <1>2, <2>1 DEF Stuck
<1>7. Minds(s, t)
  BY <1>4, <1>5, <1>6, SetStickyMinds DEF Places
<1> QED BY <1>4, <1>5, <1>6, <1>7, SetStickyRoams DEF Places

(* The change of the sticky flag keeps it.                                 *)
LEMMA StickSound ==
  ASSUME IInv, NEW n \in Managed, Stick(n)
  PROVE  Kept
<1>1. PICK r \in RecentNodes : Becomes(Stuck(State(r), n))
  BY DEF Stick, Command
<1>2. PICK s : s = State(r)
  OBVIOUS
<1>3. Sound(s) /\ Legal(s) /\ Known(s) /\ Given(s, r)
  BY <1>2, Started
<1>4. PICK t : t = Stuck(s, n)
  OBVIOUS
<1>5. Roams(s, t) /\ Minds(s, t)
  BY <1>3, <1>4, StuckRoams
<1>6. Becomes(t)
  BY <1>1, <1>2, <1>4
<1> QED BY <1>3, <1>5, <1>6, RoamingKeeps

(* What a chain of commands notes: a variable of the model alone.          *)
Mislaid(s, b) == [s EXCEPT !.mislaid = b]

(* The mark of a mislaid window changes nothing else.                      *)
LEMMA MislaidSound ==
  ASSUME NEW s, Sound(s), NEW b \in BOOLEAN, NEW t, t = Mislaid(s, b)
  PROVE  /\ Sound(t) /\ InTrees(t) = InTrees(s) /\ t.mislaid = b
         /\ t.home = s.home /\ t.focus = s.focus /\ t.recent = s.recent
<1>1. s \in Records
  BY DEF Sound, Legal
<1>2. t \in Records
  BY <1>1, ZenonT(60) DEF Records, Mislaid
<1>3. /\ t.monitors = s.monitors /\ t.desks = s.desks /\ t.shown = s.shown /\ t.mon = s.mon
      /\ t.sticky = s.sticky /\ t.home = s.home /\ t.visible = s.visible /\ t.mislaid = b
      /\ t.focus = s.focus /\ t.recent = s.recent
  BY <1>1 DEF Records, Mislaid
<1>4. InLists(t) = InLists(s) /\ InTrees(t) = InTrees(s)
  BY <1>3 DEF InLists, InTrees
<1>5. TreesLegal(t) /\ ListsLegal(t)
  BY <1>3, <1>4 DEF Sound, Legal, TreesLegal, ListsLegal
<1> QED BY <1>2, <1>3, <1>4, <1>5 DEF Sound, Legal

(* What Noted() makes of a state is sound if the state is.                 *)
LEMMA NotedKeeps ==
  ASSUME NEW n, NEW u, Sound(u), NEW t, t = Noted(u, n)
  PROVE  /\ Sound(t) /\ InTrees(t) = InTrees(u)
         /\ t.mislaid \/ (u.home[n] = home[n] /\ Minds(u, t))
<1>1. PICK b : b = (u.mislaid \/ u.home[n] # home[n])
  OBVIOUS
<1>2. b \in BOOLEAN
  BY <1>1
<1>3. t = Mislaid(u, b)
  BY <1>1 DEF Mislaid, Noted
<1>4. /\ Sound(t) /\ InTrees(t) = InTrees(u) /\ t.mislaid = b
      /\ t.home = u.home /\ t.focus = u.focus /\ t.recent = u.recent
  BY <1>2, <1>3, MislaidSound
<1>5. u.mislaid \in BOOLEAN
  BY DEF Sound, Legal, Records
<1>6. ASSUME ~b  PROVE u.home[n] = home[n] /\ Minds(u, t)
  <2>1. ~u.mislaid /\ u.home[n] = home[n]
    BY <1>1, <1>6
  <2>2. u.mislaid = FALSE /\ b = FALSE
    BY <1>2, <1>5, <1>6, <2>1
  <2>3. Alike(u, t)
    BY <1>4, <2>2 DEF Alike
  <2> QED BY <2>1, <2>3, AlikeMinds
<1> QED BY <1>2, <1>4, <1>6

(* And with the focus that follows it.                                     *)
LEMMA StickThenFocusSound ==
  ASSUME IInv, NEW n \in Managed, StickThenFocus(n)
  PROVE  Kept
<1>1. PICK r \in RecentNodes :
          Becomes(Noted(FocusNode(Stuck(State(r), n), On(n), home[n], n), n))
  BY DEF StickThenFocus, Command
<1>2. PICK s : s = State(r)
  OBVIOUS
<1>3. Sound(s) /\ Legal(s) /\ Known(s) /\ Given(s, r)
  BY <1>2, Started
<1>4. PICK m : m = On(n)
  OBVIOUS
<1>5. PICK d : d = home[n]
  OBVIOUS
<1>6. Places(s, m, d) /\ n \in Node \union {None} /\ n \in Node
  BY <1>3, <1>4, <1>5, OnFacts
<1>7. PICK u : u = Stuck(s, n)
  OBVIOUS
<1>8. Roams(s, u) /\ Minds(s, u)
  BY <1>3, <1>7, StuckRoams
<1>9. Sound(u) /\ Legal(u) /\ d \in Range(u.desks[m])
  BY <1>3, <1>6, <1>8, RoamsSound, RoamsPlace DEF Places
<1>10. PICK t : t = FocusNode(u, m, d, n)
  OBVIOUS
<1>11. Roams(u, t)
  BY <1>6, <1>9, <1>10, FocusNodeRoams DEF Places
<1>12. Sound(t) /\ Legal(t)
  BY <1>9, <1>11, RoamsSound DEF Sound
<1>13. PICK v : v = Noted(t, n)
  OBVIOUS
<1>14. Becomes(v)
  BY <1>1, <1>2, <1>4, <1>5, <1>7, <1>10, <1>13
<1>15. /\ Sound(v) /\ InTrees(v) = InTrees(t)
       /\ v.mislaid \/ (t.home[n] = home[n] /\ Minds(t, v))
  BY <1>12, <1>13, NotedKeeps
<1>16. InTrees(s) \subseteq InTrees(v)
  BY <1>8, <1>11, <1>15 DEF Roams
<1>17. ASSUME ~v.mislaid  PROVE Minds(s, v)
  <2>1. t.home[n] = d /\ Minds(t, v)
    BY <1>5, <1>15, <1>17
  <2>2. m \in u.monitors
    BY <1>6, <1>8 DEF Places, Roams, Ranges, SameLists
  <2>3. Minds(u, t)
    BY <1>6, <1>9, <1>10, <2>1, <2>2, FocusNodeArrives
  <2> QED BY <1>8, <2>1, <2>3, MindsOn
<1>18. Attends(s, v)
  BY <1>17 DEF Attends
<1> QED BY <1>3, <1>14, <1>15, <1>16, <1>18, SparingKeeps

(* And with the activation that follows it.                                *)
LEMMA StickThenActivateSound ==
  ASSUME IInv, NEW n \in Managed, StickThenActivate(n)
  PROVE  Kept
<1>1. PICK r \in RecentNodes :
          Becomes(Noted(ActivateNode(Stuck(State(r), n), home[n], n), n))
  BY DEF StickThenActivate, Command
<1>2. PICK s : s = State(r)
  OBVIOUS
<1>3. Sound(s) /\ Legal(s) /\ Known(s) /\ Given(s, r)
  BY <1>2, Started
<1>4. PICK m : m = On(n)
  OBVIOUS
<1>5. PICK d : d = home[n]
  OBVIOUS
<1>6. Places(s, m, d) /\ n \in Node \union {None}
  BY <1>3, <1>4, <1>5, OnFacts
<1>7. PICK u : u = Stuck(s, n)
  OBVIOUS
<1>8. Roams(s, u) /\ Minds(s, u)
  BY <1>3, <1>7, StuckRoams
<1>9. Sound(u) /\ Legal(u)
  BY <1>3, <1>8, RoamsSound DEF Sound
<1>10. PICK t : t = ActivateNode(u, d, n)
  OBVIOUS
<1>11. Roams(u, t)
  BY <1>6, <1>9, <1>10, ActivateNodeRoams DEF Places
<1>12. Sound(t) /\ Legal(t)
  BY <1>9, <1>11, RoamsSound DEF Sound
<1>13. PICK v : v = Noted(t, n)
  OBVIOUS
<1>14. Becomes(v)
  BY <1>1, <1>2, <1>5, <1>7, <1>10, <1>13
<1>15. /\ Sound(v) /\ InTrees(v) = InTrees(t)
       /\ v.mislaid \/ (t.home[n] = home[n] /\ Minds(t, v))
  BY <1>12, <1>13, NotedKeeps
<1>16. InTrees(s) \subseteq InTrees(v)
  BY <1>8, <1>11, <1>15 DEF Roams
<1>17. ASSUME ~v.mislaid  PROVE Minds(s, v)
  <2>1. t.home[n] = d /\ Minds(t, v)
    BY <1>5, <1>15, <1>17
  <2>2. t.home = u.home
    BY <1>6, <1>9, <1>10, ActivateNodeStays DEF Places
  <2>3. Placed(u, n, d)
    BY <2>1, <2>2 DEF Placed
  <2>4. Minds(u, t)
    BY <1>6, <1>9, <1>10, <2>3, ActivateNodeMinds DEF Places
  <2> QED BY <1>8, <2>1, <2>4, MindsOn
<1>18. Attends(s, v)
  BY <1>17 DEF Attends
<1> QED BY <1>3, <1>14, <1>15, <1>16, <1>18, SparingKeeps

(* The commands on a desktop.                                              *)
LEMMA FocusDesktopSound ==
  ASSUME IInv, NEW d \in Used, FocusDesktop(d)
  PROVE  Kept
<1>1. PICK r \in RecentNodes : Becomes(FocusNode(State(r), Home(d), d, None))
  BY DEF FocusDesktop, Command
<1>2. PICK s : s = State(r)
  OBVIOUS
<1>3. Sound(s) /\ Legal(s) /\ Known(s) /\ Given(s, r)
  BY <1>2, Started
<1>4. PICK m : m = Home(d)
  OBVIOUS
<1>5. Places(s, m, d) /\ None \in Node \union {None}
  BY <1>3, <1>4, HomeFacts
<1>6. PICK t : t = FocusNode(s, m, d, None)
  OBVIOUS
<1>7. Roams(s, t)
  BY <1>3, <1>5, <1>6, FocusNodeRoams DEF Places
<1>8. Becomes(t)
  BY <1>1, <1>2, <1>4, <1>6
<1>9. Minds(s, t)
  <2>1. Placed(s, None, d)
    BY DEF Placed
  <2>2. Mends(s, t, d)
    BY <1>3, <1>5, <1>6, <2>1, FocusNodeMends DEF Places
  <2> QED BY <2>2, MendsMinds
<1> QED BY <1>3, <1>7, <1>8, <1>9, RoamingKeeps

(* Showing a desktop keeps it.                                             *)
LEMMA ShowDesktopSound ==
  ASSUME IInv, NEW d \in Used, ShowDesktop(d)
  PROVE  Kept
<1>1. PICK r \in RecentNodes : Becomes(ActivateIfCan(State(r), Home(d), d))
  BY DEF ShowDesktop, Command
<1>2. PICK s : s = State(r)
  OBVIOUS
<1>3. Sound(s) /\ Legal(s) /\ Known(s) /\ Given(s, r)
  BY <1>2, Started
<1>4. PICK m : m = Home(d)
  OBVIOUS
<1>5. Places(s, m, d)
  BY <1>3, <1>4, HomeFacts
<1>6. PICK t : t = ActivateIfCan(s, m, d)
  OBVIOUS
<1>7. Tends(s, t, m) /\ Minds(s, t)
  BY <1>3, <1>5, <1>6, ActivateIfCanTends DEF Places
<1>8. Becomes(t)
  BY <1>1, <1>2, <1>4, <1>6
<1> QED BY <1>3, <1>7, <1>8, RoamingKeeps DEF Tends

(* A list with more than one desktop: another one than a given one is on   *)
(* it.                                                                     *)
LEMMA Another ==
  ASSUME NEW R, NEW q \in Seq(R), IsInjective(q), Len(q) > 1, NEW d
  PROVE  Range(q) \ {d} # {}
<1>1. Len(q) \in Nat /\ 1 \in DOMAIN q /\ 2 \in DOMAIN q
  BY LenProperties
<1>2. q[1] \in Range(q) /\ q[2] \in Range(q)
  BY <1>1 DEF Range
<1>3. q[1] # q[2]
  BY <1>1 DEF IsInjective
<1> QED BY <1>2, <1>3

(* Sending a desktop to another monitor keeps it.                          *)
LEMMA SendDesktopSound ==
  ASSUME IInv, NEW d \in Used, NEW md \in monitors, NEW follow \in BOOLEAN,
         SendDesktop(d, md, follow)
  PROVE  Kept
<1>1. PICK r \in RecentPlaces : Becomes(TransferDesktop(State(r), Home(d), md, d, follow))
  BY DEF SendDesktop, Handle
<1>2. PICK s : s = State(r)
  OBVIOUS
<1>3. Sound(s) /\ Legal(s) /\ Known(s) /\ Given(s, r)
  BY <1>2, Started
<1>4. PICK ms : ms = Home(d)
  OBVIOUS
<1>5. Places(s, ms, d)
  BY <1>3, <1>4, HomeFacts
<1>6. PICK t : t = TransferDesktop(s, ms, md, d, follow)
  OBVIOUS
<1>7. Becomes(t)
  BY <1>1, <1>2, <1>4, <1>6
<1>8. CASE ms = md
  <2>1. t = s
    BY <1>6, <1>8 DEF TransferDesktop
  <2>2. Attends(s, t)
    BY <2>1, MindsSelf DEF Attends
  <2> QED BY <1>3, <1>7, <2>1, <2>2, SparingKeeps
<1>9. CASE ms # md
  <2>1. ms \in s.monitors /\ md \in s.monitors /\ d \in Range(s.desks[ms]) /\ ms \in Monitor
    BY <1>3, <1>5 DEF Places, Given
  <2>2. PICK q : q = s.desks[ms]
    OBVIOUS
  <2>3. q \in Seq(Desk) /\ IsInjective(q)
    BY <1>3, <2>1, <2>2 DEF Legal, ListsLegal, Records
  <2>4. Len(q) > 1
    BY <1>3, <1>4, <2>2 DEF SendDesktop, Given
  <2>5. Range(q) \ {d} # {}
    BY <2>3, <2>4, Another
  <2>6. Range(q) \subseteq Range(s.recent.desktops)
    BY <1>3, <2>1, <2>2, ListedFacts DEF Known
  <2>7. (Range(s.desks[ms]) \ {d}) \intersect Range(s.recent.desktops) # {}
    BY <2>2, <2>5, <2>6
  <2>8. s.shown[ms] # None
    BY <1>3, <2>1 DEF Sound
  <2>9. Sends(s, t, ms, md, d) /\ t.shown[ms] # None /\ Minds(s, t)
    BY <1>3, <1>6, <1>9, <2>1, <2>7, <2>8, TransferDesktopSends
  <2>10. Sound(t) /\ InTrees(s) \subseteq InTrees(t) /\ Attends(s, t)
    BY <1>3, <2>1, <2>9, SendsSound DEF Sends, Attends
  <2> QED BY <1>3, <1>7, <2>10, SparingKeeps
<1> QED BY <1>8, <1>9

(* The exchange of two desktops keeps it.                                  *)
LEMMA SwapDesktopSound ==
  ASSUME IInv, NEW d1 \in Used, NEW d2 \in Used, NEW follow, SwapDesktop(d1, d2, follow)
  PROVE  Kept
<1>1. PICK r \in RecentNodes :
        Becomes(SwapDesktops(State(r), Home(d1), d1, Home(d2), d2, follow))
  BY DEF SwapDesktop, Command
<1>2. PICK s : s = State(r)
  OBVIOUS
<1>3. Sound(s) /\ Legal(s) /\ Known(s) /\ Given(s, r)
  BY <1>2, Started
<1>4. PICK m1 : m1 = Home(d1)
  OBVIOUS
<1>5. PICK m2 : m2 = Home(d2)
  OBVIOUS
<1>6. Places(s, m1, d1) /\ Places(s, m2, d2)
  BY <1>3, <1>4, <1>5, HomeFacts
<1>7. PICK t : t = SwapDesktops(s, m1, d1, m2, d2, follow)
  OBVIOUS
<1>8. Swaps(s, t, d1, d2)
  BY <1>3, <1>6, <1>7, SwapDesktopsSwaps DEF Places, Sound, Known
<1>9. d1 \in InLists(s) /\ d2 \in InLists(s)
  BY <1>3, <1>6, PlaceFacts DEF Places
<1>10. Becomes(t)
  BY <1>1, <1>2, <1>4, <1>5, <1>7
<1>11. Sound(t) /\ InTrees(s) \subseteq InTrees(t) /\ Attends(s, t)
  BY <1>3, <1>8, <1>9, SwapsSound DEF Swaps, Attends
<1> QED BY <1>3, <1>10, <1>11, SparingKeeps
-----------------------------------------------------------------------------
(* A part of a list, and a part read backwards, hold places of the list.   *)
LEMMA PartFacts ==
  ASSUME NEW R, NEW q \in Seq(R), NEW a \in 1..(Len(q) + 1), NEW b \in (a - 1)..Len(q),
         NEW p, p = SubSeq(q, a, b)
  PROVE  /\ p \in Seq(Range(q)) /\ Reverse(p) \in Seq(Range(q))
         /\ Len(p) = b - a + 1
         /\ \A i \in 1..Len(p) : p[i] = q[a + i - 1]
<1>1. Len(q) \in Nat /\ a \in Int /\ b \in Int
  BY LenProperties
<1>2. \A i \in a..b : q[i] \in Range(q)
  BY <1>1, LenProperties DEF Range
<1>3. /\ p \in Seq(Range(q)) /\ Len(p) = IF a <= b THEN b - a + 1 ELSE 0
      /\ \A i \in 1..(b - a + 1) : p[i] = q[a + i - 1]
  BY <1>1, <1>2, SubSeqProperties
<1>4. Len(p) = b - a + 1 /\ Len(p) \in Nat
  BY <1>1, <1>3
<1>5. PICK w : w = Reverse(p)
  OBVIOUS
<1>6. w = [i \in 1..Len(p) |-> p[(Len(p) - i) + 1]]
  BY <1>5 DEF Reverse
<1>7. \A i \in 1..Len(p) : p[(Len(p) - i) + 1] \in Range(q)
  <2>1. \A i \in 1..Len(p) : (Len(p) - i) + 1 \in 1..Len(p)
    BY <1>4
  <2>2. \A i \in 1..Len(p) : p[i] \in Range(q)
    BY <1>3, ElementOfSeq
  <2> QED BY <2>1, <2>2
<1>8. w \in [1..Len(p) -> Range(q)]
  BY <1>6, <1>7
<1>9. w \in Seq(Range(q))
  BY <1>4, <1>8, SeqDef
<1> QED BY <1>3, <1>4, <1>5, <1>9

(* Where a desktop is on its list.                                         *)
LEMMA IndexFacts ==
  ASSUME IInv, NEW s, NEW r, Given(s, r), NEW m, NEW d, Places(s, m, d),
         NEW q, q = desks[m], NEW i, i = CHOOSE k \in DOMAIN q : q[k] = d
  PROVE  /\ q \in Seq(Desktop) /\ IsInjective(q) /\ Range(q) = Range(s.desks[m])
         /\ Len(q) \in Nat /\ i \in 1..Len(q) /\ q[i] = d
<1>1. m \in Monitor /\ s.desks[m] = q /\ d \in Range(q)
  BY DEF Places, Given
<1>2. q \in Seq(Desktop) /\ IsInjective(q)
  BY <1>1 DEF IInv, ListsSound, TypeOK
<1>3. Len(q) \in Nat /\ DOMAIN q = 1..Len(q)
  BY <1>2, LenProperties
<1>4. \E k \in DOMAIN q : q[k] = d
  BY <1>1 DEF Range
<1>5. i \in DOMAIN q /\ q[i] = d
  BY <1>4
<1> QED BY <1>1, <1>2, <1>3, <1>5

(* The start of a handler that moves desktops about on one monitor.        *)
LEMMA WithinSelf ==
  ASSUME NEW s, Sound(s), Known(s), NEW m \in s.monitors
  PROVE  Within(s, s, m)
<1>1. Shrunk(s, s, m, {})
  BY MindsSelf DEF Shrunk
<1> QED BY <1>1 DEF Within, Known

(* A desktop bubbled to the next place keeps it.                           *)
LEMMA BubbleSound ==
  ASSUME IInv, NEW d \in Used, NEW forward \in BOOLEAN, Bubble(d, forward)
  PROVE  Kept
<1> DEFINE m == Home(d)
           q == desks[m]
           i == CHOOSE k \in DOMAIN q : q[k] = d
           after == SubSeq(q, i + 1, Len(q))
           before == Reverse(SubSeq(q, 1, i - 1))
           others == CASE forward /\ after # <<>> -> <<Head(after)>>
                       [] forward /\ after = <<>> -> before
                       [] ~forward /\ before # <<>> -> <<Head(before)>>
                       [] OTHER -> after
<1>1. PICK r \in RecentNodes : Becomes(Bubbled(State(r), m, d, others))
  BY DEF Bubble, Command, Bubbled
<1>2. PICK s : s = State(r)
  OBVIOUS
<1>3. Sound(s) /\ Legal(s) /\ Known(s) /\ Given(s, r)
  BY <1>2, Started
<1>4. Places(s, m, d)
  BY <1>3, HomeFacts
<1>5. /\ q \in Seq(Desktop) /\ Range(q) = Range(s.desks[m])
      /\ Len(q) \in Nat /\ i \in 1..Len(q)
  BY <1>3, <1>4, IndexFacts
<1> HIDE DEF m, q, i
<1>6. after \in Seq(Range(q))
  <2>1. i + 1 \in 1..(Len(q) + 1) /\ Len(q) \in ((i + 1) - 1)..Len(q)
    BY <1>5
  <2> QED BY <1>5, <2>1, PartFacts
<1>7. before \in Seq(Range(q))
  <2>1. 1 \in 1..(Len(q) + 1) /\ i - 1 \in (1 - 1)..Len(q)
    BY <1>5
  <2> QED BY <1>5, <2>1, PartFacts
<1> HIDE DEF after, before
<1>8. PICK o : o = others
  OBVIOUS
<1>10. o \in Seq(Range(q))
  <2>1. \A e \in Range(q) : <<e>> \in Seq(Range(q))
    OBVIOUS
  <2>2. after # <<>> => Head(after) \in Range(q)
    BY <1>6, HeadTailProperties
  <2>3. before # <<>> => Head(before) \in Range(q)
    BY <1>7, HeadTailProperties
  <2>4. CASE forward /\ after # <<>>
    BY <1>8, <2>1, <2>2, <2>4
  <2>5. CASE ~forward /\ before # <<>>
    BY <1>8, <2>1, <2>3, <2>5
  <2>6. CASE forward /\ after = <<>>
    BY <1>7, <1>8, <2>6
  <2>7. CASE ~forward /\ before = <<>>
    BY <1>6, <1>8, <2>7
  <2> QED BY <2>4, <2>5, <2>6, <2>7
<1>11. PICK t : t = Bubbled(s, m, d, o)
  OBVIOUS
<1>12. Within(s, s, m)
  BY <1>3, <1>4, WithinSelf DEF Places
<1>13. Within(s, t, m)
  <2>1. d \in Range(s.desks[m]) /\ o \in Seq(Range(s.desks[m]))
    BY <1>4, <1>5, <1>10 DEF Places
  <2> QED BY <1>11, <1>12, <2>1, BubbledLoop
<1>14. Becomes(t)
  BY <1>1, <1>2, <1>8, <1>11
<1>15. Sound(t) /\ InTrees(s) \subseteq InTrees(t) /\ Attends(s, t)
  BY <1>13 DEF Within, Shrunk, Attends
<1> QED BY <1>3, <1>14, <1>15, SparingKeeps

(* The removal of a desktop keeps it.                                      *)
LEMMA DeleteDesktopSound ==
  ASSUME IInv, NEW d \in Used, DeleteDesktop(d)
  PROVE  Kept
<1> DEFINE m == Home(d)
           q == desks[m]
           i == CHOOSE k \in DOMAIN q : q[k] = d
           fallback == IF i = 1 THEN q[2] ELSE q[i - 1]
<1>1. PICK r \in RecentPlaces :
        Becomes(RemoveDesktop(MergeDesktops(State(r), m, d, m, fallback), m, d))
  BY DEF DeleteDesktop, Handle
<1>2. Len(q) > 1
  BY DEF DeleteDesktop
<1>3. PICK s : s = State(r)
  OBVIOUS
<1>4. Sound(s) /\ Legal(s) /\ Known(s) /\ Given(s, r)
  BY <1>3, Started
<1>5. Places(s, m, d)
  BY <1>4, HomeFacts
<1>6. /\ q \in Seq(Desktop) /\ IsInjective(q) /\ Range(q) = Range(s.desks[m])
      /\ Len(q) \in Nat /\ i \in 1..Len(q) /\ q[i] = d
  BY <1>4, <1>5, IndexFacts
<1> HIDE DEF m, q, i
<1>7. fallback \in Range(q)
  <2>1. (IF i = 1 THEN 2 ELSE i - 1) \in 1..Len(q)
    BY <1>2, <1>6
  <2>2. DOMAIN q = 1..Len(q)
    BY <1>6, LenProperties
  <2>3. \A k \in 1..Len(q) : q[k] \in Range(q)
    BY <2>2 DEF Range
  <2>4. CASE i = 1
    BY <2>1, <2>3, <2>4
  <2>5. CASE i # 1
    BY <2>1, <2>3, <2>5
  <2> QED BY <2>4, <2>5
<1>8. Range(s.desks[m]) \ {d} # {}
  <2>1. Range(q) \ {d} # {}
    BY <1>2, <1>6, Another
  <2> QED BY <1>6, <2>1
<1>9. m \in s.monitors /\ d \in Range(s.desks[m]) /\ m \in Monitor
  BY <1>5 DEF Places
<1>10. Range(s.desks[m]) \subseteq Range(s.recent.desktops)
  BY <1>4, <1>9, ListedFacts DEF Known
<1>11. PICK f : f = fallback
  OBVIOUS
<1>12. f \in Range(s.desks[m])
  BY <1>6, <1>7, <1>11
<1>13. PICK t : t = RemoveDesktop(MergeDesktops(s, m, d, m, f), m, d)
  OBVIOUS
<1>14. Shrunk(s, t, m, {d}) /\ Merges(s, t, d, m, f)
  BY <1>4, <1>8, <1>9, <1>10, <1>12, <1>13, MergedShrinks
<1>15. Becomes(t)
  BY <1>1, <1>3, <1>11, <1>13
<1>16. Sound(t) /\ Attends(s, t)
  BY <1>14 DEF Shrunk, Attends
<1>17. f # d
  <2>1. (IF i = 1 THEN 2 ELSE i - 1) \in 1..Len(q) \ {i}
    BY <1>2, <1>6
  <2>2. \A k \in 1..Len(q) \ {i} : q[k] # d
    BY <1>6, LenProperties DEF IsInjective
  <2>3. f = q[IF i = 1 THEN 2 ELSE i - 1]
    BY <1>11
  <2> QED BY <2>1, <2>2, <2>3
<1>18. \A n \in InTrees(s) \ InTrees(t) : Departs(s, t, n)
  BY <1>14, <1>17 DEF Merges, Departs
<1> QED BY <1>4, <1>15, <1>16, <1>18, HandlerKeeps

(* The commands on a monitor.                                              *)
LEMMA FocusMonitorSound ==
  ASSUME IInv, NEW m \in monitors, FocusMonitor(m)
  PROVE  Kept
<1>1. PICK r \in RecentNodes : Becomes(FocusNode(State(r), m, None, None))
  BY DEF FocusMonitor, Command
<1>2. PICK s : s = State(r)
  OBVIOUS
<1>3. Sound(s) /\ Legal(s) /\ Known(s) /\ Given(s, r)
  BY <1>2, Started
<1>4. PICK t : t = FocusNode(s, m, None, None)
  OBVIOUS
<1>5. Roams(s, t) /\ Minds(s, t)
  BY <1>3, <1>4, RefocusedRoams DEF Given
<1>6. Becomes(t)
  BY <1>1, <1>2, <1>4
<1> QED BY <1>3, <1>5, <1>6, RoamingKeeps

(* The removal of a monitor keeps it.                                      *)
LEMMA DeleteMonitorSound ==
  ASSUME IInv, NEW m \in monitors, DeleteMonitor(m)
  PROVE  Kept
<1>1. PICK r \in RecentPlaces : Becomes(RemoveMonitor(State(r), m))
  BY DEF DeleteMonitor, Handle
<1>2. PICK s : s = State(r)
  OBVIOUS
<1>3. Sound(s) /\ Legal(s) /\ Known(s) /\ Given(s, r)
  BY <1>2, Started
<1>4. m \in s.monitors /\ s.monitors # {m}
  BY <1>3 DEF Given, DeleteMonitor
<1>5. PICK t : t = RemoveMonitor(s, m)
  OBVIOUS
<1>6. Removes(s, t, m) /\ Minds(s, t)
  BY <1>3, <1>4, <1>5, RemoveMonitorRemoves
<1>7. Sound(t) /\ Attends(s, t)
  BY <1>3, <1>4, <1>6, RemovesSound DEF Known, Attends
<1>8. Becomes(t)
  BY <1>1, <1>2, <1>5
<1>9. \A n \in InTrees(s) \ InTrees(t) : Departs(s, t, n)
  <2>1. SUFFICES ASSUME NEW n \in InTrees(s) \ InTrees(t)  PROVE Departs(s, t, n)
    OBVIOUS
  <2>2. PICK d : d = s.home[n]
    OBVIOUS
  <2>3. m \in Monitor \ t.monitors /\ d \in Range(s.desks[m])
    BY <1>3, <1>4, <1>6, <2>1, <2>2, SoundFacts DEF Removes, InTrees
  <2>4. \A x \in Monitor \ {m} : d \notin Range(t.desks[x])
    BY <1>3, <1>6, <2>3 DEF Removes, Legal, ListsLegal
  <2>5. d \notin InLists(t)
    BY <1>6, <2>4 DEF Removes, InLists
  <2> QED BY <2>2, <2>3, <2>5 DEF Departs
<1> QED BY <1>3, <1>7, <1>8, <1>9, HandlerKeeps

(* A new desktop on a monitor, which may be a new one.                     *)
LEMMA InsertSound ==
  ASSUME NEW s, Legal(s), InLists(s) \subseteq Desktop, s.mon # None, NEW m \in s.monitors,
         \A x \in s.monitors \ {m} : s.shown[x] # None, NEW d \in Desktop, d \notin InLists(s),
         NEW t, t = InsertDesktop(s, m, d)
  PROVE  Sound(t) /\ InTrees(t) = InTrees(s) /\ Minds(s, t)
<1>1. /\ s \in Records /\ ListsLegal(s) /\ TreesLegal(s) /\ m \in Monitor /\ d # None /\ d \in Desk
      /\ \A x \in s.monitors : x \in Monitor
  BY Things DEF Legal, Records, Desk
<1>2. PICK e : e = IF s.shown[m] = None THEN d ELSE s.shown[m]
  OBVIOUS
<1>3. Relists(s, t, m, Range(s.desks[m]) \union {d}, e)
  BY <1>1, <1>2, InsertRelists
<1>4. /\ t \in Records /\ ListsLegal(t) /\ t.monitors = s.monitors /\ t.mon = s.mon
      /\ t.home = s.home /\ t.sticky = s.sticky /\ t.visible = s.visible
      /\ Range(t.desks[m]) = Range(s.desks[m]) \union {d} /\ t.shown[m] = e
      /\ \A x \in Monitor \ {m} : t.desks[x] = s.desks[x] /\ t.shown[x] = s.shown[x]
  BY <1>3 DEF Relists, SameWindows
<1>5. InTrees(t) = InTrees(s)
  BY <1>4 DEF InTrees
<1>6. InLists(s) \subseteq InLists(t)
  <2>1. ASSUME NEW x \in Monitor, NEW y \in Range(s.desks[x])  PROVE y \in Range(t.desks[x])
    BY <1>4, <2>1
  <2> QED BY <2>1 DEF InLists
<1>7. InLists(t) \subseteq Desktop
  <2>1. ASSUME NEW x \in Monitor, NEW y \in Range(t.desks[x])  PROVE y \in Desktop
    <3>1. y \in Range(s.desks[x]) \union {d}
      BY <1>4, <2>1
    <3>2. Range(s.desks[x]) \subseteq Desktop
      BY DEF InLists
    <3> QED BY <3>1, <3>2
  <2> QED BY <2>1 DEF InLists
<1>8. TreesLegal(t)
  BY <1>1, <1>4, <1>5, <1>6 DEF TreesLegal
<1>9. e # None
  BY <1>1, <1>2
<1>10. \A x \in t.monitors : t.shown[x] # None
  BY <1>1, <1>4, <1>9
<1>11. Minds(s, t)
  <2>1. Alike(s, t)
    BY <1>3 DEF Relists, SameWindows, Alike
  <2> QED BY <2>1, AlikeMinds
<1> QED BY <1>4, <1>5, <1>7, <1>8, <1>10, <1>11 DEF Sound, Legal

(* A desktop that no list holds.                                           *)
LEMMA FreshFacts ==
  ASSUME IInv, NEW r \in RecentPlaces \union RecentNodes, NEW s, Known(s), Given(s, r)
  PROVE  \A d \in Fresh : d \in Desktop /\ d \notin InLists(s) /\ d \notin Range(s.recent.desktops)
<1>1. Range(r.desktops) = Used
  BY RecentAnswers DEF Answers
<1>2. s.recent = r /\ InLists(s) \subseteq Range(s.recent.desktops)
  BY DEF Known, Given
<1> QED BY <1>1, <1>2 DEF Fresh

(* A new desktop keeps it.                                                 *)
LEMMA AddDesktopSound ==
  ASSUME IInv, NEW m \in monitors, NEW d, AddDesktop(m, d)
  PROVE  Kept
<1>1. PICK r \in RecentNodes : Becomes(InsertDesktop(State(r), m, d))
  BY DEF AddDesktop, Command
<1>2. PICK s : s = State(r)
  OBVIOUS
<1>3. Sound(s) /\ Legal(s) /\ Known(s) /\ Given(s, r)
  BY <1>2, Started
<1>4. d \in Desktop /\ d \notin InLists(s) /\ m \in s.monitors
  BY <1>3, FreshFacts DEF Given, AddDesktop
<1>5. PICK t : t = InsertDesktop(s, m, d)
  OBVIOUS
<1>6. Sound(t) /\ InTrees(s) \subseteq InTrees(t) /\ Attends(s, t)
  BY <1>3, <1>4, <1>5, InsertSound DEF Sound, Attends
<1>7. Becomes(t)
  BY <1>1, <1>2, <1>5
<1> QED BY <1>3, <1>6, <1>7, SparingKeeps

(* A new monitor keeps it.                                                 *)
LEMMA NewMonitorSound ==
  ASSUME IInv, NEW m \in Monitor, NEW d, NewMonitor(m, d)
  PROVE  Kept
<1>1. PICK r \in RecentNodes : Becomes(InsertDesktop(AddMonitor(State(r), m), m, d))
  BY DEF NewMonitor, Command
<1>2. PICK s : s = State(r)
  OBVIOUS
<1>3. Sound(s) /\ Legal(s) /\ Known(s) /\ Given(s, r)
  BY <1>2, Started
<1>4. d \in Desktop /\ d \notin InLists(s)
  BY <1>3, FreshFacts DEF NewMonitor
<1>5. PICK u : u = AddMonitor(s, m)
  OBVIOUS
<1>6. /\ Legal(u) /\ u.monitors = s.monitors \union {m} /\ u.desks = s.desks /\ u.shown = s.shown
      /\ u.mon = s.mon /\ InTrees(u) = InTrees(s) /\ Minds(s, u)
  BY <1>3, <1>5, AddMonitorFacts DEF Sound
<1>7. PICK t : t = InsertDesktop(u, m, d)
  OBVIOUS
<1>8. Sound(t) /\ InTrees(s) \subseteq InTrees(t) /\ Minds(u, t)
  <2>1. InLists(u) = InLists(s)
    BY <1>6 DEF InLists
  <2>2. InLists(u) \subseteq Desktop /\ d \notin InLists(u) /\ u.mon # None /\ m \in u.monitors
    BY <1>3, <1>4, <1>6, <2>1 DEF Sound
  <2>3. \A x \in u.monitors \ {m} : u.shown[x] # None
    BY <1>3, <1>6 DEF Sound
  <2> QED BY <1>4, <1>6, <1>7, <2>2, <2>3, InsertSound
<1>9. Becomes(t)
  BY <1>1, <1>2, <1>5, <1>7
<1>10. Attends(s, t)
  BY <1>6, <1>8, MindsOn DEF Attends
<1> QED BY <1>3, <1>8, <1>9, <1>10, SparingKeeps

(* The new list of the desktops of a monitor keeps it.                     *)
LEMMA ResetDesktopsSound ==
  ASSUME IInv, NEW m \in monitors, NEW k \in Nat, ResetDesktops(m, k)
  PROVE  Kept
<1> DEFINE q == desks[m]
           prev == SubSeq(q, 1, k)[k]
           others == SubSeq(q, k + 1, Len(q))
<1>1. k \in 1..Len(q)
  BY DEF ResetDesktops
<1>2. PICK r \in RecentPlaces : Becomes(Trimmed(State(r), m, prev, others))
  BY DEF ResetDesktops, Handle, Trimmed, DropTurn
<1>3. PICK s : s = State(r)
  OBVIOUS
<1>4. Sound(s) /\ Legal(s) /\ Known(s) /\ Given(s, r)
  BY <1>3, Started
<1>5. m \in s.monitors /\ m \in Monitor /\ s.desks[m] = q /\ q \in Seq(Desktop) /\ IsInjective(q)
  BY <1>4 DEF Given, IInv, ListsSound, TypeOK
<1> HIDE DEF q
<1>6. Len(q) \in Nat /\ DOMAIN q = 1..Len(q)
  BY <1>5, LenProperties
<1>7. prev = q[k]
  <2>1. PICK p : p = SubSeq(q, 1, k)
    OBVIOUS
  <2>2. 1 \in 1..(Len(q) + 1) /\ k \in (1 - 1)..Len(q)
    BY <1>1, <1>6
  <2>3. Len(p) = k - 1 + 1 /\ \A i \in 1..Len(p) : p[i] = q[1 + i - 1]
    BY <1>5, <2>1, <2>2, PartFacts
  <2>4. p[k] = q[1 + k - 1] /\ 1 + k - 1 = k
    BY <1>1, <2>3
  <2>5. prev = p[k]
    BY <2>1
  <2> QED BY <2>4, <2>5
<1> HIDE DEF prev
<1>14. PICK o : o = others
  OBVIOUS
<1>8. /\ o \in Seq(Range(q)) /\ Len(o) = Len(q) - k
      /\ \A i \in 1..Len(o) : o[i] = q[k + i]
  <2>1. PICK a : a = k + 1
    OBVIOUS
  <2>2. a \in 1..(Len(q) + 1) /\ Len(q) \in (a - 1)..Len(q) /\ o = SubSeq(q, a, Len(q))
    BY <1>1, <1>6, <1>14, <2>1
  <2>3. /\ o \in Seq(Range(q)) /\ Len(o) = Len(q) - a + 1
        /\ \A i \in 1..Len(o) : o[i] = q[a + i - 1]
    BY <1>5, <2>2, PartFacts
  <2>4. \A i \in 1..Len(o) : a + i - 1 = k + i
    BY <1>1, <2>1
  <2>5. Len(q) - a + 1 = Len(q) - k
    BY <1>1, <1>6, <2>1
  <2> QED BY <2>3, <2>4, <2>5
<1> HIDE DEF others
<1>9. IsInjective(o) /\ prev \in Range(q) \ Range(o)
  <2>1. DOMAIN o = 1..Len(o) /\ Len(o) \in Nat
    BY <1>8, LenProperties
  <2>2. \A i \in 1..Len(o) : k + i \in 1..Len(q) /\ k + i # k
    BY <1>1, <1>6, <1>8, <2>1
  <2>3. \A i, j \in 1..Len(q) : q[i] = q[j] => i = j
    BY <1>5, <1>6 DEF IsInjective
  <2>4. \A i, j \in 1..Len(o) : o[i] = o[j] => i = j
    <3>1. SUFFICES ASSUME NEW i \in 1..Len(o), NEW j \in 1..Len(o), o[i] = o[j]
                   PROVE  i = j
      OBVIOUS
    <3>2. q[k + i] = q[k + j]
      BY <1>8, <3>1
    <3>3. k + i = k + j
      BY <2>2, <2>3, <3>2
    <3> QED BY <1>1, <2>1, <3>3
  <2>5. \A i \in 1..Len(o) : o[i] # prev
    BY <1>1, <1>7, <1>8, <2>2, <2>3
  <2>6. q[k] \in Range(q)
    BY <1>1, <1>6 DEF Range
  <2> QED BY <1>7, <2>1, <2>4, <2>5, <2>6 DEF IsInjective, Range
<1>10. Range(s.desks[m]) \subseteq Range(s.recent.desktops)
  BY <1>4, <1>5, ListedFacts DEF Known
<1>11. PICK t : t = Trimmed(s, m, prev, o)
  OBVIOUS
<1>12. Shrunk(s, t, m, Range(o)) /\ InTrees(t) = InTrees(s)
  BY <1>4, <1>5, <1>8, <1>9, <1>10, <1>11, TrimmedLoop
<1>13. Becomes(t)
  BY <1>2, <1>3, <1>11, <1>14
<1>15. Sound(t) /\ InTrees(s) \subseteq InTrees(t) /\ Attends(s, t)
  BY <1>12 DEF Shrunk, Attends
<1> QED BY <1>4, <1>13, <1>15, SparingKeeps

(* The new order of the desktops of a monitor keeps it.                    *)
LEMMA ReorderDesktopsSound ==
  ASSUME IInv, NEW m \in monitors, NEW names \in Orders(Occupied(m)), ReorderDesktops(m, names)
  PROVE  Kept
<1>1. PICK r \in RecentNodes : Becomes(Reordered(State(r), m, names))
  BY DEF ReorderDesktops, Command, Reordered
<1>2. PICK s : s = State(r)
  OBVIOUS
<1>3. Sound(s) /\ Legal(s) /\ Known(s) /\ Given(s, r)
  BY <1>2, Started
<1>4. m \in s.monitors /\ names \in Orders(Range(s.desks[m]))
  BY <1>3 DEF Given, Occupied
<1>5. Within(s, s, m)
  BY <1>3, <1>4, WithinSelf
<1>6. PICK t : t = Reordered(s, m, names)
  OBVIOUS
<1>7. Within(s, t, m)
  BY <1>4, <1>5, <1>6, ReorderedLoop
<1>8. Becomes(t)
  BY <1>1, <1>2, <1>6
<1>9. Sound(t) /\ InTrees(s) \subseteq InTrees(t) /\ Attends(s, t)
  BY <1>7 DEF Within, Shrunk, Attends
<1> QED BY <1>3, <1>8, <1>9, SparingKeeps
-----------------------------------------------------------------------------
(* A change of the outputs.                                                *)
LEMMA ScreenChangeSound ==
  ASSUME IInv, NEW screen \in Screens, ScreenChange(screen)
  PROVE  Kept
<1> DEFINE Gifts == {f \in [screen.on \ monitors -> Fresh] : IsInjective(f)}
           given == CHOOSE f \in Gifts : TRUE
<1>1. given \in Gifts
  BY DEF ScreenChange
<1>2. PICK r \in RecentPlaces : Becomes(UpdateMonitors(State(r), screen, given))
  BY DEF ScreenChange, Handle
<1>3. PICK g : g = given
  OBVIOUS
<1>4. g \in [screen.on \ monitors -> Fresh] /\ IsInjective(g)
  BY <1>1, <1>3
<1> HIDE DEF given
<1>5. PICK s : s = State(r)
  OBVIOUS
<1>6. Sound(s) /\ Legal(s) /\ Known(s) /\ Given(s, r)
  BY <1>5, Started
<1>7. DOMAIN g = screen.on \ s.monitors /\ Gift(s, g)
  <2>1. DOMAIN g = screen.on \ s.monitors
    BY <1>4, <1>6 DEF Given
  <2>2. \A x \in DOMAIN g : g[x] \in Fresh
    BY <1>4
  <2>3. \A x \in DOMAIN g : g[x] \in Desktop \ Range(s.recent.desktops)
    BY <1>6, <2>2, FreshFacts
  <2> QED BY <1>4, <2>1, <2>3 DEF Gift, IsInjective
<1>8. /\ screen.on \subseteq Monitor /\ screen.on \subseteq screen.wired
      /\ screen.on # {} \/ s.monitors \intersect screen.wired # {}
  <2>1. /\ screen.on \in SUBSET Output /\ screen.on \subseteq screen.wired
        /\ screen.on # {} \/ monitors \intersect screen.wired # {}
    BY DEF Screens
  <2> QED BY <1>6, <2>1, ScreensAssumption DEF Given
<1>9. PICK t : t = UpdateMonitors(s, screen, g)
  OBVIOUS
<1>10. Sound(t) /\ Minds(s, t) /\ \A n \in InTrees(s) \ InTrees(t) : Lost(s, t, n)
  BY <1>6, <1>7, <1>8, <1>9, UpdateMonitorsSound DEF Given
<1>11. Becomes(t)
  BY <1>2, <1>3, <1>5, <1>9
<1>12. \A n \in InTrees(s) \ InTrees(t) : Departs(s, t, n)
  BY <1>10 DEF Lost, Departs
<1>13. Attends(s, t)
  BY <1>10 DEF Attends
<1> QED BY <1>6, <1>10, <1>11, <1>12, <1>13, HandlerKeeps

(* A sequence with something appended holds it too.                        *)
LEMMA AppendRange ==
  ASSUME NEW R, NEW q \in Seq(R), NEW x \in R
  PROVE  Range(Append(q, x)) = Range(q) \union {x}
<1>1. PICK r : r = Append(q, x)
  OBVIOUS
<1>2. Len(q) \in Nat /\ DOMAIN q = 1..Len(q)
  BY LenProperties
<1>3. DOMAIN r = 1..(Len(q) + 1) /\ r[Len(q) + 1] = x /\ \A i \in 1..Len(q) : r[i] = q[i]
  BY <1>1, AppendProperties, LenProperties
<1>4. \A i \in 1..(Len(q) + 1) : i \in 1..Len(q) \/ i = Len(q) + 1
  BY <1>2
<1>5. Range(r) = {r[i] : i \in 1..(Len(q) + 1)} /\ Range(q) = {q[i] : i \in 1..Len(q)}
  BY <1>2, <1>3 DEF Range
<1>6. Len(q) + 1 \in 1..(Len(q) + 1) /\ 1..Len(q) \subseteq 1..(Len(q) + 1)
  BY <1>2
<1> QED BY <1>1, <1>3, <1>4, <1>5, <1>6

(* A window enters the tree of a desktop.                                  *)
Welcomed(s, H, F, R, V) == [s EXCEPT !.home = H, !.focus = F, !.recent = R, !.visible = V]

Entered(s, n, d, H, F, R, V) ==
  /\ H = [s.home EXCEPT ![n] = d] /\ F \in [Desk -> Node \union {None}]
  /\ R \in [monitors : Seq(Monitor), desktops : Seq(Desktop), nodes : Seq(Node), leaves : Seq(Node)]
  /\ V \subseteq s.visible \union {n}
  /\ F = [s.focus EXCEPT ![d] = IF @ = None THEN n ELSE @]
  /\ Range(R.nodes) = Range(s.recent.nodes) \union {n}
  /\ Range(R.leaves) = Range(s.recent.leaves) \union {n}
(* A window that enters the tree of a listed desktop keeps the state       *)
(* sound.                                                                  *)
LEMMA WelcomedSound ==
  ASSUME NEW s, Sound(s), NEW n \in Node, NEW d \in InLists(s), NEW H, NEW F, NEW R, NEW V,
         Entered(s, n, d, H, F, R, V), NEW t, t = Welcomed(s, H, F, R, V)
  PROVE  /\ Sound(t) /\ t.monitors = s.monitors /\ t.desks = s.desks /\ n \in NodesOf(t, d)
         /\ InTrees(s) \subseteq InTrees(t) /\ t.shown = s.shown /\ t.sticky = s.sticky
         /\ t.mon = s.mon
         /\ s.home[n] = None => Minds(s, t)
<1>0. /\ H = [s.home EXCEPT ![n] = d] /\ F \in [Desk -> Node \union {None}]
      /\ R \in [monitors : Seq(Monitor), desktops : Seq(Desktop), nodes : Seq(Node), leaves : Seq(Node)]
      /\ V \subseteq s.visible \union {n}
      /\ F = [s.focus EXCEPT ![d] = IF @ = None THEN n ELSE @]
      /\ Range(R.nodes) = Range(s.recent.nodes) \union {n}
      /\ Range(R.leaves) = Range(s.recent.leaves) \union {n}
  BY DEF Entered
<1>1. s \in Records /\ InLists(s) \subseteq Desktop /\ d \in Desktop /\ d # None /\ d \in Desk
  BY Things DEF Sound, Legal, Desk
<1>2. H \in [Node -> Desk \union {None}] /\ V \in SUBSET Node /\ s.home \in [Node -> Desk \union {None}]
  BY <1>0, <1>1 DEF Records
<1>3. t \in Records
  BY <1>0, <1>1, <1>2, ZenonT(60) DEF Records, Welcomed
<1>4. /\ t.monitors = s.monitors /\ t.desks = s.desks /\ t.shown = s.shown /\ t.mon = s.mon
      /\ t.sticky = s.sticky /\ t.home = H /\ t.visible = V
      /\ t.focus = F /\ t.recent = R /\ t.mislaid = s.mislaid
  BY <1>1 DEF Records, Welcomed
<1>5. InLists(t) = InLists(s)
  BY <1>4 DEF InLists
<1>6. \A x \in Node : t.home[x] = IF x = n THEN d ELSE s.home[x]
  BY <1>0, <1>2, <1>4
<1>7. InTrees(t) = InTrees(s) \union {n}
  BY <1>1, <1>6 DEF InTrees
<1>8. TreesLegal(t)
  BY <1>0, <1>1, <1>4, <1>5, <1>6, <1>7 DEF Sound, Legal, TreesLegal
<1>9. ListsLegal(t)
  BY <1>4 DEF Sound, Legal, ListsLegal
<1>10. n \in NodesOf(t, d)
  BY <1>6 DEF NodesOf
<1>11. ASSUME s.home[n] = None  PROVE Minds(s, t)
  <2>1. s.focus \in [Desk -> Node \union {None}] /\ n # None
    BY <1>1, Things DEF Records
  <2>2. \A e \in Desk : t.focus[e] = IF e = d /\ s.focus[e] = None THEN n ELSE s.focus[e]
    BY <1>0, <1>1, <1>4, <2>1
  <2>3. ASSUME Wary(s)  PROVE Wary(t)
    <3>1. InTrees(t) \subseteq Range(t.recent.nodes) /\ InTrees(t) \subseteq Range(t.recent.leaves)
      BY <1>0, <1>4, <1>7, <2>3 DEF Wary
    <3>2. ASSUME NEW e \in Desk  PROVE t.focus[e] = None \/ t.home[t.focus[e]] = e
      <4>1. CASE e = d /\ s.focus[e] = None
        BY <1>6, <2>2, <4>1
      <4>2. CASE ~(e = d /\ s.focus[e] = None)
        <5>1. t.focus[e] = s.focus[e]
          BY <2>2, <4>2
        <5>2. s.focus[e] = None \/ s.home[s.focus[e]] = e
          BY <2>3 DEF Wary
        <5>3. s.focus[e] \in Node \union {None} /\ e # None
          BY <2>1, Things DEF Desk
        <5> QED BY <1>6, <1>11, <5>1, <5>2, <5>3
      <4> QED BY <4>1, <4>2
    <3> QED BY <3>1, <3>2 DEF Wary
  <2>4. ASSUME NEW e \in Blurred(t)  PROVE e \in Blurred(s)
    <3>1. e \in Desk /\ t.focus[e] = None /\ NodesOf(t, e) # {}
      BY <2>4 DEF Blurred
    <3>2. e # d /\ s.focus[e] = None
      BY <2>1, <2>2, <3>1
    <3>3. NodesOf(s, e) # {}
      BY <1>6, <3>1, <3>2 DEF NodesOf
    <3> QED BY <3>1, <3>2, <3>3 DEF Blurred
  <2> QED BY <1>4, <2>3, <2>4 DEF Minds, Heeds
<1> QED BY <1>1, <1>3, <1>4, <1>5, <1>7, <1>8, <1>9, <1>10, <1>11 DEF Sound, Legal

(* A new window keeps the invariant, whatever rule it meets.               *)
LEMMA ManageSound ==
  ASSUME IInv, NEW n \in Node, NEW rule \in Rules, Manage(n, rule)
  PROVE  Kept
<1> DEFINE d == IF rule.sticky THEN shown[mon] ELSE rule.desktop
           m == Home(d)
           Insert(s) == [s EXCEPT !.home[n] = d,
                                  !.focus[d] = IF @ = None THEN n ELSE @,
                                  !.recent.nodes = Append(@, n),
                                  !.recent.leaves = Append(@, n),
                                  !.visible = IF d = s.shown[m] THEN @ \union {n} ELSE @]
           Handler(s) ==
             LET t == SetSticky(Insert(s), m, d, n, rule.sticky)
             IN CASE ~rule.focus -> t
                  [] rule.focus /\ (d = Current(s) \/ rule.follow) -> FocusNode(t, m, d, n)
                  [] OTHER -> ActivateNode(t, d, n)
<1>1. PICK r \in RecentNodes : Becomes(Handler(State(r)))
  BY DEF Manage, Command
<1>2. d \in Used
  BY DEF Manage
<1>3. PICK e : e = d
  OBVIOUS
<1>4. PICK x : x = m
  OBVIOUS
<1>5. PICK s : s = State(r)
  OBVIOUS
<1>6. Sound(s) /\ Legal(s) /\ Known(s) /\ Given(s, r)
  BY <1>5, Started
<1>7. Places(s, x, e)
  BY <1>2, <1>3, <1>4, <1>6, HomeFacts
<1>8. PICK b : b = rule.sticky
  OBVIOUS
<1>9. b \in BOOLEAN /\ rule.focus \in BOOLEAN
  BY <1>8 DEF Rules
<1>10. PICK H : H = [s.home EXCEPT ![n] = e]
  OBVIOUS
<1>11. PICK F : F = [s.focus EXCEPT ![e] = IF @ = None THEN n ELSE @]
  OBVIOUS
<1>12. PICK R : R = [s.recent EXCEPT !.nodes = Append(@, n), !.leaves = Append(@, n)]
  OBVIOUS
<1>13. PICK V : V = IF e = s.shown[x] THEN s.visible \union {n} ELSE s.visible
  OBVIOUS
<1>14. PICK u : u = Welcomed(s, H, F, R, V)
  OBVIOUS
<1>15. s \in Records
  BY <1>6 DEF Legal
<1>16. u = Insert(s)
  BY ZenonT(60), <1>3, <1>4, <1>10, <1>11, <1>12, <1>13, <1>14, <1>15 DEF Welcomed, Records
<1>17. PICK t : t = SetSticky(u, x, e, n, b)
  OBVIOUS
<1>18. PICK w : w = Handler(s)
  OBVIOUS
<1>19. w \in {t, FocusNode(t, x, e, n), ActivateNode(t, e, n)}
  <2>1. t = SetSticky(Insert(s), m, d, n, rule.sticky)
    BY <1>3, <1>4, <1>8, <1>16, <1>17
  <2> HIDE DEF d, m, Insert
  <2>2. w = CASE ~rule.focus -> t
              [] rule.focus /\ (d = Current(s) \/ rule.follow) -> FocusNode(t, m, d, n)
              [] OTHER -> ActivateNode(t, d, n)
    BY <1>18, <2>1
  <2> QED BY <1>3, <1>4, <2>2
<1>20. Becomes(w)
  BY <1>1, <1>5, <1>18
<1> HIDE DEF d, m, Insert, Handler
<1>21. F \in [Desk -> Node \union {None}]
  BY <1>7, <1>11, <1>15 DEF Records, Places
<1>22. /\ R \in [monitors : Seq(Monitor), desktops : Seq(Desktop), nodes : Seq(Node), leaves : Seq(Node)]
       /\ Range(R.nodes) = Range(s.recent.nodes) \union {n}
       /\ Range(R.leaves) = Range(s.recent.leaves) \union {n}
  <2>1. s.recent \in [monitors : Seq(Monitor), desktops : Seq(Desktop), nodes : Seq(Node), leaves : Seq(Node)]
    BY <1>15 DEF Records
  <2>2. Append(s.recent.nodes, n) \in Seq(Node) /\ Append(s.recent.leaves, n) \in Seq(Node)
    BY <2>1, AppendProperties
  <2>3. R.nodes = Append(s.recent.nodes, n) /\ R.leaves = Append(s.recent.leaves, n)
    BY <1>12, <2>1
  <2>4. /\ Range(Append(s.recent.nodes, n)) = Range(s.recent.nodes) \union {n}
        /\ Range(Append(s.recent.leaves, n)) = Range(s.recent.leaves) \union {n}
    BY <2>1, AppendRange
  <2> QED BY <1>12, <2>1, <2>2, <2>3, <2>4
<1>23. V \subseteq s.visible \union {n}
  BY <1>13
<1>24. e \in InLists(s)
  BY <1>6, <1>7, PlaceFacts DEF Places
<1>25. /\ Sound(u) /\ u.monitors = s.monitors /\ u.desks = s.desks /\ n \in NodesOf(u, e)
       /\ InTrees(s) \subseteq InTrees(u) /\ u.shown = s.shown /\ u.sticky = s.sticky
       /\ u.mon = s.mon /\ Minds(s, u)
  <2>1. Entered(s, n, e, H, F, R, V)
    BY <1>10, <1>11, <1>21, <1>22, <1>23 DEF Entered
  <2>2. s.home[n] = None
    BY <1>6 DEF Given, Manage
  <2> QED BY <1>6, <1>14, <1>24, <2>1, <2>2, WelcomedSound
<1>26. /\ x \in Monitor /\ x \in u.monitors /\ e \in Range(u.desks[x]) /\ e \in Desk
       /\ u.shown[x] # None /\ Legal(u)
  BY <1>7, <1>25 DEF Places, Sound
<1>27. Roams(u, t) /\ Minds(u, t)
  BY <1>9, <1>17, <1>25, <1>26, SetStickyRoams, SetStickyMinds
<1>28. Sound(t) /\ Legal(t) /\ e \in Range(t.desks[x]) /\ InTrees(s) \subseteq InTrees(t)
  BY <1>25, <1>26, <1>27, RoamsSound, RoamsPlace DEF Roams
<1>29. n \in Node \union {None}
  OBVIOUS
<1>33. Placed(t, n, e) /\ x \in t.monitors /\ Minds(s, t)
  <2>1. e = u.shown[x] \/ (n \in u.sticky) = b
    <3>1. CASE b
      <4>1. e = s.shown[s.mon] /\ s.mon \in Monitor /\ e \in Range(s.desks[s.mon])
        BY <1>3, <1>6, <1>8, <3>1, SoundFacts DEF d, Given
      <4>2. x = s.mon
        BY <1>6, <1>7, <4>1 DEF Places, Legal, ListsLegal
      <4> QED BY <1>25, <4>1, <4>2
    <3>2. CASE ~b
      <4>1. n \notin s.sticky
        BY <1>6 DEF Given, Manage, Legal, TreesLegal, InTrees
      <4> QED BY <1>9, <1>25, <3>2, <4>1
    <3> QED BY <3>1, <3>2
  <2>2. t.home = u.home
    BY <1>9, <1>17, <1>26, <2>1, SetStickyInPlace
  <2>3. Placed(t, n, e)
    BY <1>25, <2>2 DEF Placed, NodesOf
  <2>4. x \in t.monitors
    BY <1>26, <1>27 DEF Roams, Ranges, SameLists
  <2>5. Minds(s, t)
    BY <1>25, <1>27, MindsOn
  <2> QED BY <2>3, <2>4, <2>5
<1>30. CASE w = t
  <2>1. Attends(s, w)
    BY <1>30, <1>33 DEF Attends
  <2> QED BY <1>6, <1>20, <1>28, <1>30, <2>1, SparingKeeps
<1>31. CASE w = FocusNode(t, x, e, n)
  <2>1. Roams(t, w)
    BY <1>26, <1>28, <1>29, <1>31, FocusNodeRoams
  <2>2. Sound(w) /\ InTrees(s) \subseteq InTrees(w)
    BY <1>28, <2>1, RoamsSound DEF Roams
  <2>3. Mends(t, w, e)
    BY <1>28, <1>29, <1>31, <1>33, FocusNodeMends
  <2>4. Attends(s, w)
    BY <1>33, <2>3, MendsMinds, MindsOn DEF Attends
  <2> QED BY <1>6, <1>20, <2>2, <2>4, SparingKeeps
<1>32. CASE w = ActivateNode(t, e, n)
  <2>1. Roams(t, w)
    BY <1>26, <1>28, <1>29, <1>32, ActivateNodeRoams
  <2>2. Sound(w) /\ InTrees(s) \subseteq InTrees(w)
    BY <1>28, <2>1, RoamsSound DEF Roams
  <2>3. Minds(t, w)
    BY <1>26, <1>28, <1>29, <1>32, <1>33, ActivateNodeMinds
  <2>4. Attends(s, w)
    BY <1>33, <2>3, MindsOn DEF Attends
  <2> QED BY <1>6, <1>20, <2>2, <2>4, SparingKeeps
<1> QED BY SMTT(60), <1>19, <1>30, <1>31, <1>32
-----------------------------------------------------------------------------
(* The invariant holds at first.                                           *)
LEMMA InitSound ==
  ASSUME Init
  PROVE  IInv /\ Focused
<1>1. PICK m \in Output, d \in Desktop :
        /\ monitors = {m}
        /\ desks = [x \in Monitor |-> IF x = m THEN <<d>> ELSE <<>>]
        /\ shown = [x \in Monitor |-> IF x = m THEN d ELSE None]
        /\ count = [x \in Monitor |-> 0]
        /\ mon = m
        /\ home = [n \in Node |-> None]
        /\ sticky = {}
        /\ focus = [e \in Desktop \union Range(Stash) |-> None]
        /\ visible = {}
        /\ strayed = FALSE
        /\ unseen = FALSE
        /\ mislaid = FALSE
  BY DEF Init
<1>2. m \in Monitor /\ Word \in Nat \ {0}
  BY ScreensAssumption, PlacesAssumption
<1>3. Managed = {}
  BY <1>1 DEF Managed
<1>4. <<d>> \in Seq(Desktop) /\ <<>> \in Seq(Desktop)
  OBVIOUS
<1>5. Range(<<d>>) = {d} /\ Range(<<>>) = {} /\ IsInjective(<<d>>) /\ IsInjective(<<>>)
  BY DEF Range, IsInjective
<1>6. desks \in [Monitor -> Seq(Desktop)]
  BY <1>1, <1>4
<1>7. count \in [Monitor -> 0..(Word - 1)]
  BY <1>1, <1>2
<1>8. /\ monitors \subseteq Monitor /\ shown \in [Monitor -> Desktop \union {None}]
      /\ mon \in Monitor \union {None} /\ home \in [Node -> Desktop \union {None}]
      /\ sticky \subseteq Managed /\ focus \in [Desktop \union Range(Stash) -> Node \union {None}]
      /\ visible \subseteq Managed /\ {strayed, unseen, mislaid} \subseteq BOOLEAN
  BY <1>1, <1>2
<1>9. TypeOK
  BY <1>6, <1>7, <1>8 DEF TypeOK
<1>10. \A x \in Monitor : desks[x] = IF x = m THEN <<d>> ELSE <<>>
  BY <1>1
<1>11. \A x \in Monitor : IsInjective(desks[x]) /\ (x \notin monitors => desks[x] = <<>>)
  BY <1>1, <1>5, <1>10
<1>12. \A x \in Monitor : Occupied(x) = IF x = m THEN {d} ELSE {}
  BY <1>5, <1>10 DEF Occupied
<1>13. \A x, y \in Monitor : x # y => Occupied(x) \intersect Occupied(y) = {}
  BY <1>12
<1>14. mon \in monitors /\ \A x \in monitors : shown[x] \in Occupied(x)
  BY <1>1, <1>2, <1>12
<1>15. \A x \in Monitor : x \notin monitors => shown[x] = None
  BY <1>1
<1>16. Focused
  <2>1. Desktop \union Range(Stash) = Desk /\ None \notin Desk
    BY Things DEF Desk
  <2>2. \A e \in Desk : focus[e] = None
    BY <1>1, <2>1
  <2>3. \A n \in Node : home[n] = None
    BY <1>1
  <2> QED BY <2>1, <2>2, <2>3 DEF Focused
<1> QED BY <1>3, <1>9, <1>11, <1>13, <1>14, <1>15, <1>16 DEF IInv, ListsSound
(* Every step keeps it, the focus of the desktops and the windows.         *)
LEMMA NextSound ==
  ASSUME IInv, [Next]_vars
  PROVE  Kept
<1>1. CASE \E n \in Node, rule \in Rules : Manage(n, rule)
  BY <1>1, ManageSound
<1>2. CASE \E n \in Managed : Unmanage(n)
  BY <1>2, UnmanageSound
<1>3. CASE NodeCommands
  <2>1. CASE \E n \in Managed : FocusWindow(n) \/ ActivateWindow(n)
    BY <2>1, FocusWindowSound, ActivateWindowSound
  <2>2. CASE \E n \in Managed : Stick(n) \/ StickThenFocus(n) \/ StickThenActivate(n)
    BY <2>2, StickSound, StickThenFocusSound, StickThenActivateSound
  <2>3. CASE \E n \in Managed, d \in Used, follow \in BOOLEAN : ToDesktop(n, d, follow)
    BY <2>3, ToDesktopSound
  <2>4. CASE \E n1, n2 \in Managed, follow \in BOOLEAN : SwapWindows(n1, n2, follow)
    BY <2>4, SwapWindowsSound
  <2> QED BY <1>3, <2>1, <2>2, <2>3, <2>4 DEF NodeCommands
<1>4. CASE DesktopCommands
  <2>1. CASE \E d \in Used : FocusDesktop(d) \/ ShowDesktop(d) \/ DeleteDesktop(d)
    BY <2>1, FocusDesktopSound, ShowDesktopSound, DeleteDesktopSound
  <2>2. CASE \E d \in Used, forward \in BOOLEAN : Bubble(d, forward)
    BY <2>2, BubbleSound
  <2>3. CASE \E d \in Used, m \in monitors, follow \in BOOLEAN : SendDesktop(d, m, follow)
    BY <2>3, SendDesktopSound
  <2>4. CASE \E d1, d2 \in Used, follow \in BOOLEAN : SwapDesktop(d1, d2, follow)
    BY <2>4, SwapDesktopSound
  <2> QED BY <1>4, <2>1, <2>2, <2>3, <2>4 DEF DesktopCommands
<1>5. CASE MonitorCommands
  <2>1. CASE \E m \in monitors : FocusMonitor(m) \/ DeleteMonitor(m)
    BY <2>1, FocusMonitorSound, DeleteMonitorSound
  <2>2. CASE \E m \in monitors, d \in Desktop : AddDesktop(m, d)
    BY <2>2, AddDesktopSound
  <2>3. CASE \E m \in monitors, k \in 1..Cardinality(Desktop) : ResetDesktops(m, k)
    <3>1. PICK m \in monitors, k \in 1..Cardinality(Desktop) : ResetDesktops(m, k)
      BY <2>3
    <3>2. k \in Nat
      BY <3>1
    <3> QED BY <3>1, <3>2, ResetDesktopsSound
  <2>4. CASE \E m \in monitors : \E names \in Orders(Occupied(m)) : ReorderDesktops(m, names)
    BY <2>4, ReorderDesktopsSound
  <2>5. CASE \E m \in Monitor, d \in Desktop : NewMonitor(m, d)
    BY <2>5, NewMonitorSound
  <2> QED BY <1>5, <2>1, <2>2, <2>3, <2>4, <2>5 DEF MonitorCommands
<1>6. CASE \E screen \in Screens : ScreenChange(screen)
  BY <1>6, ScreenChangeSound
<1>7. CASE UNCHANGED vars
  <2>1. Managed' = Managed /\ Used' = Used /\ \A m \in Monitor : Occupied(m)' = Occupied(m)
    BY <1>7 DEF vars, Managed, Used, Occupied
  <2>2. IInv'
    BY <1>7, <2>1 DEF vars, IInv, ListsSound, TypeOK, Managed, Used, Occupied
  <2>3. \A n \in Managed : home'[n] # None
    BY <1>7 DEF vars, Managed
  <2>4. Focused => Focused'
    BY <1>7 DEF vars, Focused
  <2> QED BY <2>2, <2>3, <2>4 DEF Kept
<1> QED BY <1>1, <1>2, <1>3, <1>4, <1>5, <1>6, <1>7 DEF Next

(* In every reachable state the variables have their types, every desktop  *)
(* is on one list, once, the focused monitor exists and every monitor      *)
(* shows a desktop of its own list, and every window is in the tree of a   *)
(* desktop that is on a list: the pointers that monitor.c and desktop.c    *)
(* follow without a test (mon, mon->desk) are never null.                  *)
THEOREM ListsAreSound == Spec => []ListsSound
<1>1. Init => IInv
  BY InitSound
<1>2. IInv /\ [Next]_vars => IInv'
  BY NextSound DEF Kept
<1>3. IInv => ListsSound
  BY DEF IInv
<1> QED BY <1>1, <1>2, <1>3, PTL DEF Spec

(* A window leaves the trees alone, or with its desktop, which no list has *)
(* any more: because its monitor is removed, or because merge_desktops()   *)
(* did not move the windows of a desktop with sticky ones. So the handlers *)
(* of desktop.c and monitor.c that take several windows out of the trees   *)
(* take none from a desktop that a list still has.                         *)
THEOREM WindowsAreKept == Spec => WindowsKept
<1>1. Init => IInv
  BY InitSound
<1>2. IInv /\ [Next]_vars => IInv'
  BY NextSound DEF Kept
<1>3. IInv /\ [Next]_vars =>
        [\A n \in Managed : home'[n] = None =>
           \/ \A x \in Node \ {n} : home'[x] = home[x]
           \/ /\ home[n] \notin Used'
              /\ On(n) \notin monitors' \/ \E x \in sticky : home[x] = home[n]]_vars
  BY NextSound DEF Kept
<1> QED BY <1>1, <1>2, <1>3, PTL DEF Spec, WindowsKept

(* The focus of a desktop is one of its windows, and a desktop that has    *)
(* windows has one: no handler of tree.c, desktop.c or monitor.c leaves    *)
(* d->focus on a node that has left the tree, or forgets it, unless a chain*)
(* of commands has gone on with the desktop of a window that set_sticky()  *)
(* moved.                                                                  *)
THEOREM FocusIsKept == Spec => []FocusKept
<1> DEFINE FInv == IInv /\ Focused
<1>1. Init => FInv
  BY InitSound
<1>2. FInv /\ [Next]_vars => FInv'
  BY NextSound DEF Kept
<1>3. FInv => FocusKept
  <2>1. SUFFICES ASSUME IInv, Focused, ~mislaid, NEW d \in Used
                 PROVE  IF \E n \in Node : home[n] = d THEN focus[d] # None /\ home[focus[d]] = d
                                                       ELSE focus[d] = None
    BY DEF FocusKept
  <2>2. d \in Desktop /\ d \in Desk
    BY <2>1, UsedFacts DEF Desk
  <2>3. focus[d] \in Node \union {None}
    BY <2>1, <2>2 DEF IInv, ListsSound, TypeOK
  <2>4. /\ focus[d] = None \/ home[focus[d]] = d
        /\ focus[d] = None => \A n \in Node : home[n] # d
    BY <2>1, <2>2 DEF Focused
  <2> QED BY <2>3, <2>4
<1> QED BY <1>1, <1>2, <1>3, PTL DEF Spec
=============================================================================
