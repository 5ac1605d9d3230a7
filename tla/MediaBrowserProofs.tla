------------------------- MODULE MediaBrowserProofs -------------------------
(***************************************************************************)
(* What the user sees while moving through the collection, for all sets of *)
(* media, numbers of neighbours and of clusters, and any history.          *)
(*                                                                         *)
(* Three things carry it.  In the clusters mode K-means runs whenever the  *)
(* view or the number of clusters changes, so that a node in view never    *)
(* has a cluster that is gone; and a state is stored by lowering the       *)
(* levels to the browser's, which leaves those in view at exactly this     *)
(* level, so that one zoom separates them.  In the neighbours mode at most *)
(* one node is open on each level of the tree, so that to close the        *)
(* siblings of a node is to close all that is deeper.                      *)
(***************************************************************************)
EXTENDS MediaBrowser, SequenceTheorems, FiniteSetTheorems, WellFoundedInduction, TLAPS

\* Nodes are media, the first of them is the one with the id 0, and what is
\* kept of each node is in its range.
NodesInv ==
  /\ Nodes \subseteq Media /\ IsFiniteSet(Nodes)
  /\ Nodes # {} => zero \in Nodes
  /\ navigationLevel \in [Nodes -> 0 .. MaxLevel]
  /\ clusterId \in [Nodes -> 0 .. MaxClusters - 1]
  /\ mClusterCount \in 1 .. MaxClusters
  /\ mClickedNode \in Nodes \cup {None}

\* The history is made of navigation states.
NavigationStates == [reference : Nodes \cup {zero}, level : 0 .. MaxLevel]

HistoryInv ==
  /\ mBackwardNavigationStates \in Seq(NavigationStates)
  /\ mForwardNavigationStates \in Seq(NavigationStates)
  /\ CurrentNavigationState \in NavigationStates

\* What is shown matches the mode; in the clusters mode a node in view has a
\* cluster there is now, not one of a time with more of them.
ViewInv ==
  /\ mMode \in {"clusters", "neighbours"}
  /\ displayed \subseteq Nodes
  /\ DOMAIN parent \subseteq Nodes \cup {zero}
  /\ parent \in [DOMAIN parent -> Nodes \cup {None}]
  /\ DisplayMatches
  /\ mMode = "clusters" => \A n \in Seen : clusterId[n] \in Clusters

\* The inductive invariant.
IInv == NodesInv /\ HistoryInv /\ ViewInv

-----------------------------------------------------------------------------
(* Sequences: what taking an element from one end of the history and putting *)
(* it on the other does.                                                     *)

\* A sequence is its front and its last element.
LEMMA LastProperties ==
  ASSUME NEW S, NEW s \in Seq(S), s # <<>>
  PROVE  /\ Front(s) \in Seq(S) /\ Last(s) \in S
         /\ Len(Front(s)) = Len(s) - 1
         /\ \A i \in 1..Len(s) - 1 : Front(s)[i] = s[i]
         /\ s = Front(s) \o <<Last(s)>>
<1>1. Len(s) \in Nat \ {0} /\ \A i \in 1..Len(s) : s[i] \in S
  BY EmptySeq, ElementOfSeq
<1>2. /\ SubSeq(s, 1, Len(s) - 1) \in Seq(S)
      /\ Len(SubSeq(s, 1, Len(s) - 1)) = Len(s) - 1
      /\ \A i \in 1..Len(s) - 1 : SubSeq(s, 1, Len(s) - 1)[i] = s[i]
  <2>1. \A i \in 1..Len(s) - 1 : s[i] \in S
    BY <1>1
  <2>2. /\ SubSeq(s, 1, Len(s) - 1) \in Seq(S)
        /\ Len(SubSeq(s, 1, Len(s) - 1)) = IF 1 <= Len(s) - 1 THEN Len(s) - 1 - 1 + 1 ELSE 0
        /\ \A i \in 1..Len(s) - 1 - 1 + 1 : SubSeq(s, 1, Len(s) - 1)[i] = s[1 + i - 1]
    <3>1. 1 \in Int /\ Len(s) - 1 \in Int
      BY <1>1
    <3>2. QED
      BY <2>1, <3>1, SubSeqProperties
  <2>3. Len(s) - 1 - 1 + 1 = Len(s) - 1 /\ \A i \in 1..Len(s) - 1 : 1 + i - 1 = i
    BY <1>1
  <2>4. QED
    BY <1>1, <2>2, <2>3
<1>3. s = SubSeq(s, 1, Len(s) - 1) \o <<s[Len(s)]>>
  BY <1>1, SubSeqFull, SubSeqRecursiveSecond
<1>4. Last(s) \in S
  BY <1>1 DEF Last
<1>5. QED
  BY <1>2, <1>3, <1>4, Zenon DEF Front, Last

\* What reversing a sequence yields.
LEMMA ReverseProperties ==
  ASSUME NEW S, NEW s \in Seq(S)
  PROVE  /\ Reverse(s) \in Seq(S) /\ Len(Reverse(s)) = Len(s)
         /\ \A i \in 1..Len(s) : Reverse(s)[i] = s[Len(s) - i + 1]
<1>1. Len(s) \in Nat
  BY LenProperties
<1>2. \A i \in 1..Len(s) : (Len(s) - i) + 1 \in 1..Len(s)
  BY <1>1
<1>3. \A i \in 1..Len(s) : s[(Len(s) - i) + 1] \in S
  BY <1>1, <1>2, ElementOfSeq
<1>4. Reverse(s) \in [1..Len(s) -> S]
  BY <1>3 DEF Reverse
<1>5. Reverse(s) \in Seq(S)
  BY <1>1, <1>4, SeqDef
<1>6. Len(Reverse(s)) = Len(s)
  BY <1>1, <1>4, <1>5, LenProperties
<1>7. QED
  BY <1>5, <1>6 DEF Reverse

\* The last element of a sequence comes first when it is reversed.
LEMMA ReverseLast ==
  ASSUME NEW S, NEW s \in Seq(S), NEW e \in S
  PROVE  Reverse(Append(s, e)) = <<e>> \o Reverse(s)
<1>1. /\ Len(s) \in Nat /\ Append(s, e) \in Seq(S)
      /\ Len(Append(s, e)) = Len(s) + 1
      /\ \A i \in 1..Len(s) + 1 : Append(s, e)[i] = IF i = Len(s) + 1 THEN e ELSE s[i]
  BY LenProperties
<1>2. /\ Reverse(s) \in Seq(S) /\ Len(Reverse(s)) = Len(s)
      /\ \A i \in 1..Len(s) : Reverse(s)[i] = s[Len(s) - i + 1]
  BY ReverseProperties
<1>3. /\ Reverse(Append(s, e)) \in Seq(S) /\ Len(Reverse(Append(s, e))) = Len(s) + 1
      /\ \A i \in 1..Len(s) + 1 : Reverse(Append(s, e))[i] = Append(s, e)[Len(s) + 1 - i + 1]
  <2> DEFINE t == Append(s, e)
  <2>1. t \in Seq(S) /\ Len(t) = Len(s) + 1
    BY <1>1
  <2> HIDE DEF t
  <2>2. /\ Reverse(t) \in Seq(S) /\ Len(Reverse(t)) = Len(t)
        /\ \A i \in 1..Len(t) : Reverse(t)[i] = t[Len(t) - i + 1]
    BY <2>1, ReverseProperties
  <2>3. /\ Reverse(t) \in Seq(S) /\ Len(Reverse(t)) = Len(s) + 1
        /\ \A i \in 1..Len(s) + 1 : Reverse(t)[i] = t[Len(s) + 1 - i + 1]
    BY <2>1, <2>2
  <2>4. QED
    BY <2>3 DEF t
<1>4. <<e>> \in Seq(S) /\ Len(<<e>>) = 1 /\ <<e>>[1] = e
  OBVIOUS
<1>5. /\ <<e>> \o Reverse(s) \in Seq(S) /\ Len(<<e>> \o Reverse(s)) = Len(s) + 1
      /\ \A i \in 1..Len(s) + 1 :
           (<<e>> \o Reverse(s))[i] = IF i <= 1 THEN <<e>>[i] ELSE Reverse(s)[i - 1]
  BY <1>1, <1>2, <1>4, ConcatProperties
<1>6. ASSUME NEW i \in 1..Len(s) + 1
      PROVE  Reverse(Append(s, e))[i] = (<<e>> \o Reverse(s))[i]
  <2>1. CASE i = 1
    BY <1>1, <1>3, <1>4, <1>5, <2>1
  <2>2. CASE i # 1
    <3>1. i - 1 \in 1..Len(s) /\ Len(s) + 1 - i + 1 \in 1..Len(s) /\ ~(i <= 1)
      BY <1>1, <2>2
    <3>2. Reverse(Append(s, e))[i] = s[Len(s) + 1 - i + 1]
      BY <1>1, <1>3, <3>1
    <3>3. (<<e>> \o Reverse(s))[i] = s[Len(s) - (i - 1) + 1]
      BY <1>2, <1>5, <3>1
    <3>4. Len(s) - (i - 1) + 1 = Len(s) + 1 - i + 1
      BY <1>1
    <3>5. QED
      BY <3>2, <3>3, <3>4
  <2>3. QED
    BY <2>1, <2>2
<1>7. QED
  BY <1>3, <1>5, <1>6, SeqEqual

\* The elements of the states in order: backward, current, forward.
LEMMA PathProperties ==
  ASSUME NEW S, NEW b \in Seq(S), NEW c \in S, NEW f \in Seq(S)
  PROVE  /\ b \o <<c>> \o Reverse(f) \in Seq(S)
         /\ Len(b \o <<c>> \o Reverse(f)) = Len(b) + 1 + Len(f)
         /\ \A i \in 1..Len(b) : (b \o <<c>> \o Reverse(f))[i] = b[i]
         /\ (b \o <<c>> \o Reverse(f))[Len(b) + 1] = c
         /\ \A i \in 1..Len(f) : (b \o <<c>> \o Reverse(f))[Len(b) + 1 + i] = f[Len(f) - i + 1]
<1>1. Len(b) \in Nat /\ Len(f) \in Nat /\ <<c>> \in Seq(S) /\ Len(<<c>>) = 1 /\ <<c>>[1] = c
  BY LenProperties
<1>2. /\ Reverse(f) \in Seq(S) /\ Len(Reverse(f)) = Len(f)
      /\ \A i \in 1..Len(f) : Reverse(f)[i] = f[Len(f) - i + 1]
  BY ReverseProperties
<1>3. /\ b \o <<c>> \in Seq(S) /\ Len(b \o <<c>>) = Len(b) + 1
      /\ \A i \in 1..Len(b) + 1 : (b \o <<c>>)[i] = IF i <= Len(b) THEN b[i] ELSE <<c>>[i - Len(b)]
  BY <1>1, ConcatProperties
<1>4. SUFFICES ASSUME NEW start \in Seq(S), NEW rest \in Seq(S),
                      start = b \o <<c>>, rest = Reverse(f)
               PROVE  /\ start \o rest \in Seq(S)
                      /\ Len(start \o rest) = Len(b) + 1 + Len(f)
                      /\ \A i \in 1..Len(b) : (start \o rest)[i] = b[i]
                      /\ (start \o rest)[Len(b) + 1] = c
                      /\ \A i \in 1..Len(f) : (start \o rest)[Len(b) + 1 + i] = f[Len(f) - i + 1]
  BY <1>2, <1>3, Zenon
<1>5. /\ start \o rest \in Seq(S) /\ Len(start \o rest) = Len(start) + Len(rest)
      /\ \A i \in 1..Len(start) + Len(rest) :
           (start \o rest)[i] = IF i <= Len(start) THEN start[i] ELSE rest[i - Len(start)]
  BY ConcatProperties
<1>6. Len(start) = Len(b) + 1 /\ Len(rest) = Len(f)
  BY <1>2, <1>3, <1>4, Zenon
<1>7. ASSUME NEW i \in 1..Len(b)
      PROVE  (start \o rest)[i] = b[i]
  <2>1. i \in 1..Len(start) + Len(rest) /\ i <= Len(start) /\ i \in 1..Len(b) + 1 /\ i <= Len(b)
    BY <1>1, <1>6
  <2>2. (start \o rest)[i] = start[i]
    BY <1>5, <2>1, Zenon
  <2>3. (b \o <<c>>)[i] = b[i]
    BY <1>3, <2>1, Zenon
  <2>4. QED
    BY <1>4, <2>2, <2>3, Zenon
<1>8. (start \o rest)[Len(b) + 1] = c
  <2>1. /\ Len(b) + 1 \in 1..Len(start) + Len(rest) /\ Len(b) + 1 <= Len(start)
        /\ Len(b) + 1 \in 1..Len(b) + 1 /\ ~(Len(b) + 1 <= Len(b)) /\ (Len(b) + 1) - Len(b) = 1
    BY <1>1, <1>6
  <2>2. (start \o rest)[Len(b) + 1] = start[Len(b) + 1]
    BY <1>5, <2>1, Zenon
  <2>3. (b \o <<c>>)[Len(b) + 1] = <<c>>[1]
    BY <1>3, <2>1
  <2>4. QED
    BY <1>1, <1>4, <2>2, <2>3, Zenon
<1>9. ASSUME NEW i \in 1..Len(f)
      PROVE  (start \o rest)[Len(b) + 1 + i] = f[Len(f) - i + 1]
  <2>1. /\ Len(b) + 1 + i \in 1..Len(start) + Len(rest) /\ ~(Len(b) + 1 + i <= Len(start))
        /\ (Len(b) + 1 + i) - Len(start) = i
    BY <1>1, <1>6
  <2>2. (start \o rest)[Len(b) + 1 + i] = rest[i]
    BY <1>5, <2>1
  <2>3. QED
    BY <1>2, <1>4, <2>2, Zenon
<1>10. QED
  BY <1>1, <1>5, <1>6, <1>7, <1>8, <1>9

-----------------------------------------------------------------------------
(* What the operators of MediaBrowser return.                              *)

\* The minimum of two numbers.
LEMMA MinOfTwo ==
  ASSUME NEW a \in Nat, NEW b \in Nat
  PROVE  Min({a, b}) = IF a <= b THEN a ELSE b
<1>1. \E x \in {a, b} : \A y \in {a, b} : x <= y
  OBVIOUS
<1>2. Min({a, b}) \in {a, b} /\ \A y \in {a, b} : Min({a, b}) <= y
  BY <1>1 DEF Min
<1>3. QED
  BY <1>2

\* storeNavigationState lowers levels, never below the browser's for a node in view.
LEMMA CappedProperties ==
  ASSUME IInv, NEW n \in Nodes
  PROVE  /\ navigationLevel[n] \in 0 .. MaxLevel /\ mNavigationLevel \in 0 .. MaxLevel
         /\ Capped(n) \in 0 .. MaxLevel
         /\ n \in Seen => Capped(n) = mNavigationLevel
         /\ n \notin Seen => Capped(n) = navigationLevel[n] /\ Capped(n) < mNavigationLevel
<1>1. navigationLevel[n] \in 0 .. MaxLevel /\ mNavigationLevel \in 0 .. MaxLevel
  BY DEF IInv, NodesInv, HistoryInv, NavigationStates, CurrentNavigationState
<1>2. navigationLevel[n] \in Nat /\ mNavigationLevel \in Nat
  BY <1>1, CountsAssumption
<1>3. Capped(n) = IF navigationLevel[n] <= mNavigationLevel THEN navigationLevel[n]
                  ELSE mNavigationLevel
  BY <1>2, MinOfTwo DEF Capped
<1>4. QED
  BY <1>1, <1>2, <1>3 DEF Seen, SeenAt

\* What unwrapping a node makes of a tree and of the nodes shown: the tree grows
\* by nodes in view only, and a node beside the tree was there before.
LEMMA UnwrappedProperties ==
  ASSUME NEW tree, NEW shown, NEW clicked,
         NEW view \in Unwrapped(tree, shown, clicked),
         tree \in [DOMAIN tree -> Nodes' \cup {None}],
         clicked \in DOMAIN tree => clicked \in Nodes'
  PROVE  /\ view.tree \in [DOMAIN view.tree -> Nodes' \cup {None}]
         /\ DOMAIN view.tree \subseteq DOMAIN tree \cup Seen'
         /\ \A v \in DOMAIN view.tree :
              v \in Seen' \/ (v \in DOMAIN tree /\ view.tree[v] = tree[v])
         /\ view.shown \subseteq shown \cup Nodes'
         /\ DOMAIN view.tree \cap Nodes' \subseteq view.shown
         /\ view.shown \ DOMAIN view.tree \subseteq shown \ DOMAIN tree
<1> DEFINE onTree == clicked \in DOMAIN tree
           closing == IF onTree THEN Closing(tree, clicked) ELSE {}
           kept == [v \in DOMAIN tree \ closing |-> tree[v]]
           opens == onTree /\ Children(tree, clicked) = {}
           Grown(new) == [v \in DOMAIN kept \cup new |-> IF v \in new THEN clicked ELSE kept[v]]
<1>1. PICK new \in (IF opens THEN Nearest(kept) ELSE {{}}) :
        view = [tree |-> Grown(new),
                shown |-> Hidden(shown, closing) \cup (DOMAIN Grown(new) \cap Nodes')]
  BY Zenon DEF Unwrapped
<1>2. new \subseteq Seen' /\ (new # {} => onTree)
  BY <1>1 DEF Nearest
<1>3. view.tree = Grown(new)
  BY <1>1
<1>4. view.shown = Hidden(shown, closing) \cup (DOMAIN Grown(new) \cap Nodes')
  BY <1>1
<1>5. DOMAIN Grown(new) = (DOMAIN tree \ closing) \cup new
  OBVIOUS
<1>6. \A v \in DOMAIN Grown(new) :
        Grown(new)[v] = IF v \in new THEN clicked ELSE tree[v]
  OBVIOUS
<1> HIDE DEF Grown, kept, closing
<1>7. \A v \in DOMAIN Grown(new) : Grown(new)[v] \in Nodes' \cup {None}
  BY <1>2, <1>5, <1>6
<1>8. Grown(new) \in [DOMAIN Grown(new) -> Nodes' \cup {None}]
  BY <1>7 DEF Grown
<1>9. QED
  BY <1>2, <1>3, <1>4, <1>5, <1>6, <1>8 DEF Hidden

-----------------------------------------------------------------------------
(* The invariant.                                                          *)

\* The invariant holds of a browser without nodes.
LEMMA InitInv == Init => IInv
<1> SUFFICES ASSUME Init PROVE IInv
  OBVIOUS
<1> USE MediaAssumption, CountsAssumption DEF Init
<1>1. Nodes = {} /\ Seen = {}
  BY DEF Nodes, Seen, SeenAt
<1>2. NodesInv
  <2>1. IsFiniteSet(Nodes)
    BY <1>1, FS_EmptySet
  <2>2. navigationLevel \in [Nodes -> 0 .. MaxLevel] /\ clusterId \in [Nodes -> 0 .. MaxClusters - 1]
    BY DEF Nodes
  <2>3. mClusterCount \in 1 .. MaxClusters
    OBVIOUS
  <2>4. QED
    BY <1>1, <2>1, <2>2, <2>3 DEF NodesInv
<1>3. HistoryInv
  BY EmptySeq DEF HistoryInv, NavigationStates, CurrentNavigationState
<1>4. ViewInv
  BY <1>1 DEF ViewInv, DisplayMatches, NoTree
<1>5. QED
  BY <1>2, <1>3, <1>4 DEF IInv

\* K-means gives each node in view a cluster there is.
LEMMA ReclusterProperties ==
  ASSUME NEW shown, Recluster(shown),
         clusterId \in [Nodes -> 0 .. MaxClusters - 1], Nodes' = Nodes,
         mClusterCount' \in 1 .. MaxClusters
  PROVE  /\ clusterId' \in [Nodes -> 0 .. MaxClusters - 1]
         /\ \A n \in Seen' : clusterId'[n] \in Clusters'
         /\ displayed' = shown \cup Seen'
<1>1. PICK cluster \in [Seen' -> Clusters'] :
        clusterId' = [n \in Nodes' |-> IF n \in Seen' THEN cluster[n] ELSE clusterId[n]]
  BY DEF Recluster
<1>2. Clusters' \subseteq 0 .. MaxClusters - 1
  <2>1. MaxClusters \in Nat
    BY CountsAssumption
  <2>2. ASSUME NEW count \in 1 .. MaxClusters
        PROVE  0 .. count - 1 \subseteq 0 .. MaxClusters - 1
    BY <2>1
  <2>3. QED
    BY <2>2 DEF Clusters
<1>3. Seen' \subseteq Nodes'
  BY DEF Seen, SeenAt
<1>4. QED
  BY <1>1, <1>2, <1>3 DEF Recluster

\* Every action keeps the nodes in order.
LEMMA NodesStep == IInv /\ [Next]_vars => NodesInv'
<1> SUFFICES ASSUME IInv, [Next]_vars PROVE NodesInv'
  OBVIOUS
<1> USE DEF NodesInv, nodes, history
<1>0. NodesInv /\ zero \in Media /\ None \notin Media /\ MaxClusters \in Nat \ {0} /\ MaxLevel \in Nat \ {0}
  BY MediaAssumption, CountsAssumption DEF IInv
<1>a. (navigationLevel' = navigationLevel) => Nodes' = Nodes
  BY DEF Nodes
<1>r. mReferenceNode \in Nodes \cup {zero}
  BY DEF IInv, HistoryInv, NavigationStates, CurrentNavigationState
<1>1. ASSUME NEW m \in Media, InitializeNode(m)
      PROVE  NodesInv'
  <2>1. Nodes' = Nodes \cup {m} /\ m \notin Nodes
    BY <1>1 DEF InitializeNode, Nodes
  <2>2. IsFiniteSet(Nodes') /\ Nodes' \subseteq Media
    BY <1>0, <2>1, FS_AddElement
  <2>3. zero \in Nodes'
    BY <1>0, <1>1, <2>1 DEF InitializeNode
  <2>4. navigationLevel' \in [Nodes' -> 0 .. MaxLevel] /\ clusterId' \in [Nodes' -> 0 .. MaxClusters - 1]
    BY <1>0, <1>1, <2>1 DEF InitializeNode
  <2>5. QED
    BY <1>0, <1>1, <2>1, <2>2, <2>3, <2>4 DEF InitializeNode
<1>2. ASSUME NEW m \in Media, Press(m)
      PROVE  NodesInv'
  BY <1>0, <1>a, <1>2 DEF Press, Seen, SeenAt
<1>3. ASSUME NEW m \in Media, SetReferenceNode(m)
      PROVE  NodesInv'
  <2>1. CASE Recluster(displayed)
    BY <1>0, <1>a, <1>3, <2>1, ReclusterProperties DEF SetReferenceNode
  <2>2. CASE UNCHANGED clusterId
    BY <1>0, <1>a, <1>3, <2>2 DEF SetReferenceNode
  <2>3. QED
    BY <1>3, <2>1, <2>2 DEF SetReferenceNode
<1>4. ASSUME NEW k \in 1 .. MaxClusters, SetClusterNumber(k)
      PROVE  NodesInv'
  <2>1. CASE Recluster(displayed)
    BY <1>0, <1>a, <1>4, <2>1, ReclusterProperties DEF SetClusterNumber
  <2>2. CASE UNCHANGED clusterId
    BY <1>0, <1>a, <1>4, <2>2 DEF SetClusterNumber
  <2>3. QED
    BY <1>4, <2>1, <2>2 DEF SetClusterNumber, UpdateDisplay
<1>5. CASE Refresh
  <2>1. CASE Recluster(displayed)
    BY <1>0, <1>a, <1>5, <2>1, ReclusterProperties DEF Refresh
  <2>2. CASE UNCHANGED clusterId
    BY <1>0, <1>a, <1>5, <2>2 DEF Refresh
  <2>3. QED
    BY <1>5, <2>1, <2>2 DEF Refresh, UpdateDisplay
<1>6. CASE UpdateEmptyLibrary
  BY <1>0, <1>a, <1>6 DEF UpdateEmptyLibrary, ResetNavigation
<1>7. CASE Clean
  <2>1. Nodes' = {}
    BY <1>7 DEF Clean, Nodes
  <2>2. QED
    BY <1>0, <1>7, <2>1, FS_EmptySet DEF Clean, ResetNavigation
<1>8. CASE Release
  BY <1>0, <1>a, <1>8 DEF Release
<1>9. CASE StoreNavigationState
  <2>1. Nodes' = Nodes /\ navigationLevel' \in [Nodes -> 0 .. MaxLevel]
    BY <1>9, CappedProperties DEF StoreNavigationState, Nodes
  <2>2. QED
    BY <1>0, <1>9, <2>1 DEF StoreNavigationState
<1>10. CASE ZoomIntoCluster
  <2> DEFINE step(n) == IF clusterId[mClickedNode] \in Clusters /\ clusterId[n] = clusterId[mClickedNode]
                        THEN 1 ELSE 0
  <2>1. navigationLevel' = [n \in Nodes |-> Capped(n) + step(n)] /\ mNavigationLevel < MaxLevel
    BY <1>10 DEF ZoomIntoCluster
  <2>2. \A n \in Nodes : Capped(n) + step(n) \in 0 .. MaxLevel
    BY <1>0, <2>1, CappedProperties
  <2>3. Nodes' = Nodes /\ navigationLevel' \in [Nodes -> 0 .. MaxLevel]
    BY <2>1, <2>2 DEF Nodes
  <2>4. QED
    BY <1>0, <1>10, <2>3, ReclusterProperties DEF ZoomIntoCluster
<1>11. CASE UnwrapClicked
  BY <1>0, <1>a, <1>11 DEF UnwrapClicked
<1>12. CASE GoBack
  BY <1>0, <1>a, <1>12, ReclusterProperties DEF GoBack
<1>13. CASE GoForward
  BY <1>0, <1>a, <1>13, ReclusterProperties DEF GoForward
<1>14. CASE SwitchToNeighbours
  BY <1>0, <1>a, <1>r, <1>14 DEF SwitchToNeighbours, PlantReference
<1>15. CASE SwitchToClusters
  BY <1>0, <1>a, <1>15, ReclusterProperties DEF SwitchToClusters
<1>16. CASE ChangeNeighborsMethodPlugin
  BY <1>0, <1>a, <1>r, <1>16 DEF ChangeNeighborsMethodPlugin, PlantReference
<1>17. CASE UNCHANGED vars
  BY <1>0, <1>a, <1>17 DEF vars
<1>18. QED
  BY <1>1, <1>2, <1>3, <1>4, <1>5, <1>6, <1>7, <1>8, <1>9, <1>10, <1>11, <1>12, <1>13, <1>14,
     <1>15, <1>16, <1>17 DEF Next, ForwardNextLevel

-----------------------------------------------------------------------------
(* The history.                                                            *)

\* Every action leaves a history of navigation states.
LEMMA HistoryStep == IInv /\ [Next]_vars => HistoryInv'
<1> SUFFICES ASSUME IInv, [Next]_vars PROVE HistoryInv'
  OBVIOUS
<1> USE DEF nodes, history, CurrentNavigationState
<1>0. /\ HistoryInv /\ NodesInv /\ zero \in Media /\ MaxLevel \in Nat \ {0}
      /\ mReferenceNode \in Nodes \cup {zero} /\ mNavigationLevel \in 0 .. MaxLevel
  BY MediaAssumption, CountsAssumption DEF IInv, HistoryInv, NavigationStates
<1>2. ASSUME Nodes' = Nodes PROVE NavigationStates' = NavigationStates
  BY <1>2 DEF NavigationStates
<1>a. navigationLevel' = navigationLevel => Nodes' = Nodes
  BY DEF Nodes
<1>3. ASSUME NavigationStates' = NavigationStates, UNCHANGED history,
             CurrentNavigationState' \in NavigationStates
      PROVE  HistoryInv'
  BY <1>0, <1>3 DEF HistoryInv
<1>4. ASSUME NavigationStates' = NavigationStates, Remember,
             CurrentNavigationState' \in NavigationStates
      PROVE  HistoryInv'
  BY <1>0, <1>4 DEF HistoryInv, Remember
<1>5. ASSUME ResetNavigation
      PROVE  HistoryInv'
  BY <1>0, <1>5, EmptySeq DEF HistoryInv, ResetNavigation, NavigationStates
<1>6. ASSUME NEW s \in NavigationStates
      PROVE  /\ s.reference \in Nodes \cup {zero} /\ s.level \in 0 .. MaxLevel
             /\ [reference |-> s.reference, level |-> s.level] \in NavigationStates
  BY DEF NavigationStates
<1>7. ASSUME NEW m \in Media, InitializeNode(m)
      PROVE  HistoryInv'
  <2>1. NavigationStates \subseteq NavigationStates'
    BY <1>7 DEF InitializeNode, Nodes, NavigationStates
  <2>2. /\ mBackwardNavigationStates \in Seq(NavigationStates')
        /\ mForwardNavigationStates \in Seq(NavigationStates')
    BY <1>0, <2>1, SeqMonotonic DEF HistoryInv
  <2>3. QED
    BY <1>0, <1>7, <2>1, <2>2 DEF InitializeNode, HistoryInv
<1>8. ASSUME NEW m \in Media, Press(m)
      PROVE  HistoryInv'
  BY <1>0, <1>2, <1>3, <1>a, <1>8 DEF Press, HistoryInv
<1>9. ASSUME NEW m \in Media, SetReferenceNode(m)
      PROVE  HistoryInv'
  <2>1. CurrentNavigationState' \in NavigationStates
    BY <1>0, <1>9 DEF SetReferenceNode, NavigationStates
  <2>2. QED
    BY <1>2, <1>3, <1>a, <1>9, <2>1 DEF SetReferenceNode
<1>10. ASSUME NEW k \in 1 .. MaxClusters, SetClusterNumber(k)
      PROVE  HistoryInv'
  BY <1>0, <1>2, <1>3, <1>a, <1>10 DEF SetClusterNumber, HistoryInv
<1>11. CASE Refresh
  BY <1>0, <1>2, <1>3, <1>a, <1>11 DEF Refresh, HistoryInv
<1>12. CASE UpdateEmptyLibrary
  BY <1>5, <1>12 DEF UpdateEmptyLibrary
<1>13. CASE Clean
  BY <1>5, <1>13 DEF Clean
<1>14. CASE Release
  BY <1>0, <1>2, <1>3, <1>a, <1>14 DEF Release, HistoryInv
<1>15. CASE StoreNavigationState
  <2>1. Nodes' = Nodes
    BY <1>15 DEF StoreNavigationState, Nodes
  <2>2. QED
    BY <1>0, <1>2, <1>4, <1>15, <2>1 DEF StoreNavigationState, HistoryInv
<1>16. CASE ZoomIntoCluster
  <2>1. Nodes' = Nodes
    BY <1>16 DEF ZoomIntoCluster, Nodes
  <2>2. mReferenceNode' \in Nodes
    BY <1>0, <1>16 DEF ZoomIntoCluster, NodesInv
  <2>3. mNavigationLevel' \in 0 .. MaxLevel
    BY <1>0, <1>16 DEF ZoomIntoCluster
  <2>4. CurrentNavigationState' \in NavigationStates
    BY <2>2, <2>3 DEF NavigationStates
  <2>5. QED
    BY <1>2, <1>4, <1>16, <2>1, <2>4 DEF ZoomIntoCluster
<1>17. CASE UnwrapClicked
  BY <1>0, <1>2, <1>3, <1>a, <1>17 DEF UnwrapClicked, HistoryInv
<1>18. CASE GoBack
  <2>1. /\ Front(mBackwardNavigationStates) \in Seq(NavigationStates)
        /\ Last(mBackwardNavigationStates) \in NavigationStates
    BY <1>0, <1>18, LastProperties DEF GoBack, HistoryInv
  <2>2. CurrentNavigationState' \in NavigationStates
    BY <1>6, <1>18, <2>1 DEF GoBack, SetCurrentNavigationState
  <2>3. NavigationStates' = NavigationStates
    BY <1>2, <1>a, <1>18 DEF GoBack
  <2>4. QED
    BY <1>0, <1>18, <2>1, <2>2, <2>3 DEF GoBack, HistoryInv
<1>19. CASE GoForward
  <2>1. /\ Front(mForwardNavigationStates) \in Seq(NavigationStates)
        /\ Last(mForwardNavigationStates) \in NavigationStates
    BY <1>0, <1>19, LastProperties DEF GoForward, HistoryInv
  <2>2. CurrentNavigationState' \in NavigationStates
    BY <1>6, <1>19, <2>1 DEF GoForward, SetCurrentNavigationState
  <2>3. NavigationStates' = NavigationStates
    BY <1>2, <1>a, <1>19 DEF GoForward
  <2>4. QED
    BY <1>0, <1>19, <2>1, <2>2, <2>3 DEF GoForward, HistoryInv
<1>20. CASE SwitchToNeighbours
  BY <1>0, <1>2, <1>3, <1>a, <1>20 DEF SwitchToNeighbours, HistoryInv
<1>21. CASE SwitchToClusters
  BY <1>0, <1>2, <1>3, <1>a, <1>21 DEF SwitchToClusters, HistoryInv
<1>22. CASE ChangeNeighborsMethodPlugin
  BY <1>0, <1>2, <1>3, <1>a, <1>22 DEF ChangeNeighborsMethodPlugin, HistoryInv
<1>23. CASE UNCHANGED vars
  BY <1>0, <1>2, <1>3, <1>a, <1>23 DEF vars, HistoryInv
<1>24. QED
  BY <1>7, <1>8, <1>9, <1>10, <1>11, <1>12, <1>13, <1>14, <1>15, <1>16, <1>17, <1>18, <1>19,
     <1>20, <1>21, <1>22, <1>23 DEF Next, ForwardNextLevel

\* The states are a sequence, and forward and backward states are at its ends.
LEMMA StatesProperties ==
  ASSUME HistoryInv
  PROVE  /\ States \in Seq(NavigationStates)
         /\ Len(States) = Len(mBackwardNavigationStates) + 1 + Len(mForwardNavigationStates)
         /\ Len(mBackwardNavigationStates) \in Nat /\ Len(mForwardNavigationStates) \in Nat
         /\ \A i \in 1 .. Len(mBackwardNavigationStates) : States[i] = mBackwardNavigationStates[i]
         /\ States[Len(mBackwardNavigationStates) + 1] = CurrentNavigationState
         /\ \A i \in 1 .. Len(mForwardNavigationStates) :
              States[Len(mBackwardNavigationStates) + 1 + i]
                = mForwardNavigationStates[Len(mForwardNavigationStates) - i + 1]
BY PathProperties, LenProperties DEF HistoryInv, States

\* A step back takes the last backward state off one end and puts the current one on
\* the other: the states are the same.  So does a step forward.
LEMMA SameStates ==
  ASSUME HistoryInv, HistoryInv', NavigationStates' = NavigationStates,
         GoBack \/ GoForward
  PROVE  States' = States
<1> DEFINE b == mBackwardNavigationStates
           f == mForwardNavigationStates
           c == CurrentNavigationState
<1>0. b \in Seq(NavigationStates) /\ f \in Seq(NavigationStates) /\ c \in NavigationStates
  BY DEF HistoryInv
<1>r. \A s \in NavigationStates : [reference |-> s.reference, level |-> s.level] = s
  BY DEF NavigationStates
<1>1. CASE GoBack
  <2>1. /\ Front(b) \in Seq(NavigationStates) /\ Last(b) \in NavigationStates
        /\ b = Front(b) \o <<Last(b)>>
    BY <1>0, <1>1, LastProperties DEF GoBack
  <2>2. CurrentNavigationState' = Last(b)
    BY <1>r, <1>1, <2>1 DEF GoBack, SetCurrentNavigationState, CurrentNavigationState
  <2>3. States' = (Front(b) \o <<Last(b)>>) \o Reverse(Append(f, c))
    BY <1>1, <2>2 DEF GoBack, States
  <2>4. Reverse(Append(f, c)) = <<c>> \o Reverse(f)
    BY <1>0, ReverseLast
  <2>5. States' = b \o (<<c>> \o Reverse(f))
    BY <2>1, <2>3, <2>4
  <2>6. <<c>> \in Seq(NavigationStates) /\ Reverse(f) \in Seq(NavigationStates)
    BY <1>0, ReverseProperties
  <2>7. (b \o <<c>>) \o Reverse(f) = b \o (<<c>> \o Reverse(f))
    BY <1>0, <2>6, ConcatAssociative
  <2>8. QED
    BY <2>5, <2>7 DEF States
<1>2. CASE GoForward
  <2>1. /\ Front(f) \in Seq(NavigationStates) /\ Last(f) \in NavigationStates
        /\ f = Front(f) \o <<Last(f)>>
    BY <1>0, <1>2, LastProperties DEF GoForward
  <2>2. CurrentNavigationState' = Last(f)
    BY <1>r, <1>2, <2>1 DEF GoForward, SetCurrentNavigationState, CurrentNavigationState
  <2>3. Append(b, c) = b \o <<c>> /\ f = Append(Front(f), Last(f))
    BY <1>0, <2>1
  <2>4. States' = ((b \o <<c>>) \o <<Last(f)>>) \o Reverse(Front(f))
    BY <1>2, <2>2, <2>3 DEF GoForward, States
  <2>5. Reverse(f) = <<Last(f)>> \o Reverse(Front(f))
    BY <2>1, <2>3, ReverseLast
  <2>6. /\ b \o <<c>> \in Seq(NavigationStates) /\ <<Last(f)>> \in Seq(NavigationStates)
        /\ Reverse(Front(f)) \in Seq(NavigationStates)
    BY <1>0, <2>1, ReverseProperties
  <2>7. ((b \o <<c>>) \o <<Last(f)>>) \o Reverse(Front(f)) = (b \o <<c>>) \o Reverse(f)
    BY <2>5, <2>6, ConcatAssociative
  <2>8. QED
    BY <2>4, <2>7 DEF States
<1>3. QED
  BY <1>1, <1>2

\* Remembering a state cuts the states ahead off and adds one at the end.
LEMMA RememberOrdered ==
  ASSUME HistoryInv, HistoryInv', NavigationStates' = NavigationStates, HistoryOrdered,
         Remember, mNavigationLevel <= mNavigationLevel'
  PROVE  HistoryOrdered'
<1> DEFINE b == mBackwardNavigationStates
           n == Len(b)
<1>1. n \in Nat /\ b \in Seq(NavigationStates)
  BY StatesProperties DEF HistoryInv
<1>2. /\ b' = Append(b, CurrentNavigationState) /\ mForwardNavigationStates' = <<>>
      /\ Len(b') = n + 1
      /\ \A i \in 1 .. n : b'[i] = b[i]
      /\ b'[n + 1] = CurrentNavigationState
  BY <1>1 DEF Remember, HistoryInv
<1>3. /\ Len(States') = n + 2
      /\ \A i \in 1 .. n + 1 : States'[i] = b'[i]
      /\ States'[n + 2] = CurrentNavigationState'
  <2>1. /\ Len(States') = Len(b') + 1 + Len(mForwardNavigationStates')
        /\ \A i \in 1 .. Len(b') : States'[i] = b'[i]
        /\ States'[Len(b') + 1] = CurrentNavigationState'
    <3>1. /\ b' \in Seq(NavigationStates') /\ mForwardNavigationStates' \in Seq(NavigationStates')
          /\ CurrentNavigationState' \in NavigationStates'
      BY DEF HistoryInv
    <3>2. States' = b' \o <<CurrentNavigationState'>> \o Reverse(mForwardNavigationStates')
      BY DEF States
    <3>3. QED
      BY <3>1, <3>2, PathProperties
  <2>2. QED
    BY <1>1, <1>2, <2>1
<1>4. /\ n + 1 <= Len(States)
      /\ \A i \in 1 .. n : States[i] = b[i]
      /\ States[n + 1] = CurrentNavigationState
  BY StatesProperties
<1>5. \A i \in 1 .. n + 1 : States'[i] = States[i]
  BY <1>1, <1>2, <1>3, <1>4
<1>6. States[n + 1].level = mNavigationLevel /\ States'[n + 2].level = mNavigationLevel'
  BY <1>3, <1>4 DEF CurrentNavigationState
<1>7. Len(States) \in Nat
  BY StatesProperties
<1>8. ASSUME NEW i \in 2 .. Len(States')
      PROVE  States'[i - 1].level <= States'[i].level
  <2>1. CASE i = n + 2
    BY <1>1, <1>5, <1>6, <2>1
  <2>2. CASE i # n + 2
    <3>1. i \in 2 .. Len(States) /\ i \in 1 .. n + 1 /\ i - 1 \in 1 .. n + 1
      BY <1>1, <1>3, <1>4, <1>7, <2>2
    <3>2. QED
      BY <1>5, <3>1 DEF HistoryOrdered
  <2>3. QED
    BY <2>1, <2>2
<1>9. QED
  BY <1>8 DEF HistoryOrdered

\* A change of the reference node leaves the levels in the history.
LEMMA SameLevels ==
  ASSUME HistoryInv, HistoryInv', HistoryOrdered, UNCHANGED <<history, mNavigationLevel>>
  PROVE  HistoryOrdered'
<1> DEFINE b == mBackwardNavigationStates
           f == mForwardNavigationStates
<1>1. /\ b \in Seq(NavigationStates') /\ f \in Seq(NavigationStates')
      /\ CurrentNavigationState' \in NavigationStates'
  BY DEF HistoryInv, history
<1>2. States' = b \o <<CurrentNavigationState'>> \o Reverse(f)
  BY DEF States, history
<1>3. /\ Len(States') = Len(b) + 1 + Len(f)
      /\ \A i \in 1 .. Len(b) : States'[i] = b[i]
      /\ States'[Len(b) + 1] = CurrentNavigationState'
      /\ \A i \in 1 .. Len(f) : States'[Len(b) + 1 + i] = f[Len(f) - i + 1]
  BY <1>1, <1>2, PathProperties
<1>4. /\ Len(States) = Len(b) + 1 + Len(f) /\ Len(b) \in Nat /\ Len(f) \in Nat
      /\ \A i \in 1 .. Len(b) : States[i] = b[i]
      /\ States[Len(b) + 1] = CurrentNavigationState
      /\ \A i \in 1 .. Len(f) : States[Len(b) + 1 + i] = f[Len(f) - i + 1]
  BY StatesProperties
<1>5. CurrentNavigationState'.level = CurrentNavigationState.level
  BY DEF CurrentNavigationState
<1>6. ASSUME NEW i \in 1 .. Len(b) + 1 + Len(f)
      PROVE  States'[i].level = States[i].level
  <2>1. CASE i <= Len(b)
    BY <1>3, <1>4, <2>1
  <2>2. CASE i = Len(b) + 1
    BY <1>3, <1>4, <1>5, <2>2
  <2>3. CASE i > Len(b) + 1
    <3>1. i - (Len(b) + 1) \in 1 .. Len(f) /\ Len(b) + 1 + (i - (Len(b) + 1)) = i
      BY <1>4, <2>3
    <3>2. QED
      BY <1>3, <1>4, <3>1
  <2>4. QED
    BY <1>4, <2>1, <2>2, <2>3
<1>7. ASSUME NEW i \in 2 .. Len(States')
      PROVE  States'[i - 1].level <= States'[i].level
  <2>1. i \in 2 .. Len(States) /\ i \in 1 .. Len(b) + 1 + Len(f) /\ i - 1 \in 1 .. Len(b) + 1 + Len(f)
    BY <1>3, <1>4
  <2>2. QED
    BY <1>6, <2>1 DEF HistoryOrdered
<1>8. QED
  BY <1>7 DEF HistoryOrdered

\* Every action keeps the history in order.
LEMMA OrderedStep == IInv /\ HistoryOrdered /\ [Next]_vars => HistoryOrdered'
<1> SUFFICES ASSUME IInv, HistoryOrdered, [Next]_vars PROVE HistoryOrdered'
  OBVIOUS
<1>1. HistoryInv /\ HistoryInv' /\ mNavigationLevel \in Nat
  BY HistoryStep, CountsAssumption DEF IInv, HistoryInv, NavigationStates, CurrentNavigationState
<1>2. ASSUME UNCHANGED <<history, mNavigationLevel>> PROVE HistoryOrdered'
  BY <1>1, <1>2, SameLevels
<1>3. ASSUME ResetNavigation PROVE HistoryOrdered'
  <2>1. /\ mBackwardNavigationStates' \in Seq(NavigationStates')
        /\ mForwardNavigationStates' \in Seq(NavigationStates')
        /\ CurrentNavigationState' \in NavigationStates'
    BY <1>1 DEF HistoryInv
  <2>2. Len(States') = Len(mBackwardNavigationStates') + 1 + Len(mForwardNavigationStates')
    <3>1. States' = mBackwardNavigationStates' \o <<CurrentNavigationState'>>
                      \o Reverse(mForwardNavigationStates')
      BY DEF States
    <3>2. QED
      BY <2>1, <3>1, PathProperties
  <2>3. Len(States') = 1
    BY <1>3, <2>2 DEF ResetNavigation
  <2>4. QED
    BY <2>3 DEF HistoryOrdered
<1>4. ASSUME Remember, Nodes' = Nodes, mNavigationLevel <= mNavigationLevel'
      PROVE  HistoryOrdered'
  BY <1>1, <1>4, RememberOrdered DEF NavigationStates
<1>5. ASSUME GoBack \/ GoForward PROVE HistoryOrdered'
  <2>1. Nodes' = Nodes
    BY <1>5 DEF GoBack, GoForward, nodes, Nodes
  <2>2. States' = States
    BY <1>1, <1>5, <2>1, SameStates DEF NavigationStates
  <2>3. QED
    BY <2>2 DEF HistoryOrdered
<1>6. CASE StoreNavigationState
  <2>1. Nodes' = Nodes /\ Remember /\ mNavigationLevel' = mNavigationLevel
    BY <1>6 DEF StoreNavigationState, Nodes
  <2>2. QED
    BY <1>1, <1>4, <2>1
<1>7. CASE ZoomIntoCluster
  <2>1. Nodes' = Nodes /\ Remember
    BY <1>7 DEF ZoomIntoCluster, Nodes
  <2>2. mNavigationLevel' \in {mNavigationLevel, mNavigationLevel + 1}
    BY <1>1, <1>7 DEF ZoomIntoCluster
  <2>3. QED
    BY <1>1, <1>4, <2>1, <2>2
<1>8. ASSUME NEW m \in Media, InitializeNode(m) \/ Press(m) \/ SetReferenceNode(m)
      PROVE  HistoryOrdered'
  BY <1>2, <1>8 DEF InitializeNode, Press, SetReferenceNode
<1>9. ASSUME NEW k \in 1 .. MaxClusters, SetClusterNumber(k)
      PROVE  HistoryOrdered'
  BY <1>2, <1>9 DEF SetClusterNumber
<1>10. CASE Refresh \/ Release \/ UnwrapClicked
  BY <1>2, <1>10 DEF Refresh, Release, UnwrapClicked
<1>11. CASE UpdateEmptyLibrary \/ Clean
  BY <1>3, <1>11 DEF UpdateEmptyLibrary, Clean
<1>12. CASE SwitchToNeighbours \/ SwitchToClusters \/ ChangeNeighborsMethodPlugin
  BY <1>2, <1>12 DEF SwitchToNeighbours, SwitchToClusters, ChangeNeighborsMethodPlugin
<1>13. CASE UNCHANGED vars
  BY <1>2, <1>13 DEF vars
<1>14. QED
  BY <1>5, <1>6, <1>7, <1>8, <1>9, <1>10, <1>11, <1>12, <1>13 DEF Next, ForwardNextLevel

-----------------------------------------------------------------------------
(* What is shown.                                                          *)

\* A tree and nodes shown that UnwrappedProperties applies to.
Plausible(tree, shown) ==
  /\ tree \in [DOMAIN tree -> Nodes' \cup {None}]
  /\ DOMAIN tree \subseteq Nodes' \cup {zero}
  /\ {v \in DOMAIN tree : tree[v] # None} \subseteq Seen'
  /\ shown \subseteq Nodes'

\* Unwrapping leaves a tree and nodes shown that can be unwrapped again, without
\* a node shown beside the tree that was not.
LEMMA UnwrapPlausible ==
  ASSUME NEW tree, NEW shown, NEW clicked, NEW view \in Unwrapped(tree, shown, clicked),
         Plausible(tree, shown), clicked \in DOMAIN tree => clicked \in Nodes'
  PROVE  /\ Plausible(view.tree, view.shown)
         /\ DOMAIN view.tree \cap Nodes' \subseteq view.shown
         /\ view.shown \ DOMAIN view.tree \subseteq shown \ DOMAIN tree
<1>1. tree \in [DOMAIN tree -> Nodes' \cup {None}]
  BY DEF Plausible
<1>2. /\ view.tree \in [DOMAIN view.tree -> Nodes' \cup {None}]
      /\ DOMAIN view.tree \subseteq DOMAIN tree \cup Seen'
      /\ \A v \in DOMAIN view.tree :
           v \in Seen' \/ (v \in DOMAIN tree /\ view.tree[v] = tree[v])
      /\ view.shown \subseteq shown \cup Nodes'
      /\ DOMAIN view.tree \cap Nodes' \subseteq view.shown
      /\ view.shown \ DOMAIN view.tree \subseteq shown \ DOMAIN tree
  BY <1>1, UnwrappedProperties
<1>3. Seen' \subseteq Nodes'
  BY DEF Seen, SeenAt
<1>4. QED
  BY <1>2, <1>3 DEF Plausible

\* The display after unwrapping matches the neighbours mode.
LEMMA UnwrapView ==
  ASSUME NEW tree, NEW shown, NEW clicked, Unwrap(tree, shown, clicked),
         Plausible(tree, shown), clicked \in DOMAIN tree => clicked \in Nodes',
         mMode' = "neighbours"
  PROVE  ViewInv' /\ displayed' \ DOMAIN parent' \subseteq shown \ DOMAIN tree
<1>1. PICK view \in Unwrapped(tree, shown, clicked) : parent' = view.tree /\ displayed' = view.shown
  BY DEF Unwrap
<1>2. /\ Plausible(view.tree, view.shown)
      /\ DOMAIN view.tree \cap Nodes' \subseteq view.shown
      /\ view.shown \ DOMAIN view.tree \subseteq shown \ DOMAIN tree
  BY UnwrapPlausible
<1>3. QED
  BY <1>1, <1>2 DEF Plausible, ViewInv, DisplayMatches

\* The display after clustering matches the clusters mode.
LEMMA ReclusterView ==
  ASSUME NEW shown, Recluster(shown), NodesInv, NodesInv', Nodes' = Nodes,
         shown \subseteq Nodes', mMode' = "clusters", parent' = NoTree
  PROVE  ViewInv'
<1>1. \A n \in Seen' : clusterId'[n] \in Clusters'
  BY ReclusterProperties DEF NodesInv
<1>2. displayed' = shown \cup Seen' /\ Seen' \subseteq Nodes'
  BY DEF Recluster, Seen, SeenAt
<1>3. QED
  BY <1>1, <1>2 DEF ViewInv, DisplayMatches, NoTree

\* Planting the reference node and showing its neighbours.
LEMMA PlantView ==
  ASSUME PlantReference, mReferenceNode \in Nodes', mMode' = "neighbours",
         mClickedNode \in Nodes' \cup {None}, Nodes' \subseteq Media
  PROVE  ViewInv' /\ displayed' \ DOMAIN parent' = {}
<1>1. Plausible(Planted(mReferenceNode), {})
  BY DEF Plausible, Planted
<1>2. PICK view \in Unwrapped(Planted(mReferenceNode), {}, mClickedNode) :
        Unwrap(view.tree, view.shown, mReferenceNode)
  BY DEF PlantReference
<1>3. mClickedNode \in DOMAIN Planted(mReferenceNode) => mClickedNode \in Nodes'
  BY DEF Planted
<1>4. Plausible(view.tree, view.shown) /\ view.shown \ DOMAIN view.tree \subseteq {}
  BY <1>1, <1>2, <1>3, UnwrapPlausible
<1>5. QED
  BY <1>2, <1>4, UnwrapView

\* When nodes, flags, mode, clusters, level and tree stay, so does the view.
LEMMA SameView ==
  ASSUME ViewInv,
         UNCHANGED <<nodes, displayed, mMode, mClusterCount, mNavigationLevel, parent>>
  PROVE  ViewInv'
<1>1. Nodes' = Nodes /\ Seen' = Seen /\ Clusters' = Clusters
  BY DEF nodes, Nodes, Seen, SeenAt, Clusters
<1>2. DisplayMatches' = DisplayMatches
  BY <1>1 DEF DisplayMatches
<1>3. QED
  BY <1>1, <1>2 DEF ViewInv, nodes

\* In the neighbours mode the display can be updated from the tree there is.
LEMMA CurrentPlausible ==
  ASSUME ViewInv, mMode = "neighbours", UNCHANGED <<navigationLevel, mNavigationLevel>>
  PROVE  Plausible(parent, displayed)
<1>1. Nodes' = Nodes /\ Seen' = Seen
  BY DEF Nodes, Seen, SeenAt
<1>2. QED
  BY <1>1 DEF ViewInv, DisplayMatches, Plausible

\* updateDisplay when levels and mode are as they were.
LEMMA UpdateView ==
  ASSUME IInv, NodesInv', UpdateDisplay, UNCHANGED <<navigationLevel, mMode, mNavigationLevel>>
  PROVE  /\ ViewInv'
         /\ mMode' = "neighbours" => displayed' \ DOMAIN parent' \subseteq displayed \ DOMAIN parent
<1>0. NodesInv /\ ViewInv /\ Nodes' = Nodes /\ zero \in Media /\ None \notin Media
  BY MediaAssumption DEF IInv, Nodes
<1>1. CASE mMode = "clusters"
  <2>1. Recluster(displayed) /\ parent' = NoTree /\ displayed \subseteq Nodes'
    BY <1>0, <1>1 DEF UpdateDisplay, ViewInv, DisplayMatches
  <2>2. QED
    BY <1>0, <1>1, <2>1, ReclusterView
<1>2. CASE mMode = "neighbours"
  <2>1. Unwrap(parent, displayed, mClickedNode)
    BY <1>2 DEF UpdateDisplay
  <2>2. mClickedNode \in DOMAIN parent => mClickedNode \in Nodes'
    BY <1>0 DEF NodesInv, ViewInv
  <2>3. QED
    BY <1>0, <1>2, <2>1, <2>2, UnwrapView, CurrentPlausible
<1>3. QED
  BY <1>0, <1>1, <1>2 DEF ViewInv

\* No node is shown beside the tree that was not shown beside it, or not there.
NoStrayAdded ==
  mMode' = "neighbours" =>
    displayed' \ DOMAIN parent' \subseteq
      (IF mMode = "neighbours" THEN displayed \ DOMAIN parent ELSE {})
      \cup (Nodes' \ Nodes)

\* Every action keeps the display in agreement, and adds no stray node.
LEMMA ViewStep == IInv /\ [Next]_vars => ViewInv' /\ NoStrayAdded
<1> SUFFICES ASSUME IInv, [Next]_vars PROVE ViewInv' /\ NoStrayAdded
  OBVIOUS
<1>0. /\ NodesInv /\ ViewInv /\ NodesInv' /\ zero \in Media /\ None \notin Media
      /\ mNavigationLevel \in 0 .. MaxLevel /\ MaxLevel \in Nat
      /\ mReferenceNode \in Nodes \cup {zero}
      /\ Nodes # {} => mReferenceNode \in Nodes
  BY NodesStep, MediaAssumption, CountsAssumption
  DEF IInv, NodesInv, HistoryInv, NavigationStates, CurrentNavigationState
<1>1. ASSUME UNCHANGED <<nodes, displayed, mMode, mClusterCount, mNavigationLevel, parent>>
      PROVE  ViewInv' /\ NoStrayAdded
  BY <1>0, <1>1, SameView DEF NoStrayAdded
<1>2. ASSUME UpdateDisplay, UNCHANGED <<navigationLevel, mMode, mNavigationLevel>>
      PROVE  ViewInv' /\ NoStrayAdded
  BY <1>0, <1>2, UpdateView DEF NoStrayAdded
<1>3. ASSUME NEW shown, Recluster(shown), navigationLevel' = navigationLevel,
             shown \subseteq Nodes, mMode' = "clusters", parent' = NoTree
      PROVE  ViewInv' /\ NoStrayAdded
  <2>1. Nodes' = Nodes
    BY <1>3 DEF Nodes
  <2>2. ViewInv'
    BY <1>0, <1>3, <2>1, ReclusterView
  <2>3. QED
    BY <1>3, <2>2 DEF NoStrayAdded
<1>4. ASSUME PlantReference, navigationLevel' = navigationLevel, Nodes # {},
             mMode' = "neighbours"
      PROVE  ViewInv' /\ NoStrayAdded
  <2>1. Nodes' = Nodes
    BY <1>4 DEF Nodes
  <2>2. ViewInv' /\ displayed' \ DOMAIN parent' = {}
    BY <1>0, <1>4, <2>1, PlantView DEF NodesInv
  <2>3. QED
    BY <2>2 DEF NoStrayAdded
<1>5. mMode = "clusters" => displayed \subseteq Nodes /\ parent = NoTree
  BY <1>0 DEF ViewInv, DisplayMatches
<1>6. ASSUME NEW m \in Media, InitializeNode(m)
      PROVE  ViewInv' /\ NoStrayAdded
  <2>1. /\ Nodes' = Nodes \cup {m} /\ displayed' = displayed \cup {m} /\ m \notin Nodes
        /\ mMode' = mMode /\ parent' = parent /\ Clusters' = Clusters
        /\ mNavigationLevel' = mNavigationLevel
    BY <1>6 DEF InitializeNode, Nodes, Clusters
  <2>2. \A n \in Nodes : navigationLevel'[n] = navigationLevel[n] /\ clusterId'[n] = clusterId[n]
    BY <1>6, <2>1 DEF InitializeNode
  <2>3. clusterId'[m] = 0 /\ 0 \in Clusters
    <3>1. clusterId'[m] = 0
      BY <1>6 DEF InitializeNode
    <3>2. 0 \in Clusters
      BY <1>0, CountsAssumption DEF NodesInv, Clusters
    <3>3. QED
      BY <3>1, <3>2
  <2>4. Seen \subseteq Seen' /\ Seen' \subseteq Seen \cup {m}
    BY <2>1, <2>2 DEF Seen, SeenAt
  <2>5. DisplayMatches'
    BY <1>0, <2>1, <2>4 DEF ViewInv, DisplayMatches, NoTree
  <2>6. ASSUME mMode = "clusters", NEW n \in Seen'
        PROVE  clusterId'[n] \in Clusters'
    <3>1. CASE n = m
      BY <2>1, <2>3, <3>1
    <3>2. CASE n # m
      BY <1>0, <2>1, <2>2, <2>4, <2>6, <3>2 DEF ViewInv, Seen, SeenAt
    <3>3. QED
      BY <3>1, <3>2
  <2>7. ViewInv'
    BY <1>0, <2>1, <2>5, <2>6 DEF ViewInv
  <2>8. QED
    BY <2>1, <2>7 DEF NoStrayAdded
<1>7. ASSUME NEW m \in Media, Press(m)
      PROVE  ViewInv' /\ NoStrayAdded
  BY <1>1, <1>7 DEF Press
<1>8. ASSUME NEW m \in Media, SetReferenceNode(m)
      PROVE  ViewInv' /\ NoStrayAdded
  <2>1. CASE mMode = "clusters"
    BY <1>3, <1>5, <1>8, <2>1 DEF SetReferenceNode
  <2>2. CASE mMode = "neighbours"
    <3>1. /\ Nodes' = Nodes /\ mMode' = "neighbours" /\ m \in Nodes
          /\ Unwrap(Planted(m), {}, mClickedNode)
      BY <1>8, <2>2 DEF SetReferenceNode, Nodes
    <3>2. Plausible(Planted(m), {})
      BY <3>1 DEF Plausible, Planted
    <3>3. mClickedNode \in DOMAIN Planted(m) => mClickedNode \in Nodes'
      BY <3>1 DEF Planted
    <3>4. ViewInv' /\ displayed' \ DOMAIN parent' \subseteq {}
      BY <3>1, <3>2, <3>3, UnwrapView
    <3>5. QED
      BY <3>4 DEF NoStrayAdded
  <2>3. QED
    BY <1>8, <2>1, <2>2 DEF SetReferenceNode
<1>9. ASSUME NEW k \in 1 .. MaxClusters, SetClusterNumber(k)
      PROVE  ViewInv' /\ NoStrayAdded
  BY <1>2, <1>9 DEF SetClusterNumber
<1>10. CASE Refresh
  BY <1>2, <1>10 DEF Refresh
<1>11. CASE UpdateEmptyLibrary
  <2>1. /\ Nodes = {} /\ Nodes' = {} /\ displayed' = {} /\ Seen' = {} /\ mMode' = mMode
        /\ parent' = IF mMode = "neighbours" THEN Planted(zero) ELSE parent
    BY <1>0, <1>11 DEF UpdateEmptyLibrary, ResetNavigation, Nodes, nodes, ViewInv, Seen, SeenAt
  <2>2. ViewInv'
    BY <1>0, <2>1 DEF ViewInv, DisplayMatches, Planted, NoTree
  <2>3. QED
    BY <2>1, <2>2 DEF NoStrayAdded
<1>12. CASE Clean
  <2>1. /\ Nodes' = {} /\ displayed' = {} /\ Seen' = {} /\ mMode' = "clusters" /\ parent' = NoTree
    BY <1>12 DEF Clean, Nodes, Seen, SeenAt
  <2>2. QED
    BY <2>1 DEF ViewInv, DisplayMatches, NoTree, NoStrayAdded
<1>13. CASE Release
  BY <1>1, <1>13 DEF Release
<1>14. CASE StoreNavigationState
  <2>1. /\ Nodes' = Nodes /\ Clusters' = Clusters
        /\ UNCHANGED <<clusterId, displayed, mMode, mNavigationLevel, parent>>
    BY <1>14 DEF StoreNavigationState, Nodes, Clusters
  <2>2. \A n \in Nodes : navigationLevel'[n] >= mNavigationLevel <=> n \in Seen
    <3>1. TAKE n \in Nodes
    <3>2. navigationLevel'[n] = Capped(n)
      BY <1>14 DEF StoreNavigationState
    <3>3. QED
      BY <1>0, <3>2, CappedProperties
  <2>3. Seen' = Seen
    BY <2>1, <2>2 DEF Seen, SeenAt
  <2>4. ViewInv'
    BY <1>0, <2>1, <2>3 DEF ViewInv, DisplayMatches
  <2>5. QED
    BY <2>1, <2>4 DEF NoStrayAdded
<1>15. CASE ZoomIntoCluster
  <2>1. /\ Recluster(displayed) /\ mMode = "clusters" /\ mMode' = "clusters" /\ parent' = parent
        /\ Nodes' = Nodes
    BY <1>15 DEF ZoomIntoCluster, Nodes
  <2>2. ViewInv'
    BY <1>0, <1>5, <2>1, ReclusterView
  <2>3. QED
    BY <2>1, <2>2 DEF NoStrayAdded
<1>16. CASE UnwrapClicked
  <2>1. /\ mMode = "neighbours" /\ mMode' = "neighbours" /\ Nodes' = Nodes
        /\ UNCHANGED <<navigationLevel, mNavigationLevel>>
        /\ Unwrap(parent, displayed, mClickedNode)
    BY <1>16 DEF UnwrapClicked, Nodes, nodes
  <2>2. mClickedNode \in DOMAIN parent => mClickedNode \in Nodes'
    BY <1>0, <2>1 DEF NodesInv, ViewInv
  <2>3. ViewInv' /\ displayed' \ DOMAIN parent' \subseteq displayed \ DOMAIN parent
    BY <1>0, <2>1, <2>2, CurrentPlausible, UnwrapView
  <2>4. QED
    BY <2>1, <2>3 DEF NoStrayAdded
<1>17. CASE GoBack \/ GoForward
  BY <1>3, <1>5, <1>17 DEF GoBack, GoForward
<1>18. CASE SwitchToNeighbours
  <2>1. CASE Nodes # {}
    BY <1>4, <1>18, <2>1 DEF SwitchToNeighbours, nodes
  <2>2. CASE Nodes = {}
    <3>1. /\ Nodes' = {} /\ displayed = {} /\ displayed' = {} /\ Seen' = {} /\ mMode' = "neighbours"
          /\ parent' = NoTree
      BY <1>0, <1>5, <1>18, <2>2 DEF SwitchToNeighbours, Nodes, nodes, ViewInv, Seen, SeenAt
    <3>2. ViewInv'
      BY <3>1 DEF ViewInv, DisplayMatches, NoTree
    <3>3. QED
      BY <3>1, <3>2 DEF NoStrayAdded
  <2>3. QED
    BY <2>1, <2>2
<1>19. CASE SwitchToClusters
  BY <1>3, <1>19 DEF SwitchToClusters
<1>20. CASE ChangeNeighborsMethodPlugin
  BY <1>4, <1>20 DEF ChangeNeighborsMethodPlugin, nodes
<1>21. CASE UNCHANGED vars
  BY <1>1, <1>21 DEF vars
<1>22. QED
  BY <1>6, <1>7, <1>8, <1>9, <1>10, <1>11, <1>12, <1>13, <1>14, <1>15, <1>16, <1>17, <1>18,
     <1>19, <1>20, <1>21 DEF Next, ForwardNextLevel

-----------------------------------------------------------------------------
(* Zooming, and entering the neighbours mode.                              *)

\* Nodes in view are stored at the browser's level, so that the zoom raises those of
\* the cluster above it and leaves the others below.
LEMMA ZoomStep ==
  ASSUME IInv, ZoomIntoCluster, mClickedNode \in Seen
  PROVE  Seen' = {n \in Seen : clusterId[n] = clusterId[mClickedNode]}
<1> DEFINE cluster == clusterId[mClickedNode]
           step(n) == IF cluster \in Clusters /\ clusterId[n] = cluster THEN 1 ELSE 0
<1>1. /\ navigationLevel' = [n \in Nodes |-> Capped(n) + step(n)]
      /\ mNavigationLevel' = mNavigationLevel + step(mClickedNode) /\ mMode = "clusters"
  BY DEF ZoomIntoCluster
<1>2. cluster \in Clusters
  BY <1>1 DEF IInv, ViewInv
<1>3. mNavigationLevel' = mNavigationLevel + 1
  BY <1>1, <1>2
<1>4. Nodes' = Nodes /\ Seen \subseteq Nodes
  BY <1>1 DEF Nodes, Seen, SeenAt
<1>5. ASSUME NEW n \in Nodes
      PROVE  navigationLevel'[n] >= mNavigationLevel' <=> n \in Seen /\ clusterId[n] = cluster
  <2>1. navigationLevel'[n] = Capped(n) + step(n)
    BY <1>1
  <2>2. /\ Capped(n) \in 0 .. MaxLevel /\ mNavigationLevel \in 0 .. MaxLevel /\ MaxLevel \in Nat
        /\ n \in Seen => Capped(n) = mNavigationLevel
        /\ n \notin Seen => Capped(n) < mNavigationLevel
    BY CappedProperties, CountsAssumption
  <2>3. CASE n \in Seen
    BY <1>2, <1>3, <2>1, <2>2, <2>3
  <2>4. CASE n \notin Seen
    BY <1>3, <2>1, <2>2, <2>4
  <2>5. QED
    BY <2>3, <2>4
<1>6. QED
  BY <1>4, <1>5 DEF Seen, SeenAt

\* Unwrapping a node that is not on the tree leaves a tree as it is.
LEMMA UnwrapBeside ==
  ASSUME NEW v, NEW shown, NEW clicked, clicked # v,
         NEW view \in Unwrapped(Planted(v), shown, clicked)
  PROVE  view.tree = Planted(v)
<1>1. DOMAIN Planted(v) = {v} /\ clicked \notin DOMAIN Planted(v)
  BY DEF Planted
<1>2. view.tree = [w \in (DOMAIN [x \in DOMAIN Planted(v) \ {} |-> Planted(v)[x]]) \cup {} |->
                     IF w \in {} THEN clicked ELSE [x \in DOMAIN Planted(v) \ {} |-> Planted(v)[x]][w]]
  BY <1>1 DEF Unwrapped
<1>3. QED
  BY <1>2 DEF Planted

\* Unwrapping the only node of a tree opens it, when there are others in view:
\* the first one may be skipped.
LEMMA UnwrapRoot ==
  ASSUME NEW v, NEW shown, NEW view \in Unwrapped(Planted(v), shown, v), v # None,
         IsFiniteSet(Seen'), Cardinality(Seen' \ {v}) >= 2
  PROVE  Children(view.tree, v) # {}
<1> DEFINE tree == Planted(v)
<1>1. DOMAIN tree = {v} /\ tree[v] = None
  BY DEF Planted
<1>2. Children(tree, v) = {} /\ Siblings(tree, v) = {}
  BY <1>1 DEF Children, Siblings
<1>3. Closing(tree, v) = {}
  BY <1>2 DEF Closing
<1>4. [w \in DOMAIN tree \ Closing(tree, v) |-> tree[w]] = tree
  BY <1>3 DEF Planted
<1> HIDE DEF tree
<1>5. PICK new \in Nearest(tree) :
        view.tree = [w \in DOMAIN tree \cup new |-> IF w \in new THEN v ELSE tree[w]]
  <2>1. v \in DOMAIN tree
    BY <1>1
  <2>2. view \in Unwrapped(tree, shown, v)
    BY DEF tree
  <2> DEFINE closing == IF v \in DOMAIN tree THEN Closing(tree, v) ELSE {}
             kept == [w \in DOMAIN tree \ closing |-> tree[w]]
             opens == v \in DOMAIN tree /\ Children(tree, v) = {}
             Grown(new) == [w \in DOMAIN kept \cup new |-> IF w \in new THEN v ELSE kept[w]]
  <2>3. PICK new \in (IF opens THEN Nearest(kept) ELSE {{}}) :
          view = [tree |-> Grown(new),
                  shown |-> Hidden(shown, closing) \cup (DOMAIN Grown(new) \cap Nodes')]
    BY <2>2, Zenon DEF Unwrapped
  <2>4. kept = tree /\ opens
    BY <1>2, <1>3, <1>4, <2>1
  <2>5. view.tree = Grown(new)
    BY <2>3
  <2>6. new \in Nearest(tree)
    BY <2>3, <2>4
  <2>7. Grown(new) = [w \in DOMAIN tree \cup new |-> IF w \in new THEN v ELSE tree[w]]
    BY <2>4
  <2>8. QED
    BY <2>5, <2>6, <2>7
<1>6. PICK first \in Seen' :
        Cardinality(new) = Min({NeighborCount, Cardinality((Seen' \ {v}) \ {first})})
  BY <1>1, <1>5 DEF Nearest
<1> DEFINE pool == (Seen' \ {v}) \ {first}
<1>7. IsFiniteSet(pool) /\ IsFiniteSet(Seen' \ {v}) /\ Cardinality(pool) \in Nat
  BY FS_Subset, FS_CardinalityType
<1>8. pool # {}
  <2>1. SUFFICES ASSUME pool = {} PROVE FALSE
    OBVIOUS
  <2>2. Seen' \ {v} \subseteq {first}
    BY <2>1
  <2>3. IsFiniteSet({first}) /\ Cardinality({first}) = 1
    BY FS_Singleton
  <2>4. Cardinality(Seen' \ {v}) <= 1 /\ Cardinality(Seen' \ {v}) \in Nat
    BY <1>7, <2>2, <2>3, FS_Subset, FS_CardinalityType
  <2>5. QED
    BY <2>4
<1>9. Cardinality(pool) >= 1
  BY <1>7, <1>8, FS_EmptySet
<1>10. NeighborCount \in Nat \ {0}
  BY CountsAssumption
<1>11. Cardinality(new) >= 1
  BY <1>6, <1>7, <1>9, <1>10, MinOfTwo
<1>12. new # {}
  BY <1>11, FS_EmptySet
<1>13. PICK w \in new : w \in DOMAIN view.tree /\ view.tree[w] = v
  BY <1>5, <1>12
<1>14. QED
  BY <1>13 DEF Children

\* Only switchMode enters the neighbours mode; the reference node, its only tree,
\* is then opened.
LEMMA SwitchStep ==
  ASSUME IInv, [Next]_vars, mMode = "clusters", mMode' = "neighbours", mClickedNode = None,
         Cardinality(Seen \ {mReferenceNode}) >= 2
  PROVE  Children(parent', mReferenceNode) # {}
<1>1. SwitchToNeighbours
  BY DEF Next, vars, InitializeNode, Press, SetReferenceNode, SetClusterNumber, Refresh,
         UpdateEmptyLibrary, Clean, Release, StoreNavigationState, ForwardNextLevel,
         ZoomIntoCluster, UnwrapClicked, GoBack, GoForward, SwitchToClusters,
         ChangeNeighborsMethodPlugin
<1>2. Seen' = Seen /\ Nodes' = Nodes
  BY <1>1 DEF SwitchToNeighbours, nodes, Seen, SeenAt, Nodes
<1>3. IsFiniteSet(Seen')
  <2>1. IsFiniteSet(Nodes) /\ Seen \subseteq Nodes
    BY DEF IInv, NodesInv, Seen, SeenAt
  <2>2. QED
    BY <1>2, <2>1, FS_Subset
<1>4. Nodes # {}
  <2>1. SUFFICES ASSUME Nodes = {} PROVE FALSE
    OBVIOUS
  <2>2. Seen \ {mReferenceNode} = {}
    BY <2>1 DEF Seen, SeenAt
  <2>3. QED
    BY <2>2, FS_EmptySet
<1>5. mReferenceNode # None
  BY MediaAssumption DEF IInv, NodesInv, HistoryInv, NavigationStates, CurrentNavigationState
<1>6. PICK view \in Unwrapped(Planted(mReferenceNode), {}, None) :
        Unwrap(view.tree, view.shown, mReferenceNode)
  BY <1>1, <1>4 DEF SwitchToNeighbours, PlantReference
<1>7. view.tree = Planted(mReferenceNode)
  BY <1>5, <1>6, UnwrapBeside
<1>8. PICK last \in Unwrapped(Planted(mReferenceNode), view.shown, mReferenceNode) :
        parent' = last.tree
  BY <1>6, <1>7 DEF Unwrap
<1>9. Children(last.tree, mReferenceNode) # {}
  BY <1>2, <1>3, <1>5, UnwrapRoot
<1>10. QED
  BY <1>8, <1>9

-----------------------------------------------------------------------------
(* The tree opens along one branch.                                        *)

\* The nodes with children.
Open(tree) == {v \in DOMAIN tree : Children(tree, v) # {}}

\* depth counts the steps from a tree's only root; on each level above another
\* one just one node is open.
Ranked(tree, depth) ==
  /\ None \notin DOMAIN tree
  /\ \A v, w \in DOMAIN tree : tree[v] = None /\ tree[w] = None => v = w
  /\ \A v \in DOMAIN tree :
       IF tree[v] = None THEN depth[v] = 0
       ELSE tree[v] \in DOMAIN tree /\ depth[v] = depth[tree[v]] + 1
  /\ \A v, w \in Open(tree) : depth[v] = depth[w] => v = w
  /\ \A v, w \in DOMAIN tree :
       depth[v] < depth[w] => \E p \in Open(tree) : depth[p] = depth[v]

Chained(tree) == \E depth \in [DOMAIN tree -> Nat] : Ranked(tree, depth)

\* A parent is open, and one step nearer to the root.
LEMMA ParentRank ==
  ASSUME NEW tree, NEW depth \in [DOMAIN tree -> Nat], Ranked(tree, depth),
         NEW v \in DOMAIN tree, tree[v] # None
  PROVE  tree[v] \in Open(tree) /\ depth[v] = depth[tree[v]] + 1
BY DEF Ranked, Open, Children

\* Below an open node is all that is deeper, below another one there is nothing.
LEMMA BranchRank ==
  ASSUME NEW tree, NEW depth \in [DOMAIN tree -> Nat], Ranked(tree, depth),
         NEW v \in DOMAIN tree
  PROVE  Tree!BranchOf(tree, v)
           = {v} \cup {w \in DOMAIN tree : v \in Open(tree) /\ depth[v] < depth[w]}
<1> DEFINE Solves(f) == f = [w \in DOMAIN tree |-> w = v \/ (tree[w] # None /\ f[tree[w]])]
           climbs == CHOOSE f : Solves(f)
           under(w) == w = v \/ (v \in Open(tree) /\ depth[v] < depth[w])
           known == [w \in DOMAIN tree |-> under(w)]
           wrong == {w \in DOMAIN tree : ~(climbs[w] <=> under(w))}
<1>1. Tree!BranchOf(tree, v) = {w \in DOMAIN tree : climbs[w]}
  BY DEF Tree!BranchOf
<1>2. ASSUME NEW w \in DOMAIN tree
      PROVE  under(w) <=> w = v \/ (tree[w] # None /\ under(tree[w]))
  <2>1. CASE tree[w] = None
    <3>1. depth[w] = 0 /\ depth[v] \in Nat
      BY <2>1 DEF Ranked
    <3>2. QED
      BY <2>1, <3>1
  <2>2. CASE tree[w] # None
    <3> DEFINE p == tree[w]
    <3>1. p \in Open(tree) /\ p \in DOMAIN tree /\ depth[w] = depth[p] + 1
      BY <2>2, ParentRank DEF Open
    <3>2. depth[p] \in Nat /\ depth[v] \in Nat /\ depth[w] \in Nat
      BY <3>1
    <3>3. v \in Open(tree) /\ depth[p] = depth[v] => p = v
      BY <3>1 DEF Ranked
    <3> HIDE DEF p
    <3>4. under(w) => w = v \/ under(p)
      BY <3>1, <3>2, <3>3
    <3>5. under(p) => under(w)
      BY <3>1, <3>2
    <3>6. QED
      BY <2>2, <3>4, <3>5 DEF p
  <2>3. QED
    BY <2>1, <2>2
<1>3. \A w \in DOMAIN tree : tree[w] # None => tree[w] \in DOMAIN tree
  BY DEF Ranked
<1> HIDE DEF under
<1>4. Solves(known)
  <2>1. ASSUME NEW w \in DOMAIN tree
        PROVE  under(w) = (w = v \/ (tree[w] # None /\ known[tree[w]]))
    <3>1. tree[w] # None => known[tree[w]] = under(tree[w])
      BY <1>3
    <3>2. under(w) <=> w = v \/ (tree[w] # None /\ known[tree[w]])
      BY <1>2, <3>1
    <3>3. under(w) \in BOOLEAN
      BY DEF under
    <3>4. QED
      BY <3>2, <3>3
  <2>2. QED
    BY <2>1
<1>5. Solves(climbs)
  <2> HIDE DEF Solves
  <2>1. QED
    BY <1>4
<1>6. \A w \in DOMAIN tree : climbs[w] <=> w = v \/ (tree[w] # None /\ climbs[tree[w]])
  <2> HIDE DEF climbs
  <2>1. QED
    BY <1>5
<1> HIDE DEF climbs, Solves, known
<1>7. wrong = {}
  <2>1. SUFFICES ASSUME wrong # {} PROVE FALSE
    OBVIOUS
  <2> DEFINE ranks == {depth[w] : w \in wrong}
             R == OpToRel(<, Nat)
  <2>2. IsWellFoundedOn(R, Nat)
    BY NatLessThanWellFounded
  <2>3. \A y, z \in Nat : y < z => <<y, z>> \in R
    BY DEF OpToRel
  <2>4. ranks \in SUBSET Nat /\ ranks # {}
    BY <2>1
  <2> HIDE DEF R
  <2>5. PICK m \in ranks : \A y \in ranks : ~ (<<y, m>> \in R)
    <3> HIDE DEF ranks
    <3>1. QED
      BY <2>2, <2>4, WFMin
  <2>6. PICK w \in wrong : depth[w] = m
    OBVIOUS
  <2>7. w \in DOMAIN tree /\ ~(climbs[w] <=> under(w))
    OBVIOUS
  <2>8. tree[w] # None /\ ~(climbs[tree[w]] <=> under(tree[w]))
    BY <1>2, <1>6, <2>7
  <2>9. tree[w] \in wrong
    BY <1>3, <2>7, <2>8
  <2>10. depth[w] = depth[tree[w]] + 1 /\ depth[tree[w]] \in Nat /\ m \in Nat
    BY <1>3, <2>4, <2>7, <2>8, ParentRank
  <2>11. <<depth[tree[w]], m>> \in R
    BY <2>3, <2>6, <2>10
  <2>12. QED
    BY <2>5, <2>9, <2>11
<1>8. QED
  BY <1>1, <1>7 DEF under

\* A click on a node of the tree closes all that is deeper, on its own branch or
\* on a sibling's.
LEMMA ClosingRank ==
  ASSUME NEW tree, NEW depth \in [DOMAIN tree -> Nat], Ranked(tree, depth),
         NEW v \in DOMAIN tree
  PROVE  Closing(tree, v) = {w \in DOMAIN tree : depth[v] < depth[w]}
<1>1. ASSUME NEW u \in DOMAIN tree
      PROVE  Below(tree, u) = {w \in DOMAIN tree : u \in Open(tree) /\ depth[u] < depth[w]}
  <2>1. depth[u] \in Nat
    OBVIOUS
  <2>2. QED
    BY <2>1, BranchRank DEF Below
<1>2. CASE v \in Open(tree)
  BY <1>1, <1>2 DEF Closing, Open
<1>3. CASE v \notin Open(tree)
  <2>1. Closing(tree, v) = UNION {Below(tree, s) : s \in Siblings(tree, v)}
    BY <1>3 DEF Closing, Open
  <2>2. ASSUME NEW s \in Siblings(tree, v)
        PROVE  s \in DOMAIN tree /\ depth[s] = depth[v]
    BY DEF Siblings, Children, Ranked
  <2>3. ASSUME NEW w \in DOMAIN tree, depth[v] < depth[w]
        PROVE  \E s \in Siblings(tree, v) : w \in Below(tree, s)
    <3>1. PICK s \in Open(tree) : depth[s] = depth[v]
      BY <2>3 DEF Ranked
    <3>2. s \in DOMAIN tree /\ s # v /\ depth[v] \in Nat
      BY <1>3, <3>1 DEF Open
    <3>3. tree[v] # None
      <4>1. SUFFICES ASSUME tree[v] = None PROVE FALSE
        OBVIOUS
      <4>2. depth[s] = 0
        BY <3>1, <4>1 DEF Ranked
      <4>3. tree[s] = None
        <5>1. SUFFICES ASSUME tree[s] # None PROVE FALSE
          OBVIOUS
        <5>2. tree[s] \in DOMAIN tree /\ depth[s] = depth[tree[s]] + 1
          BY <3>2, <5>1 DEF Ranked
        <5>3. depth[tree[s]] \in Nat
          BY <5>2
        <5>4. QED
          BY <4>2, <5>2, <5>3
      <4>4. QED
        BY <3>2, <4>1, <4>3 DEF Ranked
    <3>4. tree[v] \in Open(tree) /\ depth[v] = depth[tree[v]] + 1 /\ depth[tree[v]] \in Nat
      BY <3>3, ParentRank DEF Open
    <3>5. tree[s] # None
      BY <3>1, <3>2, <3>4 DEF Ranked
    <3>6. tree[s] \in Open(tree) /\ depth[s] = depth[tree[s]] + 1 /\ depth[tree[s]] \in Nat
      BY <3>2, <3>5, ParentRank DEF Open
    <3>7. tree[s] = tree[v]
      <4>1. depth[tree[s]] = depth[tree[v]]
        BY <3>1, <3>4, <3>6
      <4>2. QED
        BY <3>4, <3>6, <4>1 DEF Ranked
    <3>8. s \in Siblings(tree, v)
      BY <3>2, <3>3, <3>7 DEF Siblings, Children
    <3>9. w \in Below(tree, s)
      BY <1>1, <2>3, <3>1, <3>2
    <3>10. QED
      BY <3>8, <3>9
  <2>4. QED
    BY <1>1, <2>1, <2>2, <2>3
<1>4. QED
  BY <1>2, <1>3

\* What a click leaves of a tree, and what it adds, has one branch again, and all
\* that is open is on the way from the root to the node clicked.
LEMMA UnwrapRanked ==
  ASSUME NEW tree, NEW depth \in [DOMAIN tree -> Nat], Ranked(tree, depth),
         NEW clicked \in DOMAIN tree, NEW new, None \notin new, new # {} => clicked \notin Open(tree),
         NEW grown, DOMAIN grown = {w \in DOMAIN tree : depth[w] <= depth[clicked]} \cup new,
         new \cap {w \in DOMAIN tree : depth[w] <= depth[clicked]} = {},
         \A w \in DOMAIN grown : grown[w] = IF w \in new THEN clicked ELSE tree[w]
  PROVE  /\ Chained(grown)
         /\ \A v \in DOMAIN grown :
              Children(grown, v) # {} => clicked \in Tree!BranchOf(grown, v)
<1> DEFINE kept == {w \in DOMAIN tree : depth[w] <= depth[clicked]}
           rank == [w \in DOMAIN grown |-> IF w \in new THEN depth[clicked] + 1 ELSE depth[w]]
<1>1. /\ clicked \in kept /\ depth[clicked] \in Nat
      /\ DOMAIN grown = kept \cup new /\ kept \cap new = {}
      /\ \A w \in kept : w \in DOMAIN tree /\ depth[w] \in Nat /\ depth[w] <= depth[clicked]
  OBVIOUS
<1>2. /\ \A w \in new : grown[w] = clicked /\ rank[w] = depth[clicked] + 1
      /\ \A w \in kept : grown[w] = tree[w] /\ rank[w] = depth[w]
  BY <1>1
<1>3. rank \in [DOMAIN grown -> Nat]
  BY <1>1
<1>4. \A w \in DOMAIN tree : depth[w] \in Nat /\ (depth[w] <= depth[clicked] => w \in kept)
  OBVIOUS
<1> HIDE DEF kept, rank
<1>5. ASSUME NEW w \in kept, grown[w] # None
      PROVE  /\ grown[w] \in kept /\ grown[w] \in Open(tree)
             /\ depth[w] = depth[grown[w]] + 1 /\ depth[grown[w]] < depth[clicked]
  <2>1. grown[w] = tree[w] /\ w \in DOMAIN tree /\ tree[w] # None
    BY <1>1, <1>2, <1>5
  <2>2. grown[w] \in Open(tree) /\ grown[w] \in DOMAIN tree /\ depth[w] = depth[grown[w]] + 1
    BY <2>1, ParentRank DEF Open
  <2>3. depth[grown[w]] < depth[clicked]
    BY <1>1, <1>4, <2>2
  <2>4. depth[grown[w]] <= depth[clicked]
    BY <1>1, <1>4, <2>2, <2>3
  <2>5. QED
    BY <1>4, <2>2, <2>3, <2>4
<1>6. ASSUME NEW p \in Open(grown)
      PROVE  \/ p = clicked /\ new # {}
             \/ p \in kept /\ p \in Open(tree) /\ depth[p] < depth[clicked]
  <2>1. PICK w \in DOMAIN grown : grown[w] = p
    BY DEF Open, Children
  <2>2. CASE w \in new
    BY <1>2, <2>1, <2>2
  <2>3. CASE w \in kept /\ grown[w] # None
    BY <1>5, <2>1, <2>3
  <2>4. grown[w] # None
    BY <1>1, <2>1 DEF Open, Ranked
  <2>5. QED
    BY <1>1, <2>1, <2>2, <2>3, <2>4
<1>7. ASSUME NEW p \in Open(tree), depth[p] < depth[clicked]
      PROVE  p \in Open(grown) /\ p \in kept
  <2>1. PICK w \in DOMAIN tree : tree[w] = p
    BY DEF Open, Children
  <2>2. p \in DOMAIN tree /\ p # None
    BY DEF Open, Ranked
  <2>3. p \in kept
    BY <1>1, <1>4, <1>7, <2>2
  <2>4. depth[w] = depth[p] + 1
    BY <2>1, <2>2 DEF Ranked
  <2>5. w \in kept
    BY <1>1, <1>4, <1>7, <2>1, <2>2, <2>4
  <2>6. grown[w] = p /\ w \in DOMAIN grown
    BY <1>1, <1>2, <2>1, <2>5
  <2>7. QED
    BY <1>1, <2>3, <2>6 DEF Open, Children
<1>8. new # {} => clicked \in Open(grown)
  BY <1>1, <1>2 DEF Open, Children
<1>9. clicked \notin new
  BY <1>1
<1>10. Ranked(grown, rank)
  <2>1. None \notin DOMAIN grown
    BY <1>1 DEF Ranked
  <2>2. ASSUME NEW v \in DOMAIN grown, NEW w \in DOMAIN grown, grown[v] = None, grown[w] = None
        PROVE  v = w
    <3>1. v \in kept /\ w \in kept
      BY <1>1, <1>2, <2>2 DEF Ranked
    <3>2. QED
      BY <1>1, <1>2, <2>2, <3>1 DEF Ranked
  <2>3. ASSUME NEW v \in DOMAIN grown
        PROVE  IF grown[v] = None THEN rank[v] = 0
               ELSE grown[v] \in DOMAIN grown /\ rank[v] = rank[grown[v]] + 1
    <3>1. CASE v \in new
      BY <1>1, <1>2, <3>1 DEF Ranked
    <3>2. CASE v \in kept /\ grown[v] = None
      BY <1>1, <1>2, <3>2 DEF Ranked
    <3>3. CASE v \in kept /\ grown[v] # None
      BY <1>1, <1>2, <1>5, <3>3
    <3>4. QED
      BY <1>1, <3>1, <3>2, <3>3
  <2>4. ASSUME NEW v \in Open(grown), NEW w \in Open(grown), rank[v] = rank[w]
        PROVE  v = w
    <3>1. CASE v = clicked \/ w = clicked
      <4>1. rank[clicked] = depth[clicked]
        BY <1>1, <1>2
      <4>2. \A p \in Open(grown) : p # clicked => p \in kept /\ rank[p] = depth[p] /\ rank[p] < depth[clicked]
        BY <1>2, <1>6
      <4>3. QED
        BY <1>1, <2>4, <3>1, <4>1, <4>2
    <3>2. CASE v # clicked /\ w # clicked
      <4>1. v \in kept /\ w \in kept /\ v \in Open(tree) /\ w \in Open(tree)
        BY <1>6, <3>2
      <4>2. depth[v] = depth[w]
        BY <1>2, <2>4, <4>1
      <4>3. QED
        BY <4>1, <4>2 DEF Ranked
    <3>3. QED
      BY <3>1, <3>2
  <2>5. ASSUME NEW v \in DOMAIN grown, NEW w \in DOMAIN grown, rank[v] < rank[w]
        PROVE  \E p \in Open(grown) : rank[p] = rank[v]
    <3>1. rank[w] <= depth[clicked] \/ (w \in new /\ rank[w] = depth[clicked] + 1)
      BY <1>1, <1>2
    <3>2. rank[v] \in Nat /\ rank[w] \in Nat
      BY <1>3
    <3>3. v \in kept
      BY <1>1, <1>2, <2>5, <3>1, <3>2
    <3>4. rank[v] = depth[v] /\ v \in DOMAIN tree /\ depth[v] <= depth[clicked] /\ depth[v] \in Nat
      BY <1>1, <1>2, <3>3
    <3>5. CASE depth[v] = depth[clicked]
      <4>1. new # {}
        BY <1>1, <2>5, <3>1, <3>2, <3>4, <3>5
      <4>2. clicked \in Open(grown) /\ rank[clicked] = depth[clicked]
        BY <1>1, <1>2, <1>8, <4>1
      <4>3. QED
        BY <3>4, <3>5, <4>2
    <3>6. CASE depth[v] < depth[clicked]
      <4>1. PICK p \in Open(tree) : depth[p] = depth[v]
        BY <1>1, <3>4, <3>6 DEF Ranked
      <4>2. p \in Open(grown) /\ p \in kept
        BY <1>7, <3>6, <4>1
      <4>3. QED
        BY <1>2, <3>4, <4>1, <4>2
    <3>7. QED
      BY <1>1, <3>4, <3>5, <3>6
  <2>6. QED
    BY <2>1, <2>2, <2>3, <2>4, <2>5 DEF Ranked
<1>11. ASSUME NEW v \in DOMAIN grown, Children(grown, v) # {}
       PROVE  clicked \in Tree!BranchOf(grown, v)
  <2>1. v \in Open(grown)
    BY <1>11 DEF Open
  <2>2. Tree!BranchOf(grown, v)
          = {v} \cup {w \in DOMAIN grown : v \in Open(grown) /\ rank[v] < rank[w]}
    BY <1>3, <1>10, BranchRank
  <2>3. clicked \in DOMAIN grown /\ rank[clicked] = depth[clicked]
    BY <1>1, <1>2
  <2>4. v = clicked \/ rank[v] < rank[clicked]
    BY <1>2, <1>6, <2>1, <2>3
  <2>5. QED
    BY <2>1, <2>2, <2>3, <2>4
<1>12. QED
  BY <1>3, <1>10, <1>11 DEF Chained

\* The same, said of the operator: unwrapping keeps a tree with one branch so.
LEMMA UnwrapChained ==
  ASSUME NEW tree, NEW shown, NEW clicked, NEW view \in Unwrapped(tree, shown, clicked),
         Chained(tree), None \notin Nodes', tree = [v \in DOMAIN tree |-> tree[v]]
  PROVE  /\ Chained(view.tree)
         /\ view.tree = [v \in DOMAIN view.tree |-> view.tree[v]]
         /\ clicked \in DOMAIN tree =>
              \A v \in DOMAIN view.tree :
                Children(view.tree, v) # {} => clicked \in Tree!BranchOf(view.tree, v)
<1> DEFINE onTree == clicked \in DOMAIN tree
           closing == IF onTree THEN Closing(tree, clicked) ELSE {}
           kept == [v \in DOMAIN tree \ closing |-> tree[v]]
           opens == onTree /\ Children(tree, clicked) = {}
           Grown(new) == [v \in DOMAIN kept \cup new |-> IF v \in new THEN clicked ELSE kept[v]]
<1>1. PICK new \in (IF opens THEN Nearest(kept) ELSE {{}}) :
        view = [tree |-> Grown(new),
                shown |-> Hidden(shown, closing) \cup (DOMAIN Grown(new) \cap Nodes')]
  BY Zenon DEF Unwrapped
<1>2. view.tree = Grown(new)
  BY <1>1
<1>3. view.tree = [v \in DOMAIN view.tree |-> view.tree[v]]
  BY <1>2
<1>4. CASE ~onTree
  <2>1. new = {} /\ closing = {}
    BY <1>1, <1>4
  <2>2. Grown({}) = tree
    BY <2>1
  <2>3. view.tree = tree
    BY <1>2, <2>1, <2>2
  <2>4. QED
    BY <1>3, <1>4, <2>3
<1>5. CASE onTree
  <2>1. PICK depth \in [DOMAIN tree -> Nat] : Ranked(tree, depth)
    BY DEF Chained
  <2>2. closing = {w \in DOMAIN tree : depth[clicked] < depth[w]}
    BY <1>5, <2>1, ClosingRank
  <2>3. \A w \in DOMAIN tree : depth[w] \in Nat /\ depth[clicked] \in Nat
    BY <1>5
  <2> DEFINE near == {w \in DOMAIN tree : depth[w] <= depth[clicked]}
  <2>4. DOMAIN tree \ closing = near
    <3> HIDE DEF closing
    <3>1. QED
      BY <2>2, <2>3
  <2>5. DOMAIN kept = near
    BY <2>4
  <2>6. new \cap near = {} /\ None \notin new /\ (new # {} => clicked \notin Open(tree))
    <3>1. CASE opens
      <4>1. new \in Nearest(kept)
        BY <1>1, <3>1
      <4> HIDE DEF kept
      <4>2. new \subseteq Seen' \ DOMAIN kept
        BY <4>1 DEF Nearest
      <4>3. QED
        BY <2>5, <3>1, <4>2 DEF Seen, SeenAt, Open
    <3>2. CASE ~opens
      BY <1>1, <3>2
    <3>3. QED
      BY <3>1, <3>2
  <2>7. DOMAIN view.tree = near \cup new
    BY <1>2, <2>5
  <2>8. \A w \in DOMAIN view.tree : view.tree[w] = IF w \in new THEN clicked ELSE tree[w]
    BY <1>2, <2>4, <2>7
  <2>9. QED
    BY <1>3, <1>5, <2>1, <2>6, <2>7, <2>8, UnwrapRanked
<1>6. QED
  BY <1>4, <1>5

\* A node planted alone is the root of such a tree, and so is none at all.
LEMMA PlantedChained ==
  ASSUME NEW v, v # None
  PROVE  Chained(Planted(v)) /\ Planted(v) = [w \in DOMAIN Planted(v) |-> Planted(v)[w]]
<1> DEFINE depth == [w \in {v} |-> 0]
<1>1. DOMAIN Planted(v) = {v} /\ Planted(v)[v] = None /\ depth \in [{v} -> Nat] /\ depth[v] = 0
  BY DEF Planted
<1> HIDE DEF depth
<1>2. Open(Planted(v)) = {}
  BY <1>1 DEF Open, Children
<1>3. Ranked(Planted(v), depth)
  BY <1>1, <1>2 DEF Ranked
<1>4. QED
  BY <1>1, <1>3 DEF Chained, Planted

LEMMA NoTreeChained == Chained(NoTree)
<1>1. DOMAIN NoTree = {} /\ NoTree \in [{} -> Nat]
  BY DEF NoTree
<1>2. Ranked(NoTree, NoTree)
  BY <1>1 DEF Ranked, Open
<1>3. QED
  BY <1>1, <1>2 DEF Chained

\* Every action leaves a tree with one branch, if any.
LEMMA ChainStep == IInv /\ Chained(parent) /\ [Next]_vars => Chained(parent')
<1> SUFFICES ASSUME IInv, Chained(parent), [Next]_vars PROVE Chained(parent')
  OBVIOUS
<1>1. /\ None \notin Nodes' /\ None \notin Nodes /\ zero # None
      /\ mReferenceNode # None /\ parent = [v \in DOMAIN parent |-> parent[v]]
  BY NodesStep, MediaAssumption
  DEF IInv, NodesInv, HistoryInv, NavigationStates, CurrentNavigationState, ViewInv
<1>2. ASSUME NEW tree, NEW shown, NEW clicked, Unwrap(tree, shown, clicked),
             Chained(tree), tree = [v \in DOMAIN tree |-> tree[v]]
      PROVE  Chained(parent')
  <2>1. PICK view \in Unwrapped(tree, shown, clicked) : parent' = view.tree
    BY <1>2 DEF Unwrap
  <2>2. QED
    BY <1>1, <1>2, <2>1, UnwrapChained
<1>3. ASSUME UpdateDisplay
      PROVE  Chained(parent')
  BY <1>1, <1>2, <1>3 DEF UpdateDisplay
<1>4. ASSUME PlantReference
      PROVE  Chained(parent')
  <2>1. /\ Chained(Planted(mReferenceNode))
        /\ Planted(mReferenceNode) = [w \in DOMAIN Planted(mReferenceNode) |-> Planted(mReferenceNode)[w]]
    BY <1>1, PlantedChained
  <2>2. PICK view \in Unwrapped(Planted(mReferenceNode), {}, mClickedNode) :
          Unwrap(view.tree, view.shown, mReferenceNode)
    BY <1>4 DEF PlantReference
  <2>3. Chained(view.tree) /\ view.tree = [v \in DOMAIN view.tree |-> view.tree[v]]
    BY <1>1, <2>1, <2>2, UnwrapChained
  <2>4. QED
    BY <1>2, <2>2, <2>3
<1>5. ASSUME NEW m \in Media, SetReferenceNode(m)
      PROVE  Chained(parent')
  <2>1. CASE UNCHANGED parent
    BY <2>1
  <2>2. CASE Unwrap(Planted(m), {}, mClickedNode)
    <3>1. m # None
      BY <1>1, <1>5 DEF SetReferenceNode
    <3>2. QED
      BY <1>2, <2>2, <3>1, PlantedChained
  <2>3. QED
    BY <1>5, <2>1, <2>2 DEF SetReferenceNode
<1>6. CASE UpdateEmptyLibrary
  BY <1>1, <1>6, PlantedChained DEF UpdateEmptyLibrary
<1>7. CASE SwitchToNeighbours
  BY <1>4, <1>7 DEF SwitchToNeighbours
<1>8. CASE ChangeNeighborsMethodPlugin
  BY <1>4, <1>8 DEF ChangeNeighborsMethodPlugin
<1>9. CASE Refresh \/ \E k \in 1 .. MaxClusters : SetClusterNumber(k)
  BY <1>3, <1>9 DEF Refresh, SetClusterNumber
<1>10. CASE UnwrapClicked
  BY <1>1, <1>2, <1>10 DEF UnwrapClicked
<1>11. CASE Clean \/ SwitchToClusters
  BY <1>11, NoTreeChained DEF Clean, SwitchToClusters
<1>12. CASE UNCHANGED parent
  BY <1>12
<1>13. CASE (\E m \in Media : InitializeNode(m) \/ Press(m)) \/ Release
            \/ StoreNavigationState \/ ZoomIntoCluster \/ GoBack \/ GoForward
  BY <1>12, <1>13 DEF InitializeNode, Press, Release, StoreNavigationState, ZoomIntoCluster,
                      GoBack, GoForward
<1>14. CASE UNCHANGED vars
  BY <1>12, <1>14 DEF vars
<1>15. QED
  BY <1>5, <1>6, <1>7, <1>8, <1>9, <1>10, <1>11, <1>13, <1>14 DEF Next, ForwardNextLevel

\* A click on a node of the tree leaves open only this node and those above it.
LEMMA ClickStep ==
  ASSUME IInv, Chained(parent), [Next]_vars, UnwrapClicked, mClickedNode \in DOMAIN parent
  PROVE  \A v \in DOMAIN parent' :
           Children(parent', v) # {} => mClickedNode \in Tree!BranchOf(parent', v)
<1>1. None \notin Nodes' /\ parent = [v \in DOMAIN parent |-> parent[v]]
  BY NodesStep, MediaAssumption DEF IInv, NodesInv, ViewInv
<1>2. PICK view \in Unwrapped(parent, displayed, mClickedNode) : parent' = view.tree
  BY DEF UnwrapClicked, Unwrap
<1>3. QED
  BY <1>1, <1>2, UnwrapChained

-----------------------------------------------------------------------------
(* Theorems.                                                               *)

\* The invariant that the theorems below rest on holds whatever the user does.
THEOREM Invariant == Spec => []IInv
<1>1. Init => IInv
  BY InitInv
<1>2. IInv /\ [Next]_vars => IInv'
  BY NodesStep, HistoryStep, ViewStep DEF IInv
<1>3. QED
  BY <1>1, <1>2, PTL DEF Spec

\* The browser's variables stay in their types: what is clicked, remembered or a
\* reference is a node (ACMediaBrowser keeps ids, not pointers, to its nodes).
THEOREM Typing == Spec => []TypeOK
<1>1. IInv => TypeOK
  <2>1. SUFFICES ASSUME IInv PROVE TypeOK
    OBVIOUS
  <2>2. States \in Seq(NavigationStates)
    <3>1. HistoryInv
      BY <2>1 DEF IInv
    <3>2. QED
      BY <3>1, StatesProperties
  <2>3. \A i \in DOMAIN States : States[i] \in NavigationStates
    BY <2>2, LenProperties, ElementOfSeq
  <2>4. \A i \in DOMAIN States : States[i] \in [reference : Nodes \cup {zero}, level : 0 .. MaxLevel]
    BY <2>3, Zenon DEF NavigationStates
  <2>5. NodesInv /\ ViewInv
    BY <2>1 DEF IInv
  <2>6. QED
    BY <2>4, <2>5 DEF NodesInv, ViewInv, TypeOK
<1>2. QED
  BY <1>1, Invariant, PTL

\* Whatever zooms, steps and loads do to the history, going forward through it
\* never lowers the level (storeNavigationState, goBack, goForward).
THEOREM Order == Spec => []HistoryOrdered
<1>1. Init => HistoryOrdered
  BY DEF Init, HistoryOrdered, States, CurrentNavigationState, Reverse
<1>2. IInv /\ HistoryOrdered /\ [Next]_vars => HistoryOrdered'
  BY OrderedStep
<1>3. QED
  BY <1>1, <1>2, Invariant, PTL DEF Spec

\* A step back or forward moves along the states and changes none of them
\* (goBack, goForward).
THEOREM Navigation == Spec => [][GoBack \/ GoForward => States' = States]_vars
<1>1. IInv /\ [Next]_vars => [GoBack \/ GoForward => States' = States]_vars
  <2>1. SUFFICES ASSUME IInv, [Next]_vars, GoBack \/ GoForward PROVE States' = States
    OBVIOUS
  <2>2. Nodes' = Nodes
    BY <2>1 DEF GoBack, GoForward, nodes, Nodes
  <2>3. HistoryInv /\ HistoryInv'
    BY <2>1, HistoryStep DEF IInv
  <2>4. QED
    BY <2>1, <2>2, <2>3, SameStates DEF NavigationStates
<1>2. QED
  BY <1>1, Invariant, PTL DEF Spec

\* Flags, levels and tree agree on what is drawn, in both modes (updateDisplay,
\* switchMode).
THEOREM Display == Spec => []DisplayMatches
<1>1. IInv => DisplayMatches
  BY DEF IInv, ViewInv
<1>2. QED
  BY <1>1, Invariant, PTL

\* What leaves the tree is hidden: in the neighbours mode no step shows a node
\* beside the tree, but for new ones (initializeUpdateNeighborhoods).
THEOREM Strays == Spec => NoNewStrays
<1>1. IInv /\ [Next]_vars => [NoStrayAdded]_vars
  BY ViewStep
<1>2. QED
  BY <1>1, Invariant, PTL DEF Spec, NoNewStrays, NoStrayAdded

\* A zoom by a node in view shows the nodes in view of its cluster
\* (forwardNextLevel, incrementNavigationLevels).
THEOREM Zooming == Spec => ZoomNarrows
<1>1. IInv /\ [Next]_vars =>
        [ZoomIntoCluster /\ mClickedNode \in Seen =>
           Seen' = {n \in Seen : clusterId[n] = clusterId[mClickedNode]}]_vars
  BY ZoomStep
<1>2. QED
  BY <1>1, Invariant, PTL DEF Spec, ZoomNarrows

\* Entering the neighbours mode without a click left over opens the reference
\* node, when there are two other nodes in view (switchMode).
THEOREM Switching == Spec => SwitchExpands
<1>1. IInv /\ [Next]_vars =>
        [mMode = "clusters" /\ mMode' = "neighbours" /\ mClickedNode = None
         /\ Cardinality(Seen \ {mReferenceNode}) >= 2 =>
           Children(parent', mReferenceNode) # {}]_vars
  BY SwitchStep
<1>2. QED
  BY <1>1, Invariant, PTL DEF Spec, SwitchExpands

\* Opening a node of the tree closes what was open beside the way to it, and closing
\* it leaves that way, however the tree came to be (initializeUpdateNeighborhoods).
THEOREM Branching == Spec => OneBranchOpen
<1>1. Init => Chained(parent)
  BY NoTreeChained DEF Init
<1>2. IInv /\ Chained(parent) /\ [Next]_vars => Chained(parent)'
  BY ChainStep
<1>3. IInv /\ Chained(parent) /\ [Next]_vars =>
        [UnwrapClicked /\ mClickedNode \in DOMAIN parent =>
           \A v \in DOMAIN parent' :
             Children(parent', v) # {} => mClickedNode \in Tree!BranchOf(parent', v)]_vars
  BY ClickStep
<1>4. QED
  BY <1>1, <1>2, <1>3, Invariant, PTL DEF Spec, OneBranchOpen
=============================================================================
