------------------------- MODULE NeighborTreeProofs -------------------------
(***************************************************************************)
(* TreeInv is an inductive invariant of NeighborTree, the properties of    *)
(* the tree follow from it, and the tree implements RootedTree.            *)
(*                                                                         *)
(* What the code finds by recursion along pointers is compared with a set  *)
(* defined without it: Reach, the least set closed under some successors.  *)
(* That a recursive definition has this set for its solution, and no       *)
(* other, is shown by taking a deepest (or a foremost, or a least) node    *)
(* where it would not.                                                     *)
(***************************************************************************)
EXTENDS NeighborTree, SequenceTheorems, FiniteSetTheorems, WellFoundedInduction, TLAPS

-----------------------------------------------------------------------------
(* Least elements, largest elements, and what can be reached.              *)

LEMMA Least ==
  ASSUME NEW S \in SUBSET Nat, S # {}
  PROVE  \E m \in S : \A x \in S : m <= x
<1> DEFINE R == OpToRel(<, Nat)
<1>1. IsWellFoundedOn(R, Nat)
  BY NatLessThanWellFounded
<1>2. \A y, z \in Nat : y < z => <<y, z>> \in R
  BY DEF OpToRel
<1> HIDE DEF R
<1>3. PICK m \in S : \A y \in S : ~ (<<y, m>> \in R)
  BY <1>1, WFMin
<1>4. ASSUME NEW x \in S PROVE m <= x
  <2>1. m \in Nat /\ x \in Nat
    OBVIOUS
  <2>2. ~(x < m)
    BY <1>2, <1>3, <2>1
  <2>3. QED
    BY <2>1, <2>2
<1>5. QED
  BY <1>4

\* Among some elements of a set one has the least rank.
LEMMA LeastRank ==
  ASSUME NEW T, NEW rank \in [T -> Nat], NEW S \in SUBSET T, S # {}
  PROVE  \E w \in S : \A x \in S : rank[w] <= rank[x]
<1> DEFINE ranks == {rank[x] : x \in S}
<1>1. ranks \in SUBSET Nat /\ ranks # {}
  <2>1. \A x \in S : x \in T /\ rank[x] \in Nat
    OBVIOUS
  <2>2. \E x : x \in S
    OBVIOUS
  <2>3. QED
    BY <2>1, <2>2
<1>2. PICK m \in ranks : \A x \in ranks : m <= x
  BY <1>1, Least
<1>3. QED
  BY <1>2

\* A set of integers with an upper bound has a largest element, which Max is.
LEMMA MaxOfBounded ==
  ASSUME NEW S \in SUBSET Int, S # {}, NEW M \in Int, \A x \in S : x <= M
  PROVE  Max(S) \in S /\ \A x \in S : x <= Max(S)
<1> DEFINE below == {M - x : x \in S}
<1>1. below \in SUBSET Nat /\ below # {}
  <2>1. \A x \in S : M - x \in Nat
    OBVIOUS
  <2>2. \E x : x \in S
    OBVIOUS
  <2>3. QED
    BY <2>1, <2>2
<1>2. PICK m \in below : \A x \in below : m <= x
  BY <1>1, Least
<1>3. PICK s \in S : m = M - s
  BY <1>2
<1>4. ASSUME NEW x \in S PROVE s >= x
  <2>1. M - s <= M - x
    BY <1>2, <1>3
  <2>2. s \in Int /\ x \in Int
    OBVIOUS
  <2>3. QED
    BY <2>1, <2>2
<1>5. \E y \in S : \A x \in S : y >= x
  BY <1>4
<1>6. Max(S) \in S /\ \A x \in S : Max(S) >= x
  BY <1>5 DEF Max
<1>7. QED
  BY <1>6

\* It is the only one.
LEMMA MaxIs ==
  ASSUME NEW S \in SUBSET Int, NEW m \in S, \A x \in S : x <= m
  PROVE  Max(S) = m
<1>1. Max(S) \in S /\ \A x \in S : x <= Max(S)
  BY MaxOfBounded
<1>2. Max(S) <= m /\ m <= Max(S) /\ Max(S) \in Int /\ m \in Int
  BY <1>1
<1>3. QED
  BY <1>2

\* What is reached from w along succ: the least set that holds w and, with an
\* element, its successors.
Reach(T, succ, w) ==
  {x \in T : \A U \in SUBSET T : w \in U /\ (\A u \in U : succ[u] \subseteq U) => x \in U}

LEMMA ReachFacts ==
  ASSUME NEW T, NEW succ \in [T -> SUBSET T], NEW w \in T
  PROVE  /\ w \in Reach(T, succ, w) /\ Reach(T, succ, w) \subseteq T
         /\ \A u \in Reach(T, succ, w) : succ[u] \subseteq Reach(T, succ, w)
         /\ \A U \in SUBSET T : w \in U /\ (\A u \in U : succ[u] \subseteq U) => Reach(T, succ, w) \subseteq U
<1>1. \A u \in Reach(T, succ, w) : succ[u] \subseteq Reach(T, succ, w)
  <2>1. ASSUME NEW u \in Reach(T, succ, w), NEW x \in succ[u],
               NEW U \in SUBSET T, w \in U, \A y \in U : succ[y] \subseteq U
        PROVE  x \in U
    BY <2>1 DEF Reach
  <2>2. ASSUME NEW u \in Reach(T, succ, w), NEW x \in succ[u] PROVE x \in T
    BY DEF Reach
  <2>3. QED
    BY <2>1, <2>2 DEF Reach
<1>2. QED
  BY <1>1 DEF Reach

\* What is reached from w is w and what is reached from its successors.
LEMMA ReachUnfolds ==
  ASSUME NEW T, NEW succ \in [T -> SUBSET T], NEW w \in T
  PROVE  Reach(T, succ, w) = {w} \cup UNION {Reach(T, succ, s) : s \in succ[w]}
<1> DEFINE R == {w} \cup UNION {Reach(T, succ, s) : s \in succ[w]}
<1>1. ASSUME NEW s \in succ[w] PROVE Reach(T, succ, s) \subseteq Reach(T, succ, w)
  <2>1. s \in T /\ s \in Reach(T, succ, w)
    BY ReachFacts
  <2>2. QED
    BY <2>1, ReachFacts
<1>2. R \subseteq Reach(T, succ, w)
  BY <1>1, ReachFacts
<1>3. R \in SUBSET T
  BY ReachFacts
<1>4. ASSUME NEW u \in R PROVE succ[u] \subseteq R
  <2>1. CASE u = w
    <3>1. \A s \in succ[w] : s \in Reach(T, succ, s)
      BY ReachFacts
    <3>2. QED
      BY <2>1, <3>1
  <2>2. CASE \E s \in succ[w] : u \in Reach(T, succ, s)
    <3>1. PICK s \in succ[w] : u \in Reach(T, succ, s)
      BY <2>2
    <3>2. succ[u] \subseteq Reach(T, succ, s)
      BY <3>1, ReachFacts
    <3>3. QED
      BY <3>2
  <2>3. QED
    BY <2>1, <2>2
<1>5. w \in R
  OBVIOUS
<1>6. Reach(T, succ, w) \subseteq R
  <2> HIDE DEF R
  <2>1. QED
    BY <1>3, <1>4, <1>5, ReachFacts
<1>7. QED
  BY <1>2, <1>6

-----------------------------------------------------------------------------
(* The invariant.                                                          *)

Node == [parent : Values \cup {NoValue}, depth : Nat, prev : Values \cup {NoValue},
         next : Values \cup {NoValue}, children : Seq(Values)]

\* The map's keys are the nodes allocated.
TypeOK ==
  /\ mTreeMap \subseteq Values /\ IsFiniteSet(mTreeMap)
  /\ node \in [mTreeMap -> Node]
  /\ mRoot \in Values \cup {NoValue}
  /\ mMaxDepth \in Nat \cup {-1}

RootInv ==
  /\ mRoot = NoValue => mTreeMap = {}
  /\ mRoot # NoValue => /\ mRoot \in mTreeMap
                        /\ node[mRoot].parent = NoValue /\ node[mRoot].depth = 0
                        /\ node[mRoot].next = NoValue

\* Every other node is one of the children of a node, one level below it.
ParentInv ==
  \A v \in mTreeMap \ {mRoot} :
    /\ node[v].parent \in mTreeMap
    /\ node[v].depth = node[node[v].parent].depth + 1
    /\ \E i \in DOMAIN node[node[v].parent].children : node[node[v].parent].children[i] = v

\* The children of a node are its, once each, and linked in the list's order.
ChildInv ==
  \A v \in mTreeMap :
    /\ \A i \in DOMAIN node[v].children :
         LET list == node[v].children
         IN /\ list[i] \in mTreeMap
            /\ node[list[i]].parent = v
            /\ node[list[i]].prev = IF i = 1 THEN NoValue ELSE list[i - 1]
            /\ node[list[i]].next = IF i = Len(list) THEN NoValue ELSE list[i + 1]
    /\ \A i, j \in DOMAIN node[v].children : node[v].children[i] = node[v].children[j] => i = j

DepthInv ==
  /\ mMaxDepth \in {-1} \cup {node[v].depth : v \in mTreeMap}
  /\ \A v \in mTreeMap : node[v].depth <= mMaxDepth

TreeInv == TypeOK /\ RootInv /\ ParentInv /\ ChildInv /\ DepthInv

\* Where the lists of children lead, and where the links do.
kids == [v \in mTreeMap |-> ToSet(node[v].children)]
links == [v \in mTreeMap |-> {first(v), node[v].next} \ {NoValue}]

LEMMA NodeFacts ==
  ASSUME TypeOK, NEW v \in mTreeMap
  PROVE  /\ v \in Values /\ v # NoValue
         /\ node[v].parent \in Values \cup {NoValue} /\ node[v].depth \in Nat
         /\ node[v].prev \in Values \cup {NoValue} /\ node[v].next \in Values \cup {NoValue}
         /\ node[v].children \in Seq(Values)
         /\ Len(node[v].children) \in Nat
         /\ DOMAIN node[v].children = 1..Len(node[v].children)
         /\ \A i \in 1..Len(node[v].children) : node[v].children[i] \in Values
<1>1. node[v] \in Node /\ v \in Values
  BY DEF TypeOK
<1>2. node[v].children \in Seq(Values)
  BY <1>1 DEF Node
<1>3. QED
  BY <1>1, <1>2, NoValueAssumption, LenProperties, ElementOfSeq DEF Node

LEMMA KidsFacts ==
  ASSUME TreeInv
  PROVE  /\ kids \in [mTreeMap -> SUBSET mTreeMap]
         /\ \A v \in mTreeMap : \A c \in kids[v] :
              c \in mTreeMap /\ node[c].parent = v /\ c # mRoot /\ node[c].depth = node[v].depth + 1
         /\ \A v \in mTreeMap \ {mRoot} : v \in kids[node[v].parent]
<1>0. TypeOK /\ RootInv /\ ParentInv /\ ChildInv
  BY DEF TreeInv
<1>1. ASSUME NEW v \in mTreeMap, NEW c \in kids[v]
      PROVE  c \in mTreeMap /\ node[c].parent = v /\ c # mRoot /\ node[c].depth = node[v].depth + 1
  <2>1. PICK i \in DOMAIN node[v].children : c = node[v].children[i]
    BY DEF kids, ToSet
  <2>2. c \in mTreeMap /\ node[c].parent = v
    BY <1>0, <2>1 DEF ChildInv
  <2>3. c # mRoot
    BY <1>0, <2>2, NodeFacts DEF RootInv
  <2>4. node[c].depth = node[v].depth + 1
    BY <1>0, <2>2, <2>3 DEF ParentInv
  <2>5. QED
    BY <2>2, <2>3, <2>4
<1>2. kids \in [mTreeMap -> SUBSET mTreeMap]
  BY <1>1 DEF kids
<1>3. \A v \in mTreeMap \ {mRoot} : v \in kids[node[v].parent]
  BY <1>0 DEF ParentInv, kids, ToSet
<1>4. QED
  BY <1>1, <1>2, <1>3

LEMMA LinksFacts ==
  ASSUME TreeInv
  PROVE  /\ links \in [mTreeMap -> SUBSET mTreeMap]
         /\ \A v \in mTreeMap :
              /\ first(v) = IF Len(node[v].children) = 0 THEN NoValue ELSE node[v].children[1]
              /\ first(v) # NoValue => first(v) \in kids[v]
              /\ node[v].next # NoValue => v # mRoot /\ node[v].next \in kids[node[v].parent]
<1>0. TypeOK /\ RootInv /\ ParentInv /\ ChildInv
  BY DEF TreeInv
<1>1. ASSUME NEW v \in mTreeMap
      PROVE  /\ first(v) = IF Len(node[v].children) = 0 THEN NoValue ELSE node[v].children[1]
             /\ first(v) # NoValue => first(v) \in kids[v]
  <2>1. /\ node[v].children \in Seq(Values) /\ Len(node[v].children) \in Nat
        /\ DOMAIN node[v].children = 1..Len(node[v].children)
    BY <1>0, NodeFacts
  <2>2. first(v) = IF Len(node[v].children) = 0 THEN NoValue ELSE node[v].children[1]
    BY <2>1, EmptySeq DEF first
  <2>3. Len(node[v].children) # 0 => 1 \in DOMAIN node[v].children
    BY <2>1
  <2>4. QED
    BY <2>2, <2>3 DEF kids, ToSet
<1>2. ASSUME NEW v \in mTreeMap, node[v].next # NoValue
      PROVE  v # mRoot /\ node[v].next \in kids[node[v].parent]
  <2>1. v # mRoot
    BY <1>0, <1>2, NodeFacts DEF RootInv
  <2> DEFINE p == node[v].parent
             list == node[p].children
  <2>2. p \in mTreeMap
    BY <1>0, <2>1 DEF ParentInv
  <2>3. PICK i \in DOMAIN list : list[i] = v
    BY <1>0, <2>1 DEF ParentInv
  <2>4. node[v].next = IF i = Len(list) THEN NoValue ELSE list[i + 1]
    BY <1>0, <2>2, <2>3 DEF ChildInv
  <2>5. Len(list) \in Nat /\ DOMAIN list = 1..Len(list)
    BY <1>0, <2>2, NodeFacts
  <2>6. i + 1 \in DOMAIN list /\ node[v].next = list[i + 1]
    BY <1>2, <2>3, <2>4, <2>5
  <2>7. QED
    BY <2>1, <2>2, <2>6 DEF kids, ToSet
<1>3. ASSUME NEW v \in mTreeMap PROVE {first(v), node[v].next} \ {NoValue} \in SUBSET mTreeMap
  <2>1. first(v) # NoValue => first(v) \in mTreeMap
    BY <1>1, KidsFacts
  <2>2. node[v].next # NoValue => node[v].next \in mTreeMap
    <3>1. node[v].next # NoValue => node[v].parent \in mTreeMap
      BY <1>0, <1>2 DEF ParentInv
    <3>2. QED
      BY <1>2, <3>1, KidsFacts
  <2>3. QED
    BY <2>1, <2>2
<1>4. links \in [mTreeMap -> SUBSET mTreeMap]
  BY <1>3 DEF links
<1>5. QED
  BY <1>1, <1>2, <1>4

\* What is below v.
Below(v) == UNION {Reach(mTreeMap, kids, c) : c \in kids[v]}

LEMMA BelowFacts ==
  ASSUME TreeInv, NEW v \in mTreeMap
  PROVE  /\ Below(v) \subseteq mTreeMap
         /\ kids[v] \subseteq Below(v)
         /\ \A u \in Below(v) : kids[u] \subseteq Below(v)
         /\ \A U \in SUBSET mTreeMap :
              kids[v] \subseteq U /\ (\A u \in U : kids[u] \subseteq U) => Below(v) \subseteq U
<1>1. kids \in [mTreeMap -> SUBSET mTreeMap] /\ kids[v] \subseteq mTreeMap
  BY KidsFacts
<1>2. \A c \in kids[v] : c \in mTreeMap
  BY <1>1
<1>3. Below(v) \subseteq mTreeMap /\ kids[v] \subseteq Below(v)
  BY <1>1, <1>2, ReachFacts DEF Below
<1>4. \A u \in Below(v) : kids[u] \subseteq Below(v)
  BY <1>1, <1>2, ReachFacts DEF Below
<1>5. ASSUME NEW U \in SUBSET mTreeMap, kids[v] \subseteq U, \A u \in U : kids[u] \subseteq U
      PROVE  Below(v) \subseteq U
  <2>1. \A c \in kids[v] : Reach(mTreeMap, kids, c) \subseteq U
    BY <1>1, <1>2, <1>5, ReachFacts
  <2>2. QED
    BY <2>1 DEF Below
<1>6. QED
  BY <1>3, <1>4, <1>5

LEMMA BelowParents ==
  ASSUME TreeInv, NEW v \in mTreeMap
  PROVE  /\ \A u \in Below(v) : /\ node[u].parent \in Below(v) \cup {v}
                                /\ node[u].depth > node[v].depth
                                /\ u # mRoot
         /\ v \notin Below(v)
<1> DEFINE U == {u \in Below(v) : /\ node[u].parent \in Below(v) \cup {v}
                                  /\ node[u].depth > node[v].depth
                                  /\ u # mRoot}
<1>1. U \in SUBSET mTreeMap
  BY BelowFacts
<1>2. TypeOK
  BY DEF TreeInv
<1>3. kids[v] \subseteq U
  <2>1. \A c \in kids[v] : c \in Below(v) /\ node[c].parent = v /\ c # mRoot
                           /\ node[c].depth = node[v].depth + 1
    BY BelowFacts, KidsFacts
  <2>2. node[v].depth \in Nat
    BY <1>2, NodeFacts
  <2>3. QED
    BY <2>1, <2>2
<1>4. ASSUME NEW u \in U PROVE kids[u] \subseteq U
  <2>1. u \in mTreeMap /\ u \in Below(v)
    BY <1>1
  <2>2. \A c \in kids[u] : c \in Below(v) /\ node[c].parent = u /\ c # mRoot
                           /\ node[c].depth = node[u].depth + 1
    BY <2>1, BelowFacts, KidsFacts
  <2>3. node[v].depth \in Nat /\ node[u].depth \in Nat /\ node[u].depth > node[v].depth
    BY <1>2, <2>1, NodeFacts
  <2>4. QED
    BY <2>1, <2>2, <2>3
<1> HIDE DEF U
<1>5. Below(v) \subseteq U
  BY <1>1, <1>3, <1>4, BelowFacts
<1>6. \A u \in Below(v) : /\ node[u].parent \in Below(v) \cup {v}
                          /\ node[u].depth > node[v].depth
                          /\ u # mRoot
  BY <1>5 DEF U
<1>7. v \notin Below(v)
  <2>1. node[v].depth \in Nat
    BY <1>2, NodeFacts
  <2>2. QED
    BY <1>6, <2>1
<1>8. QED
  BY <1>6, <1>7

\* Every node is the root or below it.
LEMMA AllBelowRoot ==
  ASSUME TreeInv, mRoot # NoValue
  PROVE  mTreeMap = {mRoot} \cup Below(mRoot)
<1>0. TypeOK /\ RootInv /\ ParentInv /\ mRoot \in mTreeMap
  BY DEF TreeInv, RootInv
<1> DEFINE rank == [w \in mTreeMap |-> node[w].depth]
           stray == mTreeMap \ ({mRoot} \cup Below(mRoot))
<1>1. rank \in [mTreeMap -> Nat] /\ stray \in SUBSET mTreeMap
  BY <1>0, NodeFacts
<1>2. ASSUME stray # {} PROVE FALSE
  <2>1. PICK w \in stray : \A x \in stray : rank[w] <= rank[x]
    <3> HIDE DEF rank, stray
    <3>1. QED
      BY <1>1, <1>2, LeastRank
  <2> DEFINE p == node[w].parent
  <2>2. p \in mTreeMap /\ node[w].depth = node[p].depth + 1 /\ w \in kids[p]
    BY <1>0, <2>1, KidsFacts DEF ParentInv
  <2>3. node[p].depth \in Nat /\ node[w].depth \in Nat
    BY <1>0, <2>1, <2>2, NodeFacts
  <2>4. p \notin stray
    BY <2>1, <2>2, <2>3
  <2>5. w \in Below(mRoot)
    BY <1>0, <2>2, <2>4, BelowFacts
  <2>6. QED
    BY <2>1, <2>5
<1>3. Below(mRoot) \subseteq mTreeMap
  BY <1>0, BelowFacts
<1>4. QED
  BY <1>0, <1>2, <1>3

-----------------------------------------------------------------------------
(* Taking a child off a list, and adding one.                              *)

\* Without its k-th element a list without repetitions is one shorter, and the
\* elements after the k-th are one place further to the front.
LEMMA RemoveFirstIs ==
  ASSUME NEW S, NEW s \in Seq(S), NEW k \in 1..Len(s),
         \A i, j \in 1..Len(s) : s[i] = s[j] => i = j
  PROVE  /\ RemoveFirst(s, s[k]) \in Seq(S)
         /\ Len(RemoveFirst(s, s[k])) = Len(s) - 1
         /\ \A i \in 1..(Len(s) - 1) :
              RemoveFirst(s, s[k])[i] = IF i < k THEN s[i] ELSE s[i + 1]
<1> DEFINE I == {i \in 1..Len(s) : s[i] = s[k]}
<1>1. Len(s) \in Nat /\ k \in Int /\ 1 <= k /\ k <= Len(s)
  BY LenProperties
<1>2. I = {k}
  OBVIOUS
<1>3. Min(I) = k
  BY <1>1, <1>2 DEF Min
<1>4. SelectInSeq(s, LAMBDA v : v = s[k]) = k
  <2>1. I # {}
    BY <1>2
  <2>2. SelectInSeq(s, LAMBDA v : v = s[k]) = IF I # {} THEN Min(I) ELSE 0
    BY DEF SelectInSeq
  <2>3. QED
    BY <1>3, <2>1, <2>2
<1>5. RemoveFirst(s, s[k]) = SubSeq(s, 1, k - 1) \o SubSeq(s, k + 1, Len(s))
  BY <1>4 DEF RemoveFirst, RemoveAt
<1> DEFINE a == SubSeq(s, 1, k - 1)
           b == SubSeq(s, k + 1, Len(s))
<1>6. a \in Seq(S) /\ Len(a) = k - 1 /\ \A i \in 1..(k - 1) : a[i] = s[i]
  BY <1>1, SubSeqProperties
<1>7. b \in Seq(S) /\ Len(b) = Len(s) - k /\ \A i \in 1..(Len(s) - k) : b[i] = s[k + i]
  BY <1>1, SubSeqProperties
<1> HIDE DEF a, b
<1>8. /\ a \o b \in Seq(S) /\ Len(a \o b) = Len(s) - 1
      /\ \A i \in 1..(Len(s) - 1) : (a \o b)[i] = IF i <= k - 1 THEN a[i] ELSE b[i - (k - 1)]
  <2>1. /\ a \o b \in Seq(S) /\ Len(a \o b) = Len(a) + Len(b)
        /\ \A i \in 1..(Len(a) + Len(b)) : (a \o b)[i] = IF i <= Len(a) THEN a[i] ELSE b[i - Len(a)]
    <3>1. a \in Seq(S) /\ b \in Seq(S)
      BY <1>6, <1>7
    <3>2. QED
      BY <3>1, ConcatProperties
  <2>2. Len(a) + Len(b) = Len(s) - 1
    BY <1>1, <1>6, <1>7
  <2>3. QED
    BY <1>6, <2>1, <2>2
<1>9. ASSUME NEW i \in 1..(Len(s) - 1)
      PROVE  (a \o b)[i] = IF i < k THEN s[i] ELSE s[i + 1]
  <2>1. CASE i < k
    BY <1>1, <1>6, <1>8, <2>1
  <2>2. CASE ~(i < k)
    <3>1. i - (k - 1) \in 1..(Len(s) - k) /\ k + (i - (k - 1)) = i + 1 /\ ~(i <= k - 1)
      BY <1>1, <2>2
    <3>2. QED
      BY <1>7, <1>8, <2>2, <3>1
  <2>3. QED
    BY <2>1, <2>2
<1>10. QED
  BY <1>5, <1>8, <1>9 DEF a, b

-----------------------------------------------------------------------------
(* What the two walks visit: all that is below a node.                     *)

\* The deepest of some nodes.
LEMMA Deepest ==
  ASSUME TreeInv, NEW S \in SUBSET mTreeMap, S # {}
  PROVE  \E w \in S : \A x \in S : node[x].depth <= node[w].depth
<1>1. \A w \in mTreeMap : node[w].depth \in Nat /\ mMaxDepth \in Int /\ node[w].depth <= mMaxDepth
  BY NodeFacts DEF TreeInv, TypeOK, DepthInv
<1> DEFINE rank == [w \in mTreeMap |-> mMaxDepth - node[w].depth]
<1>2. ASSUME NEW w \in mTreeMap PROVE mMaxDepth - node[w].depth \in Nat
  BY <1>1
<1>3. rank \in [mTreeMap -> Nat]
  BY <1>2
<1>4. PICK w \in S : \A x \in S : rank[w] <= rank[x]
  <2> HIDE DEF rank
  <2>1. QED
    BY <1>3, LeastRank
<1>5. ASSUME NEW x \in S PROVE node[x].depth <= node[w].depth
  <2>1. mMaxDepth - node[w].depth <= mMaxDepth - node[x].depth
    BY <1>4
  <2>2. x \in mTreeMap /\ w \in mTreeMap
    OBVIOUS
  <2>3. node[x].depth \in Nat /\ node[w].depth \in Nat /\ mMaxDepth \in Int
    BY <1>1, <2>2
  <2>4. QED
    BY <2>1, <2>3
<1>6. QED
  BY <1>5

LEMMA BelowUnfolds ==
  ASSUME TreeInv, NEW w \in mTreeMap
  PROVE  Below(w) = UNION {{c} \cup Below(c) : c \in kids[w]}
<1>1. kids \in [mTreeMap -> SUBSET mTreeMap]
  BY KidsFacts
<1>2. ASSUME NEW c \in kids[w] PROVE Reach(mTreeMap, kids, c) = {c} \cup Below(c)
  <2>1. c \in mTreeMap
    BY <1>1
  <2>2. QED
    BY <1>1, <2>1, ReachUnfolds DEF Below
<1>3. QED
  BY <1>2 DEF Below

\* Deleting a node frees all that is below it.
LEMMA ListedIs ==
  ASSUME TreeInv, NEW v \in mTreeMap
  PROVE  ListedBelow(v) = Below(v)
<1> DEFINE Solves(f) ==
             f = [w \in DOMAIN node |-> UNION {{c} \cup f[c] : c \in ToSet(node[w].children)}]
           below == CHOOSE f : Solves(f)
           known == [w \in DOMAIN node |-> Below(w)]
<1>1. ListedBelow(v) = below[v]
  BY DEF ListedBelow
<1>2. DOMAIN node = mTreeMap /\ TypeOK
  BY DEF TreeInv, TypeOK
<1>3. \A w \in mTreeMap : ToSet(node[w].children) = kids[w]
  BY DEF kids
<1>4. kids \in [mTreeMap -> SUBSET mTreeMap]
  BY KidsFacts
<1>5. ASSUME NEW w \in DOMAIN node
      PROVE  Below(w) = UNION {{c} \cup known[c] : c \in ToSet(node[w].children)}
  <2>1. ToSet(node[w].children) = kids[w] /\ kids[w] \subseteq mTreeMap
    BY <1>2, <1>3, <1>4
  <2>2. \A c \in kids[w] : known[c] = Below(c)
    BY <1>2, <2>1
  <2>3. Below(w) = UNION {{c} \cup Below(c) : c \in kids[w]}
    BY <1>2, BelowUnfolds
  <2> HIDE DEF known
  <2>4. QED
    BY <2>1, <2>2, <2>3
<1>6. Solves(known)
  BY <1>5
<1>7. Solves(below)
  <2> HIDE DEF Solves
  <2>1. QED
    BY <1>6
<1> HIDE DEF below, known
<1>8. ASSUME NEW w \in mTreeMap PROVE below[w] = UNION {{c} \cup below[c] : c \in kids[w]}
  BY <1>2, <1>3, <1>7
<1> HIDE DEF Solves
<1> DEFINE wrong == {w \in mTreeMap : below[w] # Below(w)}
<1>9. ASSUME wrong # {} PROVE FALSE
  <2>1. wrong \in SUBSET mTreeMap
    OBVIOUS
  <2>2. PICK w \in wrong : \A x \in wrong : node[x].depth <= node[w].depth
    <3> HIDE DEF wrong
    <3>1. QED
      BY <1>9, <2>1, Deepest
  <2>3. w \in mTreeMap
    BY <2>1
  <2>4. ASSUME NEW c \in kids[w] PROVE below[c] = Below(c)
    <3>1. c \in mTreeMap /\ node[c].depth = node[w].depth + 1
      BY <2>3, KidsFacts
    <3>2. node[w].depth \in Nat /\ node[c].depth \in Nat
      BY <1>2, <2>3, <3>1, NodeFacts
    <3>3. ~(node[c].depth <= node[w].depth)
      BY <3>1, <3>2
    <3>4. QED
      BY <2>2, <3>1, <3>3
  <2>5. below[w] = UNION {{c} \cup Below(c) : c \in kids[w]}
    BY <1>8, <2>3, <2>4
  <2>6. QED
    BY <2>2, <2>3, <2>5, BelowUnfolds
<1>10. QED
  BY <1>1, <1>9

\* A set that holds the first child of a node, and what the links lead to from
\* its elements, holds all the children.
LEMMA Siblings ==
  ASSUME TreeInv, NEW p \in mTreeMap, NEW U \in SUBSET mTreeMap,
         \A u \in U : links[u] \subseteq U,
         first(p) # NoValue => first(p) \in U
  PROVE  kids[p] \subseteq U
<1> DEFINE list == node[p].children
           missing == {i \in 1..Len(list) : list[i] \notin U}
<1>1. TypeOK /\ ChildInv
  BY DEF TreeInv
<1>2. Len(list) \in Nat /\ DOMAIN list = 1..Len(list)
  BY <1>1, NodeFacts
<1>3. ASSUME missing # {} PROVE FALSE
  <2>1. missing \in SUBSET Nat
    BY <1>2
  <2>2. PICK m \in missing : \A x \in missing : m <= x
    <3> HIDE DEF missing
    <3>1. QED
      BY <1>3, <2>1, Least
  <2>3. m \in 1..Len(list) /\ list[m] \notin U
    OBVIOUS
  <2>4. CASE m = 1
    <3>1. first(p) = list[1] /\ first(p) # NoValue
      <4>1. first(p) = IF Len(list) = 0 THEN NoValue ELSE list[1]
        BY LinksFacts
      <4>2. list[1] \in Values
        BY <1>1, <2>3, <2>4, NodeFacts
      <4>3. Len(list) # 0
        BY <1>2, <2>3
      <4>4. QED
        BY <4>1, <4>2, <4>3, NoValueAssumption
    <3>2. QED
      BY <2>3, <2>4, <3>1
  <2>5. CASE m # 1
    <3>1. m - 1 \in 1..Len(list) /\ m - 1 # Len(list) /\ (m - 1) + 1 = m /\ ~(m <= m - 1)
      BY <1>2, <2>3, <2>5
    <3>2. list[m - 1] \in U
      BY <2>2, <3>1
    <3>3. node[list[m - 1]].next = IF m - 1 = Len(list) THEN NoValue ELSE list[(m - 1) + 1]
      BY <1>1, <1>2, <3>1 DEF ChildInv
    <3>4. node[list[m - 1]].next = list[m]
      BY <3>1, <3>3
    <3>5. list[m] # NoValue
      BY <1>1, <2>3, NodeFacts, NoValueAssumption
    <3>6. list[m] \in links[list[m - 1]]
      BY <3>2, <3>4, <3>5 DEF links
    <3>7. QED
      BY <2>3, <3>2, <3>6
  <2>6. QED
    BY <2>4, <2>5
<1>4. \A i \in DOMAIN list : list[i] \in U
  BY <1>2, <1>3
<1>5. QED
  BY <1>4 DEF kids, ToSet

\* From the first child, the links lead to all that is below and nothing else.
LEMMA LinksReachBelow ==
  ASSUME TreeInv, NEW v \in mTreeMap
  PROVE  /\ first(v) = NoValue => Below(v) = {}
         /\ first(v) # NoValue => /\ first(v) \in mTreeMap
                                  /\ Reach(mTreeMap, links, first(v)) = Below(v)
<1> DEFINE B == Below(v)
           R == Reach(mTreeMap, links, first(v))
<1>1. links \in [mTreeMap -> SUBSET mTreeMap] /\ B \in SUBSET mTreeMap /\ kids[v] \subseteq B
  BY LinksFacts, BelowFacts
<1>2. first(v) # NoValue => first(v) \in B /\ first(v) \in mTreeMap
  BY <1>1, LinksFacts
<1>3. ASSUME NEW u \in B PROVE links[u] \subseteq B
  <2>1. u \in mTreeMap
    BY <1>1
  <2>2. first(u) # NoValue => first(u) \in B
    BY <2>1, LinksFacts, BelowFacts
  <2>3. node[u].next # NoValue => node[u].next \in B
    <3>1. node[u].parent \in B \cup {v}
      BY BelowParents
    <3>2. kids[node[u].parent] \subseteq B
      BY <1>1, <3>1, BelowFacts
    <3>3. QED
      BY <2>1, <3>2, LinksFacts
  <2>4. QED
    BY <2>1, <2>2, <2>3 DEF links
<1>4. CASE first(v) = NoValue
  <2>1. kids[v] \subseteq {}
    <3>1. \A u \in {} : links[u] \subseteq {}
      OBVIOUS
    <3>2. {} \in SUBSET mTreeMap
      OBVIOUS
    <3>3. QED
      BY <1>4, <3>1, <3>2, Siblings
  <2>2. QED
    BY <1>4, <2>1, BelowFacts
<1>5. CASE first(v) # NoValue
  <2> HIDE DEF B
  <2>1. R \subseteq B
    BY <1>1, <1>2, <1>3, <1>5, ReachFacts
  <2>2. R \in SUBSET mTreeMap /\ first(v) \in R /\ \A u \in R : links[u] \subseteq R
    BY <1>1, <1>2, <1>5, ReachFacts
  <2> HIDE DEF R
  <2>3. kids[v] \subseteq R
    BY <2>2, Siblings
  <2>4. ASSUME NEW u \in R PROVE kids[u] \subseteq R
    <3>1. u \in mTreeMap
      BY <2>2
    <3>2. first(u) # NoValue => first(u) \in R
      BY <2>2, <3>1 DEF links
    <3>3. QED
      BY <2>2, <3>1, <3>2, Siblings
  <2>5. B \subseteq R
    BY <2>2, <2>3, <2>4, BelowFacts DEF B
  <2>6. QED
    BY <1>2, <1>5, <2>1, <2>5 DEF B, R
<1>6. QED
  BY <1>4, <1>5

\* Of some nodes, one whose links lead to none of them.
LEMMA Foremost ==
  ASSUME TreeInv, NEW S \in SUBSET mTreeMap, S # {}
  PROVE  \E w \in S : links[w] \cap S = {}
<1>0. TypeOK /\ RootInv /\ ParentInv /\ ChildInv
  BY DEF TreeInv
<1>1. PICK d \in S : \A x \in S : node[x].depth <= node[d].depth
  BY Deepest
<1>2. ASSUME NEW w \in S, node[w].depth = node[d].depth PROVE kids[w] \cap S = {}
  <2>1. \A c \in kids[w] : node[c].depth = node[w].depth + 1 /\ node[w].depth \in Nat
    BY <1>0, KidsFacts, NodeFacts
  <2>2. QED
    BY <1>1, <1>2, <2>1
<1>3. ASSUME NEW w \in S, kids[w] \cap S = {}, node[w].next \notin S PROVE links[w] \cap S = {}
  <2>1. first(w) # NoValue => first(w) \in kids[w]
    BY LinksFacts
  <2>2. QED
    BY <1>3, <2>1 DEF links
<1>4. CASE d = mRoot
  <2>1. node[d].next \notin S
    BY <1>0, <1>4, NodeFacts DEF RootInv
  <2>2. kids[d] \cap S = {}
    BY <1>2
  <2>3. QED
    BY <1>3, <2>1, <2>2
<1>5. CASE d # mRoot
  <2> DEFINE p == node[d].parent
             list == node[p].children
             places == {i \in 1..Len(list) : list[i] \in S}
  <2>1. /\ p \in mTreeMap /\ Len(list) \in Nat /\ DOMAIN list = 1..Len(list)
        /\ node[d].depth = node[p].depth + 1
    <3>1. p \in mTreeMap /\ node[d].depth = node[p].depth + 1
      BY <1>0, <1>5 DEF ParentInv
    <3>2. QED
      BY <1>0, <3>1, NodeFacts
  <2>2. \E i \in DOMAIN list : list[i] = d
    BY <1>0, <1>5 DEF ParentInv
  <2>3. places \in SUBSET Int /\ places # {} /\ \A i \in places : i <= Len(list)
    BY <2>1, <2>2
  <2>4. Max(places) \in places /\ \A i \in places : i <= Max(places)
    <3>1. Len(list) \in Int
      BY <2>1
    <3> HIDE DEF places, list
    <3>2. QED
      BY <2>3, <3>1, MaxOfBounded
  <2>5. PICK m \in places : \A i \in places : i <= m
    BY <2>4
  <2>6. m \in 1..Len(list) /\ list[m] \in S
    OBVIOUS
  <2>7. list[m] \in kids[p]
    BY <2>1, <2>6 DEF kids, ToSet
  <2>8. node[list[m]].depth = node[d].depth
    BY <2>1, <2>7, KidsFacts
  <2>9. node[list[m]].next = IF m = Len(list) THEN NoValue ELSE list[m + 1]
    BY <1>0, <2>1, <2>6 DEF ChildInv
  <2>10. node[list[m]].next \notin S
    <3>1. CASE m = Len(list)
      BY <1>0, <2>9, <3>1, NodeFacts
    <3>2. CASE m # Len(list)
      <4>1. m + 1 \in 1..Len(list) /\ ~(m + 1 <= m)
        BY <2>1, <2>6, <3>2
      <4>2. list[m + 1] \notin S
        BY <2>5, <4>1
      <4>3. QED
        BY <2>9, <3>2, <4>2
    <3>3. QED
      BY <3>1, <3>2
  <2>11. kids[list[m]] \cap S = {}
    BY <1>2, <2>6, <2>8
  <2>12. QED
    BY <1>3, <2>6, <2>10, <2>11
<1>6. QED
  BY <1>4, <1>5

\* Taking values off the map visits all that is below a node, along the links.
LEMMA LinkedIs ==
  ASSUME TreeInv, NEW v \in mTreeMap
  PROVE  LinkedBelow(v) = Below(v)
<1> DEFINE Solves(f) ==
             f = [w \in DOMAIN node |->
                    {w} \cup (IF first(w) = NoValue THEN {} ELSE f[first(w)])
                        \cup (IF node[w].next = NoValue THEN {} ELSE f[node[w].next])]
           from == CHOOSE f : Solves(f)
           known == [w \in DOMAIN node |-> Reach(mTreeMap, links, w)]
<1>1. LinkedBelow(v) = IF first(v) = NoValue THEN {} ELSE from[first(v)]
  BY DEF LinkedBelow
<1>2. DOMAIN node = mTreeMap /\ TypeOK
  BY DEF TreeInv, TypeOK
<1>3. links \in [mTreeMap -> SUBSET mTreeMap]
  BY LinksFacts
<1>4. ASSUME NEW f, NEW w \in mTreeMap
      PROVE  {w} \cup (IF first(w) = NoValue THEN {} ELSE f[first(w)])
                 \cup (IF node[w].next = NoValue THEN {} ELSE f[node[w].next])
             = {w} \cup UNION {f[s] : s \in links[w]}
  <2>1. links[w] = {first(w), node[w].next} \ {NoValue}
    BY DEF links
  <2>2. QED
    BY <2>1
<1>5. ASSUME NEW w \in DOMAIN node
      PROVE  Reach(mTreeMap, links, w) =
               {w} \cup (IF first(w) = NoValue THEN {} ELSE known[first(w)])
                   \cup (IF node[w].next = NoValue THEN {} ELSE known[node[w].next])
  <2>1. \A s \in links[w] : known[s] = Reach(mTreeMap, links, s)
    BY <1>2, <1>3
  <2>2. Reach(mTreeMap, links, w) = {w} \cup UNION {Reach(mTreeMap, links, s) : s \in links[w]}
    BY <1>2, <1>3, ReachUnfolds
  <2> HIDE DEF known
  <2>3. Reach(mTreeMap, links, w) = {w} \cup UNION {known[s] : s \in links[w]}
    BY <2>1, <2>2
  <2>4. QED
    BY <1>2, <1>4, <2>3
<1>6. Solves(known)
  BY <1>5
<1>7. Solves(from)
  <2> HIDE DEF Solves
  <2>1. QED
    BY <1>6
<1> HIDE DEF from, known
<1>8. ASSUME NEW w \in mTreeMap PROVE from[w] = {w} \cup UNION {from[s] : s \in links[w]}
  <2>1. from[w] = {w} \cup (IF first(w) = NoValue THEN {} ELSE from[first(w)])
                      \cup (IF node[w].next = NoValue THEN {} ELSE from[node[w].next])
    BY <1>2, <1>7
  <2> HIDE DEF Solves
  <2>2. QED
    BY <1>4, <2>1
<1> HIDE DEF Solves
<1> DEFINE wrong == {w \in mTreeMap : from[w] # Reach(mTreeMap, links, w)}
<1>9. ASSUME wrong # {} PROVE FALSE
  <2>1. wrong \in SUBSET mTreeMap
    OBVIOUS
  <2>2. PICK w \in wrong : links[w] \cap wrong = {}
    <3> HIDE DEF wrong
    <3>1. QED
      BY <1>9, <2>1, Foremost
  <2>3. w \in mTreeMap /\ links[w] \subseteq mTreeMap
    BY <1>3, <2>1
  <2>4. \A s \in links[w] : from[s] = Reach(mTreeMap, links, s)
    BY <2>2, <2>3
  <2>5. from[w] = {w} \cup UNION {Reach(mTreeMap, links, s) : s \in links[w]}
    BY <1>8, <2>3, <2>4
  <2>6. QED
    BY <1>3, <2>2, <2>3, <2>5, ReachUnfolds
<1>10. first(v) # NoValue => from[first(v)] = Reach(mTreeMap, links, first(v))
  BY <1>9, LinksReachBelow
<1>11. QED
  BY <1>1, <1>10, LinksReachBelow

-----------------------------------------------------------------------------
(* The operations keep the invariant.                                      *)

\* The maximal depth over some of the nodes.
LEMMA MaxDepthIs ==
  ASSUME TreeInv, NEW K \in SUBSET mTreeMap
  PROVE  /\ MaxDepth(K) \in {-1} \cup {node[v].depth : v \in K}
         /\ \A v \in K : node[v].depth <= MaxDepth(K)
<1> DEFINE S == {-1} \cup {node[v].depth : v \in K}
<1>1. \A v \in mTreeMap : node[v].depth \in Nat /\ node[v].depth <= mMaxDepth
  BY NodeFacts DEF TreeInv, DepthInv
<1>2. mMaxDepth \in Int /\ -1 <= mMaxDepth
  BY DEF TreeInv, TypeOK
<1>3. S \in SUBSET Int /\ S # {} /\ \A x \in S : x <= mMaxDepth
  BY <1>1, <1>2
<1>4. Max(S) \in S /\ \A x \in S : x <= Max(S)
  <2> HIDE DEF S
  <2>1. QED
    BY <1>2, <1>3, MaxOfBounded
<1>5. \A v \in K : node[v].depth \in S
  OBVIOUS
<1>6. QED
  BY <1>4, <1>5 DEF MaxDepth

\* The node of the first value of a tree.
LEMMA RootKeeps ==
  ASSUME NEW v \in Values, Root(v)
  PROVE  TreeInv'
<1>1. /\ mRoot' = v /\ mTreeMap' = {v} /\ mMaxDepth' = 0
      /\ node' = [w \in {v} |-> Leaf(NoValue, 0, NoValue)]
  BY DEF Root
<1>2. <<>> \in Seq(Values) /\ Len(<<>>) = 0
  BY EmptySeq
<1>3. Leaf(NoValue, 0, NoValue) \in Node
  BY <1>2 DEF Leaf, Node
<1>4. /\ node'[v].parent = NoValue /\ node'[v].depth = 0 /\ node'[v].next = NoValue
      /\ node'[v].children = <<>>
  BY <1>1 DEF Leaf
<1>5. IsFiniteSet({v})
  BY FS_Singleton
<1>6. TypeOK'
  BY <1>1, <1>3, <1>5 DEF TypeOK
<1>7. RootInv'
  BY <1>1, <1>4, NoValueAssumption DEF RootInv
<1>8. ParentInv'
  BY <1>1 DEF ParentInv
<1>9. ChildInv'
  <2>1. DOMAIN (<<>>) = {}
    OBVIOUS
  <2>2. DOMAIN node'[v].children = {}
    BY <1>4, <2>1
  <2>3. QED
    BY <1>1, <2>2 DEF ChildInv
<1>10. DepthInv'
  <2>1. \A w \in mTreeMap' : node'[w].depth = 0
    BY <1>1, <1>4
  <2>2. mMaxDepth' \in {node'[w].depth : w \in mTreeMap'}
    BY <1>1, <1>4
  <2>3. QED
    BY <1>1, <2>1, <2>2 DEF DepthInv
<1>11. QED
  BY <1>6, <1>7, <1>8, <1>9, <1>10 DEF TreeInv

LEMMA ClearTreeKeeps ==
  ASSUME TreeInv, ClearTree
  PROVE  TreeInv' /\ mTreeMap' = {}
<1>1. mTreeMap' = {} /\ node' = [w \in {} |-> node[w]] /\ mRoot' = NoValue /\ mMaxDepth' = -1
  <2>1. CASE mRoot = NoValue
    <3>1. mTreeMap = {} /\ node \in [mTreeMap -> Node]
      BY <2>1 DEF TreeInv, RootInv, TypeOK
    <3>2. node = [w \in {} |-> node[w]]
      BY <3>1
    <3>3. node' = node /\ mTreeMap' = mTreeMap /\ mRoot' = NoValue /\ mMaxDepth' = -1
      BY <2>1 DEF ClearTree
    <3>4. QED
      BY <3>1, <3>2, <3>3
  <2>2. CASE mRoot # NoValue
    <3>1. mRoot \in mTreeMap /\ DOMAIN node = mTreeMap
      BY <2>2 DEF TreeInv, RootInv, TypeOK
    <3>2. mTreeMap = {mRoot} \cup Below(mRoot)
      BY <2>2, AllBelowRoot
    <3>3. ListedBelow(mRoot) = Below(mRoot) /\ LinkedBelow(mRoot) = Below(mRoot)
      BY <3>1, ListedIs, LinkedIs
    <3>4. /\ node' = Free({mRoot} \cup Below(mRoot))
          /\ mTreeMap' = mTreeMap \ ({mRoot} \cup Below(mRoot))
          /\ mRoot' = NoValue /\ mMaxDepth' = -1
      BY <2>2, <3>3 DEF ClearTree
    <3>5. DOMAIN node \ ({mRoot} \cup Below(mRoot)) = {}
      BY <3>1, <3>2
    <3>6. QED
      BY <3>1, <3>2, <3>4, <3>5 DEF Free
  <2>3. QED
    BY <2>1, <2>2
<1>2. TypeOK'
  <2>1. IsFiniteSet({})
    BY FS_EmptySet
  <2>2. [w \in {} |-> node[w]] \in [{} -> Node]
    OBVIOUS
  <2>3. QED
    BY <1>1, <2>1, <2>2 DEF TypeOK
<1>3. RootInv' /\ ParentInv' /\ ChildInv' /\ DepthInv'
  BY <1>1 DEF RootInv, ParentInv, ChildInv, DepthInv
<1>4. QED
  BY <1>1, <1>2, <1>3 DEF TreeInv

LEMMA RemoveChildrenKeeps ==
  ASSUME TreeInv, NEW v \in Values, RemoveChildren(v)
  PROVE  /\ TreeInv' /\ v \in mTreeMap /\ mTreeMap' = mTreeMap \ Below(v)
         /\ \A w \in mTreeMap' : node'[w].parent = node[w].parent
<1> DEFINE kept == mTreeMap \ Below(v)
<1>0. TypeOK /\ RootInv /\ ParentInv /\ ChildInv /\ DepthInv /\ DOMAIN node = mTreeMap
  BY DEF TreeInv, TypeOK
<1>1. v \in mTreeMap
  BY DEF RemoveChildren
<1>2. /\ mTreeMap' = kept /\ mMaxDepth' = MaxDepth(kept) /\ mRoot' = mRoot
      /\ node' = [Free(Below(v)) EXCEPT ![v].children = <<>>]
  <2>1. ListedBelow(v) = Below(v) /\ LinkedBelow(v) = Below(v)
    BY <1>1, ListedIs, LinkedIs
  <2>2. QED
    BY <2>1 DEF RemoveChildren
<1>3. /\ v \notin Below(v) /\ mRoot \notin Below(v)
      /\ \A u \in Below(v) : node[u].parent \in Below(v) \cup {v}
      /\ \A u \in mTreeMap \ {mRoot} : node[u].parent \in Below(v) \cup {v} => u \in Below(v)
  <2>1. \A u \in mTreeMap \ {mRoot} : u \in kids[node[u].parent]
    BY KidsFacts
  <2>2. kids[v] \subseteq Below(v) /\ \A u \in Below(v) : kids[u] \subseteq Below(v)
    BY <1>1, BelowFacts
  <2>3. QED
    BY <1>1, <2>1, <2>2, BelowParents
<1>4. /\ node' = [w \in kept |-> IF w = v THEN [node[w] EXCEPT !.children = <<>>] ELSE node[w]]
      /\ v \in kept
  <2>1. v \in kept
    BY <1>1, <1>3
  <2>2. Free(Below(v)) = [w \in kept |-> node[w]]
    BY <1>0 DEF Free
  <2>3. QED
    BY <1>2, <2>1, <2>2
<1>5. ASSUME NEW w \in kept
      PROVE  /\ node'[w] \in Node
             /\ node'[w].parent = node[w].parent /\ node'[w].depth = node[w].depth
             /\ node'[w].prev = node[w].prev /\ node'[w].next = node[w].next
             /\ w # v => node'[w].children = node[w].children
             /\ w = v => node'[w].children = <<>>
  <2>1. node[w] \in Node
    BY <1>0 DEF TypeOK
  <2>2. <<>> \in Seq(Values)
    BY EmptySeq
  <2>3. QED
    BY <1>4, <2>1, <2>2 DEF Node
<1> HIDE DEF kept
<1>6. kept \subseteq mTreeMap /\ \A w \in kept : w \in mTreeMap /\ w \notin Below(v)
  BY DEF kept
<1>7. /\ mMaxDepth' \in {-1} \cup {node[w].depth : w \in kept}
      /\ \A w \in kept : node[w].depth <= mMaxDepth'
  BY <1>2, <1>6, MaxDepthIs
<1>8. TypeOK'
  <2>1. IsFiniteSet(kept)
    BY <1>0, <1>6, FS_Subset DEF TypeOK
  <2>2. \A w \in kept : node[w].depth \in Nat
    BY <1>0, <1>6, NodeFacts
  <2>3. mMaxDepth' \in Nat \cup {-1}
    BY <1>7, <2>2
  <2>4. node' \in [kept -> Node]
    BY <1>4, <1>5
  <2>5. QED
    BY <1>0, <1>2, <1>6, <2>1, <2>3, <2>4 DEF TypeOK
<1>9. RootInv'
  <2>1. mRoot # NoValue
    BY <1>0, <1>1 DEF RootInv
  <2>2. mRoot \in kept /\ node[mRoot].parent = NoValue /\ node[mRoot].depth = 0 /\ node[mRoot].next = NoValue
    BY <1>0, <1>3, <2>1 DEF RootInv, kept
  <2>3. QED
    BY <1>2, <1>5, <2>1, <2>2 DEF RootInv
<1>10. ParentInv'
  <2>1. ASSUME NEW u \in kept \ {mRoot}
        PROVE  /\ node'[u].parent \in kept
               /\ node'[u].depth = node'[node'[u].parent].depth + 1
               /\ \E i \in DOMAIN node'[node'[u].parent].children :
                    node'[node'[u].parent].children[i] = u
    <3> DEFINE p == node[u].parent
    <3>1. /\ u \in mTreeMap \ {mRoot} /\ u \notin Below(v) /\ p \in mTreeMap
          /\ node[u].depth = node[p].depth + 1
          /\ \E i \in DOMAIN node[p].children : node[p].children[i] = u
      BY <1>0, <1>6 DEF ParentInv
    <3>2. p \in kept /\ p # v
      BY <1>3, <3>1 DEF kept
    <3>3. QED
      BY <1>5, <3>1, <3>2
  <2>2. QED
    BY <1>2, <2>1 DEF ParentInv
<1>11. ChildInv'
  <2>1. ASSUME NEW w \in kept, w # v, NEW i \in DOMAIN node[w].children
        PROVE  node[w].children[i] \in kept
    <3>1. node[w].children[i] \in mTreeMap /\ node[node[w].children[i]].parent = w
      BY <1>0, <1>6 DEF ChildInv
    <3>2. QED
      BY <1>3, <1>6, <2>1, <3>1 DEF kept
  <2>2. ASSUME NEW w \in kept
        PROVE  /\ \A i \in DOMAIN node'[w].children :
                    LET list == node'[w].children
                    IN /\ list[i] \in kept
                       /\ node'[list[i]].parent = w
                       /\ node'[list[i]].prev = IF i = 1 THEN NoValue ELSE list[i - 1]
                       /\ node'[list[i]].next = IF i = Len(list) THEN NoValue ELSE list[i + 1]
               /\ \A i, j \in DOMAIN node'[w].children :
                    node'[w].children[i] = node'[w].children[j] => i = j
    <3>1. CASE w = v
      <4>1. DOMAIN (<<>>) = {}
        OBVIOUS
      <4>2. DOMAIN node'[w].children = {}
        BY <1>5, <3>1, <4>1
      <4>3. QED
        BY <4>2
    <3>2. CASE w # v
      <4>1. node'[w].children = node[w].children /\ w \in mTreeMap
        BY <1>5, <1>6, <3>2
      <4>2. ASSUME NEW i \in DOMAIN node[w].children
            PROVE  LET list == node[w].children
                   IN /\ list[i] \in kept
                      /\ node'[list[i]].parent = w
                      /\ node'[list[i]].prev = IF i = 1 THEN NoValue ELSE list[i - 1]
                      /\ node'[list[i]].next = IF i = Len(list) THEN NoValue ELSE list[i + 1]
        <5>1. node[w].children[i] \in kept
          BY <2>1, <3>2
        <5>2. QED
          BY <1>0, <1>5, <4>1, <5>1 DEF ChildInv
      <4>3. \A i, j \in DOMAIN node[w].children :
              node[w].children[i] = node[w].children[j] => i = j
        BY <1>0, <4>1 DEF ChildInv
      <4>4. QED
        BY <4>1, <4>2, <4>3
    <3>3. QED
      BY <3>1, <3>2
  <2>3. QED
    BY <1>2, <2>2 DEF ChildInv
<1>12. DepthInv'
  <2>1. {node'[w].depth : w \in kept} = {node[w].depth : w \in kept}
    BY <1>5
  <2>2. QED
    BY <1>2, <1>5, <1>7, <2>1 DEF DepthInv
<1>13. QED
  BY <1>1, <1>2, <1>5, <1>8, <1>9, <1>10, <1>11, <1>12 DEF TreeInv, kept

LEMMA RemoveNodeKeeps ==
  ASSUME TreeInv, NEW v \in Values, RemoveNode(v)
  PROVE  /\ TreeInv' /\ v \in mTreeMap /\ mTreeMap' = mTreeMap \ ({v} \cup Below(v))
         /\ \A w \in mTreeMap' : node'[w].parent = node[w].parent
<1> DEFINE kept == mTreeMap \ ({v} \cup Below(v))
           p == node[v].parent
           list == node[p].children
           shorter == RemoveFirst(list, v)
<1>0. TypeOK /\ RootInv /\ ParentInv /\ ChildInv /\ DepthInv /\ DOMAIN node = mTreeMap
  BY DEF TreeInv, TypeOK
<1>1. v \in mTreeMap /\ p # NoValue /\ v # mRoot
  <2>1. v \in mTreeMap /\ p # NoValue
    BY DEF RemoveNode
  <2>2. v # NoValue
    BY <1>0, <2>1, NodeFacts
  <2>3. QED
    BY <1>0, <2>1, <2>2 DEF RootInv
<1>2. /\ mTreeMap' = kept /\ mMaxDepth' = MaxDepth(kept) /\ mRoot' = mRoot
      /\ node' = [w \in kept |-> [node[w] EXCEPT
                     !.next = IF w = node[v].prev THEN node[v].next ELSE @,
                     !.prev = IF w = node[v].next THEN node[v].prev ELSE @,
                     !.children = IF w = p THEN RemoveFirst(@, v) ELSE @]]
  <2>1. ListedBelow(v) = Below(v) /\ LinkedBelow(v) = Below(v)
    BY <1>1, ListedIs, LinkedIs
  <2>2. QED
    BY <1>0, <2>1 DEF RemoveNode
<1>2a. mTreeMap' = kept /\ mRoot' = mRoot /\ mMaxDepth' = MaxDepth(kept)
  BY <1>2
<1>3. /\ v \notin Below(v) /\ mRoot \notin Below(v)
      /\ \A u \in Below(v) : node[u].parent \in Below(v) \cup {v}
      /\ \A u \in mTreeMap \ {mRoot} : node[u].parent \in Below(v) \cup {v} => u \in Below(v)
  <2>1. \A u \in mTreeMap \ {mRoot} : u \in kids[node[u].parent]
    BY KidsFacts
  <2>2. kids[v] \subseteq Below(v) /\ \A u \in Below(v) : kids[u] \subseteq Below(v)
    BY <1>1, BelowFacts
  <2>3. QED
    BY <1>1, <2>1, <2>2, BelowParents
\* The place of v among its siblings.
<1>4. /\ p \in mTreeMap /\ p \in kept /\ list \in Seq(Values)
      /\ Len(list) \in Nat /\ DOMAIN list = 1..Len(list)
  <2>1. p \in mTreeMap /\ node[v].depth = node[p].depth + 1
    BY <1>0, <1>1 DEF ParentInv
  <2>2. p # v
    <3>1. node[v].depth \in Nat
      BY <1>0, <1>1, NodeFacts
    <3>2. QED
      BY <2>1, <3>1
  <2>3. p \notin Below(v)
    <3>1. \A u \in Below(v) : node[u].depth > node[v].depth
      BY <1>1, BelowParents
    <3>2. node[v].depth \in Nat /\ node[p].depth \in Nat
      BY <1>0, <1>1, <2>1, NodeFacts
    <3>3. ~(node[p].depth > node[v].depth)
      BY <2>1, <3>2
    <3>4. QED
      BY <3>1, <3>3
  <2>4. QED
    BY <1>0, <2>1, <2>2, <2>3, NodeFacts
<1>5. PICK k \in 1..Len(list) : list[k] = v
  BY <1>0, <1>1, <1>4 DEF ParentInv
<1>6. \A i \in 1..Len(list) :
        /\ list[i] \in mTreeMap /\ list[i] # NoValue /\ node[list[i]].parent = p
        /\ node[list[i]].prev = IF i = 1 THEN NoValue ELSE list[i - 1]
        /\ node[list[i]].next = IF i = Len(list) THEN NoValue ELSE list[i + 1]
  <2>1. ASSUME NEW i \in 1..Len(list)
        PROVE  /\ list[i] \in mTreeMap /\ node[list[i]].parent = p
               /\ node[list[i]].prev = IF i = 1 THEN NoValue ELSE list[i - 1]
               /\ node[list[i]].next = IF i = Len(list) THEN NoValue ELSE list[i + 1]
    <3>1. p \in mTreeMap /\ i \in DOMAIN node[p].children
      BY <1>4
    <3> HIDE DEF shorter, kept, p, list
    <3>2. \A w \in mTreeMap : \A j \in DOMAIN node[w].children :
            /\ node[w].children[j] \in mTreeMap
            /\ node[node[w].children[j]].parent = w
            /\ node[node[w].children[j]].prev = IF j = 1 THEN NoValue ELSE node[w].children[j - 1]
            /\ node[node[w].children[j]].next
                 = IF j = Len(node[w].children) THEN NoValue ELSE node[w].children[j + 1]
      BY <1>0, Zenon DEF ChildInv
    <3>3. /\ node[p].children[i] \in mTreeMap
          /\ node[node[p].children[i]].parent = p
          /\ node[node[p].children[i]].prev = IF i = 1 THEN NoValue ELSE node[p].children[i - 1]
          /\ node[node[p].children[i]].next
               = IF i = Len(node[p].children) THEN NoValue ELSE node[p].children[i + 1]
      BY <3>1, <3>2
    <3>4. QED
      BY <3>3 DEF list
  <2>2. ASSUME NEW i \in 1..Len(list) PROVE list[i] # NoValue
    BY <1>0, <2>1, NodeFacts
  <2>3. QED
    BY <2>1, <2>2
<1>7. \A i, j \in 1..Len(list) : list[i] = list[j] => i = j
  BY <1>0, <1>4 DEF ChildInv
<1>8. /\ shorter \in Seq(Values) /\ Len(shorter) = Len(list) - 1
      /\ DOMAIN shorter = 1..(Len(list) - 1)
      /\ \A i \in 1..(Len(list) - 1) : shorter[i] = IF i < k THEN list[i] ELSE list[i + 1]
  <2>1. /\ RemoveFirst(list, list[k]) \in Seq(Values)
        /\ Len(RemoveFirst(list, list[k])) = Len(list) - 1
        /\ \A i \in 1..(Len(list) - 1) :
             RemoveFirst(list, list[k])[i] = IF i < k THEN list[i] ELSE list[i + 1]
    <3> HIDE DEF list
    <3>1. QED
      BY <1>4, <1>5, <1>7, RemoveFirstIs
  <2>2. DOMAIN RemoveFirst(list, list[k]) = 1..(Len(list) - 1)
    BY <2>1, LenProperties
  <2>3. QED
    BY <1>5, <2>1, <2>2
<1>9. /\ node[v].prev = IF k = 1 THEN NoValue ELSE list[k - 1]
      /\ node[v].next = IF k = Len(list) THEN NoValue ELSE list[k + 1]
  BY <1>5, <1>6
<1>10. ASSUME NEW w \in kept
       PROVE  /\ node'[w] \in Node
              /\ node'[w].parent = node[w].parent /\ node'[w].depth = node[w].depth
              /\ node'[w].prev = IF w = node[v].next THEN node[v].prev ELSE node[w].prev
              /\ node'[w].next = IF w = node[v].prev THEN node[v].next ELSE node[w].next
              /\ w # p => node'[w].children = node[w].children
              /\ w = p => node'[w].children = shorter
  <2>1. node[w] \in Node /\ node[v] \in Node
    BY <1>0, <1>1 DEF TypeOK
  <2>2. node'[w] = [node[w] EXCEPT
                      !.next = IF w = node[v].prev THEN node[v].next ELSE @,
                      !.prev = IF w = node[v].next THEN node[v].prev ELSE @,
                      !.children = IF w = p THEN RemoveFirst(@, v) ELSE @]
    BY <1>2
  <2> DEFINE next == IF w = node[v].prev THEN node[v].next ELSE node[w].next
             prev == IF w = node[v].next THEN node[v].prev ELSE node[w].prev
             children == IF w = p THEN shorter ELSE node[w].children
  <2>3. /\ next \in Values \cup {NoValue} /\ prev \in Values \cup {NoValue}
        /\ children \in Seq(Values)
    BY <1>8, <2>1 DEF Node
  <2>4. node'[w] = [node[w] EXCEPT !.next = next, !.prev = prev, !.children = children]
    BY <2>2
  <2> HIDE DEF next, prev, children
  <2>5. /\ node'[w] \in Node
        /\ node'[w].parent = node[w].parent /\ node'[w].depth = node[w].depth
        /\ node'[w].prev = prev /\ node'[w].next = next /\ node'[w].children = children
    BY <2>1, <2>3, <2>4 DEF Node
  <2>6. QED
    BY <2>5 DEF next, prev, children
<1>11. kept \subseteq mTreeMap /\ \A w \in kept : w \in mTreeMap /\ w \notin Below(v) /\ w # v
  OBVIOUS
\* Where in the longer list an element of the shorter one was.
<1> DEFINE was(i) == IF i < k THEN i ELSE i + 1
<1>12. \A i \in 1..(Len(list) - 1) :
         was(i) \in 1..Len(list) /\ was(i) # k /\ shorter[i] = list[was(i)]
  <2>1. Len(list) \in Int /\ k \in Int /\ 1 <= k /\ k <= Len(list)
    BY <1>4, <1>5
  <2>2. ASSUME NEW i \in 1..(Len(list) - 1) PROVE was(i) \in 1..Len(list) /\ was(i) # k
    BY <2>1
  <2>3. QED
    BY <1>8, <2>2
<1> HIDE DEF kept
<1>13. /\ mMaxDepth' \in {-1} \cup {node[w].depth : w \in kept}
       /\ \A w \in kept : node[w].depth <= mMaxDepth'
  BY <1>2, <1>11, MaxDepthIs
<1>14. TypeOK'
  <2>1. IsFiniteSet(kept)
    BY <1>0, <1>11, FS_Subset DEF TypeOK
  <2>2. \A w \in kept : node[w].depth \in Nat
    BY <1>0, <1>11, NodeFacts
  <2>3. mMaxDepth' \in Nat \cup {-1}
    BY <1>13, <2>2
  <2>4. node' \in [kept -> Node]
    BY <1>2, <1>10
  <2>5. QED
    BY <1>0, <1>2, <1>11, <2>1, <2>3, <2>4 DEF TypeOK
<1>15. \A u \in mTreeMap : u # v /\ u \notin Below(v) => u \in kept
  BY DEF kept
<1>16. RootInv'
  <2>1. mRoot # NoValue
    BY <1>0, <1>1 DEF RootInv
  <2>2. mRoot \in kept /\ node[mRoot].parent = NoValue /\ node[mRoot].depth = 0 /\ node[mRoot].next = NoValue
    BY <1>0, <1>1, <1>3, <1>15, <2>1 DEF RootInv
  <2>3. mRoot # node[v].prev
    <3>1. p # NoValue
      BY <1>1
    <3>2. k # 1 => k - 1 \in 1..Len(list)
      BY <1>4, <1>5
    <3>3. k # 1 => node[list[k - 1]].parent = p
      BY <1>6, <3>2
    <3>4. QED
      BY <1>9, <2>1, <2>2, <3>1, <3>3
  <2>4. node'[mRoot].parent = NoValue /\ node'[mRoot].depth = 0 /\ node'[mRoot].next = NoValue
    BY <1>10, <2>2, <2>3
  <2>5. QED
    BY <1>2a, <2>1, <2>2, <2>4 DEF RootInv
<1>17. ParentInv'
  <2>1. ASSUME NEW u \in kept \ {mRoot}
        PROVE  /\ node'[u].parent \in kept
               /\ node'[u].depth = node'[node'[u].parent].depth + 1
               /\ \E i \in DOMAIN node'[node'[u].parent].children :
                    node'[node'[u].parent].children[i] = u
    <3> DEFINE q == node[u].parent
    <3>1. /\ u \in mTreeMap \ {mRoot} /\ u \notin Below(v) /\ u # v /\ q \in mTreeMap
          /\ node[u].depth = node[q].depth + 1
          /\ \E i \in DOMAIN node[q].children : node[q].children[i] = u
      BY <1>0, <1>11 DEF ParentInv
    <3>2. q \in kept
      BY <1>3, <1>15, <3>1
    <3>3. \E i \in DOMAIN node'[q].children : node'[q].children[i] = u
      <4>1. CASE q # p
        BY <1>10, <3>1, <3>2, <4>1
      <4>2. CASE q = p
        <5>1. PICK j \in 1..Len(list) : list[j] = u
          BY <1>4, <3>1, <4>2
        <5>2. j # k
          BY <1>5, <3>1, <5>1
        <5> DEFINE i == IF j < k THEN j ELSE j - 1
        <5>3. i \in 1..(Len(list) - 1) /\ was(i) = j
          BY <1>4, <1>5, <5>1, <5>2
        <5>4. shorter[i] = u
          BY <1>12, <5>1, <5>3
        <5> HIDE DEF i, was
        <5>5. QED
          BY <1>8, <1>10, <3>2, <4>2, <5>3, <5>4
      <4>3. QED
        BY <4>1, <4>2
    <3>4. QED
      BY <1>10, <3>1, <3>2, <3>3
  <2>2. QED
    BY <1>2a, <2>1 DEF ParentInv
<1>18. ASSUME NEW i \in 1..(Len(list) - 1)
       PROVE  /\ shorter[i] \in kept /\ node'[shorter[i]].parent = p
              /\ node'[shorter[i]].prev = IF i = 1 THEN NoValue ELSE shorter[i - 1]
              /\ node'[shorter[i]].next = IF i = Len(list) - 1 THEN NoValue ELSE shorter[i + 1]
  <2>1. Len(list) \in Int /\ k \in Int /\ 1 <= k /\ k <= Len(list) /\ i \in Int
    BY <1>4, <1>5
  <2> DEFINE c == shorter[i]
             j == was(i)
  <2>2. j \in 1..Len(list) /\ j # k /\ c = list[j]
    BY <1>12
  <2>3. c # v
    BY <1>5, <1>7, <2>2
  <2>4. c \in kept
    <3>1. p \notin Below(v) \cup {v}
      BY <1>4, <1>11
    <3>2. c \in mTreeMap /\ node[c].parent = p
      BY <1>6, <2>2
    <3>3. c \notin Below(v)
      BY <1>3, <3>1, <3>2
    <3>4. QED
      BY <1>15, <2>3, <3>2, <3>3
  <2>5. /\ node'[c].parent = p
        /\ node'[c].prev = IF c = node[v].next THEN node[v].prev ELSE node[c].prev
        /\ node'[c].next = IF c = node[v].prev THEN node[v].next ELSE node[c].next
    <3>1. node[c].parent = p
      BY <1>6, <2>2
    <3> HIDE DEF c
    <3>2. QED
      BY <1>10, <2>4, <3>1
  <2>6. c # NoValue
    BY <1>6, <2>2
  <2>7. c = node[v].next <=> j = k + 1
    <3>1. CASE k = Len(list)
      <4>1. j # k + 1
        BY <2>1, <2>2, <3>1
      <4>2. QED
        BY <1>9, <2>6, <3>1, <4>1
    <3>2. CASE k # Len(list)
      <4>1. k + 1 \in 1..Len(list) /\ node[v].next = list[k + 1]
        BY <1>9, <2>1, <3>2
      <4> HIDE DEF was
      <4>2. QED
        BY <1>7, <2>2, <4>1
    <3>3. QED
      BY <3>1, <3>2
  <2>8. c = node[v].prev <=> j = k - 1
    <3>1. CASE k = 1
      <4>1. j # k - 1
        BY <2>1, <2>2, <3>1
      <4>2. QED
        BY <1>9, <2>6, <3>1, <4>1
    <3>2. CASE k # 1
      <4>1. k - 1 \in 1..Len(list) /\ node[v].prev = list[k - 1]
        BY <1>9, <2>1, <3>2
      <4> HIDE DEF was
      <4>2. QED
        BY <1>7, <2>2, <4>1
    <3>3. QED
      BY <3>1, <3>2
  <2>9. /\ node[c].prev = IF j = 1 THEN NoValue ELSE list[j - 1]
        /\ node[c].next = IF j = Len(list) THEN NoValue ELSE list[j + 1]
    BY <1>6, <2>2
  <2>10. node'[c].prev = IF i = 1 THEN NoValue ELSE shorter[i - 1]
    <3>1. CASE j = k + 1
      <4>1. i = k /\ (i # 1 => i - 1 \in 1..(Len(list) - 1) /\ i - 1 < k)
        BY <2>1, <3>1
      <4>2. i # 1 => shorter[i - 1] = list[k - 1]
        BY <1>8, <4>1
      <4>3. node'[c].prev = IF k = 1 THEN NoValue ELSE list[k - 1]
        BY <1>9, <2>5, <2>7, <3>1
      <4> HIDE DEF shorter, c, was
      <4>4. QED
        BY <4>1, <4>2, <4>3
    <3>2. CASE j # k + 1
      <4>1. node'[c].prev = IF j = 1 THEN NoValue ELSE list[j - 1]
        BY <2>5, <2>7, <2>9, <3>2
      <4>2. (i = 1 <=> j = 1) /\ (i # 1 => i - 1 \in 1..(Len(list) - 1) /\ was(i - 1) = j - 1)
        BY <2>1, <2>2, <3>2
      <4>3. i # 1 => shorter[i - 1] = list[j - 1]
        <5> HIDE DEF was
        <5>1. QED
          BY <1>12, <4>2
      <4> HIDE DEF shorter, c, j
      <4>4. QED
        BY <4>1, <4>2, <4>3
    <3>3. QED
      BY <3>1, <3>2
  <2>11. node'[c].next = IF i = Len(list) - 1 THEN NoValue ELSE shorter[i + 1]
    <3>1. CASE j = k - 1
      <4>1. i = k - 1 /\ (k = Len(list) <=> i = Len(list) - 1)
            /\ (i # Len(list) - 1 => i + 1 \in 1..(Len(list) - 1) /\ ~(i + 1 < k) /\ (i + 1) + 1 = k + 1)
        BY <2>1, <3>1
      <4>2. i # Len(list) - 1 => shorter[i + 1] = list[k + 1]
        BY <1>8, <4>1
      <4>3. node'[c].next = IF k = Len(list) THEN NoValue ELSE list[k + 1]
        BY <1>9, <2>5, <2>8, <3>1
      <4> HIDE DEF shorter, c, was
      <4>4. QED
        BY <4>1, <4>2, <4>3
    <3>2. CASE j # k - 1
      <4>1. node'[c].next = IF j = Len(list) THEN NoValue ELSE list[j + 1]
        BY <2>5, <2>8, <2>9, <3>2
      <4>2. (i = Len(list) - 1 <=> j = Len(list))
            /\ (i # Len(list) - 1 => i + 1 \in 1..(Len(list) - 1) /\ was(i + 1) = j + 1)
        BY <2>1, <2>2, <3>2
      <4>3. i # Len(list) - 1 => shorter[i + 1] = list[j + 1]
        <5> HIDE DEF was
        <5>1. QED
          BY <1>12, <4>2
      <4> HIDE DEF shorter, c, j
      <4>4. QED
        BY <4>1, <4>2, <4>3
    <3>3. QED
      BY <3>1, <3>2
  <2>12. QED
    BY <2>4, <2>5, <2>10, <2>11
<1>19. \A i, j \in 1..(Len(list) - 1) : shorter[i] = shorter[j] => i = j
  <2>1. ASSUME NEW i \in 1..(Len(list) - 1), NEW j \in 1..(Len(list) - 1), shorter[i] = shorter[j]
        PROVE  i = j
    <3>1. was(i) = was(j)
      <4> HIDE DEF was, shorter
      <4>1. QED
        BY <1>7, <1>12, <2>1
    <3>2. QED
      BY <1>4, <1>5, <3>1
  <2>2. QED
    BY <2>1
<1>20. ChildInv'
  <2>1. ASSUME NEW w \in kept
        PROVE  /\ \A i \in DOMAIN node'[w].children :
                    LET l == node'[w].children
                    IN /\ l[i] \in kept
                       /\ node'[l[i]].parent = w
                       /\ node'[l[i]].prev = IF i = 1 THEN NoValue ELSE l[i - 1]
                       /\ node'[l[i]].next = IF i = Len(l) THEN NoValue ELSE l[i + 1]
               /\ \A i, j \in DOMAIN node'[w].children :
                    node'[w].children[i] = node'[w].children[j] => i = j
    <3>1. CASE w = p
      <4>1. node'[w].children = shorter
        BY <1>10, <3>1
      <4> HIDE DEF shorter, list
      <4>2. \A i \in DOMAIN shorter :
              /\ shorter[i] \in kept
              /\ node'[shorter[i]].parent = p
              /\ node'[shorter[i]].prev = IF i = 1 THEN NoValue ELSE shorter[i - 1]
              /\ node'[shorter[i]].next = IF i = Len(shorter) THEN NoValue ELSE shorter[i + 1]
        BY <1>8, <1>18
      <4>3. \A i, j \in DOMAIN shorter : shorter[i] = shorter[j] => i = j
        BY <1>8, <1>19
      <4>4. QED
        BY <3>1, <4>1, <4>2, <4>3
    <3>2. CASE w # p
      <4>1. node'[w].children = node[w].children /\ w \in mTreeMap
        BY <1>10, <1>11, <3>2
      <4>2. ASSUME NEW i \in DOMAIN node[w].children
            PROVE  LET l == node[w].children
                   IN /\ l[i] \in kept
                      /\ node'[l[i]].parent = w
                      /\ node'[l[i]].prev = IF i = 1 THEN NoValue ELSE l[i - 1]
                      /\ node'[l[i]].next = IF i = Len(l) THEN NoValue ELSE l[i + 1]
        <5> DEFINE c == node[w].children[i]
        <5>1. /\ c \in mTreeMap /\ node[c].parent = w
              /\ node[c].prev = IF i = 1 THEN NoValue ELSE node[w].children[i - 1]
              /\ node[c].next = IF i = Len(node[w].children) THEN NoValue ELSE node[w].children[i + 1]
          BY <1>0, <4>1 DEF ChildInv
        <5>2. c \in kept
          <6>1. c # v
            BY <3>2, <5>1
          <6>2. w \notin Below(v) \cup {v}
            BY <1>11
          <6>3. c \notin Below(v)
            BY <1>3, <5>1, <6>2
          <6>4. QED
            BY <1>15, <5>1, <6>1, <6>3
        <5>3. c # NoValue
          BY <1>0, <5>1, NodeFacts
        <5>4. c # node[v].prev
          <6>1. k # 1 => k - 1 \in 1..Len(list)
            BY <1>4, <1>5
          <6>2. k # 1 => node[list[k - 1]].parent = p
            BY <1>6, <6>1
          <6>3. QED
            BY <1>9, <3>2, <5>1, <5>3, <6>2
        <5>5. c # node[v].next
          <6>1. k # Len(list) => k + 1 \in 1..Len(list)
            BY <1>4, <1>5
          <6>2. k # Len(list) => node[list[k + 1]].parent = p
            BY <1>6, <6>1
          <6>3. QED
            BY <1>9, <3>2, <5>1, <5>3, <6>2
        <5>6. QED
          BY <1>10, <5>1, <5>2, <5>4, <5>5
      <4>3. \A i, j \in DOMAIN node[w].children :
              node[w].children[i] = node[w].children[j] => i = j
        BY <1>0, <4>1 DEF ChildInv
      <4>4. QED
        BY <4>1, <4>2, <4>3
    <3>3. QED
      BY <3>1, <3>2
  <2>2. QED
    BY <1>2a, <2>1 DEF ChildInv
<1>21. DepthInv'
  <2>1. {node'[w].depth : w \in kept} = {node[w].depth : w \in kept}
    BY <1>10
  <2>2. QED
    BY <1>2, <1>10, <1>13, <2>1 DEF DepthInv
<1>22. QED
  BY <1>1, <1>2, <1>10, <1>14, <1>16, <1>17, <1>20, <1>21 DEF TreeInv, kept

LEMMA AppendNodeKeeps ==
  ASSUME TreeInv, NEW p \in Values, NEW c \in Values, AppendNode(p, c)
  PROVE  /\ TreeInv' /\ p \in mTreeMap /\ c \notin mTreeMap /\ mTreeMap' = mTreeMap \cup {c}
         /\ \A w \in mTreeMap' : node'[w].parent = IF w = c THEN p ELSE node[w].parent
<1> DEFINE siblings == node[p].children
           n == Len(siblings)
           last == IF siblings = <<>> THEN NoValue ELSE Last(siblings)
           new == Leaf(p, node[p].depth + 1, last)
           longer == Append(siblings, c)
           all == mTreeMap \cup {c}
<1>0. TypeOK /\ RootInv /\ ParentInv /\ ChildInv /\ DepthInv /\ DOMAIN node = mTreeMap
  BY DEF TreeInv, TypeOK
<1>1. p \in mTreeMap /\ c \notin mTreeMap /\ p # c
  BY DEF AppendNode
<1>2. /\ node' = [v \in all |->
                    IF v = c THEN new
                    ELSE [node[v] EXCEPT !.next = IF v = last THEN c ELSE @,
                                         !.children = IF v = p THEN Append(@, c) ELSE @]]
      /\ mTreeMap' = all /\ mRoot' = mRoot /\ mMaxDepth' = Max({mMaxDepth, new.depth})
  BY <1>0 DEF AppendNode
<1>3. mTreeMap' = all /\ mRoot' = mRoot
  BY <1>2
<1>4. /\ siblings \in Seq(Values) /\ n \in Nat /\ DOMAIN siblings = 1..n
      /\ node[p].depth \in Nat
  BY <1>0, <1>1, NodeFacts
<1>5. last = IF n = 0 THEN NoValue ELSE siblings[n]
  <2>1. siblings = <<>> <=> n = 0
    BY <1>4, EmptySeq
  <2>2. QED
    BY <2>1 DEF Last
<1>6. \A i \in 1..n : /\ siblings[i] \in mTreeMap /\ node[siblings[i]].parent = p
                      /\ node[siblings[i]].prev = IF i = 1 THEN NoValue ELSE siblings[i - 1]
                      /\ node[siblings[i]].next = IF i = n THEN NoValue ELSE siblings[i + 1]
  <2>1. ASSUME NEW i \in 1..n
        PROVE  /\ siblings[i] \in mTreeMap /\ node[siblings[i]].parent = p
               /\ node[siblings[i]].prev = IF i = 1 THEN NoValue ELSE siblings[i - 1]
               /\ node[siblings[i]].next = IF i = n THEN NoValue ELSE siblings[i + 1]
    <3>1. i \in DOMAIN node[p].children
      BY <1>4
    <3>2. QED
      BY <1>0, <1>1, <3>1 DEF ChildInv
  <2>2. QED
    BY <2>1
<1>7. \A i, j \in 1..n : siblings[i] = siblings[j] => i = j
  BY <1>0, <1>1, <1>4 DEF ChildInv
<1>8. last \in Values \cup {NoValue} /\ (last # NoValue => last \in mTreeMap /\ node[last].parent = p)
  <2>1. n # 0 => n \in 1..n
    BY <1>4
  <2>2. n # 0 => last \in mTreeMap /\ node[last].parent = p
    BY <1>5, <1>6, <2>1
  <2>3. QED
    BY <1>0, <1>5, <2>2, NodeFacts
<1>9. /\ longer \in Seq(Values) /\ Len(longer) = n + 1 /\ DOMAIN longer = 1..(n + 1)
      /\ longer[n + 1] = c /\ \A i \in 1..n : longer[i] = siblings[i]
  <2>1. /\ longer \in Seq(Values) /\ Len(longer) = n + 1
        /\ longer[n + 1] = c /\ \A i \in 1..n : longer[i] = siblings[i]
    <3> HIDE DEF siblings
    <3>1. QED
      BY <1>4, AppendProperties
  <2>2. DOMAIN longer = 1..Len(longer)
    BY <2>1, LenProperties
  <2>3. QED
    BY <2>1, <2>2
<1>10. /\ node'[c] \in Node
       /\ node'[c].parent = p /\ node'[c].depth = node[p].depth + 1
       /\ node'[c].prev = last /\ node'[c].next = NoValue /\ node'[c].children = <<>>
  <2>1. node'[c] = new
    BY <1>2
  <2>2. <<>> \in Seq(Values)
    BY EmptySeq
  <2>3. node[p].depth + 1 \in Nat
    BY <1>4
  <2> HIDE DEF last
  <2>4. QED
    BY <1>8, <2>1, <2>2, <2>3 DEF Leaf, Node
<1>11. ASSUME NEW w \in mTreeMap
       PROVE  /\ node'[w] \in Node
              /\ node'[w].parent = node[w].parent /\ node'[w].depth = node[w].depth
              /\ node'[w].prev = node[w].prev
              /\ node'[w].next = IF w = last THEN c ELSE node[w].next
              /\ node'[w].children = IF w = p THEN longer ELSE node[w].children
  <2> DEFINE next == IF w = last THEN c ELSE node[w].next
             children == IF w = p THEN longer ELSE node[w].children
  <2>1. node[w] \in Node /\ w # c
    BY <1>0, <1>1 DEF TypeOK
  <2>2. next \in Values \cup {NoValue} /\ children \in Seq(Values)
    BY <1>9, <2>1 DEF Node
  <2>3. node'[w] = [node[w] EXCEPT !.next = next, !.children = children]
    BY <1>2, <2>1
  <2> HIDE DEF next, children
  <2>4. /\ node'[w] \in Node
        /\ node'[w].parent = node[w].parent /\ node'[w].depth = node[w].depth
        /\ node'[w].prev = node[w].prev
        /\ node'[w].next = next /\ node'[w].children = children
    BY <2>1, <2>2, <2>3 DEF Node
  <2>5. QED
    BY <2>4 DEF next, children
<1>12. /\ mMaxDepth' \in {mMaxDepth, node[p].depth + 1}
       /\ mMaxDepth <= mMaxDepth' /\ node[p].depth + 1 <= mMaxDepth'
  <2> DEFINE S == {mMaxDepth, node[p].depth + 1}
  <2>1. mMaxDepth' = Max(S)
    BY <1>2 DEF Leaf
  <2>2. mMaxDepth \in Int /\ node[p].depth + 1 \in Int
    BY <1>0, <1>4 DEF TypeOK
  <2>3. \E M \in Int : \A x \in S : x <= M
    <3>1. CASE mMaxDepth <= node[p].depth + 1
      BY <2>2, <3>1
    <3>2. CASE ~(mMaxDepth <= node[p].depth + 1)
      BY <2>2, <3>2
    <3>3. QED
      BY <3>1, <3>2
  <2>4. S \in SUBSET Int /\ S # {}
    BY <2>2
  <2>5. Max(S) \in S /\ \A x \in S : x <= Max(S)
    <3> HIDE DEF S
    <3>1. QED
      BY <2>3, <2>4, MaxOfBounded
  <2>6. QED
    BY <2>1, <2>5
<1> HIDE DEF last, new
<1>13. TypeOK'
  <2>1. IsFiniteSet(all)
    BY <1>0, FS_AddElement DEF TypeOK
  <2>2. mMaxDepth' \in Nat \cup {-1}
    BY <1>0, <1>4, <1>12 DEF TypeOK
  <2>3. DOMAIN node' = all
    BY <1>2
  <2>4. \A w \in all : node'[w] \in Node
    BY <1>10, <1>11
  <2>5. node' \in [all -> Node]
    <3>1. node' = [w \in all |-> node'[w]]
      BY <1>2
    <3>2. QED
      BY <2>4, <3>1
  <2>6. QED
    BY <1>0, <1>3, <2>1, <2>2, <2>5 DEF TypeOK
<1>14. RootInv'
  <2>1. mRoot # NoValue /\ mRoot \in mTreeMap /\ node[mRoot].parent = NoValue
        /\ node[mRoot].depth = 0 /\ node[mRoot].next = NoValue
    BY <1>0, <1>1 DEF RootInv
  <2>2. mRoot # last
    BY <1>0, <1>1, <1>8, <2>1, NodeFacts
  <2>3. node'[mRoot].parent = NoValue /\ node'[mRoot].depth = 0 /\ node'[mRoot].next = NoValue
    BY <1>11, <2>1, <2>2
  <2>4. QED
    BY <1>3, <2>1, <2>3 DEF RootInv
<1>15. ParentInv'
  <2>1. ASSUME NEW u \in all \ {mRoot}
        PROVE  /\ node'[u].parent \in all
               /\ node'[u].depth = node'[node'[u].parent].depth + 1
               /\ \E i \in DOMAIN node'[node'[u].parent].children :
                    node'[node'[u].parent].children[i] = u
    <3>1. CASE u = c
      <4>1. node'[p].children = longer /\ node'[p].depth = node[p].depth
        BY <1>1, <1>11
      <4>2. n + 1 \in DOMAIN longer /\ longer[n + 1] = c
        BY <1>4, <1>9
      <4> HIDE DEF longer
      <4>3. QED
        BY <1>1, <1>10, <3>1, <4>1, <4>2
    <3>2. CASE u # c
      <4> DEFINE q == node[u].parent
      <4>1. /\ u \in mTreeMap /\ q \in mTreeMap /\ node[u].depth = node[q].depth + 1
            /\ \E i \in DOMAIN node[q].children : node[q].children[i] = u
        BY <1>0, <3>2 DEF ParentInv
      <4>2. node'[u].parent = q /\ node'[u].depth = node'[q].depth + 1
        BY <1>11, <4>1
      <4>3. \E i \in DOMAIN node'[q].children : node'[q].children[i] = u
        <5>1. CASE q # p
          BY <1>11, <4>1, <5>1
        <5>2. CASE q = p
          <6>1. PICK i \in 1..n : siblings[i] = u
            BY <1>4, <4>1, <5>2
          <6>2. i \in DOMAIN longer /\ longer[i] = u
            BY <1>4, <1>9, <6>1
          <6>3. node'[q].children = longer
            BY <1>1, <1>11, <5>2
          <6> HIDE DEF longer
          <6>4. QED
            BY <6>2, <6>3
        <5>3. QED
          BY <5>1, <5>2
      <4>4. QED
        BY <4>1, <4>2, <4>3
    <3>3. QED
      BY <3>1, <3>2
  <2>2. QED
    BY <1>3, <2>1 DEF ParentInv
<1>16. ASSUME NEW i \in 1..(n + 1)
       PROVE  /\ longer[i] \in all /\ node'[longer[i]].parent = p
              /\ node'[longer[i]].prev = IF i = 1 THEN NoValue ELSE longer[i - 1]
              /\ node'[longer[i]].next = IF i = n + 1 THEN NoValue ELSE longer[i + 1]
  <2> HIDE DEF longer
  <2>1. CASE i = n + 1
    <3>1. (n = 0 <=> i = 1) /\ (n # 0 => n \in 1..n /\ i - 1 = n)
      BY <1>4, <2>1
    <3>2. longer[i] = c /\ (n # 0 => longer[n] = siblings[n])
      BY <1>9, <2>1, <3>1
    <3>3. last = IF i = 1 THEN NoValue ELSE longer[i - 1]
      <4> HIDE DEF siblings, n
      <4>1. QED
        BY <1>5, <3>1, <3>2
    <3>4. QED
      BY <1>10, <2>1, <3>2, <3>3
  <2>2. CASE i # n + 1
    <3>1. i \in 1..n /\ (i # 1 => i - 1 \in 1..n) /\ (i # n => i + 1 \in 1..n)
      BY <1>4, <2>2
    <3>2. longer[i] = siblings[i] /\ (i # 1 => longer[i - 1] = siblings[i - 1])
      BY <1>9, <3>1
    <3>3. longer[i + 1] = IF i = n THEN c ELSE siblings[i + 1]
      BY <1>9, <3>1
    <3>4. siblings[i] = last <=> i = n
      <4>1. n # 0 /\ n \in 1..n
        BY <1>4, <3>1
      <4>2. last = siblings[n]
        BY <1>5, <4>1
      <4>3. QED
        BY <1>7, <3>1, <4>1, <4>2
    <3> HIDE DEF siblings, n
    <3>5. /\ siblings[i] \in mTreeMap /\ node[siblings[i]].parent = p
          /\ node[siblings[i]].prev = IF i = 1 THEN NoValue ELSE siblings[i - 1]
          /\ node[siblings[i]].next = IF i = n THEN NoValue ELSE siblings[i + 1]
      BY <1>6, <3>1
    <3> DEFINE s == siblings[i]
    <3>6. /\ node'[s].parent = node[s].parent
          /\ node'[s].prev = node[s].prev
          /\ node'[s].next = IF s = last THEN c ELSE node[s].next
      BY <1>11, <3>5
    <3>7. node'[s].next = longer[i + 1]
      BY <3>3, <3>4, <3>5, <3>6
    <3>8. node'[s].prev = IF i = 1 THEN NoValue ELSE longer[i - 1]
      BY <3>2, <3>5, <3>6
    <3>9. QED
      BY <2>2, <3>2, <3>5, <3>6, <3>7, <3>8
  <2>3. QED
    BY <2>1, <2>2
<1>17. \A i, j \in 1..(n + 1) : longer[i] = longer[j] => i = j
  <2> HIDE DEF longer
  <2>1. \A i \in 1..(n + 1) : i = n + 1 \/ i \in 1..n
    BY <1>4
  <2>2. \A i \in 1..n : longer[i] = siblings[i] /\ siblings[i] # c
    BY <1>1, <1>6, <1>9
  <2>3. \A i \in 1..n : longer[i] # c
    BY <2>2
  <2>4. longer[n + 1] = c
    BY <1>9
  <2>5. \A i, j \in 1..n : longer[i] = longer[j] => i = j
    BY <1>7, <2>2
  <2> HIDE DEF n
  <2>6. QED
    BY <2>1, <2>3, <2>4, <2>5
<1>18. ChildInv'
  <2>1. ASSUME NEW w \in all
        PROVE  /\ \A i \in DOMAIN node'[w].children :
                    LET l == node'[w].children
                    IN /\ l[i] \in all
                       /\ node'[l[i]].parent = w
                       /\ node'[l[i]].prev = IF i = 1 THEN NoValue ELSE l[i - 1]
                       /\ node'[l[i]].next = IF i = Len(l) THEN NoValue ELSE l[i + 1]
               /\ \A i, j \in DOMAIN node'[w].children :
                    node'[w].children[i] = node'[w].children[j] => i = j
    <3>1. CASE w = c
      <4>1. DOMAIN (<<>>) = {}
        OBVIOUS
      <4>2. DOMAIN node'[w].children = {}
        BY <1>10, <3>1, <4>1
      <4>3. QED
        BY <4>2
    <3>2. CASE w = p
      <4>1. node'[w].children = longer
        BY <1>1, <1>11, <3>2
      <4> HIDE DEF longer
      <4>2. \A i \in DOMAIN longer :
              /\ longer[i] \in all
              /\ node'[longer[i]].parent = p
              /\ node'[longer[i]].prev = IF i = 1 THEN NoValue ELSE longer[i - 1]
              /\ node'[longer[i]].next = IF i = Len(longer) THEN NoValue ELSE longer[i + 1]
        BY <1>9, <1>16
      <4>3. \A i, j \in DOMAIN longer : longer[i] = longer[j] => i = j
        BY <1>9, <1>17
      <4>4. QED
        BY <3>2, <4>1, <4>2, <4>3
    <3>3. CASE w # c /\ w # p
      <4>1. node'[w].children = node[w].children /\ w \in mTreeMap
        BY <1>11, <3>3
      <4>2. ASSUME NEW i \in DOMAIN node[w].children
            PROVE  LET l == node[w].children
                   IN /\ l[i] \in all
                      /\ node'[l[i]].parent = w
                      /\ node'[l[i]].prev = IF i = 1 THEN NoValue ELSE l[i - 1]
                      /\ node'[l[i]].next = IF i = Len(l) THEN NoValue ELSE l[i + 1]
        <5> DEFINE s == node[w].children[i]
        <5>1. /\ s \in mTreeMap /\ node[s].parent = w
              /\ node[s].prev = IF i = 1 THEN NoValue ELSE node[w].children[i - 1]
              /\ node[s].next = IF i = Len(node[w].children) THEN NoValue ELSE node[w].children[i + 1]
          BY <1>0, <4>1 DEF ChildInv
        <5>2. s # last
          BY <1>0, <1>8, <3>3, <5>1, NodeFacts
        <5>3. QED
          BY <1>11, <5>1, <5>2
      <4>3. \A i, j \in DOMAIN node[w].children :
              node[w].children[i] = node[w].children[j] => i = j
        BY <1>0, <4>1 DEF ChildInv
      <4>4. QED
        BY <4>1, <4>2, <4>3
    <3>4. QED
      BY <3>1, <3>2, <3>3
  <2>2. QED
    BY <1>3, <2>1 DEF ChildInv
<1>19. DepthInv'
  <2>1. \A w \in mTreeMap : node'[w].depth = node[w].depth /\ node[w].depth \in Nat /\ node[w].depth <= mMaxDepth
    BY <1>0, <1>11, NodeFacts DEF DepthInv
  <2>2. mMaxDepth \in Int /\ mMaxDepth' \in Int
    BY <1>0, <1>4, <1>12 DEF TypeOK
  <2>3. \A w \in all : node'[w].depth <= mMaxDepth'
    BY <1>10, <1>12, <2>1, <2>2
  <2>4. \A w \in mTreeMap : node[w].depth \in {node'[u].depth : u \in all}
    BY <2>1
  <2>5. node[p].depth + 1 \in {node'[u].depth : u \in all}
    BY <1>10
  <2>6. mMaxDepth' \in {-1} \cup {node'[u].depth : u \in all}
    BY <1>0, <1>12, <2>4, <2>5 DEF DepthInv
  <2>7. QED
    BY <1>3, <2>3, <2>6 DEF DepthInv
<1>20. QED
  BY <1>1, <1>3, <1>10, <1>11, <1>13, <1>14, <1>15, <1>18, <1>19 DEF TreeInv

LEMMA InitHolds ==
  ASSUME Init PROVE TreeInv
<1>1. node = [v \in {} |-> NoValue] /\ mRoot = NoValue /\ mTreeMap = {} /\ mMaxDepth = -1
  BY DEF Init
<1>2. IsFiniteSet({}) /\ [v \in {} |-> NoValue] \in [{} -> Node]
  BY FS_EmptySet
<1>3. TypeOK
  BY <1>1, <1>2 DEF TypeOK
<1>4. RootInv /\ ParentInv /\ ChildInv /\ DepthInv
  BY <1>1 DEF RootInv, ParentInv, ChildInv, DepthInv
<1>5. QED
  BY <1>3, <1>4 DEF TreeInv

LEMMA NextKeeps ==
  ASSUME TreeInv, [Next]_vars PROVE TreeInv'
<1>1. ASSUME NEW v \in Values, Root(v) PROVE TreeInv'
  BY <1>1, RootKeeps
<1>2. ASSUME NEW v \in Values, RemoveNode(v) PROVE TreeInv'
  BY <1>2, RemoveNodeKeeps
<1>3. ASSUME NEW v \in Values, RemoveChildren(v) PROVE TreeInv'
  BY <1>3, RemoveChildrenKeeps
<1>4. ASSUME NEW p \in Values, NEW c \in Values, AppendNode(p, c) PROVE TreeInv'
  BY <1>4, AppendNodeKeeps
<1>5. ASSUME ClearTree PROVE TreeInv'
  BY <1>5, ClearTreeKeeps
<1>6. CASE UNCHANGED vars
  <2>1. node' = node /\ mRoot' = mRoot /\ mTreeMap' = mTreeMap /\ mMaxDepth' = mMaxDepth
    BY <1>6 DEF vars
  <2>2. TypeOK' /\ RootInv' /\ ParentInv' /\ ChildInv' /\ DepthInv'
    BY <2>1 DEF TreeInv, TypeOK, RootInv, ParentInv, ChildInv, DepthInv
  <2>3. QED
    BY <2>2 DEF TreeInv
<1>7. QED
  BY <1>1, <1>2, <1>3, <1>4, <1>5, <1>6 DEF Next

-----------------------------------------------------------------------------
(* The properties.                                                         *)

\* The invariant is inductive: whatever Tree's operations are called with, the
\* nodes, the map, the links and the depths stay those of one tree.
THEOREM TreeHolds == Spec => []TreeInv
<1>1. Init => TreeInv
  BY InitHolds
<1>2. TreeInv /\ [Next]_vars => TreeInv'
  BY NextKeeps
<1>3. QED
  BY <1>1, <1>2, PTL DEF Spec

\* No node is leaked and none dangles: what the links between siblings take off
\* the map is what the lists of children free.
THEOREM MapIsTheTree == Spec => []MapIsTree
<1>1. TreeInv => MapIsTree
  <2> SUFFICES ASSUME TreeInv PROVE MapIsTree
    OBVIOUS
  <2>1. DOMAIN node = mTreeMap
    BY DEF TreeInv, TypeOK
  <2>2. mRoot = NoValue => mTreeMap = {}
    BY DEF TreeInv, RootInv
  <2>3. mRoot # NoValue => mTreeMap = {mRoot} \cup ListedBelow(mRoot)
    <3>1. mRoot # NoValue => mRoot \in mTreeMap
      BY DEF TreeInv, RootInv
    <3>2. QED
      BY <3>1, AllBelowRoot, ListedIs
  <2>4. QED
    BY <2>1, <2>2, <2>3 DEF MapIsTree
<1>2. QED
  BY <1>1, TreeHolds, PTL

\* The three ways a child is linked to its parent and its siblings agree after
\* every operation.
THEOREM LinksAlwaysAgree == Spec => []LinksAgree
<1>1. TreeInv => LinksAgree
  <2> SUFFICES ASSUME TreeInv PROVE LinksAgree
    OBVIOUS
  <2>1. DOMAIN node = mTreeMap /\ RootInv /\ ParentInv /\ ChildInv /\ TypeOK
    BY DEF TreeInv, TypeOK
  <2>2. ASSUME NEW v \in DOMAIN node, node[v].parent # NoValue
        PROVE  \E i \in DOMAIN node[node[v].parent].children : node[node[v].parent].children[i] = v
    <3>1. v # mRoot
      BY <2>1, <2>2, NodeFacts DEF RootInv
    <3>2. QED
      BY <2>1, <3>1 DEF ParentInv
  <2>3. ASSUME NEW v \in DOMAIN node, NEW i \in DOMAIN node[v].children
        PROVE  LET list == node[v].children
                   child == node[list[i]]
               IN /\ child.parent = v
                  /\ child.prev = IF i = 1 THEN NoValue ELSE list[i - 1]
                  /\ child.next = IF i = Len(list) THEN NoValue ELSE list[i + 1]
    BY <2>1 DEF ChildInv
  <2>4. QED
    BY <2>2, <2>3 DEF LinksAgree
<1>2. QED
  BY <1>1, TreeHolds, PTL

\* A node's depth counts its ancestors and the maximum is that of the nodes
\* there are, also after the deepest branch is cut.
THEOREM DepthsAlwaysRight == Spec => []DepthsRight
<1>1. TreeInv => DepthsRight
  <2> SUFFICES ASSUME TreeInv PROVE DepthsRight
    OBVIOUS
  <2>1. DOMAIN node = mTreeMap /\ RootInv /\ ParentInv /\ DepthInv /\ TypeOK
    BY DEF TreeInv, TypeOK
  <2>2. ASSUME NEW v \in DOMAIN node
        PROVE  node[v].depth = IF v = mRoot THEN 0 ELSE node[node[v].parent].depth + 1
    <3>1. CASE v = mRoot
      BY <2>1, <3>1, NodeFacts DEF RootInv
    <3>2. CASE v # mRoot
      BY <2>1, <3>2 DEF ParentInv
    <3>3. QED
      BY <3>1, <3>2
  <2> DEFINE S == {-1} \cup {node[v].depth : v \in mTreeMap}
  <2>3. \A v \in mTreeMap : node[v].depth \in Nat
    BY <2>1, NodeFacts
  <2>4. S \in SUBSET Int /\ mMaxDepth \in S
    BY <2>1, <2>3 DEF DepthInv
  <2>5. \A x \in S : x <= mMaxDepth
    <3>1. -1 <= mMaxDepth
      BY <2>1 DEF TypeOK
    <3>2. QED
      BY <2>1, <3>1 DEF DepthInv
  <2>6. Max(S) = mMaxDepth
    <3> HIDE DEF S
    <3>1. QED
      BY <2>4, <2>5, MaxIs
  <2>7. mMaxDepth = MaxDepth(mTreeMap)
    BY <2>6 DEF MaxDepth
  <2>8. QED
    BY <2>2, <2>7 DEF DepthsRight
<1>2. QED
  BY <1>1, TreeHolds, PTL

-----------------------------------------------------------------------------
(* The refinement of RootedTree.                                           *)

\* The branch of v, as the climb to the ancestors finds it.
LEMMA BranchIs ==
  ASSUME TreeInv, NEW v \in mTreeMap
  PROVE  Abstract!Branch(v) = {v} \cup Below(v)
<1> DEFINE tree == [w \in mTreeMap |-> node[w].parent]
           Solves(f) == f = [w \in DOMAIN tree |-> w = v \/ (tree[w] # NoValue /\ f[tree[w]])]
           climbs == CHOOSE f : Solves(f)
           known == [w \in mTreeMap |-> w \in {v} \cup Below(v)]
           rank == [w \in mTreeMap |-> node[w].depth]
           wrong == {w \in mTreeMap : ~(climbs[w] <=> w \in {v} \cup Below(v))}
<1>0. TypeOK /\ RootInv /\ ParentInv
  BY DEF TreeInv
<1>1. Abstract!Branch(v) = {w \in mTreeMap : climbs[w]}
  <2>1. DOMAIN tree = mTreeMap
    OBVIOUS
  <2>2. Abstract!Branch(v) = {w \in DOMAIN tree : climbs[w]}
    BY DEF Abstract!Branch, Abstract!BranchOf
  <2>3. QED
    BY <2>1, <2>2
<1>2. ASSUME NEW w \in mTreeMap
      PROVE  w \in {v} \cup Below(v) <=>
               w = v \/ (node[w].parent # NoValue /\ node[w].parent \in {v} \cup Below(v))
  <2>1. CASE w = mRoot
    <3>1. node[w].parent = NoValue /\ w \notin Below(v)
      BY <1>0, <2>1, NodeFacts, BelowParents DEF RootInv
    <3>2. QED
      BY <3>1
  <2>2. CASE w # mRoot
    <3>1. node[w].parent \in mTreeMap /\ w \in kids[node[w].parent]
      BY <1>0, <2>2, KidsFacts DEF ParentInv
    <3>2. node[w].parent # NoValue
      BY <1>0, <3>1, NodeFacts
    <3>3. node[w].parent \in {v} \cup Below(v) => w \in Below(v)
      BY <3>1, BelowFacts
    <3>4. w \in Below(v) => node[w].parent \in {v} \cup Below(v)
      BY BelowParents
    <3>5. QED
      BY <3>2, <3>3, <3>4
  <2>3. QED
    BY <2>1, <2>2
<1>3. ASSUME NEW w \in mTreeMap, node[w].parent # NoValue
      PROVE  node[w].parent \in mTreeMap /\ node[w].depth = node[node[w].parent].depth + 1
  <2>1. w # mRoot
    BY <1>0, <1>3, NodeFacts DEF RootInv
  <2>2. QED
    BY <1>0, <2>1 DEF ParentInv
<1>4. Solves(known)
  <2>1. \A w \in mTreeMap : known[w] = (w = v \/ (tree[w] # NoValue /\ known[tree[w]]))
    <3>1. ASSUME NEW w \in mTreeMap
          PROVE  known[w] = (w = v \/ (node[w].parent # NoValue /\ known[node[w].parent]))
      <4>1. known[w] = (w \in {v} \cup Below(v))
        OBVIOUS
      <4>2. node[w].parent # NoValue => known[node[w].parent] = (node[w].parent \in {v} \cup Below(v))
        BY <1>3
      <4> HIDE DEF known
      <4>3. (w \in {v} \cup Below(v)) =
              (w = v \/ (node[w].parent # NoValue /\ node[w].parent \in {v} \cup Below(v)))
        BY <1>2
      <4>4. CASE node[w].parent = NoValue
        BY <4>1, <4>3, <4>4
      <4>5. CASE node[w].parent # NoValue
        BY <4>1, <4>2, <4>3, <4>5
      <4>6. QED
        BY <4>4, <4>5
    <3> HIDE DEF known
    <3>2. QED
      BY <3>1
  <2>2. DOMAIN tree = mTreeMap
    OBVIOUS
  <2>3. QED
    BY <2>1, <2>2
<1>5. Solves(climbs)
  <2> HIDE DEF Solves
  <2>1. QED
    BY <1>4
<1> HIDE DEF climbs, known
<1>6. \A w \in mTreeMap : climbs[w] <=> (w = v \/ (node[w].parent # NoValue /\ climbs[node[w].parent]))
  BY <1>5
<1> HIDE DEF Solves
<1>7. rank \in [mTreeMap -> Nat]
  BY <1>0, NodeFacts
<1>8. ASSUME wrong # {} PROVE FALSE
  <2>1. wrong \in SUBSET mTreeMap
    OBVIOUS
  <2>2. PICK w \in wrong : \A x \in wrong : rank[w] <= rank[x]
    <3> HIDE DEF wrong, rank
    <3>1. QED
      BY <1>7, <1>8, <2>1, LeastRank
  <2>3. w \in mTreeMap /\ ~(climbs[w] <=> w \in {v} \cup Below(v))
    OBVIOUS
  <2>4. CASE node[w].parent = NoValue
    BY <1>2, <1>6, <2>3, <2>4
  <2>5. CASE node[w].parent # NoValue
    <3> DEFINE p == node[w].parent
    <3>1. p \in mTreeMap /\ node[w].depth = node[p].depth + 1
      BY <1>3, <2>3, <2>5
    <3>2. node[p].depth \in Nat
      BY <1>0, <3>1, NodeFacts
    <3>3. p \notin wrong
      <4>1. ~(node[w].depth <= node[p].depth)
        BY <3>1, <3>2
      <4>2. ~(rank[w] <= rank[p])
        BY <2>3, <3>1, <4>1
      <4> HIDE DEF wrong, rank
      <4>3. QED
        BY <2>2, <4>2
    <3>4. climbs[p] <=> p \in {v} \cup Below(v)
      BY <3>1, <3>3
    <3>5. QED
      BY <1>2, <1>6, <2>3, <2>5, <3>4
  <2>6. QED
    BY <2>4, <2>5
<1>9. \A w \in mTreeMap : climbs[w] <=> w \in {v} \cup Below(v)
  BY <1>8
<1>10. {v} \cup Below(v) \subseteq mTreeMap
  BY BelowFacts
<1>11. QED
  BY <1>1, <1>9, <1>10

LEMMA StepRefines ==
  ASSUME TreeInv, [Next]_vars
  PROVE  [Abstract!Next]_([v \in mTreeMap |-> node[v].parent])
<1> DEFINE tree == [w \in mTreeMap |-> node[w].parent]
<1>0. DOMAIN tree = mTreeMap /\ mTreeMap \subseteq Values
  BY DEF TreeInv, TypeOK
<1>1. ASSUME NEW v \in Values, Root(v) PROVE Abstract!Plant(v)
  <2>1. mTreeMap' = {v} /\ node' = [w \in {v} |-> Leaf(NoValue, 0, NoValue)]
    BY <1>1 DEF Root
  <2>2. tree' = [w \in {v} |-> NoValue]
    BY <2>1 DEF Leaf
  <2>3. QED
    BY <2>2 DEF Abstract!Plant
<1>2. ASSUME NEW p \in Values, NEW c \in Values, AppendNode(p, c) PROVE Abstract!Grow(p, c)
  <2>1. /\ p \in mTreeMap /\ c \notin mTreeMap /\ mTreeMap' = mTreeMap \cup {c}
        /\ \A w \in mTreeMap' : node'[w].parent = IF w = c THEN p ELSE node[w].parent
    BY <1>2, AppendNodeKeeps
  <2>2. tree' = [w \in mTreeMap \cup {c} |-> IF w = c THEN p ELSE tree[w]]
    BY <2>1
  <2>3. QED
    BY <1>0, <2>1, <2>2 DEF Abstract!Grow, Abstract!InTree
<1>3. ASSUME NEW v \in Values, RemoveNode(v) PROVE v \in mTreeMap /\ Abstract!Cut(v)
  <2>1. /\ v \in mTreeMap /\ mTreeMap' = mTreeMap \ ({v} \cup Below(v))
        /\ \A w \in mTreeMap' : node'[w].parent = node[w].parent
    BY <1>3, RemoveNodeKeeps
  <2>2. tree' = [w \in mTreeMap \ ({v} \cup Below(v)) |-> tree[w]]
    BY <2>1
  <2>3. Abstract!Branch(v) = {v} \cup Below(v)
    BY <2>1, BranchIs
  <2>4. QED
    BY <1>0, <2>1, <2>2, <2>3 DEF Abstract!Cut, Abstract!Keep, Abstract!InTree
<1>4. ASSUME NEW v \in Values, RemoveChildren(v) PROVE v \in mTreeMap /\ Abstract!CutAbove(v)
  <2>1. /\ v \in mTreeMap /\ mTreeMap' = mTreeMap \ Below(v)
        /\ \A w \in mTreeMap' : node'[w].parent = node[w].parent
    BY <1>4, RemoveChildrenKeeps
  <2>2. v \notin Below(v)
    BY <2>1, BelowParents
  <2>3. mTreeMap \ Below(v) = (mTreeMap \ ({v} \cup Below(v))) \cup {v}
    BY <2>1, <2>2
  <2>4. tree' = [w \in mTreeMap \ Below(v) |-> tree[w]]
    BY <2>1
  <2>5. Abstract!Branch(v) = {v} \cup Below(v)
    BY <2>1, BranchIs
  <2>6. QED
    BY <1>0, <2>1, <2>3, <2>4, <2>5 DEF Abstract!CutAbove, Abstract!Keep, Abstract!InTree
<1>5. ASSUME ClearTree PROVE tree' = tree \/ (mRoot \in mTreeMap /\ Abstract!Cut(mRoot))
  <2>1. mTreeMap' = {}
    BY <1>5, ClearTreeKeeps
  <2>2. CASE mRoot = NoValue
    <3>1. mTreeMap = {}
      BY <2>2 DEF TreeInv, RootInv
    <3>2. QED
      BY <2>1, <3>1
  <2>3. CASE mRoot # NoValue
    <3>1. mRoot \in mTreeMap
      BY <2>3 DEF TreeInv, RootInv
    <3>2. Abstract!Branch(mRoot) = mTreeMap
      BY <2>3, <3>1, AllBelowRoot, BranchIs
    <3>3. mTreeMap \ mTreeMap = {}
      OBVIOUS
    <3>4. tree' = [w \in {} |-> tree[w]]
      BY <2>1
    <3>5. QED
      BY <1>0, <3>1, <3>2, <3>3, <3>4 DEF Abstract!Cut, Abstract!Keep, Abstract!InTree
  <2>4. QED
    BY <2>2, <2>3
<1>6. ASSUME UNCHANGED vars PROVE tree' = tree
  BY <1>6 DEF vars
<1>7. \A v \in mTreeMap : v \in Abstract!InTree
  BY <1>0 DEF Abstract!InTree
<1>8. ASSUME NEW v \in Values, Root(v) \/ RemoveNode(v) \/ RemoveChildren(v) PROVE Abstract!Next
  BY <1>1, <1>3, <1>4, <1>7, <1>8 DEF Abstract!Next
<1>9. ASSUME NEW p \in Values, NEW c \in Values, AppendNode(p, c) PROVE Abstract!Next
  BY <1>2, <1>9 DEF Abstract!Next
<1>10. ASSUME ClearTree PROVE tree' = tree \/ Abstract!Next
  BY <1>5, <1>7, <1>10 DEF Abstract!Next
<1> HIDE DEF tree
<1>11. Abstract!Next \/ tree' = tree
  BY <1>6, <1>8, <1>9, <1>10 DEF Next
<1>12. QED
  BY <1>11 DEF tree

\* The pointer work of Tree's operations amounts to planting, growing and
\* cutting a tree of values: Tree implements RootedTree.
THEOREM TreeImplements == Spec => IsRootedTree
<1>1. Init => Abstract!Init
  BY DEF Init, Abstract!Init
<1>2. TreeInv /\ [Next]_vars => [Abstract!Next]_([v \in mTreeMap |-> node[v].parent])
  BY StepRefines
<1>3. QED
  BY <1>1, <1>2, TreeHolds, PTL DEF Spec, IsRootedTree, Abstract!Spec

-----------------------------------------------------------------------------
(* The walk of getNodeIds.                                                 *)

\* What the links lead to after w and all that is below it.
Later(w) == IF node[w].next = NoValue THEN {} ELSE Reach(mTreeMap, links, node[w].next)

\* The climb from a node, to v at the most.
ups(v) == [w \in mTreeMap |-> IF w = v \/ w = mRoot THEN {} ELSE {node[w].parent}]

\* What a walk below v still has to visit once it is through with w's branch.
Aside(v, w) == UNION {IF a = v THEN {} ELSE Later(a) : a \in Reach(mTreeMap, ups(v), w)}

\* What it still has to visit when it comes to w.
Rest(v, w) == {w} \cup Below(w) \cup Aside(v, w)

LEMMA LaterFacts ==
  ASSUME TreeInv, NEW w \in mTreeMap
  PROVE  /\ Reach(mTreeMap, links, w) = {w} \cup Below(w) \cup Later(w)
         /\ Later(w) \subseteq mTreeMap
         /\ node[w].next # NoValue =>
              /\ node[w].next \in mTreeMap
              /\ Later(w) = {node[w].next} \cup Below(node[w].next) \cup Later(node[w].next)
<1>1. links \in [mTreeMap -> SUBSET mTreeMap]
  BY LinksFacts
<1>2. ASSUME NEW x \in mTreeMap
      PROVE  Reach(mTreeMap, links, x) = {x} \cup Below(x) \cup Later(x)
  <2>1. Reach(mTreeMap, links, x) = {x} \cup UNION {Reach(mTreeMap, links, s) : s \in links[x]}
    BY <1>1, ReachUnfolds
  <2>2. links[x] = {first(x), node[x].next} \ {NoValue}
    BY DEF links
  <2>3. Below(x) = IF first(x) = NoValue THEN {} ELSE Reach(mTreeMap, links, first(x))
    BY LinksReachBelow
  <2>4. UNION {Reach(mTreeMap, links, s) : s \in links[x]} = Below(x) \cup Later(x)
    BY <2>2, <2>3 DEF Later
  <2>5. QED
    BY <2>1, <2>4
<1>3. node[w].next # NoValue => node[w].next \in mTreeMap
  <2>1. node[w].next # NoValue => node[w].next \in links[w]
    BY DEF links
  <2>2. QED
    BY <1>1, <2>1
<1>4. Later(w) \subseteq mTreeMap
  BY <1>1, <1>3, ReachFacts DEF Later
<1>5. node[w].next # NoValue =>
        Later(w) = {node[w].next} \cup Below(node[w].next) \cup Later(node[w].next)
  <2>1. ASSUME node[w].next # NoValue
        PROVE  Later(w) = {node[w].next} \cup Below(node[w].next) \cup Later(node[w].next)
    <3>1. Later(w) = Reach(mTreeMap, links, node[w].next)
      BY <2>1 DEF Later
    <3>2. QED
      BY <1>2, <1>3, <2>1, <3>1
  <2>2. QED
    BY <2>1
<1>6. QED
  BY <1>2, <1>3, <1>4, <1>5

\* Different children of a node have nothing below them in common.
LEMMA BranchesApart ==
  ASSUME TreeInv, NEW p \in mTreeMap, NEW c \in kids[p], NEW d \in kids[p], c # d
  PROVE  ({c} \cup Below(c)) \cap ({d} \cup Below(d)) = {}
<1> DEFINE shared == ({c} \cup Below(c)) \cap ({d} \cup Below(d))
           rank == [w \in mTreeMap |-> node[w].depth]
<1>0. TypeOK
  BY DEF TreeInv
<1>1. c \in mTreeMap /\ d \in mTreeMap /\ node[c].depth = node[p].depth + 1 /\ node[d].depth = node[p].depth + 1
  <2>1. kids[p] \subseteq mTreeMap
    BY KidsFacts
  <2>2. QED
    BY <2>1, KidsFacts
<1>2. shared \in SUBSET mTreeMap
  BY <1>1, BelowFacts
<1>3. rank \in [mTreeMap -> Nat]
  BY <1>0, NodeFacts
<1>4. node[c].depth \in Nat /\ node[d].depth = node[c].depth
  BY <1>0, <1>1, NodeFacts
<1>5. ASSUME shared # {} PROVE FALSE
  <2>1. PICK x \in shared : \A y \in shared : rank[x] <= rank[y]
    <3> HIDE DEF shared, rank
    <3>1. QED
      BY <1>2, <1>3, <1>5, LeastRank
  <2>2. x # c
    <3>1. c \in Below(d) => node[c].depth > node[d].depth
      BY <1>1, BelowParents
    <3>2. c \notin Below(d)
      BY <1>4, <3>1
    <3>3. QED
      BY <3>2
  <2>3. x # d
    <3>1. d \in Below(c) => node[d].depth > node[c].depth
      BY <1>1, BelowParents
    <3>2. d \notin Below(c)
      BY <1>4, <3>1
    <3>3. QED
      BY <3>2
  <2>4. x \in Below(c) /\ x \in Below(d) /\ x \in mTreeMap
    BY <1>2, <2>2, <2>3
  <2> DEFINE q == node[x].parent
  <2>5. q \in shared /\ x # mRoot
    BY <1>1, <2>4, BelowParents
  <2>6. node[x].depth = node[q].depth + 1 /\ q \in mTreeMap
    BY <2>4, <2>5 DEF TreeInv, ParentInv
  <2>7. node[q].depth \in Nat
    BY <1>0, <2>6, NodeFacts
  <2>8. ~(rank[x] <= rank[q])
    BY <2>4, <2>6, <2>7
  <2>9. QED
    BY <2>1, <2>5, <2>8
<1>6. QED
  BY <1>5

\* What comes later is not in w's branch.
LEMMA LaterApart ==
  ASSUME TreeInv, NEW w \in mTreeMap
  PROVE  Later(w) \cap ({w} \cup Below(w)) = {}
<1>0. TypeOK /\ ParentInv /\ ChildInv
  BY DEF TreeInv
<1>1. CASE node[w].next = NoValue
  BY <1>1 DEF Later
<1>2. CASE node[w].next # NoValue
  <2> DEFINE p == node[w].parent
             list == node[p].children
             n == Len(list)
             After(i) == {x \in mTreeMap : \E j \in 1..n : i < j /\ x \in {list[j]} \cup Below(list[j])}
  <2>1. w # mRoot /\ p \in mTreeMap /\ w \in kids[p]
    <3>1. w # mRoot
      BY <1>2, LinksFacts
    <3>2. QED
      BY <1>0, <3>1, KidsFacts DEF ParentInv
  <2>2. n \in Nat /\ DOMAIN list = 1..n
    BY <1>0, <2>1, NodeFacts
  <2>3. PICK i \in 1..n : list[i] = w
    BY <1>0, <2>1, <2>2 DEF ParentInv
  <2>4. \A j \in 1..n : list[j] \in kids[p] /\ list[j] \in mTreeMap
    <3>1. \A j \in 1..n : list[j] \in kids[p]
      BY <2>1, <2>2 DEF kids, ToSet
    <3>2. QED
      BY <2>1, <3>1, KidsFacts
  <2>5. ASSUME NEW j \in 1..n
        PROVE  node[list[j]].next = IF j = n THEN NoValue ELSE list[j + 1]
    <3>1. j \in DOMAIN node[p].children
      BY <2>2
    <3>2. QED
      BY <1>0, <2>1, <3>1 DEF ChildInv
  <2>6. \A j \in 1..n : i < j => list[j] # w
    <3>1. \A j, k \in DOMAIN list : list[j] = list[k] => j = k
      BY <1>0, <2>1 DEF ChildInv
    <3>2. QED
      BY <2>2, <2>3, <3>1
  <2>7. ASSUME NEW x \in After(i) PROVE links[x] \subseteq After(i)
    <3>1. PICK j \in 1..n : i < j /\ x \in {list[j]} \cup Below(list[j])
      OBVIOUS
    <3> DEFINE s == list[j]
    <3>2. s \in mTreeMap /\ x \in mTreeMap
      BY <2>4
    <3>3. Below(s) \subseteq After(i)
      BY <3>1, <3>2, BelowFacts
    <3>4. kids[x] \subseteq Below(s)
      BY <3>1, <3>2, BelowFacts
    <3>5. first(x) # NoValue => first(x) \in After(i)
      <4>1. first(x) # NoValue => first(x) \in kids[x]
        BY <3>2, LinksFacts
      <4> HIDE DEF After, s
      <4>2. QED
        BY <3>3, <3>4, <4>1
    <3>6. node[x].next # NoValue => node[x].next \in After(i)
      <4>1. CASE x = s
        <5>1. j # n => j + 1 \in 1..n /\ i < j + 1 /\ list[j + 1] \in mTreeMap
          <6>1. j # n => j + 1 \in 1..n /\ i < j + 1
            BY <2>2, <2>3, <3>1
          <6>2. QED
            BY <2>4, <6>1
        <5>2. j # n => list[j + 1] \in After(i)
          BY <5>1
        <5>3. node[x].next = IF j = n THEN NoValue ELSE list[j + 1]
          BY <2>5, <4>1
        <5> HIDE DEF After
        <5>4. QED
          BY <5>2, <5>3
      <4>2. CASE x # s
        <5>1. x \in Below(s)
          BY <3>1, <4>2
        <5>2. node[x].parent \in Below(s) \cup {s}
          BY <3>2, <5>1, BelowParents
        <5>3. kids[node[x].parent] \subseteq Below(s)
          BY <3>2, <5>2, BelowFacts
        <5>4. node[x].next # NoValue => node[x].next \in kids[node[x].parent]
          BY <3>2, LinksFacts
        <5> HIDE DEF After, s
        <5>5. QED
          BY <3>3, <5>3, <5>4
      <4>3. QED
        BY <4>1, <4>2
    <3> HIDE DEF After
    <3>7. QED
      BY <3>2, <3>5, <3>6 DEF links
  <2>8. node[w].next \in After(i)
    <3>1. i # n /\ node[w].next = list[i + 1]
      BY <1>2, <2>3, <2>5
    <3>2. i + 1 \in 1..n /\ i < i + 1
      BY <2>2, <2>3, <3>1
    <3>3. QED
      BY <2>4, <3>1, <3>2
  <2>9. Later(w) \subseteq After(i)
    <3>1. After(i) \in SUBSET mTreeMap
      OBVIOUS
    <3>2. links \in [mTreeMap -> SUBSET mTreeMap] /\ node[w].next \in mTreeMap
      BY <2>8, LinksFacts
    <3> HIDE DEF After
    <3>3. Reach(mTreeMap, links, node[w].next) \subseteq After(i)
      BY <2>7, <2>8, <3>1, <3>2, ReachFacts
    <3>4. QED
      BY <1>2, <3>3 DEF Later
  <2>10. ASSUME NEW x \in After(i) PROVE x \notin {w} \cup Below(w)
    <3>1. PICK j \in 1..n : i < j /\ x \in {list[j]} \cup Below(list[j])
      OBVIOUS
    <3>2. list[j] \in kids[p] /\ list[j] # w
      BY <2>4, <2>6, <3>1
    <3>3. ({w} \cup Below(w)) \cap ({list[j]} \cup Below(list[j])) = {}
      <4> HIDE DEF list
      <4>1. QED
        BY <2>1, <3>2, BranchesApart
    <3>4. QED
      BY <3>1, <3>3
  <2> HIDE DEF After
  <2>11. QED
    BY <2>9, <2>10
<1>3. QED
  BY <1>1, <1>2

LEMMA RestFacts ==
  ASSUME TreeInv, NEW v \in mTreeMap, NEW w \in mTreeMap
  PROVE  /\ w = v \/ w = mRoot => Aside(v, w) = {}
         /\ ~(w = v \/ w = mRoot) => /\ node[w].parent \in mTreeMap
                                     /\ Aside(v, w) = Later(w) \cup Aside(v, node[w].parent)
         /\ w \notin Aside(v, w)
         /\ Rest(v, w) \subseteq mTreeMap
<1> DEFINE part(a) == IF a = v THEN {} ELSE Later(a)
<1>0. TypeOK /\ RootInv /\ ParentInv
  BY DEF TreeInv
<1>1. ups(v) \in [mTreeMap -> SUBSET mTreeMap]
  <2>1. \A x \in mTreeMap : x # mRoot => node[x].parent \in mTreeMap
    BY <1>0 DEF ParentInv
  <2>2. QED
    BY <2>1 DEF ups
<1>2. Reach(mTreeMap, ups(v), w) =
        {w} \cup UNION {Reach(mTreeMap, ups(v), s) : s \in ups(v)[w]}
  BY <1>1, ReachUnfolds
<1>3. Aside(v, w) = UNION {part(a) : a \in Reach(mTreeMap, ups(v), w)}
  BY DEF Aside
<1>4. w = v \/ w = mRoot => Aside(v, w) = {}
  <2>1. w = v \/ w = mRoot => Reach(mTreeMap, ups(v), w) = {w}
    <3>1. w = v \/ w = mRoot => ups(v)[w] = {}
      BY DEF ups
    <3>2. QED
      BY <1>2, <3>1
  <2>2. w = mRoot => Later(w) = {}
    BY <1>0, NodeFacts DEF RootInv, Later
  <2>3. w = v \/ w = mRoot => part(w) = {}
    BY <2>2
  <2> HIDE DEF part
  <2>4. QED
    BY <1>3, <2>1, <2>3
<1>5. ~(w = v \/ w = mRoot) => /\ node[w].parent \in mTreeMap
                               /\ Aside(v, w) = Later(w) \cup Aside(v, node[w].parent)
  <2> SUFFICES ASSUME w # v, w # mRoot
               PROVE  /\ node[w].parent \in mTreeMap
                      /\ Aside(v, w) = Later(w) \cup Aside(v, node[w].parent)
    OBVIOUS
  <2> DEFINE p == node[w].parent
  <2>1. p \in mTreeMap
    BY <1>0 DEF ParentInv
  <2>2. ups(v)[w] = {p}
    BY DEF ups
  <2>3. Reach(mTreeMap, ups(v), w) = {w} \cup Reach(mTreeMap, ups(v), p)
    BY <1>2, <2>2
  <2>4. Aside(v, p) = UNION {part(a) : a \in Reach(mTreeMap, ups(v), p)}
    BY DEF Aside
  <2>5. part(w) = Later(w)
    OBVIOUS
  <2> HIDE DEF part, p
  <2>6. Aside(v, w) = part(w) \cup Aside(v, p)
    BY <1>3, <2>3, <2>4
  <2>7. QED
    BY <2>1, <2>5, <2>6 DEF p
<1>6. w \notin Aside(v, w)
  <2> DEFINE U == {a \in mTreeMap : w \in {a} \cup Below(a)}
  <2>1. U \in SUBSET mTreeMap /\ w \in U
    OBVIOUS
  <2>2. ASSUME NEW a \in U PROVE ups(v)[a] \subseteq U
    <3>1. CASE a = v \/ a = mRoot
      BY <3>1 DEF ups
    <3>2. CASE ~(a = v \/ a = mRoot)
      <4> DEFINE p == node[a].parent
      <4>1. p \in mTreeMap /\ a \in kids[p] /\ ups(v)[a] = {p}
        BY <1>0, <3>2, KidsFacts DEF ParentInv, ups
      <4>2. a \in Below(p) /\ kids[a] \subseteq Below(p) /\ Below(p) \in SUBSET mTreeMap
        BY <4>1, BelowFacts
      <4>3. \A u \in Below(p) : kids[u] \subseteq Below(p)
        BY <4>1, BelowFacts
      <4>4. Below(a) \subseteq Below(p)
        BY <4>2, <4>3, BelowFacts
      <4>5. w \in {a} \cup Below(a)
        OBVIOUS
      <4>6. w \in Below(p)
        BY <4>2, <4>4, <4>5
      <4>7. QED
        BY <4>1, <4>6
    <3>3. QED
      BY <3>1, <3>2
  <2> HIDE DEF U
  <2>3. Reach(mTreeMap, ups(v), w) \subseteq U
    BY <1>1, <2>1, <2>2, ReachFacts
  <2>4. \A a \in U : w \notin part(a)
    <3>1. \A a \in U : a \in mTreeMap /\ w \in {a} \cup Below(a)
      BY DEF U
    <3>2. QED
      BY <3>1, LaterApart
  <2> HIDE DEF part
  <2>5. QED
    BY <1>3, <2>3, <2>4
<1>7. Rest(v, w) \subseteq mTreeMap
  <2>1. \A a \in mTreeMap : part(a) \subseteq mTreeMap
    BY LaterFacts
  <2>2. Reach(mTreeMap, ups(v), w) \subseteq mTreeMap
    BY <1>1, ReachFacts
  <2> HIDE DEF part
  <2>3. Aside(v, w) \subseteq mTreeMap
    BY <1>3, <2>1, <2>2
  <2>4. QED
    BY <2>3, BelowFacts DEF Rest
<1>8. QED
  BY <1>4, <1>5, <1>6, <1>7

\* Into the first child, then all that is below w comes before what is aside.
LEMMA RestOfFirst ==
  ASSUME TreeInv, NEW v \in mTreeMap, NEW w \in mTreeMap, first(w) # NoValue, first(w) # v
  PROVE  /\ first(w) \in mTreeMap
         /\ Rest(v, first(w)) = Below(w) \cup Aside(v, w)
<1> DEFINE f == first(w)
<1>1. f \in kids[w] /\ f \in mTreeMap /\ Reach(mTreeMap, links, f) = Below(w)
  BY LinksFacts, LinksReachBelow
<1>2. f # mRoot /\ node[f].parent = w
  BY <1>1, KidsFacts
<1>3. Reach(mTreeMap, links, f) = {f} \cup Below(f) \cup Later(f)
  BY <1>1, LaterFacts
<1>4. Aside(v, f) = Later(f) \cup Aside(v, w)
  BY <1>1, <1>2, RestFacts
<1>5. QED
  BY <1>1, <1>3, <1>4 DEF Rest

\* To the next sibling, when w's branch is done.
LEMMA RestOfNext ==
  ASSUME TreeInv, NEW v \in mTreeMap, NEW w \in mTreeMap, w # v,
         node[w].next # NoValue, node[w].next # v
  PROVE  /\ node[w].next \in mTreeMap
         /\ Rest(v, node[w].next) = Aside(v, w)
<1> DEFINE s == node[w].next
<1>1. w # mRoot /\ s \in kids[node[w].parent] /\ s \in mTreeMap
  BY LinksFacts, LaterFacts
<1>2. node[w].parent \in mTreeMap /\ Aside(v, w) = Later(w) \cup Aside(v, node[w].parent)
  BY <1>1, RestFacts
<1>3. s # mRoot /\ node[s].parent = node[w].parent
  BY <1>1, <1>2, KidsFacts
<1>4. Aside(v, s) = Later(s) \cup Aside(v, node[w].parent)
  BY <1>1, <1>3, RestFacts
<1>5. Later(w) = {s} \cup Below(s) \cup Later(s)
  BY LaterFacts
<1>6. QED
  BY <1>1, <1>2, <1>4, <1>5 DEF Rest

-----------------------------------------------------------------------------
(* Functions defined by recursion along a decreasing rank exist.           *)

\* The values a walk meets from each element on.
WalkOf(T, nil, onto, f) == [w \in T |-> IF onto[w] = nil THEN <<w>> ELSE <<w>> \o f[onto[w]]]

LEMMA WalkExists ==
  ASSUME NEW T, NEW nil, NEW onto \in [T -> T \cup {nil}],
         NEW rank \in [T -> Nat], NEW N \in Nat, \A w \in T : rank[w] < N,
         \A w \in T : onto[w] # nil => rank[onto[w]] < rank[w]
  PROVE  \E f : f = WalkOf(T, nil, onto, f)
<1> DEFINE Low(n) == {w \in T : rank[w] < n}
           bad == {n \in Nat : ~ \E f : f = WalkOf(Low(n), nil, onto, f)}
<1>1. ASSUME bad # {} PROVE FALSE
  <2>1. PICK n \in bad : \A m \in bad : n <= m
    <3>1. bad \in SUBSET Nat
      OBVIOUS
    <3> HIDE DEF bad
    <3>2. QED
      BY <1>1, <3>1, Least
  <2>2. n \in Nat /\ ~ \E f : f = WalkOf(Low(n), nil, onto, f)
    OBVIOUS
  <2>3. CASE n = 0
    <3>1. Low(0) = {}
      OBVIOUS
    <3>2. [w \in {} |-> nil] = WalkOf({}, nil, onto, [w \in {} |-> nil])
      BY DEF WalkOf
    <3> HIDE DEF Low
    <3>3. QED
      BY <2>2, <2>3, <3>1, <3>2
  <2>4. CASE n # 0
    <3>1. n - 1 \in Nat /\ ~(n <= n - 1)
      BY <2>2, <2>4
    <3>2. n - 1 \notin bad
      <4> HIDE DEF bad
      <4>1. QED
        BY <2>1, <3>1
    <3>3. PICK f : f = WalkOf(Low(n - 1), nil, onto, f)
      <4> HIDE DEF Low
      <4>1. QED
        BY <3>1, <3>2
    <3> DEFINE g == [w \in Low(n) |-> IF onto[w] = nil THEN <<w>> ELSE <<w>> \o f[onto[w]]]
    <3>4. ASSUME NEW w \in Low(n), onto[w] # nil
          PROVE  onto[w] \in Low(n - 1) /\ onto[w] \in Low(n)
      <4>1. w \in T /\ rank[w] < n /\ onto[w] \in T /\ rank[onto[w]] < rank[w]
        BY <3>4
      <4>2. rank[w] \in Nat /\ rank[onto[w]] \in Nat
        BY <4>1
      <4>3. rank[onto[w]] < n - 1 /\ rank[onto[w]] < n
        BY <2>2, <4>1, <4>2
      <4>4. QED
        BY <4>1, <4>3
    <3> HIDE DEF Low
    <3>5. \A u : u \in Low(n - 1) /\ u \in Low(n) => g[u] = f[u]
      BY <3>3 DEF WalkOf
    <3>6. ASSUME NEW w \in Low(n)
          PROVE  g[w] = IF onto[w] = nil THEN <<w>> ELSE <<w>> \o g[onto[w]]
      <4>1. g[w] = IF onto[w] = nil THEN <<w>> ELSE <<w>> \o f[onto[w]]
        OBVIOUS
      <4>2. onto[w] # nil => g[onto[w]] = f[onto[w]]
        BY <3>4, <3>5
      <4> HIDE DEF g
      <4>3. QED
        BY <4>1, <4>2
    <3>7. DOMAIN g = Low(n) /\ g = [w \in Low(n) |-> g[w]]
      OBVIOUS
    <3> HIDE DEF g
    <3>8. g = WalkOf(Low(n), nil, onto, g)
      BY <3>6, <3>7 DEF WalkOf
    <3>9. QED
      BY <2>2, <3>8
  <2>5. QED
    BY <2>3, <2>4
<1>2. Low(N) = T
  OBVIOUS
<1>3. N \notin bad
  <2> HIDE DEF bad
  <2>1. QED
    BY <1>1
<1> HIDE DEF Low
<1>4. QED
  BY <1>2, <1>3

\* Where the climb of a walk below v leads from w, given where it leads from
\* w's parent.
Onward(v, w, above) ==
  IF w = v THEN NoValue
  ELSE IF node[w].next # NoValue THEN node[w].next
  ELSE IF node[w].parent = NoValue THEN NoValue
  ELSE above

ClimbOf(v, T, f) == [w \in T |-> Onward(v, w, f[node[w].parent])]

LEMMA ClimbExists ==
  ASSUME TreeInv, NEW v \in mTreeMap
  PROVE  \E f : f = ClimbOf(v, mTreeMap, f)
<1> DEFINE Low(n) == {w \in mTreeMap : node[w].depth < n}
           bad == {n \in Nat : ~ \E f : f = ClimbOf(v, Low(n), f)}
<1>0. TypeOK /\ RootInv /\ ParentInv
  BY DEF TreeInv
<1>1. ASSUME bad # {} PROVE FALSE
  <2>1. PICK n \in bad : \A m \in bad : n <= m
    <3>1. bad \in SUBSET Nat
      OBVIOUS
    <3> HIDE DEF bad
    <3>2. QED
      BY <1>1, <3>1, Least
  <2>2. n \in Nat /\ ~ \E f : f = ClimbOf(v, Low(n), f)
    OBVIOUS
  <2>3. CASE n = 0
    <3>1. Low(0) = {}
      BY <1>0, NodeFacts
    <3>2. [w \in {} |-> NoValue] = ClimbOf(v, {}, [w \in {} |-> NoValue])
      BY DEF ClimbOf
    <3> HIDE DEF Low
    <3>3. QED
      BY <2>2, <2>3, <3>1, <3>2
  <2>4. CASE n # 0
    <3>1. n - 1 \in Nat /\ ~(n <= n - 1)
      BY <2>2, <2>4
    <3>2. n - 1 \notin bad
      <4> HIDE DEF bad
      <4>1. QED
        BY <2>1, <3>1
    <3>3. PICK f : f = ClimbOf(v, Low(n - 1), f)
      <4> HIDE DEF Low
      <4>1. QED
        BY <3>1, <3>2
    <3> DEFINE g == [w \in Low(n) |-> Onward(v, w, f[node[w].parent])]
    <3>4. ASSUME NEW w \in Low(n), node[w].parent # NoValue
          PROVE  node[w].parent \in Low(n - 1) /\ node[w].parent \in Low(n)
      <4>1. w \in mTreeMap /\ node[w].depth < n /\ w # mRoot
        BY <1>0, <3>4, NodeFacts DEF RootInv
      <4>2. node[w].parent \in mTreeMap /\ node[w].depth = node[node[w].parent].depth + 1
        BY <1>0, <4>1 DEF ParentInv
      <4>3. node[node[w].parent].depth \in Nat
        BY <1>0, <4>2, NodeFacts
      <4>4. node[node[w].parent].depth < n - 1 /\ node[node[w].parent].depth < n
        BY <2>2, <4>1, <4>2, <4>3
      <4>5. QED
        BY <4>2, <4>4
    <3> HIDE DEF Low
    <3>5. \A u : u \in Low(n - 1) /\ u \in Low(n) => g[u] = f[u]
      BY <3>3 DEF ClimbOf
    <3>6. ASSUME NEW w \in Low(n) PROVE g[w] = Onward(v, w, g[node[w].parent])
      <4>1. g[w] = Onward(v, w, f[node[w].parent])
        OBVIOUS
      <4>2. node[w].parent # NoValue => g[node[w].parent] = f[node[w].parent]
        BY <3>4, <3>5
      <4> HIDE DEF g
      <4>3. QED
        BY <4>1, <4>2 DEF Onward
    <3>7. DOMAIN g = Low(n) /\ g = [w \in Low(n) |-> g[w]]
      OBVIOUS
    <3> HIDE DEF g
    <3>8. g = ClimbOf(v, Low(n), g)
      BY <3>6, <3>7 DEF ClimbOf
    <3>9. QED
      BY <2>2, <3>8
  <2>5. QED
    BY <2>3, <2>4
<1> DEFINE N == mMaxDepth + 1
<1>2. Low(N) = mTreeMap /\ N \in Nat
  <2>1. mMaxDepth \in Int /\ N \in Nat
    BY <1>0 DEF TypeOK
  <2>2. \A w \in mTreeMap : node[w].depth \in Nat /\ node[w].depth <= mMaxDepth
    BY <1>0, NodeFacts DEF TreeInv, DepthInv
  <2>3. \A w \in mTreeMap : node[w].depth < N
    BY <2>1, <2>2
  <2>4. QED
    BY <2>1, <2>3
<1>3. N \notin bad
  <2> HIDE DEF bad
  <2>1. QED
    BY <1>1
<1> HIDE DEF Low, N
<1>4. QED
  BY <1>2, <1>3

\* Where the climb leads, for every node, and what is left to visit there: for
\* a node below v, all that was aside.
LEMMA OnwardFacts ==
  ASSUME TreeInv, NEW v \in mTreeMap, NEW onward, onward = ClimbOf(v, mTreeMap, onward)
  PROVE  /\ \A w \in mTreeMap :
              /\ onward[w] \in mTreeMap \cup {NoValue}
              /\ onward[w] # NoValue => Rest(mRoot, onward[w]) \subseteq Aside(mRoot, w)
         /\ \A w \in {v} \cup Below(v) :
              /\ onward[w] \in Below(v) \cup {NoValue}
              /\ Aside(v, w) = IF onward[w] = NoValue THEN {} ELSE Rest(v, onward[w])
<1> DEFINE rank == [w \in mTreeMap |-> node[w].depth]
           Right(w) ==
             /\ /\ onward[w] \in mTreeMap \cup {NoValue}
                /\ onward[w] # NoValue => Rest(mRoot, onward[w]) \subseteq Aside(mRoot, w)
             /\ w \in {v} \cup Below(v) =>
                  /\ onward[w] \in Below(v) \cup {NoValue}
                  /\ Aside(v, w) = IF onward[w] = NoValue THEN {} ELSE Rest(v, onward[w])
           wrong == {w \in mTreeMap : ~Right(w)}
<1>0. TypeOK /\ RootInv /\ ParentInv /\ mRoot \in mTreeMap
  <2>1. TypeOK /\ RootInv /\ ParentInv
    BY DEF TreeInv
  <2>2. mRoot # NoValue
    BY <2>1 DEF RootInv
  <2>3. QED
    BY <2>1, <2>2 DEF RootInv
<1>1. rank \in [mTreeMap -> Nat]
  BY <1>0, NodeFacts
<1>2. \A w \in mTreeMap : onward[w] = Onward(v, w, onward[node[w].parent])
  BY DEF ClimbOf
<1>3. NoValue \notin mTreeMap
  BY <1>0, NodeFacts
<1>4. ASSUME wrong # {} PROVE FALSE
  <2>1. PICK w \in wrong : \A x \in wrong : rank[w] <= rank[x]
    <3>1. wrong \in SUBSET mTreeMap
      OBVIOUS
    <3> HIDE DEF wrong, rank
    <3>2. QED
      BY <1>1, <1>4, <3>1, LeastRank
  <2>2. w \in mTreeMap /\ ~Right(w)
    OBVIOUS
  <2>3. CASE w = v
    <3>1. onward[w] = NoValue
      BY <1>2, <2>2, <2>3 DEF Onward
    <3>2. Aside(v, w) = {}
      BY <2>2, <2>3, RestFacts
    <3>3. QED
      BY <2>2, <3>1, <3>2
  <2>4. CASE w # v /\ node[w].next # NoValue
    <3> DEFINE s == node[w].next
    <3>1. onward[w] = s
      BY <1>2, <2>2, <2>4 DEF Onward
    <3>2. w # mRoot /\ s \in kids[node[w].parent] /\ s \in mTreeMap
      BY <2>2, <2>4, LinksFacts, LaterFacts
    <3>3. s # mRoot
      <4>1. node[w].parent \in mTreeMap
        BY <1>0, <2>2, <3>2 DEF ParentInv
      <4>2. QED
        BY <3>2, <4>1, KidsFacts
    <3>4. Rest(mRoot, s) = Aside(mRoot, w)
      BY <1>0, <2>2, <2>4, <3>2, <3>3, RestOfNext
    <3>5. ASSUME w \in Below(v)
          PROVE  s \in Below(v) /\ Rest(v, s) = Aside(v, w)
      <4>1. node[w].parent \in Below(v) \cup {v}
        BY <3>5, BelowParents
      <4>2. s \in Below(v)
        BY <3>2, <4>1, BelowFacts
      <4>3. s # v
        BY <4>2, BelowParents
      <4>4. QED
        BY <2>2, <2>4, <4>2, <4>3, RestOfNext
    <3>6. s # NoValue
      BY <2>4
    <3> HIDE DEF s
    <3>7. QED
      BY <2>2, <2>4, <3>1, <3>2, <3>4, <3>5, <3>6
  <2>5. CASE w # v /\ node[w].next = NoValue /\ w = mRoot
    <3>1. node[w].parent = NoValue
      BY <1>0, <1>3, <2>5 DEF RootInv
    <3>2. onward[w] = NoValue
      BY <1>2, <2>2, <2>5, <3>1 DEF Onward
    <3>3. w \notin Below(v)
      BY <2>5, BelowParents
    <3>4. QED
      BY <2>2, <2>5, <3>2, <3>3
  <2>6. CASE w # v /\ node[w].next = NoValue /\ w # mRoot
    <3> DEFINE p == node[w].parent
    <3>1. p \in mTreeMap /\ node[w].depth = node[p].depth + 1
      BY <1>0, <2>2, <2>6 DEF ParentInv
    <3>2. p # NoValue
      BY <1>3, <3>1
    <3>3. onward[w] = onward[p]
      BY <1>2, <2>2, <2>6, <3>2 DEF Onward
    <3>4. Right(p)
      <4>1. node[p].depth \in Nat
        BY <1>0, <3>1, NodeFacts
      <4>2. ~(rank[w] <= rank[p])
        BY <2>2, <3>1, <4>1
      <4>3. p \notin wrong
        <5> HIDE DEF wrong, rank
        <5>1. QED
          BY <2>1, <4>2
      <4> HIDE DEF Right
      <4>4. QED
        BY <3>1, <4>3
    <3>5. Later(w) = {}
      BY <2>6 DEF Later
    <3>6. Aside(mRoot, w) = Aside(mRoot, p)
      <4>1. Aside(mRoot, w) = Later(w) \cup Aside(mRoot, p)
        BY <1>0, <2>2, <2>6, RestFacts
      <4>2. QED
        BY <3>5, <4>1
    <3>7. Aside(v, w) = Aside(v, p)
      <4>1. Aside(v, w) = Later(w) \cup Aside(v, p)
        BY <2>2, <2>6, RestFacts
      <4>2. QED
        BY <3>5, <4>1
    <3>8. w \in {v} \cup Below(v) => p \in {v} \cup Below(v)
      BY <2>6, BelowParents
    <3> HIDE DEF p
    <3>9. QED
      BY <2>2, <3>3, <3>4, <3>6, <3>7, <3>8
  <2>7. QED
    BY <2>3, <2>4, <2>5, <2>6
<1>5. \A w \in mTreeMap : Right(w)
  <2> HIDE DEF Right
  <2>1. QED
    BY <1>4
<1>6. \A w \in {v} \cup Below(v) : w \in mTreeMap
  BY BelowFacts
<1>7. QED
  BY <1>5, <1>6

\* One more value in front of a sequence.
LEMMA Prepended ==
  ASSUME NEW S, NEW w \in S, NEW t \in Seq(S)
  PROVE  /\ <<w>> \in Seq(S) /\ Len(<<w>>) = 1 /\ (<<w>>)[1] = w /\ ToSet(<<w>>) = {w}
         /\ IsInjective(<<w>>)
         /\ <<w>> \o t \in Seq(S) /\ Len(<<w>> \o t) # 0 /\ (<<w>> \o t)[1] = w
         /\ ToSet(<<w>> \o t) = {w} \cup ToSet(t)
         /\ w \notin ToSet(t) /\ IsInjective(t) => IsInjective(<<w>> \o t)
<1> DEFINE s == <<w>> \o t
<1>1. /\ <<w>> \in Seq(S) /\ Len(<<w>>) = 1 /\ (<<w>>)[1] = w
  OBVIOUS
<1>2. DOMAIN (<<w>>) = {1}
  BY <1>1, LenProperties
<1>3. ToSet(<<w>>) = {w} /\ IsInjective(<<w>>)
  BY <1>1, <1>2 DEF ToSet, IsInjective
<1>4. Len(t) \in Nat /\ DOMAIN t = 1..Len(t)
  BY LenProperties
<1>5. /\ s \in Seq(S) /\ Len(s) = 1 + Len(t)
      /\ \A i \in 1..(1 + Len(t)) : s[i] = IF i <= 1 THEN (<<w>>)[i] ELSE t[i - 1]
  BY <1>1, ConcatProperties
<1>6. DOMAIN s = 1..(1 + Len(t))
  BY <1>5, LenProperties
<1> HIDE DEF s
<1>7. s[1] = w /\ 1 \in DOMAIN s /\ Len(s) # 0
  BY <1>1, <1>4, <1>5, <1>6
<1>8. \A i \in DOMAIN s : i = 1 \/ (i - 1 \in DOMAIN t /\ s[i] = t[i - 1])
  BY <1>4, <1>5, <1>6
<1>9. \A i \in DOMAIN t : i + 1 \in DOMAIN s /\ s[i + 1] = t[i]
  <2>1. ASSUME NEW i \in DOMAIN t PROVE i + 1 \in DOMAIN s /\ s[i + 1] = t[i]
    <3>1. i + 1 \in 1..(1 + Len(t)) /\ ~(i + 1 <= 1) /\ (i + 1) - 1 = i
      BY <1>4
    <3>2. QED
      BY <1>5, <1>6, <3>1
  <2>2. QED
    BY <2>1
<1>10. ToSet(s) = {w} \cup ToSet(t)
  <2>1. ToSet(s) \subseteq {w} \cup ToSet(t)
    BY <1>7, <1>8 DEF ToSet
  <2>2. {w} \cup ToSet(t) \subseteq ToSet(s)
    BY <1>7, <1>9 DEF ToSet
  <2>3. QED
    BY <2>1, <2>2
<1>11. ASSUME w \notin ToSet(t), IsInjective(t) PROVE IsInjective(s)
  <2>1. ASSUME NEW i \in DOMAIN s, NEW j \in DOMAIN s, s[i] = s[j] PROVE i = j
    <3>1. \A k \in DOMAIN t : t[k] # w
      BY <1>11 DEF ToSet
    <3>2. CASE i = 1
      BY <1>7, <1>8, <2>1, <3>1, <3>2
    <3>3. CASE j = 1
      BY <1>7, <1>8, <2>1, <3>1, <3>3
    <3>4. CASE i # 1 /\ j # 1
      <4>1. i - 1 \in DOMAIN t /\ j - 1 \in DOMAIN t /\ t[i - 1] = t[j - 1]
        BY <1>8, <2>1, <3>4
      <4>2. i - 1 = j - 1
        BY <1>11, <4>1 DEF IsInjective
      <4>3. i \in Nat /\ j \in Nat
        BY <1>4, <1>6
      <4>4. QED
        BY <4>2, <4>3
    <3>5. QED
      BY <3>2, <3>3, <3>4
  <2>2. QED
    BY <2>1 DEF IsInjective
<1>12. QED
  BY <1>1, <1>3, <1>5, <1>7, <1>10, <1>11 DEF s

\* f is the walk along onto, which stays in B, and rest what it has to visit:
\* never again what it has visited.
Walks(T, nil, onto, rank, f, B, rest) ==
  /\ onto \in [T -> T \cup {nil}] /\ rank \in [T -> Nat]
  /\ \A w \in T : onto[w] # nil => rank[onto[w]] < rank[w]
  /\ f = WalkOf(T, nil, onto, f)
  /\ B \in SUBSET T /\ \A w \in B : onto[w] \in B \cup {nil}
  /\ \A w \in B : rest[w] = {w} \cup (IF onto[w] = nil THEN {} ELSE rest[onto[w]])
  /\ \A w \in B : onto[w] # nil => w \notin rest[onto[w]]

\* It visits all there is to visit, each once.
LEMMA WalkIs ==
  ASSUME NEW T, NEW nil, NEW onto, NEW rank, NEW f, NEW B, NEW rest,
         Walks(T, nil, onto, rank, f, B, rest)
  PROVE  \A w \in B : /\ f[w] \in Seq(T) /\ Len(f[w]) # 0 /\ f[w][1] = w
                      /\ ToSet(f[w]) = rest[w] /\ IsInjective(f[w])
<1>0. /\ onto \in [T -> T \cup {nil}] /\ rank \in [T -> Nat]
      /\ \A w \in T : onto[w] # nil => rank[onto[w]] < rank[w]
      /\ f = WalkOf(T, nil, onto, f)
      /\ B \in SUBSET T /\ \A w \in B : onto[w] \in B \cup {nil}
      /\ \A w \in B : rest[w] = {w} \cup (IF onto[w] = nil THEN {} ELSE rest[onto[w]])
      /\ \A w \in B : onto[w] # nil => w \notin rest[onto[w]]
  BY DEF Walks
<1> DEFINE Right(w) == /\ f[w] \in Seq(T) /\ Len(f[w]) # 0 /\ f[w][1] = w
                       /\ ToSet(f[w]) = rest[w] /\ IsInjective(f[w])
           wrong == {w \in B : ~Right(w)}
<1>1. ASSUME wrong # {} PROVE FALSE
  <2>1. PICK w \in wrong : \A x \in wrong : rank[w] <= rank[x]
    <3>1. wrong \in SUBSET T
      BY <1>0
    <3> HIDE DEF wrong
    <3>2. QED
      BY <1>0, <1>1, <3>1, LeastRank
  <2>2. w \in B /\ w \in T /\ ~Right(w)
    BY <1>0
  <2>3. f[w] = IF onto[w] = nil THEN <<w>> ELSE <<w>> \o f[onto[w]]
    BY <1>0, <2>2 DEF WalkOf
  <2>4. CASE onto[w] = nil
    <3>1. <<>> \in Seq(T)
      BY EmptySeq
    <3>2. /\ <<w>> \in Seq(T) /\ Len(<<w>>) = 1 /\ (<<w>>)[1] = w /\ ToSet(<<w>>) = {w}
          /\ IsInjective(<<w>>)
      BY <2>2, <3>1, Prepended
    <3>3. f[w] = <<w>> /\ rest[w] = {w}
      BY <1>0, <2>2, <2>3, <2>4
    <3>4. QED
      BY <2>2, <3>2, <3>3
  <2>5. CASE onto[w] # nil
    <3> DEFINE u == onto[w]
    <3>1. u \in B /\ u \in T /\ rank[u] < rank[w]
      BY <1>0, <2>2, <2>5
    <3>2. ~(rank[w] <= rank[u])
      <4>1. rank[u] \in Nat /\ rank[w] \in Nat
        BY <1>0, <2>2, <3>1
      <4>2. QED
        BY <3>1, <4>1
    <3>3. u \notin wrong
      <4> HIDE DEF wrong
      <4>1. QED
        BY <2>1, <3>2
    <3>4. Right(u)
      <4> HIDE DEF Right
      <4>1. QED
        BY <3>1, <3>3
    <3>5. rest[w] = {w} \cup rest[u] /\ w \notin rest[u] /\ f[w] = <<w>> \o f[u]
      BY <1>0, <2>2, <2>3, <2>5
    <3> DEFINE t == f[u]
    <3>6. t \in Seq(T) /\ ToSet(t) = rest[u] /\ IsInjective(t)
      BY <3>4
    <3> HIDE DEF t
    <3>7. /\ <<w>> \o t \in Seq(T) /\ Len(<<w>> \o t) # 0 /\ (<<w>> \o t)[1] = w
          /\ ToSet(<<w>> \o t) = {w} \cup ToSet(t)
          /\ IsInjective(<<w>> \o t)
      BY <2>2, <3>5, <3>6, Prepended
    <3>8. f[w] = <<w>> \o t
      BY <3>5 DEF t
    <3>9. Right(w)
      <4>1. ToSet(f[w]) = rest[w]
        BY <3>5, <3>6, <3>7, <3>8
      <4>2. QED
        BY <3>7, <3>8, <4>1
    <3>10. QED
      BY <2>2, <3>9
  <2>6. QED
    BY <2>4, <2>5
<1>2. \A w \in B : Right(w)
  <2> HIDE DEF Right
  <2>1. QED
    BY <1>1
<1>3. QED
  BY <1>2

\* The walk from v visits v first, and v's branch, each node once.
LEMMA NodeIdsAre ==
  ASSUME TreeInv, NEW v \in mTreeMap
  PROVE  /\ NodeIds(v) \in Seq(mTreeMap) /\ Len(NodeIds(v)) # 0 /\ NodeIds(v)[1] = v
         /\ ToSet(NodeIds(v)) = {v} \cup Below(v)
         /\ IsInjective(NodeIds(v))
<1> DEFINE Climbs(f) ==
             f = [w \in DOMAIN node |->
                    IF w = v THEN NoValue
                    ELSE IF node[w].next # NoValue THEN node[w].next
                    ELSE IF node[w].parent = NoValue THEN NoValue
                    ELSE f[node[w].parent]]
           onward == CHOOSE f : Climbs(f)
           follows(w) == IF first(w) # NoValue THEN first(w) ELSE onward[w]
           Visits(f) ==
             f = [w \in DOMAIN node |->
                    IF follows(w) = NoValue THEN <<w>> ELSE <<w>> \o f[follows(w)]]
           walk == CHOOSE f : Visits(f)
           onto == [w \in mTreeMap |-> follows(w)]
           B == {v} \cup Below(v)
           rest == [w \in B |-> Rest(v, w)]
           rank == [w \in mTreeMap |-> Cardinality(Rest(mRoot, w))]
<1>0. /\ TypeOK /\ DOMAIN node = mTreeMap /\ IsFiniteSet(mTreeMap)
      /\ mRoot \in mTreeMap /\ NoValue \notin mTreeMap
  <2>1. TypeOK /\ RootInv /\ DOMAIN node = mTreeMap /\ IsFiniteSet(mTreeMap)
    BY DEF TreeInv, TypeOK
  <2>2. mRoot # NoValue
    BY <2>1 DEF RootInv
  <2>3. QED
    BY <2>1, <2>2, NodeFacts DEF RootInv
<1>1. NodeIds(v) = walk[v]
  BY DEF NodeIds
<1>2. onward = ClimbOf(v, mTreeMap, onward)
  <2>1. \A f : Climbs(f) <=> f = ClimbOf(v, mTreeMap, f)
    BY <1>0 DEF ClimbOf, Onward
  <2>2. \E f : f = ClimbOf(v, mTreeMap, f)
    BY ClimbExists
  <2> HIDE DEF Climbs
  <2>3. Climbs(onward)
    BY <2>1, <2>2
  <2> HIDE DEF onward
  <2>4. QED
    BY <2>1, <2>3
<1> HIDE DEF onward
<1>3. /\ \A w \in mTreeMap :
           /\ onward[w] \in mTreeMap \cup {NoValue}
           /\ onward[w] # NoValue => Rest(mRoot, onward[w]) \subseteq Aside(mRoot, w)
      /\ \A w \in B :
           /\ onward[w] \in Below(v) \cup {NoValue}
           /\ Aside(v, w) = IF onward[w] = NoValue THEN {} ELSE Rest(v, onward[w])
  BY <1>2, OnwardFacts
\* What is left to visit gets smaller.
<1>4. ASSUME NEW w \in mTreeMap
      PROVE  /\ follows(w) \in mTreeMap \cup {NoValue}
             /\ follows(w) # NoValue =>
                  /\ Rest(mRoot, follows(w)) \subseteq Rest(mRoot, w)
                  /\ w \notin Rest(mRoot, follows(w))
  <2>1. w \notin Aside(mRoot, w) /\ w \notin Below(w)
    BY <1>0, RestFacts, BelowParents
  <2>2. CASE first(w) # NoValue
    <3>1. first(w) # mRoot
      BY <2>2, LinksFacts, KidsFacts
    <3>2. first(w) \in mTreeMap /\ Rest(mRoot, first(w)) = Below(w) \cup Aside(mRoot, w)
      BY <1>0, <2>2, <3>1, RestOfFirst
    <3>3. QED
      BY <2>1, <2>2, <3>2 DEF Rest
  <2>3. CASE first(w) = NoValue
    <3>1. follows(w) = onward[w]
      BY <2>3
    <3>2. QED
      BY <1>3, <2>1, <3>1 DEF Rest
  <2>4. QED
    BY <2>2, <2>3
\* Below v it is all of what was left but the node itself.
<1>5. ASSUME NEW w \in B
      PROVE  /\ follows(w) \in B \cup {NoValue}
             /\ Rest(v, w) = {w} \cup (IF follows(w) = NoValue THEN {} ELSE Rest(v, follows(w)))
             /\ follows(w) # NoValue => w \notin Rest(v, follows(w))
  <2>1. w \in mTreeMap /\ Below(v) \subseteq mTreeMap
    BY BelowFacts
  <2>2. w \notin Aside(v, w) /\ w \notin Below(w)
    BY <2>1, RestFacts, BelowParents
  <2>3. CASE first(w) # NoValue
    <3>1. first(w) \in Below(v)
      <4>1. first(w) \in kids[w]
        BY <2>1, <2>3, LinksFacts
      <4>2. kids[w] \subseteq Below(v)
        BY BelowFacts
      <4>3. QED
        BY <4>1, <4>2
    <3>2. first(w) # v
      BY <3>1, BelowParents
    <3>3. Rest(v, first(w)) = Below(w) \cup Aside(v, w)
      BY <2>1, <2>3, <3>2, RestOfFirst
    <3>4. follows(w) = first(w)
      BY <2>3
    <3> HIDE DEF follows
    <3>5. QED
      BY <2>2, <2>3, <3>1, <3>3, <3>4 DEF Rest
  <2>4. CASE first(w) = NoValue
    <3>1. follows(w) = onward[w]
      BY <2>4
    <3>2. Below(w) = {}
      BY <2>1, <2>4, LinksReachBelow
    <3> HIDE DEF follows
    <3>3. QED
      BY <1>3, <2>2, <3>1, <3>2 DEF Rest
  <2>5. QED
    BY <2>3, <2>4
<1> HIDE DEF follows
<1>6. onto \in [mTreeMap -> mTreeMap \cup {NoValue}] /\ \A w \in mTreeMap : onto[w] = follows(w)
  BY <1>4
<1>7. rank \in [mTreeMap -> Nat] /\ \A w \in mTreeMap : onto[w] # NoValue => rank[onto[w]] < rank[w]
  <2>1. ASSUME NEW w \in mTreeMap PROVE IsFiniteSet(Rest(mRoot, w)) /\ Cardinality(Rest(mRoot, w)) \in Nat
    <3>1. Rest(mRoot, w) \in SUBSET mTreeMap
      BY <1>0, RestFacts
    <3>2. IsFiniteSet(Rest(mRoot, w))
      BY <1>0, <3>1, FS_Subset
    <3>3. QED
      BY <3>2, FS_CardinalityType
  <2>2. ASSUME NEW w \in mTreeMap, follows(w) # NoValue
        PROVE  Cardinality(Rest(mRoot, follows(w))) < Cardinality(Rest(mRoot, w))
    <3> DEFINE small == Rest(mRoot, follows(w))
               large == Rest(mRoot, w)
    <3>1. follows(w) \in mTreeMap /\ small \in SUBSET large /\ small # large
      <4>1. w \in large
        BY DEF Rest
      <4>2. QED
        BY <1>4, <2>2, <4>1
    <3>2. /\ IsFiniteSet(large) /\ Cardinality(large) \in Nat /\ Cardinality(small) \in Nat
      BY <2>1, <3>1
    <3> HIDE DEF small, large
    <3>3. Cardinality(small) <= Cardinality(large) /\ Cardinality(small) # Cardinality(large)
      BY <3>1, <3>2, FS_Subset
    <3>4. Cardinality(small) < Cardinality(large)
      BY <3>2, <3>3
    <3>5. QED
      BY <3>4 DEF small, large
  <2>3. \A w \in mTreeMap : follows(w) # NoValue => follows(w) \in mTreeMap
    BY <1>4
  <2>4. QED
    BY <1>6, <2>1, <2>2, <2>3
<1>8. \E N \in Nat : \A w \in mTreeMap : rank[w] < N
  <2> DEFINE N == Cardinality(mTreeMap) + 1
  <2>1. Cardinality(mTreeMap) \in Nat
    BY <1>0, FS_CardinalityType
  <2>2. ASSUME NEW w \in mTreeMap PROVE rank[w] < N
    <3>1. Rest(mRoot, w) \in SUBSET mTreeMap
      BY <1>0, RestFacts
    <3>2. Cardinality(Rest(mRoot, w)) <= Cardinality(mTreeMap)
      BY <1>0, <3>1, FS_Subset
    <3>3. rank[w] = Cardinality(Rest(mRoot, w)) /\ rank[w] \in Nat
      BY <1>7
    <3> HIDE DEF rank
    <3>4. QED
      BY <2>1, <3>2, <3>3
  <2>3. N \in Nat
    BY <2>1
  <2> HIDE DEF N, rank
  <2>4. QED
    BY <2>2, <2>3
<1> HIDE DEF rank, onto
<1>9. walk = WalkOf(mTreeMap, NoValue, onto, walk)
  <2>1. \A f : Visits(f) <=> f = WalkOf(mTreeMap, NoValue, onto, f)
    BY <1>0, <1>6 DEF WalkOf
  <2>2. \E f : f = WalkOf(mTreeMap, NoValue, onto, f)
    BY <1>6, <1>7, <1>8, WalkExists
  <2> HIDE DEF Visits
  <2>3. Visits(walk)
    BY <2>1, <2>2
  <2> HIDE DEF walk
  <2>4. QED
    BY <2>1, <2>3
<1> HIDE DEF walk
<1>10. B \in SUBSET mTreeMap /\ v \in B
  BY BelowFacts
<1>11. \A w \in B : onto[w] = follows(w) /\ rest[w] = Rest(v, w)
  BY <1>6, <1>10
<1> HIDE DEF B, rest
<1>12. \A w \in B : onto[w] \in B \cup {NoValue}
  BY <1>5, <1>11
<1>13. \A w \in B : rest[w] = {w} \cup (IF onto[w] = NoValue THEN {} ELSE rest[onto[w]])
  <2>1. ASSUME NEW w \in B
        PROVE  rest[w] = {w} \cup (IF onto[w] = NoValue THEN {} ELSE rest[onto[w]])
    <3>1. CASE onto[w] = NoValue
      BY <1>5, <1>11, <3>1
    <3>2. CASE onto[w] # NoValue
      <4>1. onto[w] \in B
        BY <1>12, <3>2
      <4>2. rest[onto[w]] = Rest(v, follows(w))
        BY <1>11, <4>1
      <4>3. QED
        BY <1>5, <1>11, <3>2, <4>2
    <3>3. QED
      BY <3>1, <3>2
  <2>2. QED
    BY <2>1
<1>14. \A w \in B : onto[w] # NoValue => w \notin rest[onto[w]]
  BY <1>5, <1>11, <1>12
<1>15. /\ walk[v] \in Seq(mTreeMap) /\ Len(walk[v]) # 0 /\ walk[v][1] = v
       /\ ToSet(walk[v]) = rest[v] /\ IsInjective(walk[v])
  <2>1. Walks(mTreeMap, NoValue, onto, rank, walk, B, rest)
    BY <1>6, <1>7, <1>9, <1>10, <1>12, <1>13, <1>14 DEF Walks
  <2>2. \A w \in B : /\ walk[w] \in Seq(mTreeMap) /\ Len(walk[w]) # 0 /\ walk[w][1] = w
                    /\ ToSet(walk[w]) = rest[w] /\ IsInjective(walk[w])
    BY <2>1, WalkIs
  <2>3. QED
    BY <1>10, <2>2
<1>16. rest[v] = {v} \cup Below(v)
  BY <1>10, <1>11, RestFacts DEF Rest
<1>17. QED
  BY <1>1, <1>15, <1>16

\* getNodeIds(v), which follows children and next siblings and climbs back to v,
\* returns every node below v exactly once, and v first.
THEOREM WalkIsComplete == Spec => []WalkComplete
<1>1. TreeInv => WalkComplete
  <2> SUFFICES ASSUME TreeInv, NEW v \in mTreeMap
               PROVE  /\ Head(NodeIds(v)) = v
                      /\ ToSet(NodeIds(v)) = {v} \cup ListedBelow(v)
                      /\ IsInjective(NodeIds(v))
    BY DEF WalkComplete
  <2> DEFINE ids == NodeIds(v)
  <2>1. /\ ids \in Seq(mTreeMap) /\ Len(ids) # 0 /\ ids[1] = v
        /\ ToSet(ids) = {v} \cup Below(v) /\ IsInjective(ids)
    BY NodeIdsAre
  <2>2. ListedBelow(v) = Below(v)
    BY ListedIs
  <2>3. Head(ids) = v
    <3> HIDE DEF ids
    <3>1. ids # <<>>
      BY <2>1, EmptySeq
    <3>2. Head(ids) = ids[1]
      BY <2>1, <3>1
    <3>3. QED
      BY <2>1, <3>2
  <2>4. QED
    BY <2>1, <2>2, <2>3
<1>2. QED
  BY <1>1, TreeHolds, PTL
=============================================================================
