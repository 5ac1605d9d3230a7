---------------------------- MODULE MediaBrowser ----------------------------
(***************************************************************************)
(* How the user moves through the collection: core/ACMediaBrowser.cpp,     *)
(* with the plugins it calls to cluster, to find neighbours and to lay     *)
(* them out, and the events of the GUI and of OSC messages that call it.   *)
(*                                                                         *)
(* In the clusters mode every node has a navigation level, and those whose *)
(* level is at least the browser's are in view.  Zooming into a cluster    *)
(* raises its nodes' levels and the browser's, so that the view can be     *)
(* given back by lowering the browser's alone.  In the neighbours mode a   *)
(* tree grows from the reference node: clicking a leaf opens it, clicking  *)
(* an open node closes it.                                                 *)
(*                                                                         *)
(* Distances and positions are left out: a node can land in any cluster,   *)
(* and any nodes can be the nearest ones.  Media ids are 0, 1, ...: all    *)
(* that is known of them is which one is 0.                                *)
(***************************************************************************)
EXTENDS Integers, SequencesExt

CONSTANTS
  Media,         \* the media that can be imported
  zero,          \* the one with the id 0
  None,          \* -1: no node
  NeighborCount, \* nNeighbors of the neighbours plugin
  MaxClusters,   \* of the parameter "clusters"
  MaxLevel,      \* bound on mNavigationLevel
  MaxSize        \* bound on the nodes and the states remembered, together

ASSUME MediaAssumption == zero \in Media /\ None \notin Media
ASSUME CountsAssumption == {NeighborCount, MaxClusters, MaxLevel, MaxSize} \subseteq Nat \ {0}

VARIABLES
  navigationLevel, \* of each node; its domain is mMediaNodes
  clusterId,       \* of each node
  displayed,       \* the nodes with this flag
  mMode,
  mClusterCount,
  mNavigationLevel,
  mReferenceNode,
  mBackwardNavigationStates,
  mForwardNavigationStates,
  mClickedNode,
  parent           \* of each node of mNeighborsManager's tree

nodes == <<navigationLevel, clusterId>>
history == <<mBackwardNavigationStates, mForwardNavigationStates>>
vars == <<nodes, displayed, mMode, mClusterCount, mNavigationLevel, mReferenceNode,
          history, mClickedNode, parent>>

Tree == INSTANCE RootedTree WITH Values <- Media, NoValue <- None

Nodes == DOMAIN navigationLevel
Clusters == 0 .. mClusterCount - 1
Room(states) == Cardinality(Nodes) + Len(states) < MaxSize

SeenAt(level) == {n \in Nodes : navigationLevel[n] >= level}
Seen == SeenAt(mNavigationLevel)

NoTree == [v \in {} |-> None]
Planted(v) == [w \in {v} |-> None]
Children(tree, v) == {w \in DOMAIN tree : tree[w] = v}
Below(tree, v) == Tree!BranchOf(tree, v) \ {v}
Siblings(tree, v) ==
  IF tree[v] = None THEN {} ELSE Children(tree, tree[v]) \ {v}

Init ==
  /\ navigationLevel = [n \in {} |-> 0]
  /\ clusterId = [n \in {} |-> 0]
  /\ displayed = {}
  /\ mMode = "clusters"
  /\ mClusterCount = MaxClusters
  /\ mNavigationLevel = 0
  /\ mReferenceNode = zero
  /\ mBackwardNavigationStates = <<>>
  /\ mForwardNavigationStates = <<>>
  /\ mClickedNode = None
  /\ parent = NoTree

-----------------------------------------------------------------------------
(* updateDisplay.                                                          *)

\* In the clusters mode, from the nodes shown: K-means gives each node in view
\* a cluster and shows it.  The others keep what they had.
Recluster(shown) ==
  /\ \E cluster \in [Seen' -> Clusters'] :
       clusterId' = [n \in Nodes' |-> IF n \in Seen' THEN cluster[n] ELSE clusterId[n]]
  /\ displayed' = shown \cup Seen'

\* Mutant of Closing: the siblings stay open.
ClosingClickedOnly(tree, clicked) == Below(tree, clicked)

\* The nodes initializeUpdateNeighborhoods takes off the tree and hides: below
\* the clicked node when it is open, else below its siblings.
Closing(tree, clicked) ==
  IF Children(tree, clicked) # {} THEN Below(tree, clicked)
  ELSE UNION {Below(tree, s) : s \in Siblings(tree, clicked)}

\* Mutant of Hidden: nodes off the tree stay shown.
HiddenNever(shown, closing) == shown

\* What is shown once the nodes taken off the tree are hidden.
Hidden(shown, closing) == shown \ closing

\* Mutant of Nearest: whatever their navigation level.
NearestOfAll(tree) ==
  {S \in SUBSET (Nodes' \ DOMAIN tree) :
     \E first \in Nodes' :
       LET pool == (Nodes' \ DOMAIN tree) \ {first}
       IN S \subseteq pool /\ Cardinality(S) = Min({NeighborCount, Cardinality(pool)})}

\* The sets of neighbours the Euclidean plugin can add: nodes in view in the
\* order of their distance, but for the first, which should be the clicked node
\* (it is another one when that is not in view, or for two equal media).  With
\* no node in view the plugin reads a row of an empty matrix: no outcome.
Nearest(tree) ==
  {S \in SUBSET (Seen' \ DOMAIN tree) :
     \E first \in Seen' :
       LET pool == (Seen' \ DOMAIN tree) \ {first}
       IN S \subseteq pool /\ Cardinality(S) = Min({NeighborCount, Cardinality(pool)})}

\* In the neighbours mode, from this tree and these nodes shown: what can be the
\* tree and the nodes shown.  A click beside the tree changes neither.  The
\* layout shows the nodes of the tree.
Unwrapped(tree, shown, clicked) ==
  LET onTree == clicked \in DOMAIN tree
      closing == IF onTree THEN Closing(tree, clicked) ELSE {}
      kept == [v \in DOMAIN tree \ closing |-> tree[v]]
      opens == onTree /\ Children(tree, clicked) = {}
      Grown(new) == [v \in DOMAIN kept \cup new |-> IF v \in new THEN clicked ELSE kept[v]]
  IN {[tree |-> Grown(new), shown |-> Hidden(shown, closing) \cup (DOMAIN Grown(new) \cap Nodes')]
      : new \in IF opens THEN Nearest(kept) ELSE {{}}}

Unwrap(tree, shown, clicked) ==
  \E view \in Unwrapped(tree, shown, clicked) : parent' = view.tree /\ displayed' = view.shown

UpdateDisplay ==
  \/ mMode = "clusters" /\ Recluster(displayed) /\ UNCHANGED parent
  \/ mMode = "neighbours" /\ Unwrap(parent, displayed, mClickedNode) /\ UNCHANGED clusterId

-----------------------------------------------------------------------------
(* Nodes and display.                                                      *)

\* initializeNode, by an import or a load, always with the clusters mode as its
\* default argument.
InitializeNode(m) ==
  /\ m \notin Nodes /\ Room(mBackwardNavigationStates \o mForwardNavigationStates)
  /\ Nodes = {} => m = zero
  /\ navigationLevel' = [n \in Nodes \cup {m} |-> IF n = m THEN 0 ELSE navigationLevel[n]]
  /\ clusterId' = [n \in Nodes \cup {m} |-> IF n = m THEN 0 ELSE clusterId[n]]
  /\ displayed' = displayed \cup {m}
  /\ UNCHANGED <<mMode, mClusterCount, mNavigationLevel, mReferenceNode, history,
                 mClickedNode, parent>>

\* updateDisplay by itself: from libraryContentChanged, or the weight of a feature
\* was moved.  The library's isEmpty also asks for features in its first medium;
\* media are only imported with features, so that it says whether there are media.
Refresh ==
  /\ Nodes # {}
  /\ UNCHANGED <<navigationLevel, mMode, mClusterCount, mNavigationLevel, mReferenceNode,
                 history, mClickedNode>>
  /\ UpdateDisplay

\* Mutant of ResetNavigation: the click is left over.
ResetNavigationOnly ==
  /\ UNCHANGED mClickedNode
  /\ mNavigationLevel' = 0
  /\ mReferenceNode' = zero
  /\ mBackwardNavigationStates' = <<>>
  /\ mForwardNavigationStates' = <<>>

\* resetNavigation.
ResetNavigation ==
  /\ mClickedNode' = None
  /\ mNavigationLevel' = 0
  /\ mReferenceNode' = zero
  /\ mBackwardNavigationStates' = <<>>
  /\ mForwardNavigationStates' = <<>>

\* The window's updateLibrary when nothing could be imported: the node 0 becomes
\* the reference although there is none yet.
UpdateEmptyLibrary ==
  /\ Nodes = {}
  /\ ResetNavigation
  /\ parent' = IF mMode = "neighbours" THEN Planted(zero) ELSE parent
  /\ UNCHANGED <<nodes, displayed, mMode, mClusterCount>>

\* The parameter "clusters" of the K-means plugin.
SetClusterNumber(n) ==
  /\ n # mClusterCount
  /\ mClusterCount' = n
  /\ UNCHANGED <<navigationLevel, mMode, mNavigationLevel, mReferenceNode, history,
                 mClickedNode>>
  /\ UpdateDisplay

Clean ==
  /\ ResetNavigation
  /\ navigationLevel' = [n \in {} |-> 0]
  /\ clusterId' = [n \in {} |-> 0]
  /\ displayed' = {}
  /\ mMode' = "clusters"
  /\ parent' = NoTree
  /\ UNCHANGED mClusterCount

-----------------------------------------------------------------------------
(* The mouse.                                                              *)

\* On a node in view, or beside all nodes, which leaves the node clicked before.
Press(n) ==
  /\ n \in (Seen \cap displayed) \cup {mClickedNode}
  /\ mClickedNode' = n
  /\ UNCHANGED <<nodes, displayed, mMode, mClusterCount, mNavigationLevel, mReferenceNode,
                 history, parent>>

\* Nothing is clicked any more, except during an import, when the view is told
\* that nothing was.
Release ==
  /\ mClickedNode' \in {None, mClickedNode}
  /\ UNCHANGED <<nodes, displayed, mMode, mClusterCount, mNavigationLevel, mReferenceNode,
                 history, parent>>

-----------------------------------------------------------------------------
(* The history of the clusters mode.                                       *)

CurrentNavigationState == [reference |-> mReferenceNode, level |-> mNavigationLevel]

SetCurrentNavigationState(state) ==
  /\ mReferenceNode' = state.reference
  /\ mNavigationLevel' = state.level

\* Mutant of Remember: the states ahead are kept.
RememberKeepingForward ==
  /\ mBackwardNavigationStates' = Append(mBackwardNavigationStates, CurrentNavigationState)
  /\ UNCHANGED mForwardNavigationStates

\* The two lists in storeNavigationState.
Remember ==
  /\ mBackwardNavigationStates' = Append(mBackwardNavigationStates, CurrentNavigationState)
  /\ mForwardNavigationStates' = <<>>

\* Mutant of Capped: levels above the browser's stay.
Uncapped(n) == navigationLevel[n]

\* The level storeNavigationState leaves a node at.
Capped(n) == Min({navigationLevel[n], mNavigationLevel})

\* storeNavigationState by itself, after loading an XML library.
StoreNavigationState ==
  /\ Room(mBackwardNavigationStates)
  /\ Remember
  /\ navigationLevel' = [n \in Nodes |-> Capped(n)]
  /\ UNCHANGED <<clusterId, displayed, mMode, mClusterCount, mNavigationLevel,
                 mReferenceNode, mClickedNode, parent>>

\* forwardNextLevel in the clusters mode.  incrementNavigationLevels raises every
\* node with the clicked node's cluster, in view or not, unless that is a cluster
\* of a time with more of them.
ZoomIntoCluster ==
  LET cluster == clusterId[mClickedNode]
      step(n) == IF cluster \in Clusters /\ clusterId[n] = cluster THEN 1 ELSE 0
  IN /\ mMode = "clusters" /\ mClickedNode # None
     /\ mNavigationLevel < MaxLevel /\ Room(mBackwardNavigationStates)
     /\ Remember
     /\ navigationLevel' = [n \in Nodes |-> Capped(n) + step(n)]
     /\ mNavigationLevel' = mNavigationLevel + step(mClickedNode)
     /\ mReferenceNode' = mClickedNode
     /\ UNCHANGED <<mMode, mClusterCount, mClickedNode, parent>>
     /\ Recluster(displayed)

\* forwardNextLevel in the neighbours mode: open or close the clicked node.
UnwrapClicked ==
  /\ mMode = "neighbours" /\ mClickedNode # None
  /\ UNCHANGED <<nodes, mMode, mClusterCount, mNavigationLevel, mReferenceNode, history,
                 mClickedNode>>
  /\ Unwrap(parent, displayed, mClickedNode)

ForwardNextLevel == ZoomIntoCluster \/ UnwrapClicked

GoBack ==
  /\ mMode = "clusters" /\ mBackwardNavigationStates # <<>>
  /\ mForwardNavigationStates' = Append(mForwardNavigationStates, CurrentNavigationState)
  /\ SetCurrentNavigationState(Last(mBackwardNavigationStates))
  /\ mBackwardNavigationStates' = Front(mBackwardNavigationStates)
  /\ UNCHANGED <<navigationLevel, mMode, mClusterCount, mClickedNode, parent>>
  /\ Recluster(displayed)

GoForward ==
  /\ mMode = "clusters" /\ mForwardNavigationStates # <<>>
  /\ mBackwardNavigationStates' = Append(mBackwardNavigationStates, CurrentNavigationState)
  /\ SetCurrentNavigationState(Last(mForwardNavigationStates))
  /\ mForwardNavigationStates' = Front(mForwardNavigationStates)
  /\ UNCHANGED <<navigationLevel, mMode, mClusterCount, mClickedNode, parent>>
  /\ Recluster(displayed)

-----------------------------------------------------------------------------
(* Reference node and modes.                                               *)

\* setReferenceNode: of the clicked node by changeReferenceNode, of any node by an
\* OSC message or when its file is dropped on the view.
SetReferenceNode(n) ==
  /\ n \in Nodes
  /\ mReferenceNode' = n
  /\ UNCHANGED <<navigationLevel, mMode, mClusterCount, mNavigationLevel, history,
                 mClickedNode>>
  /\ \/ mMode = "clusters" /\ Recluster(displayed) /\ UNCHANGED parent
     \/ mMode = "neighbours" /\ Unwrap(Planted(n), {}, mClickedNode) /\ UNCHANGED clusterId

\* Mutant of PlantReference: without the last click.
PlantReferenceOnly == Unwrap(Planted(mReferenceNode), {}, mClickedNode) /\ UNCHANGED mClickedNode

\* All nodes are hidden and the reference node planted; the display is updated
\* with the node clicked last, then with the reference node clicked.
PlantReference ==
  /\ \E view \in Unwrapped(Planted(mReferenceNode), {}, mClickedNode) :
       Unwrap(view.tree, view.shown, mReferenceNode)
  /\ mClickedNode' = mReferenceNode

\* switchMode.
SwitchToNeighbours ==
  /\ mMode = "clusters"
  /\ mMode' = "neighbours"
  /\ UNCHANGED <<nodes, mClusterCount, mNavigationLevel, mReferenceNode, history>>
  /\ IF Nodes # {} THEN PlantReference ELSE UNCHANGED <<displayed, parent, mClickedNode>>

SwitchToClusters ==
  /\ mMode = "neighbours"
  /\ mMode' = "clusters"
  /\ parent' = NoTree
  /\ UNCHANGED <<navigationLevel, mClusterCount, mNavigationLevel, mReferenceNode, history,
                 mClickedNode>>
  /\ Recluster(Nodes)

\* In the neighbours mode.  With an empty library the program dereferences the
\* null pointer setMediaNodeDisplayed has for the reference node.
ChangeNeighborsMethodPlugin ==
  /\ mMode = "neighbours" /\ Nodes # {}
  /\ UNCHANGED <<nodes, mMode, mClusterCount, mNavigationLevel, mReferenceNode, history>>
  /\ PlantReference

Next ==
  \/ \E m \in Media : InitializeNode(m) \/ Press(m) \/ SetReferenceNode(m)
  \/ \E n \in 1 .. MaxClusters : SetClusterNumber(n)
  \/ Refresh \/ UpdateEmptyLibrary \/ Clean \/ Release
  \/ StoreNavigationState \/ ForwardNextLevel \/ GoBack \/ GoForward
  \/ SwitchToNeighbours \/ SwitchToClusters \/ ChangeNeighborsMethodPlugin

Spec == Init /\ [][Next]_vars

-----------------------------------------------------------------------------
(* Properties.                                                             *)

\* All states there are to return to, from the first one to the last.
States ==
  mBackwardNavigationStates \o <<CurrentNavigationState>> \o Reverse(mForwardNavigationStates)

\* The variables hold what their declarations allow; whatever is clicked,
\* remembered or a reference is a node that exists, once there are any.
TypeOK ==
  /\ Nodes \subseteq Media
  /\ navigationLevel \in [Nodes -> 0 .. MaxLevel]
  /\ clusterId \in [Nodes -> 0 .. MaxClusters - 1]
  /\ displayed \subseteq Nodes
  /\ mMode \in {"clusters", "neighbours"}
  /\ mClusterCount \in 1 .. MaxClusters
  /\ mClickedNode \in Nodes \cup {None}
  /\ \A i \in DOMAIN States : States[i] \in [reference : Nodes \cup {zero}, level : 0 .. MaxLevel]
  /\ DOMAIN parent \subseteq Nodes \cup {zero}
  /\ parent \in [DOMAIN parent -> Nodes \cup {None}]

\* Going forward through the states never leads to a lower level, whatever the
\* order of zooms, steps back and loads: "no branching".
HistoryOrdered ==
  \A i \in 2 .. Len(States) : States[i - 1].level <= States[i].level

\* The flags, the levels and the tree, which decide together what is drawn, agree:
\* in the clusters mode there is no tree and all nodes in view are shown; in the
\* neighbours mode the nodes of the tree are shown, and in view but for the root.
DisplayMatches ==
  IF mMode = "clusters" THEN parent = NoTree /\ Seen \subseteq displayed
  ELSE /\ DOMAIN parent \cap Nodes \subseteq displayed
       /\ {v \in DOMAIN parent : parent[v] # None} \subseteq Seen

\* After a click on a node of the tree only this node and those above it are open,
\* whatever was open before: opening a branch closes all others.
OneBranchOpen ==
  [][UnwrapClicked /\ mClickedNode \in DOMAIN parent =>
       \A v \in DOMAIN parent' :
         Children(parent', v) # {} => mClickedNode \in Tree!BranchOf(parent', v)]_vars

\* In the neighbours mode no node is shown beside the tree, but for those shown
\* beside it before and those just imported: none when the mode is entered.
NoNewStrays ==
  [][mMode' = "neighbours" =>
       displayed' \ DOMAIN parent' \subseteq
         (IF mMode = "neighbours" THEN displayed \ DOMAIN parent ELSE {})
         \cup (Nodes' \ Nodes)]_vars

\* Zooming by a node in view shows the nodes in view of its cluster, and no
\* others, although levels left by earlier zooms and steps back may be higher.
ZoomNarrows ==
  [][ZoomIntoCluster /\ mClickedNode \in Seen =>
       Seen' = {n \in Seen : clusterId[n] = clusterId[mClickedNode]}]_vars

\* "Expand the first branch at the reference node": when no click is left over
\* and there are two other nodes in view, switching to the neighbours mode opens
\* the reference node.
SwitchExpands ==
  [][mMode = "clusters" /\ mMode' = "neighbours" /\ mClickedNode = None
     /\ Cardinality(Seen \ {mReferenceNode}) >= 2 =>
       Children(parent', mReferenceNode) # {}]_vars
=============================================================================
