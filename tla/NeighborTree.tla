---------------------------- MODULE NeighborTree ----------------------------
(***************************************************************************)
(* The tree of the neighbours mode, pointer by pointer: core/Tree.{h,cpp}, *)
(* with the walks of core/ACNeighborsManager.cpp.                          *)
(*                                                                         *)
(* Each node is linked three times over, by its parent's list of children, *)
(* by the links to its siblings and by the map from values to nodes, and   *)
(* the code follows a different one for each purpose: the sibling links to *)
(* take values off the map, the lists of children to free the nodes.  A    *)
(* value has at most one node, which goes by its value here; a value       *)
(* without a node that something still points to is a dangling pointer.    *)
(***************************************************************************)
EXTENDS Integers, FiniteSetsExt, SequencesExt

CONSTANTS
  Values,   \* the media ids
  NoValue   \* the null pointer

ASSUME NoValueAssumption == NoValue \notin Values

VARIABLES
  node,     \* the nodes allocated: value -> [parent, depth, prev, next, children]
  mRoot,
  mTreeMap, \* its keys
  mMaxDepth

vars == <<node, mRoot, mTreeMap, mMaxDepth>>

Init ==
  /\ node = [v \in {} |-> NoValue]
  /\ mRoot = NoValue
  /\ mTreeMap = {}
  /\ mMaxDepth = -1

first(v) == IF node[v].children = <<>> THEN NoValue ELSE Head(node[v].children)

\* Mutant of LinkedBelow: the children only.
LinkedChildren(v) ==
  LET from[w \in DOMAIN node] ==
        {w} \cup (IF node[w].next = NoValue THEN {} ELSE from[node[w].next])
  IN IF first(v) = NoValue THEN {} ELSE from[first(v)]

\* What Tree::cleanupChildren visits: from the first child along the links to
\* the next sibling, each with all that is below it.
LinkedBelow(v) ==
  LET from[w \in DOMAIN node] ==
        {w} \cup (IF first(w) = NoValue THEN {} ELSE from[first(w)])
            \cup (IF node[w].next = NoValue THEN {} ELSE from[node[w].next])
  IN IF first(v) = NoValue THEN {} ELSE from[first(v)]

\* What deleting a node frees below it: ~Node deletes the list of children.
ListedBelow(v) ==
  LET below[w \in DOMAIN node] ==
        UNION {{c} \cup below[c] : c \in ToSet(node[w].children)}
  IN below[v]

Free(freed) == [v \in DOMAIN node \ freed |-> node[v]]

\* computeMaxDepth, over what the map then holds.
MaxDepth(keys) == Max({-1} \cup {node[v].depth : v \in keys})

-----------------------------------------------------------------------------

Leaf(p, depth, prev) ==
  [parent |-> p, depth |-> depth, prev |-> prev, next |-> NoValue, children |-> <<>>]

\* Tree::root: what there was is cleared first.
Root(v) ==
  /\ mRoot' = v
  /\ mTreeMap' = {v}
  /\ node' = [w \in {v} |-> Leaf(NoValue, 0, NoValue)]
  /\ mMaxDepth' = 0

\* Mutant of AppendNode: a value may be appended twice.
AppendAnyNode(p, c) ==
  LET siblings == node[p].children
      last == IF siblings = <<>> THEN NoValue ELSE Last(siblings)
      new == Leaf(p, node[p].depth + 1, last)
      Linked(v) == [node[v] EXCEPT
                      !.next = IF v = last THEN c ELSE @,
                      !.children = IF v = p THEN Append(@, c) ELSE @]
  IN /\ p \in mTreeMap
     /\ node' = [v \in DOMAIN node \cup {c} |-> IF v = c THEN new ELSE Linked(v)]
     /\ mTreeMap' = mTreeMap \cup {c}
     /\ mMaxDepth' = Max({mMaxDepth, new.depth})
     /\ UNCHANGED mRoot

\* Tree::append and Node::append.
AppendNode(p, c) ==
  LET siblings == node[p].children
      last == IF siblings = <<>> THEN NoValue ELSE Last(siblings)
      new == Leaf(p, node[p].depth + 1, last)
      Linked(v) == [node[v] EXCEPT
                      !.next = IF v = last THEN c ELSE @,
                      !.children = IF v = p THEN Append(@, c) ELSE @]
  IN /\ p \in mTreeMap /\ c \notin mTreeMap
     /\ node' = [v \in DOMAIN node \cup {c} |-> IF v = c THEN new ELSE Linked(v)]
     /\ mTreeMap' = mTreeMap \cup {c}
     /\ mMaxDepth' = Max({mMaxDepth, new.depth})
     /\ UNCHANGED mRoot

\* Tree::clear, also when the tree is empty.
ClearTree ==
  /\ node' = IF mRoot = NoValue THEN node ELSE Free({mRoot} \cup ListedBelow(mRoot))
  /\ mTreeMap' = IF mRoot = NoValue THEN mTreeMap
                 ELSE mTreeMap \ ({mRoot} \cup LinkedBelow(mRoot))
  /\ mRoot' = NoValue
  /\ mMaxDepth' = -1

\* Mutant of RemoveNode: the next sibling is not told.
RemoveNodeHalfLinked(v) ==
  LET p == node[v].parent
      Unlinked(w) == [node[w] EXCEPT
                        !.next = IF w = node[v].prev THEN node[v].next ELSE @,
                        !.children = IF w = p THEN RemoveFirst(@, v) ELSE @]
      keys == mTreeMap \ ({v} \cup LinkedBelow(v))
  IN /\ v \in mTreeMap /\ p # NoValue
     /\ node' = [w \in DOMAIN node \ ({v} \cup ListedBelow(v)) |-> Unlinked(w)]
     /\ mTreeMap' = keys
     /\ mMaxDepth' = MaxDepth(keys)
     /\ UNCHANGED mRoot

\* Tree::remove of a node with a parent: Node::remove takes it off the list of
\* children, joins its neighbours and deletes it.  Removing the root this way
\* leaves mRoot dangling; nothing in the program does it.
RemoveNode(v) ==
  LET p == node[v].parent
      freed == {v} \cup ListedBelow(v)
      Unlinked(w) == [node[w] EXCEPT
                        !.next = IF w = node[v].prev THEN node[v].next ELSE @,
                        !.prev = IF w = node[v].next THEN node[v].prev ELSE @,
                        !.children = IF w = p THEN RemoveFirst(@, v) ELSE @]
      keys == mTreeMap \ ({v} \cup LinkedBelow(v))
  IN /\ v \in mTreeMap /\ p # NoValue
     /\ node' = [w \in DOMAIN node \ freed |-> Unlinked(w)]
     /\ mTreeMap' = keys
     /\ mMaxDepth' = MaxDepth(keys)
     /\ UNCHANGED mRoot

\* Mutant of RemoveChildren: the maximal depth is not computed again.
RemoveChildrenKeepingDepth(v) ==
  /\ v \in mTreeMap
  /\ node' = [Free(ListedBelow(v)) EXCEPT ![v].children = <<>>]
  /\ mTreeMap' = mTreeMap \ LinkedBelow(v)
  /\ UNCHANGED <<mRoot, mMaxDepth>>

\* Tree::removeChildren and Node::clear.
RemoveChildren(v) ==
  LET keys == mTreeMap \ LinkedBelow(v)
  IN /\ v \in mTreeMap
     /\ node' = [Free(ListedBelow(v)) EXCEPT ![v].children = <<>>]
     /\ mTreeMap' = keys
     /\ mMaxDepth' = MaxDepth(keys)
     /\ UNCHANGED mRoot

Next ==
  \/ \E v \in Values : Root(v) \/ RemoveNode(v) \/ RemoveChildren(v)
  \/ \E p, c \in Values : AppendNode(p, c)
  \/ ClearTree

Spec == Init /\ [][Next]_vars

\* Mutant of NodeIds: the walk does not stop at v.
NodeIdsToTheEnd(v) ==
  LET onward[w \in DOMAIN node] ==
        IF node[w].next # NoValue THEN node[w].next
        ELSE IF node[w].parent = NoValue THEN NoValue
        ELSE onward[node[w].parent]
      follows(w) == IF first(w) # NoValue THEN first(w) ELSE onward[w]
      walk[w \in DOMAIN node] ==
        IF follows(w) = NoValue THEN <<w>> ELSE <<w>> \o walk[follows(w)]
  IN walk[v]

\* ACNeighborsManager::getNodeIds(v): into the first child of a node that has
\* one, else to the next sibling of the node or of its nearest ancestor with
\* one, up to v.  (No walk climbs past the root: it would have left v's branch.)
NodeIds(v) ==
  LET onward[w \in DOMAIN node] ==
        IF w = v THEN NoValue
        ELSE IF node[w].next # NoValue THEN node[w].next
        ELSE IF node[w].parent = NoValue THEN NoValue
        ELSE onward[node[w].parent]
      follows(w) == IF first(w) # NoValue THEN first(w) ELSE onward[w]
      walk[w \in DOMAIN node] ==
        IF follows(w) = NoValue THEN <<w>> ELSE <<w>> \o walk[follows(w)]
  IN walk[v]

-----------------------------------------------------------------------------
(* Properties.                                                             *)

\* "this map is just used to accelerate some functions ... this is the actual
\* tree": the keys of the map are the nodes of the tree, all of them allocated
\* and none leaked, although each is taken off along other pointers.
MapIsTree ==
  /\ DOMAIN node = mTreeMap
  /\ mTreeMap = IF mRoot = NoValue THEN {} ELSE {mRoot} \cup ListedBelow(mRoot)

\* The list of children of a node, its children's links to each other and
\* their links to it say the same.
LinksAgree ==
  /\ \A v \in DOMAIN node : \A i \in DOMAIN node[v].children :
       LET list == node[v].children
           child == node[list[i]]
       IN /\ child.parent = v
          /\ child.prev = IF i = 1 THEN NoValue ELSE list[i - 1]
          /\ child.next = IF i = Len(list) THEN NoValue ELSE list[i + 1]
  /\ \A v \in DOMAIN node : node[v].parent # NoValue =>
       \E i \in DOMAIN node[node[v].parent].children : node[node[v].parent].children[i] = v

\* Depths count the links to the root, and the maximum is kept up to date when
\* the deepest branch is cut: getSpanAtDepth's range is right.
DepthsRight ==
  /\ \A v \in DOMAIN node :
       node[v].depth = IF v = mRoot THEN 0 ELSE node[node[v].parent].depth + 1
  /\ mMaxDepth = MaxDepth(mTreeMap)

\* The walk meets every node below v exactly once, and v first.
WalkComplete ==
  \A v \in mTreeMap :
    /\ Head(NodeIds(v)) = v
    /\ ToSet(NodeIds(v)) = {v} \cup ListedBelow(v)
    /\ IsInjective(NodeIds(v))

Abstract == INSTANCE RootedTree WITH parent <- [v \in mTreeMap |-> node[v].parent]

\* What the operations do to the pointers is what a tree's do.
IsRootedTree == Abstract!Spec
=============================================================================
