----------------------------- MODULE RootedTree -----------------------------
(***************************************************************************)
(* A tree of values as its users see it: who is whose parent, and the     *)
(* operations that let it grow and cut it back.                            *)
(***************************************************************************)
CONSTANTS Values, NoValue

VARIABLE parent  \* of each value of the tree; NoValue for the root

InTree == DOMAIN parent

Init == parent = [v \in {} |-> NoValue]

Plant(v) == parent' = [w \in {v} |-> NoValue]

Grow(p, v) ==
  /\ p \in InTree /\ v \in Values \ InTree
  /\ parent' = [w \in InTree \cup {v} |-> IF w = v THEN p ELSE parent[w]]

\* v and all that descend from it.
BranchOf(tree, v) ==
  LET climbs[w \in DOMAIN tree] ==
        w = v \/ (tree[w] # NoValue /\ climbs[tree[w]])
  IN {w \in DOMAIN tree : climbs[w]}

Branch(v) == BranchOf(parent, v)

Keep(kept) == parent' = [w \in kept |-> parent[w]]

Cut(v) == Keep(InTree \ Branch(v))

CutAbove(v) == Keep((InTree \ Branch(v)) \cup {v})

Next ==
  \/ \E v \in Values : Plant(v)
  \/ \E p, v \in Values : Grow(p, v)
  \/ \E v \in InTree : Cut(v) \/ CutAbove(v)

Spec == Init /\ [][Next]_parent
=============================================================================
