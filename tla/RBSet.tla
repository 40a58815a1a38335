------------------------------- MODULE RBSet -------------------------------
(***************************************************************************)
(* sjtu::Set, the red-black tree of the users who are logged in            *)
(* (src/include/mySTL/set.hpp).  A node keeps its value for life, Erase    *)
(* swaps nodes and not values, so a node is named by its value.  The code  *)
(* writes every case twice, for the left and the right; here a side is an  *)
(* argument.                                                               *)
(***************************************************************************)
EXTENDS Integers, FiniteSets, Sequences

CONSTANT Value

ASSUME ValueAssumption == Value \subseteq Nat \ {0}

VARIABLES
  tree,   \* the members root_, nodes_num_, and color_, parent_, ..._child_ of the nodes
  answer  \* the call made last and what it returned

vars == <<tree, answer>>

Null == 0
Sentinar == -1  \* sentinar_, the spare node of Swap
Node == Value \cup {Sentinar}
RED == 1
BLACK == 0
Side == {"left", "right"}
Other(side) == IF side = "left" THEN "right" ELSE "left"

EmptyTree ==
  [root |-> Null, num |-> 0,
   color |-> [n \in Node |-> BLACK],
   parent |-> [n \in Node |-> Null],
   child |-> [side \in Side |-> [n \in Node |-> Null]]]

\* delete node, or what Swap leaves in the sentinar_ and never reads.
Forget(t, node) ==
  [t EXCEPT !.color[node] = BLACK, !.parent[node] = Null,
            !.child["left"][node] = Null, !.child["right"][node] = Null]

IsRed(t, node) == node # Null /\ t.color[node] = RED

Paint(t, nodes, color) ==
  [t EXCEPT !.color = [n \in Node |-> IF n \in nodes THEN color ELSE @[n]]]

SideOf(t, node) == IF t.child["left"][t.parent[node]] = node THEN "left" ELSE "right"

\* The parent of before, if there is one, has after in its place.
Relink(t, parent, before, after) ==
  IF parent = Null
  THEN t
  ELSE [t EXCEPT !.child[IF t.child["left"][parent] = before THEN "left" ELSE "right"][parent] = after]

Adopt(t, parent, child) ==
  IF child = Null THEN t ELSE [t EXCEPT !.parent[child] = parent]

\* LeftRotation and RightRotation: after takes the place of its parent before,
\* which becomes its child on the given side.
Rotate(t, before, after, side) ==
  LET inner == t.child[side][after]
      risen == Relink([t EXCEPT !.parent[after] = t.parent[before]],
                      t.parent[before], before, after)
  IN Adopt([risen EXCEPT !.child[Other(side)][before] = inner,
                         !.child[side][after] = before,
                         !.parent[before] = after], before, inner)

\* empty takes the links of target and its place in the tree.
ExchangeWithEmpty(t, target, empty) ==
  LET moved == [t EXCEPT !.parent[empty] = t.parent[target],
                         !.child["left"][empty] = t.child["left"][target],
                         !.child["right"][empty] = t.child["right"][target]]
  IN Adopt(Adopt(Relink(moved, moved.parent[empty], target, empty),
                 empty, moved.child["left"][empty]),
           empty, moved.child["right"][empty])

\* The two nodes change places, and colours with them.
Swap(t, high, low) ==
  LET painted == [t EXCEPT !.color[high] = t.color[low], !.color[low] = t.color[high]]
  IN Forget(ExchangeWithEmpty(
              ExchangeWithEmpty(
                ExchangeWithEmpty(painted, high, Sentinar), low, high), Sentinar, low),
            Sentinar)

RECURSIVE Topmost(_, _)
Topmost(t, node) == IF t.parent[node] = Null THEN node ELSE Topmost(t, t.parent[node])

\* root_ follows its parents to the top.
RaiseRoot(t) == [t EXCEPT !.root = Topmost(t, @)]

RECURSIVE Furthest(_, _, _)
Furthest(t, node, side) ==
  IF t.child[side][node] = Null THEN node ELSE Furthest(t, t.child[side][node], side)

\* Predecessor and Successor of a node with a child on that side.
Neighbour(t, node, side) == Furthest(t, t.child[side][node], Other(side))

RECURSIVE SearchFrom(_, _, _)
SearchFrom(t, node, value) ==
  LET next == t.child[IF value < node THEN "left" ELSE "right"][node]
  IN IF value = node \/ next = Null THEN node ELSE SearchFrom(t, next, value)

\* The node of the value, or else the node it would hang under.
Search(t, value) == IF t.root = Null THEN Null ELSE SearchFrom(t, t.root, value)

Exists(t, value) == Search(t, value) = value

-----------------------------------------------------------------------------
RECURSIVE InsertMaintain(_, _)
\* A red node under a red parent: an uncle that is red as well takes over the
\* black of the grandparent, else the parent rises above it.
InsertMaintain(t, target) ==
  IF target = t.root \/ ~IsRed(t, t.parent[target])
  THEN t
  ELSE LET parent == t.parent[target]
           grandparent == t.parent[parent]
           side == SideOf(t, parent)
           uncle == t.child[Other(side)][grandparent]
           bent == t.child[Other(side)][parent] = target
           straight == IF bent THEN Rotate(t, parent, target, side) ELSE t
           upper == IF bent THEN target ELSE parent
           lower == IF bent THEN parent ELSE target
       IN IF IsRed(t, uncle)
          THEN InsertMaintain(Paint(Paint(t, {parent, uncle}, BLACK), {grandparent}, RED),
                              grandparent)
          ELSE InsertMaintain(
                 Rotate(Paint(Paint(straight, {upper}, BLACK), {grandparent}, RED),
                        grandparent, upper, Other(side)),
                 lower)

\* What both Maintains end with.
Finish(t) == LET raised == RaiseRoot(t) IN Paint(raised, {raised.root}, BLACK)

\* A new red leaf.
Inserted(t, value) ==
  IF t.root = Null
  THEN [t EXCEPT !.root = value, !.num = 1]
  ELSE IF Exists(t, value)
  THEN t
  ELSE LET place == Search(t, value)
           hung == [t EXCEPT !.color[value] = RED, !.parent[value] = place,
                             !.child[IF value < place THEN "left" ELSE "right"][place] = value,
                             !.num = @ + 1]
       IN Finish(InsertMaintain(hung, value))

-----------------------------------------------------------------------------
\* A mistake: the sibling that rises keeps its black.
LendOuterBlack(t, parent, sibling, side) ==
  Rotate(Paint(t, {parent, t.child[Other(side)][sibling]}, BLACK), parent, sibling, side)

\* The sibling rises in the colour of the parent, between two black nodes.
LendOuter(t, parent, sibling, side) ==
  Rotate(Paint(Paint(t, {parent, t.child[Other(side)][sibling]}, BLACK),
               {sibling}, t.color[parent]), parent, sibling, side)

RECURSIVE EraseMaintain(_, _)
\* The subtree of target is to lose a black node: a red nephew makes up for
\* it, else a red parent, else the parent's subtree is short as well.
EraseMaintain(t, target) ==
  IF target = t.root \/ IsRed(t, target)
  THEN t
  ELSE LET parent == t.parent[target]
           side == SideOf(t, target)
           first == t.child[Other(side)][parent]
           u == IF IsRed(t, first)
                THEN Rotate(Paint(Paint(t, {parent}, RED), {first}, BLACK), parent, first, side)
                ELSE t
           sibling == u.child[Other(side)][parent]
           outer == u.child[Other(side)][sibling]
           inner == u.child[side][sibling]
       IN CASE IsRed(u, outer) -> LendOuter(u, parent, sibling, side)
            [] ~IsRed(u, outer) /\ IsRed(u, inner) ->
                 LendOuter(Rotate(u, sibling, inner, Other(side)), parent, inner, side)
            [] ~IsRed(u, outer) /\ ~IsRed(u, inner) /\ IsRed(u, parent) ->
                 Paint(Paint(u, {parent}, BLACK), {sibling}, RED)
            [] OTHER -> EraseMaintain(Paint(u, {sibling}, RED), parent)

\* place changes places with its neighbour in the order and then with the
\* red child that is left to it, until it is a leaf.
Lowered(t, place, side) ==
  LET sunk == RaiseRoot(Swap(t, place, Neighbour(t, place, side)))
      left == sunk.child[side][place]
  IN IF left = Null THEN sunk ELSE Swap(sunk, place, left)

\* A leaf is cut off, after the tree has been made ready to lose it.
Cut(t, place) ==
  LET ready == Finish(EraseMaintain(t, place))
  IN [Forget(Relink(ready, ready.parent[place], place, Null), place) EXCEPT !.num = @ - 1]

\* A mistake: a node with a right child only is cut off like a leaf.
ErasedAsLeaf(t, value) ==
  IF t.num <= 1
  THEN EmptyTree
  ELSE IF ~Exists(t, value)
  THEN t
  ELSE IF t.child["left"][value] # Null
  THEN Cut(Lowered(t, value, "left"), value)
  ELSE Cut(t, value)

\* One node or none: the root goes, whatever the value.
Erased(t, value) ==
  IF t.num <= 1
  THEN EmptyTree
  ELSE IF ~Exists(t, value)
  THEN t
  ELSE IF t.child["left"][value] # Null
  THEN Cut(Lowered(t, value, "left"), value)
  ELSE IF t.child["right"][value] # Null
  THEN Cut(Lowered(t, value, "right"), value)
  ELSE Cut(t, value)

-----------------------------------------------------------------------------
Init == tree = EmptyTree /\ answer = <<>>

Insert(value) ==
  /\ tree' = Inserted(tree, value)
  /\ answer' = <<"Insert", value, ~Exists(tree, value)>>

Erase(value) ==
  /\ tree' = Erased(tree, value)
  /\ answer' = <<"Erase", value, tree.num <= 1 \/ Exists(tree, value)>>

Exist(value) ==
  /\ answer' = <<"Exist", value, Exists(tree, value)>>
  /\ UNCHANGED tree

Next == \E value \in Value : Insert(value) \/ Erase(value) \/ Exist(value)

Spec == Init /\ [][Next]_vars

-----------------------------------------------------------------------------
RECURSIVE InOrder(_, _)
InOrder(t, node) ==
  IF node = Null
  THEN <<>>
  ELSE InOrder(t, t.child["left"][node]) \o <<node>> \o InOrder(t, t.child["right"][node])

RECURSIVE BlackHeights(_, _)
\* The numbers of black nodes on the ways from node to the ends of the tree.
BlackHeights(t, node) ==
  IF node = Null
  THEN {0}
  ELSE {h + (IF IsRed(t, node) THEN 0 ELSE 1) :
          h \in BlackHeights(t, t.child["left"][node]) \cup BlackHeights(t, t.child["right"][node])}

\* Whatever is inserted and erased, the tree is a red-black tree: values in
\* order and counted, parents that know their children, no red node under a
\* red one, and the same number of black nodes on every way down (InsertMaintain,
\* EraseMaintain and Swap).  The code dereferences siblings and grandparents
\* without a test on the strength of this.
RedBlack ==
  LET inorder == InOrder(tree, tree.root)
  IN /\ tree.num = Len(inorder)
     /\ \A i \in 1 .. Len(inorder) - 1 : inorder[i] < inorder[i + 1]
     /\ tree.root # Null => tree.parent[tree.root] = Null /\ ~IsRed(tree, tree.root)
     /\ \A i \in DOMAIN inorder : \A side \in Side :
          LET child == tree.child[side][inorder[i]]
          IN child # Null =>
               /\ tree.parent[child] = inorder[i]
               /\ ~(IsRed(tree, child) /\ IsRed(tree, inorder[i]))
     /\ Cardinality(BlackHeights(tree, tree.root)) = 1

Contract == INSTANCE SetContract WITH set <- {v \in Value : Exists(tree, v)}

\* The tree answers as the set that core takes it for, with every node found
\* by the search after any rotation and swap.
ImplementsSet == Contract!Spec
=============================================================================
