--------------------------- MODULE ScopedInstance ---------------------------
(***************************************************************************)
(* ScopedInstance of scope.hpp, an inverse tree for one key in which the   *)
(* last value set for a scope wins, and the tree of nodes made of it for   *)
(* the introspection functions of Lua: Tree of tree.hpp, an array of nodes *)
(* linked to their first child and next sibling, ScopeHierarchyTreeBuilder *)
(* and ScopeListMap, which puts the scopes of all keys into one tree.      *)
(* Indices count from 1, NoNode is the 0 of the code.                      *)
(***************************************************************************)
EXTENDS InvTree, Integers

CONSTANT MaxStep    \* the end of the outermost scope (INT_MAX)

EmptyTable == [m_invtree |-> <<>>, m_map |-> [e \in {} |-> NoLink]]

IsKnownIn(table, scope) == Known(table.m_invtree, table.m_map, scope)

IsRefusedIn(table, scope) == HierarchyError(table.m_invtree, table.m_map, scope)

(* Mutant: the first instance stays, as in ScopedMap.                      *)
StoredOnce(table, scope, value) ==
  IF IsKnownIn(table, scope)
  THEN table
  ELSE [m_invtree |-> Inserted(table.m_invtree, table.m_map, scope, value),
        m_map     |-> NewEnds(table.m_invtree, table.m_map, scope)]

(* ScopedInstance::set for a scope it does not refuse.                     *)
Stored(table, scope, value) ==
  IF IsKnownIn(table, scope)
  THEN [table EXCEPT !.m_invtree[Meets(table.m_invtree, table.m_map[scope.end], scope)].value = value]
  ELSE [m_invtree |-> Inserted(table.m_invtree, table.m_map, scope, value),
        m_map     |-> NewEnds(table.m_invtree, table.m_map, scope)]

-----------------------------------------------------------------------------
Root == [start |-> 0, end |-> MaxStep]

NoNode == 0

Node(scope, value) == [scope |-> scope, value |-> value, next |-> NoNode, chld |-> NoNode]

NewTree(value) == [ar |-> <<Node(Root, value)>>, last |-> <<NoNode>>]

(* The last child of a node is remembered with its first one.              *)
addSibling(tree, node, item) ==
  LET new == Len(tree.ar) + 1
  IN  [ar   |-> Append([tree.ar EXCEPT ![tree.last[node]].next = new], item),
       last |-> Append([tree.last EXCEPT ![node] = new], NoNode)]

addChild(tree, node, item) ==
  LET new == Len(tree.ar) + 1
  IN  IF tree.ar[node].chld = NoNode
      THEN [ar |-> Append([tree.ar EXCEPT ![node].chld = new], item), last |-> Append(tree.last, new)]
      ELSE addSibling(tree, tree.ar[node].chld, item)

Siblings(tree, node) ==
  LET chain[n \in 0 .. Len(tree.ar)] == IF n = NoNode THEN <<>> ELSE <<n>> \o chain[tree.ar[n].next]
  IN  chain[node]

Children(tree, node) == Siblings(tree, tree.ar[node].chld)

(* depthfirst_iterator: down to the first child, or on to the next sibling *)
(* of the node or of the last one passed that has one.                     *)
Skip(tree, it) ==
  LET node == tree.ar[it.pos]
      open == {k \in 2 .. Len(it.stack) : tree.ar[it.stack[k]].next # NoNode}
      up   == CHOOSE k \in open : \A j \in open : j <= k
  IN  IF node.chld # NoNode THEN [pos |-> node.chld, stack |-> Append(it.stack, it.pos)]
      ELSE IF node.next # NoNode THEN [pos |-> node.next, stack |-> it.stack]
      ELSE IF open # {} THEN [pos |-> tree.ar[it.stack[up]].next, stack |-> SubSeq(it.stack, 1, up - 1)]
      ELSE [pos |-> it.stack[1], stack |-> <<>>]

Begin(tree) == [pos |-> 1, stack |-> <<Len(tree.ar) + 1>>]

DepthFirst(tree) ==
  LET at[n \in 1 .. Len(tree.ar) + 1] == IF n = 1 THEN Begin(tree) ELSE Skip(tree, at[n - 1])
  IN  [n \in 1 .. Len(tree.ar) + 1 |-> at[n].pos]

(* Tree::translate copies the children of one node after the other, those  *)
(* of the node copied last first.                                          *)
CopyChildren(tree, copy) ==
  LET from == copy.stack[Len(copy.stack)].from
      to   == copy.stack[Len(copy.stack)].to
      kids == Children(tree, from)
      added[k \in 0 .. Len(kids)] ==
        IF k = 0 THEN copy.tree
        ELSE addChild(added[k - 1], to, Node(tree.ar[kids[k]].scope, tree.ar[kids[k]].value))
  IN  [tree  |-> added[Len(kids)],
       stack |-> SubSeq(copy.stack, 1, Len(copy.stack) - 1)
                   \o [k \in DOMAIN kids |-> [from |-> kids[k], to |-> Len(copy.tree.ar) + k]]]

translate(tree) ==
  LET copied[n \in 0 .. Len(tree.ar)] ==
        IF n = 0 THEN [tree |-> NewTree(tree.ar[1].value), stack |-> <<[from |-> 1, to |-> 1]>>]
        ELSE CopyChildren(tree, copied[n - 1])
  IN  copied[Len(tree.ar)].tree

-----------------------------------------------------------------------------
(* The list an iterator of the inverse tree passes, innermost first.       *)
Passed(ar, index) ==
  LET list[i \in 0 .. Len(ar)] == IF i = NoLink THEN <<>> ELSE <<i>> \o list[ar[i].prev]
  IN  list[index]

NewBuilder == [tree |-> NewTree(NullVal), nodeOf |-> [s \in {Root} |-> 1], failed |-> FALSE]

(* Mutant: the scope is not entered into m_scope2nodeidxMap.               *)
AddUnknown(builder, at, element) ==
  [builder EXCEPT !.tree = addChild(@, at, Node(element.scope, element.value))]

AddBelow(builder, at, element) ==
  [builder EXCEPT !.tree   = addChild(@, at, Node(element.scope, element.value)),
                  !.nodeOf = [s \in DOMAIN @ \cup {element.scope} |->
                                IF s = element.scope THEN Len(builder.tree.ar) + 1 ELSE @[s]]]

(* ScopeHierarchyTreeBuilder::insert: the elements up to the first one     *)
(* whose scope has a node become a path below it, the outermost first.  A  *)
(* node has the value it was made with, only the root may get one later.   *)
BuilderInsert(builder, ar, list) ==
  LET met   == {n \in DOMAIN list : ar[list[n]].scope \in DOMAIN builder.nodeOf}
      k     == CHOOSE n \in met : \A m \in met : n <= m
      new   == IF met = {} THEN Len(list) ELSE k - 1
      top   == IF met = {} THEN 1 ELSE builder.nodeOf[ar[list[k]].scope]
      old   == builder.tree.ar[top].value
      value == IF met = {} THEN old ELSE ar[list[k]].value
      path[n \in 0 .. new] ==
        IF n = 0 THEN [builder |-> [builder EXCEPT !.tree.ar[top].value = value], at |-> top]
        ELSE [builder |-> AddBelow(path[n - 1].builder, path[n - 1].at, ar[list[new + 1 - n]]),
              at      |-> Len(path[n - 1].builder.tree.ar) + 1]
  IN  IF builder.failed \/ (old # value /\ ~(top = 1 /\ old = NullVal))
      THEN [builder EXCEPT !.failed = TRUE]
      ELSE path[new].builder

(* ScopedInstance::getTree: list by list, in the order of their ends.      *)
getTree(table) ==
  LET built[e \in 0 .. MaxStep] ==
        IF e = 0 THEN NewBuilder
        ELSE IF e \in DOMAIN table.m_map
             THEN BuilderInsert(built[e - 1], table.m_invtree, Passed(table.m_invtree, table.m_map[e]))
             ELSE built[e - 1]
  IN  built[MaxStep]

(* ScopeListMap::getTree: the scopes of all keys, here with what is        *)
(* defined in each, in the order of ScopeCompare.                          *)
ScopeCompare(s, t) == IF s.end = t.end THEN s.start < t.start ELSE s.end < t.end

SetAll(defined) ==
  LET last(scopes) == CHOOSE s \in scopes : \A t \in scopes \ {s} : ScopeCompare(t, s)
      all[scopes \in SUBSET DOMAIN defined] ==
        IF scopes = {} THEN [table |-> EmptyTable, failed |-> FALSE]
        ELSE LET s == last(scopes)
                 before == all[scopes \ {s}]
             IN  IF before.failed \/ IsRefusedIn(before.table, s) THEN [before EXCEPT !.failed = TRUE]
                 ELSE [before EXCEPT !.table = Stored(@, s, defined[s])]
  IN  all[DOMAIN defined]

TreeOfAll(defined) ==
  LET all   == SetAll(defined)
      built == getTree(all.table)
  IN  [tree |-> translate(built.tree), failed |-> all.failed \/ built.failed]

-----------------------------------------------------------------------------
(* A tree shows the definitions, a function from scopes to values, if it   *)
(* has one node for each scope and for the outermost, in the place of a    *)
(* child of the smallest scope around it, and the depth first iterator     *)
(* passes all of them once and stops at its end.                           *)
NodesOf(tree, scope) == {i \in DOMAIN tree.ar : tree.ar[i].scope = scope}

Shows(shown, defined) ==
  LET tree      == shown.tree
      scopes    == DOMAIN defined \cup {Root}
      around(s) == {t \in scopes \ {s} : Contains(t, s)}
      inner(s)  == CHOOSE t \in around(s) : \A u \in around(s) : Contains(u, t)
      walk      == DepthFirst(tree)
  IN  /\ ~shown.failed
      /\ {tree.ar[i].scope : i \in DOMAIN tree.ar} = scopes
      /\ \A s \in scopes : \E i \in NodesOf(tree, s) :
           /\ NodesOf(tree, s) = {i}
           /\ tree.ar[i].value = IF s \in DOMAIN defined THEN defined[s] ELSE NullVal
           /\ {tree.ar[c].scope : c \in {Children(tree, i)[n] : n \in DOMAIN Children(tree, i)}}
                = {t \in scopes \ {Root} : inner(t) = s}
      /\ {walk[n] : n \in 1 .. Len(tree.ar)} = DOMAIN tree.ar
      /\ walk[Len(tree.ar) + 1] = Len(tree.ar) + 1
=============================================================================
