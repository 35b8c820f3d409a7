---------------------------- MODULE InstanceTrees ----------------------------
(***************************************************************************)
(* typedb:instance_tree of lualib_mewa.cpp: the tree of the instances of a *)
(* name as Lua objects.  Every node Lua gets is a userdata with a counted  *)
(* reference to the tree (shared_ptr of lua_userdata.hpp) and the index of *)
(* the node.  The function over the children is a closure with a userdata  *)
(* and the index of the child returned next.                               *)
(*                                                                         *)
(* The collector of Lua destroys any userdata no closure holds: Lua code   *)
(* may drop its variables at any time.  A tree is a copy, so definitions   *)
(* after the first one is made are left out.                               *)
(***************************************************************************)
EXTENDS ObjectInstances, FiniteSets

CONSTANTS
  MaxUserdata,    \* bound of the userdata, and of the closures, at a time
  MaxShown        \* bound of the instances stored when a tree is made

ASSUME TreeBoundsAssumption == MaxUserdata \in Nat /\ MaxShown \in Nat

VARIABLES
  trees,      \* the trees allocated: [tree, refcnt], refcnt 0 when freed
  userdata,   \* the userdata: [tree, nodeidx]
  closures    \* the iterators: [ud, iter] and what they returned

treeVars == <<trees, userdata, closures>>

(* Identifiers of userdata and closures, for the memory Lua gives them.    *)
Free(ids) == (1 .. MaxUserdata) \ DOMAIN ids

New(ids) == CHOOSE n \in Free(ids) : \A m \in Free(ids) : n <= m

With(ids, id, value) == [n \in DOMAIN ids \cup {id} |-> IF n = id THEN value ELSE ids[n]]

Without(ids, id) == [n \in DOMAIN ids \ {id} |-> ids[n]]

Nodes(ud) == trees[ud.tree].tree

NodeOf(ud) == Nodes(ud).ar[ud.nodeidx]

TreesInit ==
  /\ Init
  /\ trees = <<>>
  /\ userdata = [u \in {} |-> 0]
  /\ closures = [c \in {} |-> 0]

-----------------------------------------------------------------------------
Define == trees = <<>> /\ Next /\ UNCHANGED treeVars

(* typedb:instance_tree: LuaTreeMetaMethods::create                        *)
instance_tree(name) ==
  LET shown == getObjectInstanceTree(name)
  IN  /\ ~shown.failed
      /\ trees = <<>> /\ NofElements <= MaxShown /\ Free(userdata) # {}
      /\ trees' = Append(trees, [tree |-> shown.tree, refcnt |-> 1])
      /\ userdata' = With(userdata, New(userdata), [tree |-> Len(trees) + 1, nodeidx |-> 1])
      /\ UNCHANGED <<vars, closures>>

(* Mutant: the reference is not counted.                                   *)
createCopyUncounted(ud, nodeidx) ==
  /\ Free(userdata) # {}
  /\ userdata' = With(userdata, New(userdata), [ud EXCEPT !.nodeidx = nodeidx])
  /\ UNCHANGED trees

(* createCopy: a userdata for another node of the same tree.               *)
createCopy(ud, nodeidx) ==
  /\ Free(userdata) # {}
  /\ userdata' = With(userdata, New(userdata), [ud EXCEPT !.nodeidx = nodeidx])
  /\ trees' = [trees EXCEPT ![ud.tree].refcnt = @ + 1]

AddClosure(ud, iter, u) ==
  /\ Free(closures) # {}
  /\ closures' = With(closures, New(closures),
                      [ud |-> ud, iter |-> iter, parent |-> userdata[u], returned |-> {}, again |-> FALSE])

(* Mutant: the iteration starts with the node itself.                      *)
chldOfNode(u) ==
  /\ NodeOf(userdata[u]).chld # NoNode
  /\ createCopy(userdata[u], NodeOf(userdata[u]).chld)
  /\ AddClosure(u, NodeOf(userdata[u]).chld, u)

(* chld: the closure holds a userdata of the first child, or the one of    *)
(* the node if it has none.                                                *)
chld(u) ==
  LET first_chld == NodeOf(userdata[u]).chld
  IN  IF first_chld = NoNode
      THEN AddClosure(u, NoNode, u) /\ UNCHANGED <<trees, userdata>>
      ELSE createCopy(userdata[u], first_chld) /\ AddClosure(New(userdata), first_chld, u)

(* chld_iter: returns the child and remembers the next one.                *)
chld_iter(c) ==
  LET ud   == userdata[closures[c].ud]
      iter == closures[c].iter
  IN  /\ iter # NoNode
      /\ createCopy(ud, iter)
      /\ closures' = [closures EXCEPT ![c].iter = NodeOf(ud).next,
                                      ![c].returned = @ \cup {iter},
                                      ![c].again = @ \/ iter \in closures[c].returned]

(* shared_ptr::reset: the last one frees the tree.                         *)
reset(t) == trees' = [trees EXCEPT ![t].refcnt = @ - 1]

gc(u) ==
  /\ \A c \in DOMAIN closures : closures[c].ud # u
  /\ reset(userdata[u].tree)
  /\ userdata' = Without(userdata, u)
  /\ UNCHANGED closures

DropClosure(c) == closures' = Without(closures, c) /\ UNCHANGED <<trees, userdata>>

TreesNext ==
  \/ Define
  \/ \E name \in Names : instance_tree(name)
  \/ /\ \/ \E u \in DOMAIN userdata : chld(u) \/ gc(u)
        \/ \E c \in DOMAIN closures : chld_iter(c) \/ DropClosure(c)
     /\ UNCHANGED vars

TreesSpec == TreesInit /\ [][TreesNext]_<<vars, treeVars>>

-----------------------------------------------------------------------------
(* A tree is freed with the last node of it that Lua or an iterator holds, *)
(* not before and not later.                                               *)
TreesCounted ==
  \A t \in DOMAIN trees :
    trees[t].refcnt = Cardinality({u \in DOMAIN userdata : userdata[u].tree = t})

(* What an iterator returns are children of the node it was made for: an   *)
(* iterator that has returned nothing yet stands at the first, if there is *)
(* one, and a child is returned only after the one before it: none is      *)
(* skipped, whatever Lua copies, drops and collects in between.            *)
IteratorOnChildren ==
  \A c \in DOMAIN closures :
    LET parent   == closures[c].parent
        returned == closures[c].returned
        children == Children(trees[parent.tree].tree, parent.nodeidx)
    IN  /\ returned \cup ({closures[c].iter} \ {NoNode}) \subseteq Range(children)
        /\ returned = {} /\ children # <<>> => closures[c].iter = children[1]
        /\ \A n \in 2 .. Len(children) : children[n] \in returned => children[n - 1] \in returned

(* doc/typedb.md: "Iterator function to iterate on the child nodes": no    *)
(* child is returned twice.                                                *)
ChildReturnedOnce == \A c \in DOMAIN closures : ~closures[c].again
=============================================================================
