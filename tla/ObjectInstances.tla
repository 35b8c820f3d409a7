--------------------------- MODULE ObjectInstances ---------------------------
(***************************************************************************)
(* The scope-bound objects of typedb.cpp: setObjectInstance and the two    *)
(* getters, every object name with a ScopedInstance of scope.hpp of its    *)
(* own.  In difference to ScopedMap the last instance set for a scope      *)
(* wins.  The first table stays empty, it is shown for unknown names.      *)
(***************************************************************************)
EXTENDS ScopedInstance, Functions

CONSTANTS
  Names,        \* the identifiers of objects
  Handles,      \* valid handles of instances, 0 and less are rejected at once
  Scopes, Steps,
  MaxElements   \* bound of the number of instances stored

ASSUME MaxStepAssumption == MaxStep \in Nat

ASSUME ScopesAssumption ==
  Scopes \subseteq {s \in [start : Nat, end : Nat] : s.start < s.end /\ s.end <= MaxStep}

ASSUME StepsAssumption == Steps \subseteq Nat

ASSUME HandlesAssumption == NullVal \notin Handles

VARIABLES
  m_objidMap,   \* name -> index of the table of its instances
  m_objAr,      \* the tables: array of elements and search tree
  reply

vars == <<m_objidMap, m_objAr, reply>>

Element == [scope : Scopes, value : Handles, prev : Nat]

TypeOK ==
  /\ DOMAIN m_objidMap \subseteq Names
  /\ \A name \in DOMAIN m_objidMap : m_objidMap[name] \in 2 .. Len(m_objAr)
  /\ \A i \in DOMAIN m_objAr :
       /\ m_objAr[i].m_invtree \in Seq(Element)
       /\ DOMAIN m_objAr[i].m_map \subseteq Nat
       /\ \A e \in DOMAIN m_objAr[i].m_map : m_objAr[i].m_map[e] \in DOMAIN m_objAr[i].m_invtree

-----------------------------------------------------------------------------
Init ==
  /\ m_objidMap = [n \in {} |-> 1]
  /\ m_objAr = <<EmptyTable>>
  /\ reply = [op |-> "none", result |-> NullVal]

(* The table of a name and the tables with one added for a new name.       *)
TableOf(name) == IF name \in DOMAIN m_objidMap THEN m_objidMap[name] ELSE Len(m_objAr) + 1

Tables(name) == IF name \in DOMAIN m_objidMap THEN m_objAr ELSE Append(m_objAr, EmptyTable)

AddName(name) ==
  m_objidMap' = [n \in DOMAIN m_objidMap \cup {name} |-> IF n = name THEN TableOf(name) ELSE m_objidMap[n]]

NofElements == FoldFunction(LAMBDA table, n : Len(table.m_invtree) + n, 0, m_objAr)

setObjectInstance(name, scope, handle) ==
  LET table == Tables(name)[TableOf(name)]
  IN  /\ ~IsRefusedIn(table, scope)
      /\ IsKnownIn(table, scope) \/ NofElements < MaxElements
      /\ AddName(name)
      /\ m_objAr' = [Tables(name) EXCEPT ![TableOf(name)] = Stored(@, scope, handle)]
      /\ reply' = [op |-> "overwrite", result |-> handle]

(* The error of overlapping scopes comes after the name got its table, but *)
(* only for a name that has instances already.                             *)
Refuse(name, scope) ==
  /\ IsRefusedIn(Tables(name)[TableOf(name)], scope)
  /\ AddName(name)
  /\ m_objAr' = Tables(name)
  /\ reply' = [op |-> "refuse", result |-> FALSE]

Next ==
  \E name \in Names, scope \in Scopes :
    \/ \E handle \in Handles : setObjectInstance(name, scope, handle)
    \/ Refuse(name, scope)

Spec == Init /\ [][Next]_vars

-----------------------------------------------------------------------------
getObjectInstance(name, step) ==
  IF name \notin DOMAIN m_objidMap THEN NullVal
  ELSE LET table == m_objAr[m_objidMap[name]] IN get(table.m_invtree, table.m_map, step)

getObjectInstanceOfScope(name, scope) ==
  IF name \notin DOMAIN m_objidMap THEN NullVal
  ELSE LET table == m_objAr[m_objidMap[name]] IN getDef(table.m_invtree, table.m_map, scope)

getObjectInstanceTree(name) ==
  getTree(m_objAr[IF name \in DOMAIN m_objidMap THEN m_objidMap[name] ELSE 1])

-----------------------------------------------------------------------------
Definitions ==
  [name \in Names |->
     IF name \notin DOMAIN m_objidMap THEN [s \in {} |-> NullVal]
     ELSE LET ar == m_objAr[m_objidMap[name]].m_invtree IN Contents(ar, DOMAIN ar)]

Dict == INSTANCE ScopedDict WITH Keys <- Names, Values <- Handles, defs <- Definitions

(* An object is a key of a scoped dictionary in which the last instance    *)
(* set for a scope wins; a refused set changes no instance of any object.  *)
ImplementsDict == Dict!Spec

Nested(name) == \A s, t \in DOMAIN Definitions[name] : ~Crossing(s, t)

(* Also with scopes that overlap the lists stay ordered, with the smaller  *)
(* scope first: every walk ends, and what a lookup returns covers the      *)
(* step.                                                                   *)
ListsOrdered ==
  \A i \in DOMAIN m_objAr :
    LET ar == m_objAr[i].m_invtree
    IN  /\ \A k \in DOMAIN ar :
             ar[k].prev # NoLink => /\ ar[ar[k].prev].scope # ar[k].scope
                                    /\ Contains(ar[ar[k].prev].scope, ar[k].scope)
        /\ \A step \in Steps, k \in DOMAIN ar :
             k \in match_range(ar, m_objAr[i].m_map, step) => Covers(ar[k].scope, step)

(* As long as the scopes of a name nest, get_instance finds the instance   *)
(* of the innermost scope of this name that covers the step, this_instance *)
(* the last one set for the scope.                                         *)
AnswersAsDict ==
  \A name \in Names :
    Nested(name) =>
      /\ \A step \in Steps : getObjectInstance(name, step) = Dict!Lookup(name, step)
      /\ \A scope \in Scopes : getObjectInstanceOfScope(name, scope) = Dict!LookupDef(name, scope)

(* As long as the scopes of a name nest, instance_tree has a node for      *)
(* every scope an instance of this name is set for, below the node of the  *)
(* smallest such scope that encloses it, and shows no instance of another  *)
(* name.                                                                   *)
TreeShowsInstances ==
  \A name \in Names : Nested(name) => Shows(getObjectInstanceTree(name), Definitions[name])
=============================================================================
