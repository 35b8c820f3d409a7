------------------------------ MODULE ScopedMap ------------------------------
(***************************************************************************)
(* ScopedMap of scope.hpp, the table behind the types (TypeTable) and the  *)
(* reductions (ReductionTable) of the type database.  All keys share one   *)
(* array; m_map leads from a key and the end of a scope to the innermost   *)
(* element of that key with that end.                                      *)
(*                                                                         *)
(* owner is an auxiliary variable: the key every element was stored for,   *)
(* which the code can only tell by following the lists of the key.         *)
(***************************************************************************)
EXTENDS InvTree

CONSTANTS
  Keys, Values,
  Scopes,       \* the scopes definitions are made for
  Steps,        \* the scope-steps queries are made for
  MaxElements   \* bound of the number of definitions stored

ASSUME ScopesAssumption ==
  Scopes \subseteq {s \in [start : Nat, end : Nat] : s.start < s.end}

ASSUME StepsAssumption == Steps \subseteq Nat

ASSUME ValuesAssumption == NullVal \notin Values

ASSUME MaxElementsAssumption == MaxElements \in Nat

VARIABLES
  m_invtree,    \* the array of elements
  m_map,        \* key -> end of scope -> index of the first element
  owner,        \* auxiliary: the key of each element
  reply         \* the last call and its result

vars == <<m_invtree, m_map, owner, reply>>

Element == [scope : Scopes, value : Values, prev : Nat]

TypeOK ==
  /\ m_invtree \in Seq(Element)
  /\ owner \in Seq(Keys) /\ Len(owner) = Len(m_invtree)
  /\ DOMAIN m_map = Keys
  /\ \A k \in Keys : /\ DOMAIN m_map[k] \subseteq Nat
                     /\ \A e \in DOMAIN m_map[k] : m_map[k][e] \in DOMAIN m_invtree
  /\ Len(m_invtree) <= MaxElements

-----------------------------------------------------------------------------

Init ==
  /\ m_invtree = <<>>
  /\ m_map = [k \in Keys |-> [e \in {} |-> NoLink]]
  /\ owner = <<>>
  /\ reply = [op |-> "none", result |-> NullVal]

IsKnown(key, scope) == Known(m_invtree, m_map[key], scope)

IsRefused(key, scope) == HierarchyError(m_invtree, m_map[key], scope)

Insert(key, scope, value) ==
  /\ ~IsKnown(key, scope) /\ ~IsRefused(key, scope)
  /\ Len(m_invtree) < MaxElements
  /\ m_invtree' = Inserted(m_invtree, m_map[key], scope, value)
  /\ m_map' = [m_map EXCEPT ![key] = NewEnds(m_invtree, @, scope)]
  /\ owner' = Append(owner, key)

(* The value insertUpValue returns for a scope already defined.            *)
OldValue(key, scope) == m_invtree[Meets(m_invtree, m_map[key][scope.end], scope)].value

(* Mutant: set replaces the value of a scope already defined.              *)
SetReplaces(key, scope, value) ==
  \/ /\ Insert(key, scope, value)
     /\ reply' = [op |-> "set", result |-> TRUE]
  \/ /\ IsKnown(key, scope)
     /\ m_invtree' = [m_invtree EXCEPT ![Meets(m_invtree, m_map[key][scope.end], scope)].value = value]
     /\ reply' = [op |-> "set", result |-> FALSE]
     /\ UNCHANGED <<m_map, owner>>

(* set keeps the value of a scope already defined and returns false.       *)
Set(key, scope, value) ==
  \/ /\ Insert(key, scope, value)
     /\ reply' = [op |-> "set", result |-> TRUE]
  \/ /\ IsKnown(key, scope)
     /\ reply' = [op |-> "set", result |-> FALSE]
     /\ UNCHANGED <<m_invtree, m_map, owner>>

(* getOrSet returns the value of a scope already defined, else the null.   *)
GetOrSet(key, scope, value) ==
  \/ /\ Insert(key, scope, value)
     /\ reply' = [op |-> "getOrSet", result |-> NullVal]
  \/ /\ IsKnown(key, scope)
     /\ reply' = [op |-> "getOrSet", result |-> OldValue(key, scope)]
     /\ UNCHANGED <<m_invtree, m_map, owner>>

(* Both throw the error before they change anything.                       *)
Refuse(key, scope) ==
  /\ IsRefused(key, scope)
  /\ reply' = [op |-> "refuse", result |-> FALSE]
  /\ UNCHANGED <<m_invtree, m_map, owner>>

Next ==
  \E key \in Keys, scope \in Scopes :
    \/ \E value \in Values : Set(key, scope, value) \/ GetOrSet(key, scope, value)
    \/ Refuse(key, scope)

Spec == Init /\ [][Next]_vars

-----------------------------------------------------------------------------
(* The queries.                                                            *)
Def(key, scope) == getDef(m_invtree, m_map[key], scope)

Matched(key, step) == match_range(m_invtree, m_map[key], step)

(* getTree goes over all lists of a key and collects, for every scope met, *)
(* the keys and values defined for it.                                     *)
Listed(key) == UNION {Walk(m_invtree, m_map[key][e], {}) : e \in DOMAIN m_map[key]}

(* Mutant: a scope is listed for one key only.                             *)
ListedInOnce(scope) ==
  {CHOOSE item \in UNION {{[key |-> key, value |-> m_invtree[i].value] :
             i \in {j \in Listed(key) : m_invtree[j].scope = scope}} : key \in Keys} : TRUE}

ListedIn(scope) ==
  UNION {{[key |-> key, value |-> m_invtree[i].value] :
             i \in {j \in Listed(key) : m_invtree[j].scope = scope}} : key \in Keys}

ListedScopes == {m_invtree[i].scope : i \in UNION {Listed(key) : key \in Keys}}

-----------------------------------------------------------------------------

Elements(key) == {i \in DOMAIN m_invtree : owner[i] = key}

Nested(key) == \A i, j \in Elements(key) : ~Crossing(m_invtree[i].scope, m_invtree[j].scope)

AllNested == \A key \in Keys : Nested(key)

(* As long as the scopes defined for a key nest, the lists of scope.hpp    *)
(* are sound: the key has one element per scope, its search tree leads to  *)
(* the innermost element of every end that occurs, and the uplink of an    *)
(* element leads to the smallest scope of the same key that encloses it,   *)
(* whatever the order the definitions came in.  A lost relink on insertion *)
(* (insertUpValue, rightNeighborUpLink, linkLeftNeighbours) makes          *)
(* definitions invisible or shadows wrong ones.                            *)
UplinksSound ==
  \A key \in Keys : Nested(key) => WellLinked(m_invtree, m_map[key], Elements(key))

Definitions == [key \in Keys |-> Contents(m_invtree, Elements(key))]

Dict == INSTANCE ScopedDict WITH defs <- Definitions

(* Every update of ScopedMap is one of the scoped dictionary: set and      *)
(* getOrSet keep the first definition of a scope and report what was       *)
(* there, and only overlapping scopes are refused.                         *)
ImplementsDict == Dict!Spec

(* As long as the scopes of a key nest, every query answers as the scoped  *)
(* dictionary does: get with the definition of the innermost scope that    *)
(* covers the step, getDef with the definition of exactly the scope,       *)
(* match_range by visiting all definitions that cover the step.            *)
AnswersAsDict ==
  \A key \in Keys : Nested(key) =>
    /\ \A step \in Steps :
         /\ get(m_invtree, m_map[key], step) = Dict!Lookup(key, step)
         /\ {m_invtree[i].scope : i \in Matched(key, step)}
              = Dict!Visible(key, step)
    /\ \A scope \in Scopes :
         Def(key, scope) = Dict!LookupDef(key, scope)

(* A declaration whose scope covers the step of a query contributes to its *)
(* result: the query finds a definition if there is one.  The code checks  *)
(* for overlapping scopes only along the list of one end.                  *)
CoveringDefinitionFound ==
  \A key \in Keys, step \in Steps :
    Dict!Visible(key, step) # {} => Matched(key, step) # {}
=============================================================================
