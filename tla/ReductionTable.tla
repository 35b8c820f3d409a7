--------------------------- MODULE ReductionTable ---------------------------
(***************************************************************************)
(* The reductions of typedb.cpp: defineReduction, getReduction and         *)
(* getReductions on the ScopedRelationMap of scope.hpp.  All relations are *)
(* in one array m_list and linked to chains, one for each left type and    *)
(* scope as long as scopes nest.  A ScopedMap with the variables m_invtree,*)
(* m_map and leftOf leads to the head of a chain.  Weights, float in the   *)
(* code, are integers here.  owner is an auxiliary variable: the left type *)
(* and the scope each relation was defined for.                            *)
(***************************************************************************)
EXTENDS Integers, Sequences

CONSTANTS
  NofTypes,       \* the types defined have the handles 1 .. NofTypes
  Calls,          \* the arguments of calls of def_reduction, valid or not
  Scopes, Steps,
  TagMasks,       \* the sets of tags queries select with
  MaxRelations,   \* bound of the number of relations stored
  MaxStep         \* the end of the outermost scope

ASSUME NofTypesAssumption == NofTypes \in Nat

ASSUME CallsAssumption ==
  Calls \subseteq [toType : Int, fromType : Int, constructor : Int, tag : Int, weight : Int]

ASSUME ScopesAssumption ==
  /\ Scopes \subseteq {s \in [start : Nat, end : Nat] : s.start < s.end /\ s.end <= MaxStep}
  /\ Steps \subseteq Nat

ASSUME MasksAssumption == \A tags \in TagMasks : tags \subseteq Int

ASSUME BoundsAssumption == MaxRelations \in Nat /\ MaxStep \in Nat

MinTag == 1
MaxTag == 32    \* the bits of a TagMask
NoLink == 0

VARIABLES
  m_invtree, m_map, leftOf,     \* left, scope -> index of the head of the chain
  m_list,   \* the relations with the link to the next of their chain
  owner,    \* auxiliary: the left type and the scope of each relation
  reply     \* the result of the last call

headVars == <<m_invtree, m_map, leftOf>>

vars == <<headVars, m_list, owner, reply>>

Types == 0 .. NofTypes

ListElement == [related : Types, value : Nat, weight : Nat, next : Nat, tag : MinTag .. MaxTag]

Heads == INSTANCE ScopedMap WITH
  Keys <- Types, Values <- Nat \ {0}, NullVal <- NoLink, MaxElements <- MaxRelations, owner <- leftOf

TypeOK ==
  /\ m_list \in Seq(ListElement)
  /\ owner \in Seq([left : Types, scope : Scopes]) /\ Len(owner) = Len(m_list)
  /\ Heads!TypeOK
  /\ \A e \in DOMAIN m_invtree : m_invtree[e].value \in DOMAIN m_list
  /\ \A i \in DOMAIN m_list : m_list[i].next \in {NoLink} \cup DOMAIN m_list

-----------------------------------------------------------------------------
(* The loops "while (li >= 0) {... li = le.next;}": the elements passed.   *)
Chain(head) ==
  LET closed == {C \in SUBSET DOMAIN m_list :
                   head \in C /\ \A i \in C : m_list[i].next \in C \cup {NoLink}}
  IN  {i \in DOMAIN m_list : \A C \in closed : i \in C}

ChainEnd(head) == CHOOSE i \in Chain(head) : m_list[i].next = NoLink

(* The chain getOrSet leads to.                                            *)
ChainOf(left, scope) ==
  IF Heads!IsKnown(left, scope) THEN Chain(Heads!OldValue(left, scope)) ELSE {}

Init ==
  /\ m_invtree = <<>>
  /\ m_map = [t \in Types |-> [e \in {} |-> NoLink]]
  /\ leftOf = <<>>
  /\ m_list = <<>>
  /\ owner = <<>>
  /\ reply = "none"

-----------------------------------------------------------------------------
(* The arguments defineReduction and ScopedRelationMap::set reject before  *)
(* they touch the table.                                                   *)
ValidTypes(toType, fromType) == toType \in 0 .. NofTypes /\ fromType \in 1 .. NofTypes

ValidRelation(toType, fromType, constructor, tag, weight) ==
  /\ constructor >= 0
  /\ ValidTypes(toType, fromType)
  /\ toType # fromType
  /\ tag \in MinTag .. MaxTag
  /\ ~ weight < 0

(* Mutant: only the head of the chain is looked at.                        *)
SameHead(scope, left, right, tag) ==
  {i \in ChainOf(left, scope) : /\ m_list[i].related = right /\ m_list[i].tag = tag
                                /\ i = Heads!OldValue(left, scope)}

(* The relations on the chain for the same right and tag.                  *)
SameRelation(scope, left, right, tag) ==
  {i \in ChainOf(left, scope) : m_list[i].related = right /\ m_list[i].tag = tag}

(* Mutant: the new element is linked behind the head.                      *)
PushedBehindHead(scope, left, element) ==
  LET new == Len(m_list) + 1
  IN  \/ /\ Heads!IsKnown(left, scope)
         /\ m_list' = Append([m_list EXCEPT ![Heads!OldValue(left, scope)].next = new], element)
         /\ UNCHANGED headVars
      \/ /\ Heads!Insert(left, scope, new)
         /\ m_list' = Append(m_list, element)

(* The new element becomes the head of a new chain (getOrSet) or the tail  *)
(* of the one that is there.                                               *)
Pushed(scope, left, element) ==
  LET new == Len(m_list) + 1
  IN  \/ /\ Heads!IsKnown(left, scope)
         /\ m_list' = Append([m_list EXCEPT ![ChainEnd(Heads!OldValue(left, scope))].next = new], element)
         /\ UNCHANGED headVars
      \/ /\ Heads!Insert(left, scope, new)
         /\ m_list' = Append(m_list, element)

set(scope, left, right, value, tag, weight) ==
  LET same == SameRelation(scope, left, right, tag)
  IN  \/ /\ same = {} /\ Len(m_list) < MaxRelations
         /\ Pushed(scope, left, [related |-> right, value |-> value, weight |-> weight,
                                 next |-> NoLink, tag |-> tag])
         /\ owner' = Append(owner, [left |-> left, scope |-> scope])
         /\ reply' = "defined"
      \/ /\ \E i \in same : m_list[i].value = value
         /\ reply' = "ignored"
         /\ UNCHANGED <<headVars, m_list, owner>>
      \/ /\ \E i \in same : m_list[i].value # value
         /\ reply' = "duplicate"
         /\ UNCHANGED <<headVars, m_list, owner>>

defineReduction(scope, toType, fromType, constructor, tag, weight) ==
  \/ /\ ValidRelation(toType, fromType, constructor, tag, weight)
     /\ set(scope, fromType, toType, constructor, tag, weight)
  \/ /\ ValidRelation(toType, fromType, constructor, tag, weight) => Heads!IsRefused(fromType, scope)
     /\ reply' = "rejected"
     /\ UNCHANGED <<headVars, m_list, owner>>

(* typedb:def_reduction converts its arguments first: a left type and a    *)
(* tag are positive.  The scope is the current one.                        *)
def_reduction(scope, call) ==
  \/ /\ call.toType >= 0 /\ call.fromType > 0 /\ call.tag > 0
     /\ defineReduction(scope, call.toType, call.fromType, call.constructor, call.tag, call.weight)
  \/ /\ call.toType < 0 \/ call.fromType <= 0 \/ call.tag <= 0
     /\ reply' = "rejected"
     /\ UNCHANGED <<headVars, m_list, owner>>

Next == \E scope \in Scopes, call \in Calls : def_reduction(scope, call)

Spec == Init /\ [][Next]_vars

-----------------------------------------------------------------------------
(* ScopedRelationMap::get visits the chains match_range leads to, that of  *)
(* the innermost scope first, and takes for every right the first relation *)
(* with a selected tag (candidatemap).  An element comes before another    *)
(* on a list or chain if the list or chain from the one leads to the other.*)
Matching(e, right, tags) ==
  {i \in Chain(m_invtree[e].value) : m_list[i].related = right /\ m_list[i].tag \in tags}

Matches(step, left, right, tags) ==
  {e \in Heads!Matched(left, step) : Matching(e, right, tags) # {}}

FirstOf(chain) == {i \in chain : chain \subseteq Chain(i)}

(* Mutant: the outermost scope wins.                                       *)
FirstMatchOutermost(step, left, right, tags) ==
  LET met == Matches(step, left, right, tags)
  IN  UNION {FirstOf(Matching(e, right, tags)) :
               e \in {f \in met : \A g \in met : f \in Heads!Walk(m_invtree, g, {})}}

FirstMatch(step, left, right, tags) ==
  LET met == Matches(step, left, right, tags)
  IN  UNION {FirstOf(Matching(e, right, tags)) :
               e \in {f \in met : met \subseteq Heads!Walk(m_invtree, f, {})}}

get(step, left, tags) ==
  {[right |-> m_list[i].related, value |-> m_list[i].value,
    weight |-> m_list[i].weight, tag |-> m_list[i].tag] :
      i \in UNION {FirstMatch(step, left, right, tags) : right \in Types}}

(* The loop over the result throws when it meets a reduction as good as    *)
(* the best one so far.  The result is undefined for no reduction.         *)
getReduction(step, toType, fromType, tags) ==
  LET found == {r \in get(step, fromType, tags) : r.right = toType}
      best  == {r \in found : \A q \in found : r.weight <= q.weight}
  IN  IF found = {} THEN "undefined"
      ELSE IF \E r, q \in best : r # q THEN "ambiguous" ELSE "found"

-----------------------------------------------------------------------------
(* getReductionDefinitionTree: the tree of the scopes of all left types,   *)
(* with the heads of their chains (ScopeListMap), of which a copy is made  *)
(* with the relations of the chains in place of the heads.                 *)
Trees == INSTANCE ScopedInstance WITH NullVal <- {}

HeadsAt == [scope \in Heads!ListedScopes |-> Heads!ListedIn(scope)]

Relation(left, i) ==
  [fromType |-> left, toType |-> m_list[i].related, constructor |-> m_list[i].value,
   tag |-> m_list[i].tag, weight |-> m_list[i].weight]

(* Mutant: only the head of a chain is shown.                              *)
RelationsOfHead(heads) == {Relation(h.key, h.value) : h \in heads}

RelationsOf(heads) == UNION {{Relation(h.key, i) : i \in Chain(h.value)} : h \in heads}

WithRelations(node) == [node EXCEPT !.value = RelationsOf(@)]

getReductionDefinitionTree ==
  LET heads == Trees!TreeOfAll(HeadsAt)
      copy  == Trees!translate(heads.tree)
  IN  [tree   |-> [copy EXCEPT !.ar = [n \in DOMAIN @ |-> WithRelations(@[n])]],
       failed |-> heads.failed]

-----------------------------------------------------------------------------
(* As long as the scopes of a left type nest, the chain of each of them    *)
(* has exactly the relations defined for it, in the order of their         *)
(* definition and none twice for the same right and tag: a reduction is    *)
(* never lost and never shows up for another type or scope, whatever was   *)
(* defined in between.                                                     *)
ChainsOfOwners ==
  \A left \in Types, scope \in Scopes : Heads!Nested(left) =>
    LET chain == ChainOf(left, scope)
    IN  /\ chain = {i \in DOMAIN m_list : owner[i].left = left /\ owner[i].scope = scope}
        /\ \A i, j \in chain : j \in Chain(i) <=> i <= j
        /\ \A i, j \in chain :
             m_list[i].related = m_list[j].related /\ m_list[i].tag = m_list[j].tag => i = j

Relations ==
  [i \in DOMAIN m_list |->
     [scope |-> owner[i].scope, left |-> owner[i].left, right |-> m_list[i].related,
      value |-> m_list[i].value, tag |-> m_list[i].tag, weight |-> m_list[i].weight]]

Abstract == INSTANCE ScopedRelations WITH
  Constructors <- {call.constructor : call \in Calls} \cap Nat,
  Tags <- {call.tag : call \in Calls} \cap MinTag .. MaxTag,
  Weights <- {call.weight : call \in Calls} \cap Nat, rels <- Relations

(* As long as the scopes nest, every call is a step of the scoped          *)
(* relations: a new relation is added behind the others and changes none   *)
(* of them, a relation that is there already with the same constructor is  *)
(* ignored, one with a different constructor is an error.                  *)
ImplementsRelations == Abstract!Spec

(* typedb:reduction_tree shows, as long as the scopes of all reductions    *)
(* nest, every scope once, in its place, with the reductions defined in it *)
(* whatever their types.                                                   *)
ReductionTreeShows ==
  LET scopes == {owner[i].scope : i \in DOMAIN owner}
  IN  (\A s, t \in scopes : ~Heads!Crossing(s, t)) =>
        Trees!Shows(getReductionDefinitionTree,
                    [s \in scopes |-> {Relation(owner[i].left, i) : i \in {j \in DOMAIN owner : owner[j].scope = s}}])

(* As long as the scopes of a left type nest, a query finds for every      *)
(* target type the reduction of the innermost scope that covers the step,  *)
(* and the first defined of them, among those with a selected tag.  So     *)
(* getReduction never has two to choose from, and never reports an         *)
(* ambiguity.                                                              *)
AnswersAsRelations ==
  \A step \in Steps, left \in Types, tags \in TagMasks : Heads!Nested(left) =>
    LET found == Abstract!Lookup(step, left, tags)
    IN  /\ get(step, left, tags) =
             {[right |-> r.right, value |-> r.value, weight |-> r.weight, tag |-> r.tag] : r \in found}
        /\ \A right \in Types :
             getReduction(step, right, left, tags) =
               IF \E r \in found : r.right = right THEN "found" ELSE "undefined"
=============================================================================
