-------------------------- MODULE DerivationProofs --------------------------
(***************************************************************************)
(* That the table of reductions keeps every relation where it was defined, *)
(* and answers as the abstract scoped relations, for any types and calls   *)
(* and as long as the scopes nest, while definitions are made and while    *)
(* queries are answered; and that derive_type finds a cheapest sequence of *)
(* the reductions defined.                                                 *)
(*                                                                         *)
(* The chains are described by the auxiliary owners.  A link leads to a    *)
(* later relation of the same owner, whatever scopes are used; as long as  *)
(* the scopes of a left type nest, the table of the heads finds the head   *)
(* of every scope (ScopedMapProofs), so that an element leads to the next  *)
(* one of its owner and the head of a chain is the first.  From this       *)
(* follows what the loop over a chain passes, although the loop knows      *)
(* nothing of owners.                                                      *)
(*                                                                         *)
(* For derive_type the answers of the table are the edges of the graph     *)
(* that TypeSearchProofs is about, whose paths correspond to the sequences *)
(* of reductions: both have the same cost, and the same number of counted  *)
(* reductions.                                                             *)
(*                                                                         *)
(* The tree of reductions is one of the heads of the chains with the       *)
(* relations in their place, which a chain leads to from its head.         *)
(***************************************************************************)
EXTENDS Derivation, FiniteSetTheorems, SequenceTheorems, TLAPS

Map == INSTANCE ScopedMapProofs WITH
  Keys <- Types, Values <- Nat \ {0}, NullVal <- NoLink, MaxElements <- MaxRelations, owner <- leftOf

Nodes == INSTANCE InvTreeProofs WITH NullVal <- {}

(* A bounded nonempty set of naturals has a greatest element.              *)
LEMMA NatMax ==
  ASSUME NEW T \in SUBSET Nat, T # {}, NEW b \in Nat, \A t \in T : t <= b
  PROVE  \E m \in T : \A n \in T : n <= m
<1> DEFINE U == {b - t : t \in T}
<1>1. U \in SUBSET Nat /\ U # {}
  <2>1. \A t \in T : b - t \in Nat
    OBVIOUS
  <2>2. QED
    BY <2>1
<1>2. PICK u \in U : \A v \in U : u <= v
  BY <1>1, Nodes!NatMin
<1>3. PICK m \in T : u = b - m
  OBVIOUS
<1>4. ASSUME NEW n \in T PROVE n <= m
  <2>1. b - m <= b - n
    BY <1>2, <1>3
  <2>2. QED
    BY <2>1
<1>5. QED
  BY <1>4

-----------------------------------------------------------------------------
(* The table of the heads is the ScopedMap the lemmas of ScopedMapProofs   *)
(* are about.                                                              *)
LEMMA MapAssumptions ==
  /\ Map!ScopesAssumption /\ Map!StepsAssumption
  /\ Map!ValuesAssumption /\ Map!MaxElementsAssumption
BY ScopesAssumption, BoundsAssumption
   DEF Map!ScopesAssumption, Map!StepsAssumption, Map!ValuesAssumption, Map!MaxElementsAssumption, NoLink

SameMap ==
  /\ \A k, s : Map!Def(k, s) = Heads!Def(k, s)
  /\ \A k, s : Map!IsKnown(k, s) <=> Heads!IsKnown(k, s)
  /\ \A k, s : Map!IsRefused(k, s) <=> Heads!IsRefused(k, s)
  /\ \A k, s : Map!OldValue(k, s) = Heads!OldValue(k, s)
  /\ \A k, n : Map!Matched(k, n) = Heads!Matched(k, n)
  /\ \A ar, x, Stop : Map!Walk(ar, x, Stop) = Heads!Walk(ar, x, Stop)
  /\ \A k : Map!Elements(k) = Heads!Elements(k)
  /\ \A k : Map!Listed(k) = Heads!Listed(k)
  /\ \A s, t : Map!Crossing(s, t) <=> Heads!Crossing(s, t)
  /\ \A k : Map!Nested(k) <=> Heads!Nested(k)
  /\ Map!TypeOK <=> Heads!TypeOK

LEMMA AlwaysSameMap == SameMap
<1>1. \A ar, x, Stop : Map!Walk(ar, x, Stop) = Heads!Walk(ar, x, Stop)
  BY DEF Map!Walk, Heads!Walk, Map!Closed, Heads!Closed, Map!NoLink, Heads!NoLink
<1>2. \A ar, x, Stop : Map!StopsAt(ar, x, Stop) = Heads!StopsAt(ar, x, Stop)
  BY DEF Map!StopsAt, Heads!StopsAt, Map!Walk, Heads!Walk, Map!Closed, Heads!Closed,
         Map!NoLink, Heads!NoLink
<1>3. \A ar, x, s : Map!Meets(ar, x, s) = Heads!Meets(ar, x, s)
  BY <1>2 DEF Map!Meets, Heads!Meets, Map!NotInside, Heads!NotInside, Map!Contains, Heads!Contains
<1>4. \A s, t : Map!Crossing(s, t) <=> Heads!Crossing(s, t)
  BY DEF Map!Crossing, Heads!Crossing, Map!Contains, Heads!Contains
<1>5. \A k, s : Map!Def(k, s) = Heads!Def(k, s)
  BY <1>2 DEF Map!Def, Heads!Def, Map!getDef, Heads!getDef, Map!findUpValue, Heads!findUpValue,
              Map!NoLink, Heads!NoLink
<1>6. \A k, s : /\ Map!IsKnown(k, s) <=> Heads!IsKnown(k, s)
                /\ Map!IsRefused(k, s) <=> Heads!IsRefused(k, s)
                /\ Map!OldValue(k, s) = Heads!OldValue(k, s)
  BY <1>3 DEF Map!IsKnown, Heads!IsKnown, Map!Known, Heads!Known, Map!IsRefused, Heads!IsRefused,
              Map!HierarchyError, Heads!HierarchyError, Map!OldValue, Heads!OldValue,
              Map!NoLink, Heads!NoLink, Map!Contains, Heads!Contains
<1>7. \A k : Map!Elements(k) = Heads!Elements(k)
  BY DEF Map!Elements, Heads!Elements
<1>8. \A k : Map!Listed(k) = Heads!Listed(k)
  BY <1>1 DEF Map!Listed, Heads!Listed
<1>9. \A k : Map!Nested(k) <=> Heads!Nested(k)
  BY <1>4, <1>7 DEF Map!Nested, Heads!Nested
<1>10. Map!TypeOK <=> Heads!TypeOK
  BY DEF Map!TypeOK, Heads!TypeOK, Map!Element, Heads!Element
<1>11. \A k, n : Map!Matched(k, n) = Heads!Matched(k, n)
  <2>1. \A ends, n : Map!EndsAfter(ends, n) = Heads!EndsAfter(ends, n)
                     /\ Map!upper_bound(ends, n) = Heads!upper_bound(ends, n)
    BY DEF Map!EndsAfter, Heads!EndsAfter, Map!upper_bound, Heads!upper_bound
  <2>2. \A ar, x, n : Map!first(ar, x, n) = Heads!first(ar, x, n)
    BY <1>2 DEF Map!first, Heads!first
  <2>3. QED
    BY <1>1, <2>1, <2>2 DEF Map!Matched, Heads!Matched, Map!match_range, Heads!match_range,
                            Map!NoLink, Heads!NoLink
<1>12. QED
  BY <1>1, <1>4, <1>5, <1>6, <1>7, <1>8, <1>9, <1>10, <1>11 DEF SameMap

LEMMA SameInsert ==
  ASSUME NEW left, NEW scope, NEW head
  PROVE  Map!Insert(left, scope, head) <=> Heads!Insert(left, scope, head)
<1>1. /\ Map!IsKnown(left, scope) <=> Heads!IsKnown(left, scope)
      /\ Map!IsRefused(left, scope) <=> Heads!IsRefused(left, scope)
  BY AlwaysSameMap DEF SameMap
<1>2. \A ar, x, Stop : /\ Map!StopsAt(ar, x, Stop) = Heads!StopsAt(ar, x, Stop)
                       /\ Map!LastPassed(ar, x, Stop) = Heads!LastPassed(ar, x, Stop)
  BY DEF Map!StopsAt, Heads!StopsAt, Map!LastPassed, Heads!LastPassed, Map!Walk, Heads!Walk,
         Map!Closed, Heads!Closed, Map!NoLink, Heads!NoLink
<1>3. \A ar, s : Map!NotInside(ar, s) = Heads!NotInside(ar, s)
  BY DEF Map!NotInside, Heads!NotInside, Map!Contains, Heads!Contains
<1>4. \A ar, x, s : /\ Map!Meets(ar, x, s) = Heads!Meets(ar, x, s)
                    /\ Map!Innerlast(ar, x, s) = Heads!Innerlast(ar, x, s)
  BY <1>2, <1>3 DEF Map!Meets, Heads!Meets, Map!Innerlast, Heads!Innerlast
<1>5. \A ends, k : Map!EndsAfter(ends, k) = Heads!EndsAfter(ends, k)
                   /\ Map!upper_bound(ends, k) = Heads!upper_bound(ends, k)
  BY DEF Map!EndsAfter, Heads!EndsAfter, Map!upper_bound, Heads!upper_bound
<1>6. \A ar, x, s : Map!rightNeighborUpLink(ar, x, s) = Heads!rightNeighborUpLink(ar, x, s)
  BY <1>2 DEF Map!rightNeighborUpLink, Heads!rightNeighborUpLink, Map!Contains, Heads!Contains
<1>7. \A ar, ends, s : Map!NewPrev(ar, ends, s) = Heads!NewPrev(ar, ends, s)
  BY <1>4, <1>5, <1>6 DEF Map!NewPrev, Heads!NewPrev, Map!Uplink, Heads!Uplink, Map!NoLink, Heads!NoLink
<1>8. \A ar, lists, s, n : Map!linkLeftNeighbours(ar, lists, s, n) = Heads!linkLeftNeighbours(ar, lists, s, n)
  BY <1>4 DEF Map!linkLeftNeighbours, Heads!linkLeftNeighbours, Map!NoLink, Heads!NoLink
<1>9. \A ar, ends, s, v : Map!Inserted(ar, ends, s, v) = Heads!Inserted(ar, ends, s, v)
  BY <1>7, <1>8 DEF Map!Inserted, Heads!Inserted
<1>10. \A ar, ends, s : Map!NewEnds(ar, ends, s) = Heads!NewEnds(ar, ends, s)
  BY <1>4 DEF Map!NewEnds, Heads!NewEnds, Map!NoLink, Heads!NoLink
<1>11. QED
  BY <1>1, <1>9, <1>10 DEF Map!Insert, Heads!Insert

-----------------------------------------------------------------------------
(* The invariant: what holds whatever the scopes are, and what the links   *)
(* and heads of a left type are as long as its scopes nest.                *)
HeadOf(left, scope) == Heads!Def(left, scope)

Ascends ==
  \A i \in DOMAIN m_list :
    \/ m_list[i].next = NoLink
    \/ /\ m_list[i].next \in DOMAIN m_list /\ i < m_list[i].next
       /\ owner[m_list[i].next] = owner[i]

HeadsOwned ==
  \A e \in DOMAIN m_invtree : owner[m_invtree[e].value] = [left |-> leftOf[e], scope |-> m_invtree[e].scope]

Typed == TypeOK /\ Map!IInv /\ Ascends /\ HeadsOwned

Own(left, scope) == {i \in DOMAIN m_list : owner[i].left = left /\ owner[i].scope = scope}

Later(i) == {j \in DOMAIN m_list : owner[j] = owner[i] /\ i < j}

LinksOrdered(left) ==
  \A i \in DOMAIN m_list : owner[i].left = left =>
    \/ m_list[i].next = NoLink /\ Later(i) = {}
    \/ m_list[i].next \in Later(i) /\ \A j \in Later(i) : m_list[i].next <= j

HeadsFirst(left) ==
  \A scope \in Scopes :
    \/ HeadOf(left, scope) = NoLink /\ Own(left, scope) = {}
    \/ /\ HeadOf(left, scope) \in Own(left, scope)
       /\ \A i \in Own(left, scope) : HeadOf(left, scope) <= i

NoneTwice(left) ==
  \A scope \in Scopes : \A i, j \in Own(left, scope) :
    m_list[i].related = m_list[j].related /\ m_list[i].tag = m_list[j].tag => i = j

InChains(left) == LinksOrdered(left) /\ HeadsFirst(left) /\ NoneTwice(left)

IInv == Typed /\ \A left \in Types : Heads!Nested(left) => InChains(left)

LEMMA OwnersTyped ==
  ASSUME TypeOK
  PROVE  /\ Len(m_list) \in Nat /\ DOMAIN m_list = 1 .. Len(m_list) /\ DOMAIN owner = DOMAIN m_list
         /\ \A i \in DOMAIN m_list :
              /\ i \in Nat /\ i # NoLink /\ m_list[i] \in ListElement
              /\ owner[i] = [left |-> owner[i].left, scope |-> owner[i].scope]
              /\ owner[i].left \in Types /\ owner[i].scope \in Scopes
<1> DEFINE Owners == [left : Types, scope : Scopes]
<1>1. m_list \in Seq(ListElement) /\ owner \in Seq(Owners) /\ Len(owner) = Len(m_list)
  BY DEF TypeOK
<1>2. Len(m_list) \in Nat /\ DOMAIN m_list = 1 .. Len(m_list) /\ DOMAIN owner = DOMAIN m_list
  BY <1>1
<1>3. ASSUME NEW i \in DOMAIN m_list
      PROVE  /\ i \in Nat /\ i # NoLink /\ m_list[i] \in ListElement
             /\ owner[i] = [left |-> owner[i].left, scope |-> owner[i].scope]
             /\ owner[i].left \in Types /\ owner[i].scope \in Scopes
  <2>1. i \in Nat /\ i # NoLink /\ m_list[i] \in ListElement
    BY <1>1, <1>2 DEF NoLink
  <2>2. owner[i] \in Owners
    <3> HIDE DEF Owners
    <3>1. QED
      BY <1>1, <1>2
  <2>3. QED
    BY <2>1, <2>2
<1>4. QED
  BY <1>2, <1>3

(* The elements of the table of the heads.                                 *)
LEMMA ElementsTyped ==
  ASSUME Typed
  PROVE  \A e \in DOMAIN m_invtree : /\ leftOf[e] \in Types /\ m_invtree[e].scope \in Scopes
                                     /\ m_invtree[e].value \in DOMAIN m_list
                                     /\ e \in Heads!Elements(leftOf[e])
<1>1. m_invtree \in Seq(Heads!Element) /\ leftOf \in Seq(Types) /\ Len(leftOf) = Len(m_invtree)
  BY DEF Typed, TypeOK, Heads!TypeOK
<1>2. ASSUME NEW e \in DOMAIN m_invtree
      PROVE  leftOf[e] \in Types /\ m_invtree[e].scope \in Scopes
  <2>1. e \in 1 .. Len(m_invtree)
    BY <1>1, LenProperties
  <2>2. m_invtree[e] \in Heads!Element /\ leftOf[e] \in Types
    BY <1>1, <2>1, ElementOfSeq
  <2>3. QED
    BY <2>2 DEF Heads!Element
<1>3. QED
  BY <1>2 DEF Typed, TypeOK, Heads!Elements

(* A scope that is known has a head, a relation defined for it.            *)
HeadsFound ==
  \A left \in Types, scope \in Scopes :
    /\ Heads!IsKnown(left, scope) <=> HeadOf(left, scope) # NoLink
    /\ HeadOf(left, scope) # NoLink =>
         /\ Heads!OldValue(left, scope) = HeadOf(left, scope)
         /\ HeadOf(left, scope) \in DOMAIN m_list
         /\ owner[HeadOf(left, scope)] = [left |-> left, scope |-> scope]

LEMMA TypedHeads == Typed => HeadsFound
<1> SUFFICES ASSUME Typed PROVE HeadsFound
  OBVIOUS
<1>1. Map!DefIsOfElement
  BY MapAssumptions, Map!KnownFound DEF Typed
<1>2. \A left \in Types, scope \in Scopes :
        /\ Heads!IsKnown(left, scope) <=> HeadOf(left, scope) # NoLink
        /\ Heads!IsKnown(left, scope) =>
             /\ Heads!OldValue(left, scope) = HeadOf(left, scope)
             /\ \E i \in Heads!Elements(left) : /\ m_invtree[i].scope = scope
                                                /\ m_invtree[i].value = HeadOf(left, scope)
  BY <1>1, AlwaysSameMap DEF Map!DefIsOfElement, SameMap, HeadOf
<1>3. \A left : \A i \in Heads!Elements(left) : /\ m_invtree[i].value \in DOMAIN m_list
                                                /\ owner[m_invtree[i].value] = [left |-> left, scope |-> m_invtree[i].scope]
  BY DEF Typed, TypeOK, HeadsOwned, Heads!Elements
<1>4. QED
  BY <1>2, <1>3 DEF HeadsFound

(* As long as the scopes of a left type nest every element has its scope   *)
(* for itself, all elements are listed, a query passes those whose scope   *)
(* covers the step, the inner ones first.                                  *)
HeadsExact ==
  \A left \in Types : Heads!Nested(left) =>
    /\ \A e \in Heads!Elements(left) : HeadOf(left, m_invtree[e].scope) = m_invtree[e].value
    /\ \A scope \in Scopes : HeadOf(left, scope) # NoLink =>
         \E e \in Heads!Elements(left) : m_invtree[e].scope = scope
    /\ Heads!Listed(left) = Heads!Elements(left)
    /\ \A step \in Nat :
         Heads!Matched(left, step) = {e \in Heads!Elements(left) : Heads!Covers(m_invtree[e].scope, step)}
    /\ \A e \in Heads!Elements(left) :
         Heads!Walk(m_invtree, e, {})
           = {f \in Heads!Elements(left) : Heads!Contains(m_invtree[f].scope, m_invtree[e].scope)}

LEMMA NestedHeads == Typed => HeadsExact
<1> SUFFICES ASSUME Typed, NEW left \in Types, Heads!Nested(left)
    PROVE  /\ \A e \in Heads!Elements(left) : HeadOf(left, m_invtree[e].scope) = m_invtree[e].value
           /\ \A scope \in Scopes : HeadOf(left, scope) # NoLink =>
                \E e \in Heads!Elements(left) : m_invtree[e].scope = scope
           /\ Heads!Listed(left) = Heads!Elements(left)
           /\ \A step \in Nat :
                Heads!Matched(left, step) = {e \in Heads!Elements(left) : Heads!Covers(m_invtree[e].scope, step)}
           /\ \A e \in Heads!Elements(left) :
                Heads!Walk(m_invtree, e, {})
                  = {f \in Heads!Elements(left) : Heads!Contains(m_invtree[f].scope, m_invtree[e].scope)}
  BY DEF HeadsExact
<1>1. Map!DefIsExact /\ Map!QueriesPass
  BY MapAssumptions, Map!NestedExact, Map!NestedPass DEF Typed
<1>2. /\ \A scope \in Scopes :
           \/ (\A i \in Heads!Elements(left) : m_invtree[i].scope # scope) /\ HeadOf(left, scope) = NoLink
           \/ \E i \in Heads!Elements(left) : m_invtree[i].scope = scope /\ HeadOf(left, scope) = m_invtree[i].value
      /\ \A i, j \in Heads!Elements(left) : m_invtree[i].scope = m_invtree[j].scope => i = j
      /\ Heads!Listed(left) = Heads!Elements(left)
  BY <1>1, AlwaysSameMap DEF Map!DefIsExact, SameMap, HeadOf
<1>3. \A i \in Heads!Elements(left) : m_invtree[i].scope \in Scopes
  BY ElementsTyped DEF Heads!Elements
<1>4. Map!Nested(left) /\ Map!Elements(left) = Heads!Elements(left)
  BY AlwaysSameMap DEF SameMap
<1>5. \A step \in Nat :
        Heads!Matched(left, step) = {e \in Heads!Elements(left) : Heads!Covers(m_invtree[e].scope, step)}
  <2>1. \A step \in Nat : Map!Matched(left, step) = Map!VisibleElements(m_invtree, Map!Elements(left), step)
    BY <1>1, <1>4 DEF Map!QueriesPass
  <2>2. QED
    BY <1>4, <2>1, AlwaysSameMap DEF SameMap, Map!VisibleElements, Map!Covers, Heads!Covers
<1>6. \A e \in Heads!Elements(left) :
        Heads!Walk(m_invtree, e, {})
          = {f \in Heads!Elements(left) : Heads!Contains(m_invtree[f].scope, m_invtree[e].scope)}
  <2>1. \A e \in Map!Elements(left) : Map!Walk(m_invtree, e, {}) = Map!Above(m_invtree, Map!Elements(left), e)
    BY <1>1, <1>4 DEF Map!QueriesPass
  <2>2. QED
    BY <1>4, <2>1, AlwaysSameMap DEF SameMap, Map!Above, Map!Contains, Heads!Contains
<1>7. QED
  BY <1>2, <1>3, <1>5, <1>6

-----------------------------------------------------------------------------
(* Chains.  A chain is the least set with its head that is closed.         *)
IsClosed(C) == \A i \in C : m_list[i].next \in C \cup {NoLink}

LEMMA ChainLeast ==
  ASSUME Typed, NEW h \in DOMAIN m_list
  PROVE  /\ Chain(h) \subseteq DOMAIN m_list /\ h \in Chain(h) /\ IsClosed(Chain(h))
         /\ \A C \in SUBSET DOMAIN m_list : h \in C /\ IsClosed(C) => Chain(h) \subseteq C
         /\ \A i \in Chain(h) : owner[i] = owner[h]
<1>1. Chain(h) \subseteq DOMAIN m_list /\ h \in Chain(h)
  BY DEF Chain
<1>2. \A C \in SUBSET DOMAIN m_list : h \in C /\ IsClosed(C) => Chain(h) \subseteq C
  BY DEF Chain, IsClosed
<1>3. IsClosed(Chain(h))
  BY DEF Chain, IsClosed, Typed, Ascends
<1>4. \A i \in Chain(h) : owner[i] = owner[h]
  <2> DEFINE C == {i \in DOMAIN m_list : owner[i] = owner[h]}
  <2>1. C \in SUBSET DOMAIN m_list /\ h \in C /\ IsClosed(C)
    BY DEF IsClosed, Typed, Ascends
  <2>2. Chain(h) \subseteq C
    BY <1>2, <2>1
  <2>3. QED
    BY <2>2
<1>5. QED
  BY <1>1, <1>2, <1>3, <1>4

(* The loop of an insertion ends at an element of the chain.               *)
LEMMA ChainEndIs ==
  ASSUME Typed, NEW h \in DOMAIN m_list
  PROVE  /\ ChainEnd(h) \in DOMAIN m_list /\ m_list[ChainEnd(h)].next = NoLink
         /\ owner[ChainEnd(h)] = owner[h]
<1>1. Chain(h) \subseteq DOMAIN m_list /\ h \in Chain(h) /\ IsClosed(Chain(h))
      /\ \A i \in Chain(h) : owner[i] = owner[h]
  BY ChainLeast
<1>2. /\ Len(m_list) \in Nat /\ Chain(h) \in SUBSET Nat
      /\ \A i \in Chain(h) : i <= Len(m_list)
  BY <1>1, OwnersTyped DEF Typed
<1>3. PICK m \in Chain(h) : \A i \in Chain(h) : i <= m
  BY <1>1, <1>2, NatMax
<1>4. m_list[m].next = NoLink
  <2> SUFFICES ASSUME m_list[m].next # NoLink PROVE FALSE
    OBVIOUS
  <2>1. m_list[m].next \in Chain(h) /\ m < m_list[m].next
    BY <1>1 DEF IsClosed, Typed, Ascends
  <2>2. m \in Nat /\ m_list[m].next \in Nat /\ m_list[m].next <= m
    BY <1>2, <1>3, <2>1
  <2>3. QED
    BY <2>1, <2>2
<1>5. ChainEnd(h) \in Chain(h) /\ m_list[ChainEnd(h)].next = NoLink
  BY <1>4 DEF ChainEnd
<1>6. QED
  BY <1>1, <1>5

(* Where the links are those of the invariant, the loop over a chain       *)
(* passes an element and all later ones of the same owner.                 *)
LEMMA ChainIs ==
  ASSUME Typed, NEW h \in DOMAIN m_list, LinksOrdered(owner[h].left)
  PROVE  Chain(h) = {h} \cup Later(h)
<1> DEFINE Passed == {h} \cup Later(h)
<1>1. Len(m_list) \in Nat /\ DOMAIN m_list = 1 .. Len(m_list) /\ \A i \in DOMAIN m_list : i \in Nat
  BY OwnersTyped DEF Typed
<1>2. \A i \in Passed : Later(i) \subseteq Later(h) /\ owner[i].left = owner[h].left
  BY <1>1 DEF Later
<1>3. Passed \in SUBSET DOMAIN m_list /\ h \in Passed
  BY DEF Later
<1>4. \A i \in Passed : m_list[i].next \in Passed \cup {NoLink}
  BY <1>2, <1>3 DEF LinksOrdered
<1>5. ASSUME NEW C \in SUBSET DOMAIN m_list, h \in C, \A i \in C : m_list[i].next \in C \cup {NoLink}
      PROVE  Passed \subseteq C
  <2> SUFFICES ASSUME Passed \ C # {} PROVE FALSE
    OBVIOUS
  <2>1. Passed \ C \in SUBSET Nat
    BY <1>1, <1>3
  <2>2. PICK m \in Passed \ C : \A n \in Passed \ C : m <= n
    BY <2>1, Nodes!NatMin
  <2>3. m \in Later(h) /\ m \in Nat
    BY <1>5, <2>1, <2>2
  <2> DEFINE B == {k \in Passed : k < m}
  <2>4. B \in SUBSET Nat /\ h \in B /\ \A k \in B : k <= m
    BY <1>1, <1>3, <2>3 DEF Later
  <2>5. PICK k \in B : \A l \in B : l <= k
    BY <2>3, <2>4, NatMax
  <2>6. k \in C /\ k \in DOMAIN m_list /\ k \in Nat /\ owner[k].left = owner[h].left
    BY <1>2, <1>3, <2>1, <2>2, <2>4, <2>5
  <2>7. m \in Later(k)
    BY <1>3, <2>3, <2>5 DEF Later
  <2>8. m_list[k].next \in Later(k) /\ m_list[k].next <= m
    BY <2>6, <2>7 DEF LinksOrdered
  <2>9. m_list[k].next \in Passed /\ m_list[k].next \in Nat /\ k < m_list[k].next
    BY <1>1, <1>2, <2>5, <2>8 DEF Later
  <2>10. m_list[k].next = m
    BY <2>3, <2>5, <2>6, <2>8, <2>9
  <2>11. m \in C \cup {NoLink} /\ m # NoLink
    BY <1>1, <1>5, <2>3, <2>6, <2>10 DEF Later, NoLink
  <2>12. QED
    BY <2>2, <2>11
<1>6. QED
  BY <1>3, <1>4, <1>5 DEF Chain

(* The chain from the head of a scope has all relations of the scope.      *)
LEMMA ChainOfIs ==
  ASSUME IInv, NEW left \in Types, Heads!Nested(left), NEW scope \in Scopes
  PROVE  /\ ChainOf(left, scope) = Own(left, scope)
         /\ HeadOf(left, scope) # NoLink => Chain(HeadOf(left, scope)) = Own(left, scope)
         /\ \A i, j \in Own(left, scope) : j \in Chain(i) <=> i <= j
<1> DEFINE h == HeadOf(left, scope)
<1>1. Typed /\ LinksOrdered(left) /\ HeadsFirst(left)
  BY DEF IInv, InChains
<1>2. \A i \in DOMAIN m_list : owner[i] = [left |-> owner[i].left, scope |-> owner[i].scope] /\ i \in Nat
  BY <1>1, OwnersTyped DEF Typed
<1>3. \A i \in Own(left, scope) : /\ owner[i] = [left |-> left, scope |-> scope] /\ i \in DOMAIN m_list /\ i \in Nat
                                  /\ owner[i].left = left
  BY <1>2 DEF Own
<1>4. \A i \in Own(left, scope) : Chain(i) = {i} \cup Later(i)
  BY <1>1, <1>3, ChainIs
<1>5. \A i, j \in Own(left, scope) : j \in Chain(i) <=> i <= j
  BY <1>3, <1>4 DEF Later
<1>6. /\ Heads!IsKnown(left, scope) <=> h # NoLink
      /\ h # NoLink => Heads!OldValue(left, scope) = h
  BY <1>1, TypedHeads DEF HeadsFound
<1>7. h = NoLink => Own(left, scope) = {}
  <2>1. NoLink \notin Own(left, scope)
    BY <1>1, OwnersTyped DEF Own, Typed
  <2>2. QED
    BY <1>1, <2>1 DEF HeadsFirst
<1>8. ASSUME h # NoLink PROVE Chain(h) = Own(left, scope)
  <2>1. h \in Own(left, scope) /\ \A i \in Own(left, scope) : h <= i
    BY <1>1, <1>8 DEF HeadsFirst
  <2> HIDE DEF h
  <2>2. Own(left, scope) \subseteq Chain(h)
    BY <1>5, <2>1
  <2>3. Chain(h) \subseteq Own(left, scope)
    BY <1>3, <1>4, <2>1 DEF Later, Own
  <2>4. QED
    BY <2>2, <2>3
<1>9. QED
  BY <1>5, <1>6, <1>7, <1>8 DEF ChainOf

-----------------------------------------------------------------------------
(* A definition.  What the insertion of a relation makes of the table: the *)
(* links of the others stay, but that tail leads to the new one, or the    *)
(* new one becomes the head of its scope if there is none.                 *)
New == Len(m_list) + 1

IsPushed(left, scope, element, tail) ==
  /\ m_list' \in Seq(ListElement) /\ Len(m_list') = New /\ m_list'[New] = element
  /\ owner' \in Seq([left : Types, scope : Scopes]) /\ Len(owner') = New
  /\ owner'[New] = [left |-> left, scope |-> scope]
  /\ \A i \in DOMAIN m_list :
       /\ owner'[i] = owner[i]
       /\ m_list'[i].related = m_list[i].related /\ m_list'[i].value = m_list[i].value
       /\ m_list'[i].weight = m_list[i].weight /\ m_list'[i].tag = m_list[i].tag
       /\ m_list'[i].next = IF i = tail THEN New ELSE m_list[i].next
  /\ \/ /\ tail = NoLink
        /\ Heads!Insert(left, scope, New)
     \/ /\ tail \in DOMAIN m_list /\ m_list[tail].next = NoLink
        /\ owner[tail] = [left |-> left, scope |-> scope]
        /\ HeadOf(left, scope) # NoLink
        /\ UNCHANGED headVars

(* The types of the elements after an insertion.                           *)
LEMMA AppendedElement ==
  ASSUME NEW S, NEW seq \in Seq(S), NEW e \in S
  PROVE  /\ Append(seq, e) \in Seq(S) /\ Len(Append(seq, e)) = Len(seq) + 1
         /\ Append(seq, e)[Len(seq) + 1] = e
         /\ \A i \in 1 .. Len(seq) : Append(seq, e)[i] = seq[i]
OBVIOUS

LEMMA PushedIs ==
  ASSUME Typed, NEW left \in Types, NEW scope \in Scopes, NEW element \in ListElement,
         Pushed(scope, left, element), owner' = Append(owner, [left |-> left, scope |-> scope])
  PROVE  \E tail : IsPushed(left, scope, element, tail)
<1> DEFINE Owners == [left : Types, scope : Scopes]
           own == [left |-> left, scope |-> scope]
           head == HeadOf(left, scope)
<1>1. /\ Len(m_list) \in Nat /\ DOMAIN m_list = 1 .. Len(m_list) /\ DOMAIN owner = DOMAIN m_list
      /\ m_list \in Seq(ListElement) /\ owner \in Seq(Owners) /\ Len(owner) = Len(m_list)
      /\ New \in Nat /\ New = Len(m_list) + 1
  BY OwnersTyped DEF Typed, TypeOK, New
<1>2. /\ owner' \in Seq(Owners) /\ Len(owner') = New /\ owner'[New] = own
      /\ \A i \in DOMAIN m_list : owner'[i] = owner[i]
  <2>1. own \in Owners /\ owner' = Append(owner, own)
    OBVIOUS
  <2> HIDE DEF own, Owners
  <2>2. QED
    BY <1>1, <2>1, AppendedElement
<1>3. CASE /\ Heads!IsKnown(left, scope)
           /\ m_list' = Append([m_list EXCEPT ![ChainEnd(Heads!OldValue(left, scope))].next = New], element)
           /\ UNCHANGED headVars
  <2> DEFINE end == ChainEnd(head)
             linked == [m_list[end] EXCEPT !.next = New]
             list == [m_list EXCEPT ![end] = linked]
  <2>1. head # NoLink /\ head \in DOMAIN m_list /\ owner[head] = own /\ Heads!OldValue(left, scope) = head
    BY <1>3, TypedHeads DEF HeadsFound
  <2> HIDE DEF head
  <2>2. end \in DOMAIN m_list /\ m_list[end].next = NoLink /\ owner[end] = own
    BY <2>1, ChainEndIs
  <2>3. m_list' = Append(list, element)
    BY <1>3, <2>1
  <2>4. /\ linked \in ListElement /\ linked.next = New
        /\ linked.related = m_list[end].related /\ linked.value = m_list[end].value
        /\ linked.weight = m_list[end].weight /\ linked.tag = m_list[end].tag
    <3>1. m_list[end] \in ListElement
      BY <2>2, OwnersTyped DEF Typed
    <3>2. QED
      BY <1>1, <3>1 DEF ListElement
  <2> HIDE DEF end, linked
  <2>5. list \in Seq(ListElement) /\ Len(list) = Len(m_list)
        /\ list[end] = linked /\ \A i \in DOMAIN m_list : i # end => list[i] = m_list[i]
    <3>1. list \in Seq(ListElement) /\ DOMAIN list = 1 .. Len(m_list)
      BY <1>1, <2>2, <2>4
    <3>2. QED
      BY <1>1, <2>2, <3>1
  <2> HIDE DEF list
  <2>6. m_list' \in Seq(ListElement) /\ Len(m_list') = New /\ m_list'[New] = element
        /\ \A i \in DOMAIN m_list : m_list'[i] = list[i]
    BY <1>1, <2>3, <2>5, AppendedElement
  <2>7. ASSUME NEW i \in DOMAIN m_list
        PROVE  /\ m_list'[i].related = m_list[i].related /\ m_list'[i].value = m_list[i].value
               /\ m_list'[i].weight = m_list[i].weight /\ m_list'[i].tag = m_list[i].tag
               /\ m_list'[i].next = IF i = end THEN New ELSE m_list[i].next
    BY <2>4, <2>5, <2>6
  <2>8. IsPushed(left, scope, element, end)
    BY <1>2, <1>3, <2>1, <2>2, <2>6, <2>7 DEF IsPushed, head
  <2>9. QED
    BY <2>8
<1>4. CASE Heads!Insert(left, scope, New) /\ m_list' = Append(m_list, element)
  <2>1. m_list' \in Seq(ListElement) /\ Len(m_list') = New /\ m_list'[New] = element
        /\ \A i \in DOMAIN m_list : m_list'[i] = m_list[i]
    BY <1>1, <1>4, AppendedElement
  <2>2. NoLink \notin DOMAIN m_list
    BY <1>1 DEF NoLink
  <2>3. IsPushed(left, scope, element, NoLink)
    BY <1>2, <1>4, <2>1, <2>2 DEF IsPushed
  <2>4. QED
    BY <2>3
<1>5. QED
  BY <1>3, <1>4 DEF Pushed, New

(* An insertion into the table of the heads.                               *)
LEMMA InsertedHead ==
  ASSUME Typed, NEW left \in Types, NEW scope \in Scopes, NEW head \in Nat \ {0},
         Heads!Insert(left, scope, head)
  PROVE  /\ Map!IInv'
         /\ HeadOf(left, scope) = NoLink
         /\ LET n == Len(m_invtree) + 1
            IN  /\ DOMAIN m_invtree' = DOMAIN m_invtree \cup {n} /\ n \notin DOMAIN m_invtree
                /\ m_invtree'[n].scope = scope /\ m_invtree'[n].value = head /\ leftOf'[n] = left
                /\ \A e \in DOMAIN m_invtree : /\ m_invtree'[e].scope = m_invtree[e].scope
                                               /\ m_invtree'[e].value = m_invtree[e].value
                                               /\ leftOf'[e] = leftOf[e]
         /\ \A t \in Types : Heads!Nested(t)' =>
              /\ Heads!Nested(t)
              /\ \A s \in Scopes :
                   HeadOf(t, s)' = IF t = left /\ s = scope THEN head ELSE HeadOf(t, s)
<1> DEFINE n == Len(m_invtree) + 1
<1>1. Map!Insert(left, scope, head) /\ Map!IInv
  BY SameInsert DEF Typed
<1>2. Map!IInv'
  BY <1>1, MapAssumptions, Map!InsertInductive
<1>3. Map!IsExtension(m_invtree, Map!Elements(left), m_map[left], scope, head, m_invtree')
  BY <1>1, MapAssumptions, Map!InsertElements
<1>4. /\ DOMAIN m_invtree' = DOMAIN m_invtree \cup {n}
      /\ m_invtree'[n].scope = scope /\ m_invtree'[n].value = head
      /\ \A i \in DOMAIN m_invtree : /\ m_invtree'[i].scope = m_invtree[i].scope
                                     /\ m_invtree'[i].value = m_invtree[i].value
  BY <1>3 DEF Map!IsExtension
<1>5. leftOf' = Append(leftOf, left) /\ leftOf \in Seq(Types) /\ Len(leftOf) = Len(m_invtree)
      /\ m_invtree \in Seq(Heads!Element)
  BY DEF Heads!Insert, Typed, TypeOK, Heads!TypeOK
<1>6. /\ leftOf'[n] = left /\ \A i \in DOMAIN m_invtree : leftOf'[i] = leftOf[i]
      /\ n \notin DOMAIN m_invtree
  <2>1. DOMAIN m_invtree = 1 .. Len(leftOf) /\ Len(m_invtree) \in Nat
    BY <1>5, LenProperties
  <2>2. QED
    BY <1>5, <2>1, AppendProperties
<1>7. HeadOf(left, scope) = NoLink
  BY TypedHeads DEF HeadsFound, Heads!Insert
<1>8. SameMap /\ SameMap'
  BY AlwaysSameMap, PTL
<1>9. \A s, k : HeadOf(k, s) = Map!Def(k, s) /\ HeadOf(k, s)' = Map!Def(k, s)'
  BY <1>8 DEF HeadOf, SameMap
<1>10. /\ Map!Def(left, scope)' = head
       /\ \A k \in Types, s \in Scopes : k # left => Map!Def(k, s)' = Map!Def(k, s)
  BY <1>1, MapAssumptions, Map!InsertDef
<1>11. ASSUME NEW t \in Types, Heads!Nested(t)'
       PROVE  /\ Heads!Nested(t)
              /\ \A s \in Scopes :
                   HeadOf(t, s)' = IF t = left /\ s = scope THEN head ELSE HeadOf(t, s)
  <2>1. Map!Nested(t)'
    BY <1>8, <1>11 DEF SameMap
  <2>2. Heads!Nested(t)
    <3>1. Map!Nested(t)
      BY <1>1, <2>1, MapAssumptions, Map!NestedBefore
    <3>2. QED
      BY <1>8, <3>1 DEF SameMap
  <2>3. ASSUME NEW s \in Scopes, s # scope, t = left PROVE Map!Def(left, s)' = Map!Def(left, s)
    <3>1. Map!Nested(left)'
      BY <2>1, <2>3
    <3>2. QED
      BY <1>1, <2>3, <3>1, MapAssumptions, Map!InsertKeeps
  <2>4. QED
    BY <1>9, <1>10, <2>2, <2>3
<1>12. QED
  BY <1>2, <1>4, <1>6, <1>7, <1>11

LEMMA HeadsKept ==
  ASSUME UNCHANGED headVars
  PROVE  /\ \A t, s : HeadOf(t, s)' = HeadOf(t, s)
         /\ \A t : Heads!Nested(t)' <=> Heads!Nested(t)
         /\ \A t : Heads!Elements(t)' = Heads!Elements(t)
         /\ Heads!TypeOK => Heads!TypeOK'
<1>1. m_invtree' = m_invtree /\ m_map' = m_map /\ leftOf' = leftOf
  BY DEF headVars
<1>2. \A t, s : HeadOf(t, s)' = HeadOf(t, s)
  BY <1>1 DEF HeadOf, Heads!Def, Heads!getDef, Heads!findUpValue, Heads!StopsAt, Heads!Walk,
              Heads!Closed, Heads!NoLink
<1>3. \A t : Heads!Elements(t)' = Heads!Elements(t)
  BY <1>1 DEF Heads!Elements
<1>4. \A t : Heads!Nested(t)' <=> Heads!Nested(t)
  BY <1>1, <1>3 DEF Heads!Nested
<1>5. Heads!TypeOK => Heads!TypeOK'
  BY <1>1 DEF Heads!TypeOK
<1>6. QED
  BY <1>2, <1>3, <1>4, <1>5

LEMMA PushedRange ==
  ASSUME Typed, NEW left, NEW scope, NEW element, NEW tail, IsPushed(left, scope, element, tail)
  PROVE  /\ New \in Nat /\ New \notin DOMAIN m_list /\ DOMAIN m_list' = DOMAIN m_list \cup {New}
         /\ \A i \in DOMAIN m_list : i \in Nat /\ i < New
         /\ New \in Nat \ {0} /\ New # NoLink
<1>1. Len(m_list) \in Nat /\ DOMAIN m_list = 1 .. Len(m_list)
  BY OwnersTyped DEF Typed
<1>2. m_list' \in Seq(ListElement) /\ Len(m_list') = New /\ New = Len(m_list) + 1
  BY DEF IsPushed, New
<1>3. DOMAIN m_list' = 1 .. New
  BY <1>2
<1>4. QED
  BY <1>1, <1>2, <1>3 DEF NoLink

LEMMA PushedTyped ==
  ASSUME Typed, NEW left \in Types, NEW scope \in Scopes, NEW element \in ListElement, NEW tail,
         element.next = NoLink, IsPushed(left, scope, element, tail)
  PROVE  Typed'
<1>1. /\ New \in Nat /\ New \notin DOMAIN m_list /\ DOMAIN m_list' = DOMAIN m_list \cup {New}
      /\ \A i \in DOMAIN m_list : i \in Nat /\ i < New
      /\ New \in Nat \ {0} /\ New # NoLink
  BY PushedRange
<1>2. /\ owner'[New] = [left |-> left, scope |-> scope] /\ m_list'[New].next = NoLink
      /\ \A i \in DOMAIN m_list :
           /\ owner'[i] = owner[i]
           /\ m_list'[i].next = IF i = tail THEN New ELSE m_list[i].next
  BY DEF IsPushed
<1>3. tail \in DOMAIN m_list => owner[tail] = [left |-> left, scope |-> scope]
  BY OwnersTyped DEF IsPushed, Typed
<1>4. \A i \in DOMAIN m_list : \/ m_list[i].next = NoLink
                               \/ /\ m_list[i].next \in DOMAIN m_list /\ i < m_list[i].next
                                  /\ owner[m_list[i].next] = owner[i]
  BY DEF Typed, Ascends
<1> HIDE DEF New
<1>5. Ascends'
  <2> SUFFICES ASSUME NEW i \in DOMAIN m_list'
               PROVE  \/ m_list'[i].next = NoLink
                      \/ /\ m_list'[i].next \in DOMAIN m_list' /\ i < m_list'[i].next
                         /\ owner'[m_list'[i].next] = owner'[i]
    BY DEF Ascends
  <2>1. CASE i = New
    BY <1>2, <2>1
  <2>2. CASE i \in DOMAIN m_list /\ i = tail
    BY <1>1, <1>2, <1>3, <2>2
  <2>3. CASE i \in DOMAIN m_list /\ i # tail
    BY <1>1, <1>2, <1>4, <2>3
  <2>4. QED
    BY <1>1, <2>1, <2>2, <2>3
<1>6. \A i \in DOMAIN m_list' : m_list'[i].next \in {NoLink} \cup DOMAIN m_list'
  BY <1>5 DEF Ascends
<1>7. /\ Map!IInv'
      /\ \A e \in DOMAIN m_invtree' :
           /\ m_invtree'[e].value \in DOMAIN m_list'
           /\ owner'[m_invtree'[e].value] = [left |-> leftOf'[e], scope |-> m_invtree'[e].scope]
  <2>1. \A e \in DOMAIN m_invtree : /\ m_invtree[e].value \in DOMAIN m_list
                                    /\ owner[m_invtree[e].value] = [left |-> leftOf[e], scope |-> m_invtree[e].scope]
    BY ElementsTyped DEF Typed, HeadsOwned
  <2>2. CASE Heads!Insert(left, scope, New)
    <3> DEFINE n == Len(m_invtree) + 1
    <3>1. PICK head \in Nat \ {0} : head = New
      BY <1>1
    <3>2. Heads!Insert(left, scope, head)
      BY <2>2, <3>1
    <3>3. /\ Map!IInv'
          /\ DOMAIN m_invtree' = DOMAIN m_invtree \cup {n}
          /\ m_invtree'[n].scope = scope /\ m_invtree'[n].value = head /\ leftOf'[n] = left
          /\ \A e \in DOMAIN m_invtree : /\ m_invtree'[e].scope = m_invtree[e].scope
                                         /\ m_invtree'[e].value = m_invtree[e].value
                                         /\ leftOf'[e] = leftOf[e]
      BY <3>2, InsertedHead
    <3> HIDE DEF n
    <3>4. QED
      BY <1>1, <1>2, <2>1, <3>1, <3>3
  <2>3. CASE UNCHANGED headVars
    <3>1. m_invtree' = m_invtree /\ m_map' = m_map /\ leftOf' = leftOf
      BY <2>3 DEF headVars
    <3>2. Map!IInv'
      BY <3>1, MapAssumptions, Map!InsertInductive DEF Typed
    <3>3. QED
      BY <1>1, <1>2, <2>1, <3>1, <3>2
  <2>4. QED
    BY <2>2, <2>3 DEF IsPushed
<1>8. HeadsOwned'
  BY <1>7 DEF HeadsOwned
<1>9. Heads!TypeOK'
  <2>1. Map!TypeOK'
    BY <1>7 DEF Map!IInv
  <2>2. SameMap'
    BY AlwaysSameMap, PTL
  <2>3. QED
    BY <2>1, <2>2 DEF SameMap
<1>10. /\ m_list' \in Seq(ListElement) /\ owner' \in Seq([left : Types, scope : Scopes])
       /\ Len(owner') = Len(m_list')
  BY DEF IsPushed
<1>11. TypeOK'
  BY <1>6, <1>7, <1>9, <1>10 DEF TypeOK
<1>12. QED
  BY <1>5, <1>7, <1>8, <1>11 DEF Typed

(* The relations of an owner, and of these the later ones, after it.       *)
LEMMA PushedOwners ==
  ASSUME Typed, NEW left \in Types, NEW scope \in Scopes, NEW element, NEW tail,
         IsPushed(left, scope, element, tail)
  PROVE  /\ \A t \in Types, s \in Scopes :
              Own(t, s)' = IF t = left /\ s = scope THEN Own(t, s) \cup {New} ELSE Own(t, s)
         /\ \A i : i = New => Later(i)' = {}
         /\ \A i \in DOMAIN m_list :
              Later(i)' = IF i \in Own(left, scope) THEN Later(i) \cup {New} ELSE Later(i)
<1> DEFINE own == [left |-> left, scope |-> scope]
           old == Own(left, scope)
<1>1. /\ New \in Nat /\ New \notin DOMAIN m_list /\ DOMAIN m_list' = DOMAIN m_list \cup {New}
      /\ \A i \in DOMAIN m_list : i \in Nat /\ i < New
  BY PushedRange
<1>2. owner'[New] = own /\ \A i \in DOMAIN m_list : owner'[i] = owner[i]
  BY DEF IsPushed
<1>3. \A i \in DOMAIN m_list : i \in old <=> owner[i] = own
  BY OwnersTyped DEF Typed, Own
<1>4. own.left = left /\ own.scope = scope
  OBVIOUS
<1> HIDE DEF New, own
<1>5. \A i \in DOMAIN m_list' : Later(i)' = {j \in DOMAIN m_list' : owner'[j] = owner'[i] /\ i < j}
  BY DEF Later
<1>6. \A i : i = New => Later(i)' = {}
  <2>1. \A j \in DOMAIN m_list' : ~(New < j)
    BY <1>1
  <2>2. QED
    BY <1>1, <1>5, <2>1
<1>7. ASSUME NEW i \in DOMAIN m_list
      PROVE  Later(i)' = IF i \in old THEN Later(i) \cup {New} ELSE Later(i)
  <2>1. Later(i)' = {j \in DOMAIN m_list \cup {New} : owner'[j] = owner[i] /\ i < j}
    BY <1>1, <1>2, <1>5
  <2>2. \A j : j \in Later(i)' <=> j \in Later(i) \/ (j = New /\ i \in old)
    BY <1>1, <1>2, <1>3, <2>1 DEF Later
  <2>3. QED
    BY <2>2
<1>8. ASSUME NEW t \in Types, NEW s \in Scopes
      PROVE  Own(t, s)' = IF t = left /\ s = scope THEN Own(t, s) \cup {New} ELSE Own(t, s)
  <2>1. Own(t, s)' = {i \in DOMAIN m_list \cup {New} : owner'[i].left = t /\ owner'[i].scope = s}
    BY <1>1 DEF Own
  <2>2. \A i \in DOMAIN m_list : i \in Own(t, s)' <=> i \in Own(t, s)
    BY <1>2, <2>1 DEF Own
  <2>3. New \in Own(t, s)' <=> t = left /\ s = scope
    BY <1>2, <1>4, <2>1
  <2>4. Own(t, s)' \subseteq DOMAIN m_list \cup {New} /\ Own(t, s) \subseteq DOMAIN m_list
    BY <2>1 DEF Own
  <2>5. CASE t = left /\ s = scope
    <3>1. Own(t, s)' = Own(t, s) \cup {New}
      BY <2>2, <2>3, <2>4, <2>5
    <3>2. QED
      BY <2>5, <3>1
  <2>6. CASE ~(t = left /\ s = scope)
    <3>1. New \notin Own(t, s)'
      BY <2>3, <2>6
    <3>2. Own(t, s)' = Own(t, s)
      BY <2>2, <2>4, <3>1
    <3>3. QED
      BY <2>6, <3>2
  <2>7. QED
    BY <2>5, <2>6
<1>9. QED
  BY <1>6, <1>7, <1>8

(* The left types whose scopes still nest did so before, and their heads   *)
(* stay, but that of a scope that gets its first relation.                 *)
LEMMA PushedHeads ==
  ASSUME Typed, NEW left \in Types, NEW scope \in Scopes, NEW element, NEW tail,
         IsPushed(left, scope, element, tail), NEW t \in Types, Heads!Nested(t)'
  PROVE  /\ Heads!Nested(t)
         /\ \A s \in Scopes :
              HeadOf(t, s)' = IF t = left /\ s = scope /\ HeadOf(t, s) = NoLink THEN New ELSE HeadOf(t, s)
         /\ tail = NoLink <=> HeadOf(left, scope) = NoLink
<1>1. New \in Nat \ {0} /\ NoLink \notin DOMAIN m_list
  BY PushedRange, OwnersTyped DEF Typed
<1>2. CASE tail = NoLink /\ Heads!Insert(left, scope, New)
  <2>1. /\ HeadOf(left, scope) = NoLink
        /\ Heads!Nested(t)
        /\ \A s \in Scopes :
             HeadOf(t, s)' = IF t = left /\ s = scope THEN New ELSE HeadOf(t, s)
    BY <1>1, <1>2, InsertedHead
  <2>2. QED
    BY <1>2, <2>1
<1>3. CASE tail \in DOMAIN m_list /\ HeadOf(left, scope) # NoLink /\ UNCHANGED headVars
  <2>1. tail # NoLink
    BY <1>1, <1>3
  <2>2. QED
    BY <1>3, <2>1, HeadsKept
<1>4. QED
  BY <1>2, <1>3 DEF IsPushed

LEMMA PushedInChains ==
  ASSUME Typed, NEW left \in Types, NEW scope \in Scopes, NEW element, NEW tail,
         element.next = NoLink, IsPushed(left, scope, element, tail),
         NEW t \in Types, Heads!Nested(t)', InChains(t),
         t = left => \A i \in Own(left, scope) :
                       ~(m_list[i].related = element.related /\ m_list[i].tag = element.tag)
  PROVE  InChains(t)'
<1> DEFINE old == Own(left, scope)
           own == [left |-> left, scope |-> scope]
<1>1. /\ New \in Nat /\ New \notin DOMAIN m_list /\ DOMAIN m_list' = DOMAIN m_list \cup {New}
      /\ \A i \in DOMAIN m_list : i \in Nat /\ i < New
      /\ New # NoLink /\ NoLink \notin DOMAIN m_list
  BY PushedRange, OwnersTyped DEF Typed
<1>2. /\ owner'[New] = own /\ m_list'[New] = element
      /\ \A i \in DOMAIN m_list :
           /\ owner'[i] = owner[i]
           /\ m_list'[i].related = m_list[i].related /\ m_list'[i].tag = m_list[i].tag
           /\ m_list'[i].next = IF i = tail THEN New ELSE m_list[i].next
  BY DEF IsPushed
<1>3. /\ \A u \in Types, s \in Scopes :
           Own(u, s)' = IF u = left /\ s = scope THEN Own(u, s) \cup {New} ELSE Own(u, s)
      /\ \A i : i = New => Later(i)' = {}
      /\ \A i \in DOMAIN m_list :
           Later(i)' = IF i \in old THEN Later(i) \cup {New} ELSE Later(i)
  BY PushedOwners
<1>4. /\ \A s \in Scopes :
           HeadOf(t, s)' = IF t = left /\ s = scope /\ HeadOf(t, s) = NoLink THEN New ELSE HeadOf(t, s)
      /\ tail = NoLink <=> HeadOf(left, scope) = NoLink
  BY PushedHeads
<1>5. \A i \in DOMAIN m_list : owner[i] = [left |-> owner[i].left, scope |-> owner[i].scope]
  BY OwnersTyped DEF Typed
<1>6. own.left = left /\ own.scope = scope
  OBVIOUS
<1>7. \A i \in DOMAIN m_list : i \in old <=> owner[i] = own
  BY <1>5 DEF Own
<1>8. LinksOrdered(t) /\ HeadsFirst(t) /\ NoneTwice(t)
  BY DEF InChains
<1> HIDE DEF New, own
<1>9. ASSUME NEW i \in DOMAIN m_list, owner[i].left = t
      PROVE  i = tail <=> i \in old /\ Later(i) = {}
  <2>1. \/ m_list[i].next = NoLink /\ Later(i) = {}
        \/ m_list[i].next \in Later(i) /\ Later(i) # {}
    BY <1>8, <1>9 DEF LinksOrdered
  <2>2. CASE i = tail
    <3>1. m_list[i].next = NoLink /\ owner[i] = own
      BY <1>1, <2>2 DEF IsPushed, own
    <3>2. Later(i) = {}
      <4>1. NoLink \notin Later(i)
        BY <1>1 DEF Later
      <4>2. QED
        BY <2>1, <3>1, <4>1
    <3>3. QED
      BY <1>7, <2>2, <3>1, <3>2
  <2>3. ASSUME i \in old, Later(i) = {} PROVE i = tail
    <3>1. owner[i] = own /\ t = left
      BY <1>6, <1>7, <1>9, <2>3
    <3>2. HeadOf(left, scope) # NoLink
      <4>1. NoLink \notin Own(left, scope)
        BY <1>1 DEF Own
      <4>2. HeadsFirst(left)
        BY <1>8, <3>1
      <4>3. QED
        BY <2>3, <4>1, <4>2 DEF HeadsFirst
    <3>3. tail \in DOMAIN m_list /\ m_list[tail].next = NoLink /\ owner[tail] = own
      BY <1>4, <3>2 DEF IsPushed, own
    <3>4. Later(tail) = {}
      <4>1. NoLink \notin Later(tail)
        BY <1>1 DEF Later
      <4>2. owner[tail].left = t
        BY <1>6, <3>1, <3>3
      <4>3. QED
        BY <1>8, <3>3, <4>1, <4>2 DEF LinksOrdered
    <3>5. ~(i < tail) /\ ~(tail < i) /\ i \in Nat /\ tail \in Nat
      BY <1>1, <2>3, <3>1, <3>3, <3>4 DEF Later
    <3>6. QED
      BY <3>5
  <2>4. QED
    BY <2>2, <2>3
<1>10. LinksOrdered(t)'
  <2>1. ASSUME NEW i \in DOMAIN m_list, owner[i].left = t
        PROVE  \/ m_list'[i].next = NoLink /\ Later(i)' = {}
               \/ m_list'[i].next \in Later(i)' /\ \A j \in Later(i)' : m_list'[i].next <= j
    <3>1. \/ m_list[i].next = NoLink /\ Later(i) = {}
          \/ m_list[i].next \in Later(i) /\ \A j \in Later(i) : m_list[i].next <= j
      BY <1>8, <2>1 DEF LinksOrdered
    <3>2. Later(i) \subseteq DOMAIN m_list
      BY DEF Later
    <3>3. CASE i \notin old
      BY <1>2, <1>3, <1>9, <2>1, <3>1, <3>3
    <3>4. CASE i \in old /\ Later(i) = {}
      <4>1. m_list'[i].next = New /\ Later(i)' = {New}
        BY <1>2, <1>3, <1>9, <2>1, <3>4
      <4>2. QED
        BY <1>1, <4>1
    <3>5. CASE i \in old /\ Later(i) # {}
      <4>1. m_list'[i].next = m_list[i].next /\ Later(i)' = Later(i) \cup {New}
        BY <1>2, <1>3, <1>9, <2>1, <3>5
      <4>2. m_list[i].next \in Later(i) /\ \A j \in Later(i) : m_list[i].next <= j
        BY <3>1, <3>5
      <4>3. m_list[i].next <= New
        BY <1>1, <3>2, <4>2
      <4>4. QED
        BY <4>1, <4>2, <4>3
    <3>6. QED
      BY <3>3, <3>4, <3>5
  <2>2. \A i : i = New => m_list'[i].next = NoLink /\ Later(i)' = {}
    BY <1>2, <1>3
  <2>3. QED
    BY <1>1, <1>2, <2>1, <2>2 DEF LinksOrdered
<1>11. HeadsFirst(t)'
  <2> SUFFICES ASSUME NEW s \in Scopes
               PROVE  \/ HeadOf(t, s)' = NoLink /\ Own(t, s)' = {}
                      \/ /\ HeadOf(t, s)' \in Own(t, s)'
                         /\ \A i \in Own(t, s)' : HeadOf(t, s)' <= i
    BY DEF HeadsFirst
  <2>1. \/ HeadOf(t, s) = NoLink /\ Own(t, s) = {}
        \/ /\ HeadOf(t, s) \in Own(t, s)
           /\ \A i \in Own(t, s) : HeadOf(t, s) <= i
    BY <1>8 DEF HeadsFirst
  <2>2. Own(t, s) \subseteq DOMAIN m_list
    BY DEF Own
  <2>3. CASE ~(t = left /\ s = scope)
    BY <1>3, <1>4, <2>1, <2>3
  <2>4. CASE t = left /\ s = scope /\ HeadOf(t, s) = NoLink
    <3>1. Own(t, s) = {}
      BY <1>1, <2>1, <2>2, <2>4
    <3>2. Own(t, s)' = {New} /\ HeadOf(t, s)' = New
      BY <1>3, <1>4, <2>4, <3>1
    <3>3. QED
      BY <1>1, <3>2
  <2>5. CASE t = left /\ s = scope /\ HeadOf(t, s) # NoLink
    <3>1. Own(t, s)' = Own(t, s) \cup {New} /\ HeadOf(t, s)' = HeadOf(t, s)
      BY <1>3, <1>4, <2>5
    <3>2. HeadOf(t, s) \in Own(t, s) /\ HeadOf(t, s) <= New
      BY <1>1, <2>1, <2>2, <2>5
    <3>3. QED
      BY <2>1, <2>5, <3>1, <3>2
  <2>6. QED
    BY <2>3, <2>4, <2>5
<1>12. NoneTwice(t)'
  <2> SUFFICES ASSUME NEW s \in Scopes, NEW i \in Own(t, s)', NEW j \in Own(t, s)',
                      m_list'[i].related = m_list'[j].related, m_list'[i].tag = m_list'[j].tag
               PROVE  i = j
    BY DEF NoneTwice
  <2>1. Own(t, s) \subseteq DOMAIN m_list
    BY DEF Own
  <2>2. CASE i \in Own(t, s) /\ j \in Own(t, s)
    BY <1>2, <1>8, <2>1, <2>2 DEF NoneTwice
  <2>3. (i = New \/ j = New) => t = left /\ s = scope
    BY <1>1, <1>3, <2>1
  <2>4. CASE i = New /\ j \in Own(t, s)
    BY <1>2, <2>1, <2>3, <2>4
  <2>5. CASE j = New /\ i \in Own(t, s)
    BY <1>2, <2>1, <2>3, <2>5
  <2>6. QED
    BY <1>3, <2>2, <2>4, <2>5
<1>13. QED
  BY <1>10, <1>11, <1>12 DEF InChains

LEMMA PushedInductive ==
  ASSUME IInv, NEW left \in Types, NEW scope \in Scopes, NEW element \in ListElement, NEW tail,
         element.next = NoLink, IsPushed(left, scope, element, tail),
         {i \in ChainOf(left, scope) : m_list[i].related = element.related /\ m_list[i].tag = element.tag} = {}
  PROVE  IInv'
<1>1. Typed'
  BY PushedTyped DEF IInv
<1>2. ASSUME NEW t \in Types, Heads!Nested(t)' PROVE InChains(t)'
  <2>1. Typed /\ Heads!Nested(t)
    BY <1>2, PushedHeads DEF IInv
  <2>2. InChains(t)
    BY <2>1 DEF IInv
  <2>3. t = left => \A i \in Own(left, scope) :
                      ~(m_list[i].related = element.related /\ m_list[i].tag = element.tag)
    BY <2>1, ChainOfIs
  <2>4. QED
    BY <1>2, <2>1, <2>2, <2>3, PushedInChains
<1>3. QED
  BY <1>1, <1>2 DEF IInv

(* The steps of the table: a call of def_reduction, or a query, that       *)
(* leaves it alone.                                                        *)
TableStep ==
  \/ \E scope \in Scopes, call \in Calls : def_reduction(scope, call)
  \/ UNCHANGED <<headVars, m_list, owner>> /\ reply' \in {reply, "none"}

(* What a call that defines a relation is called with.                     *)
Element(call) ==
  [related |-> call.toType, value |-> call.constructor, weight |-> call.weight,
   next |-> NoLink, tag |-> call.tag]

LEMMA ValidCall ==
  ASSUME NEW call \in Calls,
         ValidRelation(call.toType, call.fromType, call.constructor, call.tag, call.weight)
  PROVE  /\ call.toType \in Types /\ call.fromType \in Types
         /\ call.constructor \in Nat /\ call.tag \in MinTag .. MaxTag /\ call.weight \in Nat
<1>1. /\ call.toType \in Int /\ call.fromType \in Int /\ call.constructor \in Int
      /\ call.tag \in Int /\ call.weight \in Int
  BY CallsAssumption
<1>2. QED
  BY <1>1, NofTypesAssumption DEF ValidRelation, ValidTypes, Types

LEMMA ElementTyped ==
  ASSUME NEW call \in Calls,
         ValidRelation(call.toType, call.fromType, call.constructor, call.tag, call.weight)
  PROVE  Element(call) \in ListElement /\ Element(call).next = NoLink
BY ValidCall DEF Element, ListElement, NoLink

(* Every call either defines the relation it is called for or leaves the   *)
(* table as it is.                                                         *)
LEMMA CallCases ==
  ASSUME NEW scope \in Scopes, NEW call \in Calls, def_reduction(scope, call)
  PROVE  \/ UNCHANGED <<headVars, m_list, owner>>
         \/ /\ ValidRelation(call.toType, call.fromType, call.constructor, call.tag, call.weight)
            /\ SameRelation(scope, call.fromType, call.toType, call.tag) = {}
            /\ Pushed(scope, call.fromType, Element(call))
            /\ owner' = Append(owner, [left |-> call.fromType, scope |-> scope])
            /\ reply' = "defined"
BY DEF def_reduction, defineReduction, set, Element

LEMMA TableKept ==
  ASSUME IInv, UNCHANGED <<headVars, m_list, owner>>
  PROVE  IInv'
<1>1. m_invtree' = m_invtree /\ m_map' = m_map /\ leftOf' = leftOf /\ m_list' = m_list /\ owner' = owner
      /\ UNCHANGED headVars
  BY DEF headVars
<1>2. Map!IInv'
  BY <1>1, MapAssumptions, Map!InsertInductive DEF IInv, Typed
<1>3. /\ \A t, s : HeadOf(t, s)' = HeadOf(t, s)
      /\ \A t : Heads!Nested(t)' <=> Heads!Nested(t)
      /\ Heads!TypeOK => Heads!TypeOK'
  BY <1>1, HeadsKept
<1>4. Typed'
  BY <1>1, <1>2, <1>3 DEF IInv, Typed, TypeOK, Ascends, HeadsOwned
<1>5. /\ \A t, s : Own(t, s)' = Own(t, s)
      /\ \A i : Later(i)' = Later(i)
  BY <1>1 DEF Own, Later
<1>6. \A t : InChains(t) => InChains(t)'
  BY <1>1, <1>3, <1>5 DEF InChains, LinksOrdered, HeadsFirst, NoneTwice
<1>7. QED
  BY <1>3, <1>4, <1>6 DEF IInv

LEMMA TableInductive ==
  ASSUME IInv, TableStep
  PROVE  IInv'
<1>1. CASE UNCHANGED <<headVars, m_list, owner>>
  BY <1>1, TableKept
<1>2. ASSUME NEW scope \in Scopes, NEW call \in Calls, def_reduction(scope, call),
             ~UNCHANGED <<headVars, m_list, owner>>
      PROVE  IInv'
  <2>1. /\ ValidRelation(call.toType, call.fromType, call.constructor, call.tag, call.weight)
        /\ SameRelation(scope, call.fromType, call.toType, call.tag) = {}
        /\ Pushed(scope, call.fromType, Element(call))
        /\ owner' = Append(owner, [left |-> call.fromType, scope |-> scope])
    BY <1>2, CallCases
  <2>2. Element(call) \in ListElement /\ Element(call).next = NoLink /\ call.fromType \in Types
    BY <2>1, ElementTyped, ValidCall
  <2>3. PICK tail : IsPushed(call.fromType, scope, Element(call), tail)
    BY <2>1, <2>2, PushedIs DEF IInv
  <2>4. {i \in ChainOf(call.fromType, scope) :
           m_list[i].related = Element(call).related /\ m_list[i].tag = Element(call).tag} = {}
    BY <2>1 DEF SameRelation, Element
  <2>5. QED
    BY <2>2, <2>3, <2>4, PushedInductive
<1>3. QED
  BY <1>1, <1>2 DEF TableStep

LEMMA InitInductive == Init => IInv
<1> SUFFICES ASSUME Init PROVE IInv
  OBVIOUS
<1>1. /\ m_list = <<>> /\ owner = <<>> /\ DOMAIN m_list = {} /\ Len(m_list) = 0 /\ Len(owner) = 0
      /\ m_invtree = <<>> /\ leftOf = <<>> /\ DOMAIN m_invtree = {} /\ Len(m_invtree) = 0 /\ Len(leftOf) = 0
  BY DEF Init
<1>2. m_list \in Seq(ListElement) /\ owner \in Seq([left : Types, scope : Scopes])
      /\ m_invtree \in Seq(Heads!Element) /\ leftOf \in Seq(Types)
  BY <1>1
<1>3. DOMAIN m_map = Types /\ \A t \in Types : DOMAIN m_map[t] = {}
  BY DEF Init
<1>4. Heads!TypeOK
  BY <1>1, <1>2, <1>3, BoundsAssumption DEF Heads!TypeOK
<1>5. Map!IInv
  <2>1. Map!TypeOK
    BY <1>4, AlwaysSameMap DEF SameMap
  <2>2. \A k : Map!Elements(k) = {}
    BY <1>1 DEF Map!Elements
  <2>3. Map!UplinksSound
    BY <1>3, <2>2 DEF Map!UplinksSound, Map!WellLinked, Map!EndsLeadToInnermost
  <2>4. Map!Ordered
    BY <1>1, <1>3, <2>2 DEF Map!Ordered, Map!Ascending
  <2>5. QED
    BY <2>1, <2>3, <2>4 DEF Map!IInv
<1>6. Typed
  BY <1>1, <1>2, <1>4, <1>5 DEF Typed, TypeOK, Ascends, HeadsOwned
<1>7. ASSUME NEW t \in Types PROVE InChains(t)
  <2>1. \A s : Own(t, s) = {}
    BY <1>1 DEF Own
  <2>2. \A s \in Scopes : HeadOf(t, s) = NoLink
    <3>1. \A s \in Scopes : HeadOf(t, s) # NoLink => HeadOf(t, s) \in DOMAIN m_list
      BY <1>6, TypedHeads DEF HeadsFound
    <3>2. QED
      BY <1>1, <3>1
  <2>3. QED
    BY <1>1, <2>1, <2>2 DEF InChains, LinksOrdered, HeadsFirst, NoneTwice
<1>8. QED
  BY <1>6, <1>7 DEF IInv

(* The calls of def_reduction alone, and with the queries of derive_type.  *)
LEMMA AlwaysInductive ==
  /\ Spec => []IInv
  /\ DSpec => []IInv
<1>1. [Next]_vars => TableStep
  BY DEF Next, vars, TableStep
<1>2. [DNext]_<<vars, searchVars>> => TableStep
  BY DEF DNext, Define, deriveType, Turn, Next, vars, TableStep
<1>3. DInit => Init
  BY DEF DInit
<1>4. QED
  BY <1>1, <1>2, <1>3, InitInductive, TableInductive, PTL DEF Spec, DSpec

(* The indices the heads and the elements of the chains keep are those of  *)
(* relations, or none.                                                     *)
THEOREM TypeCorrect == Spec => []TypeOK
BY AlwaysInductive, PTL DEF IInv, Typed

(* While reductions are defined and types derived, and as long as the      *)
(* scopes of a left type nest, the chain of each of them has exactly the   *)
(* relations defined for it, passed in the order of their definition, and  *)
(* none twice for the same right and tag.                                  *)
THEOREM ChainsAlwaysOfOwners == DSpec => []ChainsOfOwners
<1>1. IInv => ChainsOfOwners
  <2> SUFFICES ASSUME IInv, NEW left \in Types, NEW scope \in Scopes, Heads!Nested(left)
               PROVE  LET chain == ChainOf(left, scope)
                      IN  /\ chain = {i \in DOMAIN m_list : owner[i].left = left /\ owner[i].scope = scope}
                          /\ \A i, j \in chain : j \in Chain(i) <=> i <= j
                          /\ \A i, j \in chain :
                               m_list[i].related = m_list[j].related /\ m_list[i].tag = m_list[j].tag => i = j
    BY DEF ChainsOfOwners
  <2>1. ChainOf(left, scope) = Own(left, scope) /\ \A i, j \in Own(left, scope) : j \in Chain(i) <=> i <= j
    BY ChainOfIs
  <2>2. NoneTwice(left)
    BY DEF IInv, InChains
  <2>3. QED
    BY <2>1, <2>2 DEF Own, NoneTwice
<1>2. QED
  BY <1>1, AlwaysInductive, PTL

-----------------------------------------------------------------------------
(* The refinement.  A relation of the table stands for the relation the    *)
(* call that defined it asked for.                                         *)
Asked(scope, call) ==
  [scope |-> scope, left |-> call.fromType, right |-> call.toType,
   value |-> call.constructor, tag |-> call.tag, weight |-> call.weight]

LEMMA AskedTyped ==
  ASSUME NEW scope \in Scopes, NEW call \in Calls,
         ValidRelation(call.toType, call.fromType, call.constructor, call.tag, call.weight)
  PROVE  Asked(scope, call) \in Abstract!Relation
<1>1. /\ call.toType \in Types /\ call.fromType \in Types
      /\ call.constructor \in {c.constructor : c \in Calls} \cap Nat
      /\ call.tag \in {c.tag : c \in Calls} \cap MinTag .. MaxTag
      /\ call.weight \in {c.weight : c \in Calls} \cap Nat
  BY ValidCall
<1>2. QED
  BY <1>1 DEF Asked, Abstract!Relation

LEMMA RelationsPushed ==
  ASSUME IInv, NEW scope \in Scopes, NEW call \in Calls,
         NEW tail, IsPushed(call.fromType, scope, Element(call), tail)
  PROVE  Relations' = Append(Relations, Asked(scope, call))
<1> DEFINE new == Len(m_list) + 1
           r == Asked(scope, call)
           Image == {Relations[i] : i \in DOMAIN m_list} \cup {r}
<1>1. Len(m_list) \in Nat /\ DOMAIN m_list = 1 .. Len(m_list)
  BY OwnersTyped DEF IInv, Typed
<1>2. Relations \in Seq(Image) /\ Len(Relations) = Len(m_list) /\ r \in Image
  <2>1. DOMAIN Relations = 1 .. Len(m_list)
    BY <1>1 DEF Relations
  <2>2. \A i \in 1 .. Len(m_list) : Relations[i] \in Image
    BY <1>1
  <2>3. Relations = [i \in 1 .. Len(m_list) |-> Relations[i]]
    BY <1>1 DEF Relations
  <2> HIDE DEF Image
  <2>4. Relations \in Seq(Image)
    BY <1>1, <2>2, <2>3
  <2>5. Len(Relations) = Len(m_list)
    BY <1>1, <2>1, <2>4
  <2>6. r \in Image
    BY DEF Image
  <2>7. QED
    BY <2>4, <2>5, <2>6
<1>3. DOMAIN m_list' = 1 .. new
  <2>1. m_list' \in Seq(ListElement) /\ Len(m_list') = new
    BY DEF IsPushed, New
  <2>2. QED
    BY <2>1
<1>4. /\ Append(Relations, r) \in Seq(Image) /\ Len(Append(Relations, r)) = new
      /\ Append(Relations, r)[new] = r
      /\ \A i \in 1 .. Len(m_list) : Append(Relations, r)[i] = Relations[i]
  <2> HIDE DEF Image, r
  <2>1. QED
    BY <1>2, AppendedElement
<1>5. \A i \in 1 .. Len(m_list) : Relations'[i] = Relations[i]
  <2> SUFFICES ASSUME NEW i \in 1 .. Len(m_list) PROVE Relations'[i] = Relations[i]
    OBVIOUS
  <2>1. /\ owner'[i] = owner[i]
        /\ m_list'[i].related = m_list[i].related /\ m_list'[i].value = m_list[i].value
        /\ m_list'[i].weight = m_list[i].weight /\ m_list'[i].tag = m_list[i].tag
    BY <1>1 DEF IsPushed
  <2>2. i \in DOMAIN m_list /\ i \in DOMAIN m_list'
    BY <1>1, <1>3
  <2>3. QED
    BY <2>1, <2>2 DEF Relations
<1>6. Relations'[new] = r
  <2>1. owner'[new] = [left |-> call.fromType, scope |-> scope] /\ m_list'[new] = Element(call)
    BY DEF IsPushed, New
  <2>2. new \in DOMAIN m_list'
    BY <1>1, <1>3
  <2>3. Relations'[new] = [scope |-> owner'[new].scope, left |-> owner'[new].left,
           right |-> m_list'[new].related, value |-> m_list'[new].value,
           tag |-> m_list'[new].tag, weight |-> m_list'[new].weight]
    BY <2>2 DEF Relations
  <2>4. QED
    BY <2>1, <2>3 DEF Element, Asked
<1>7. DOMAIN Relations' = 1 .. new /\ Relations' = [i \in 1 .. new |-> Relations'[i]]
  BY <1>3 DEF Relations
<1>8. DOMAIN Append(Relations, r) = 1 .. new
  BY <1>4
<1>9. Append(Relations, r) = [i \in 1 .. new |-> Append(Relations, r)[i]]
  <2> DEFINE list == Append(Relations, r)
  <2>1. list \in Seq(Image) /\ Len(list) = new
    BY <1>4
  <2> HIDE DEF list, Image
  <2>2. list \in [1 .. new -> Image]
    BY <2>1, LenProperties
  <2>3. list = [i \in 1 .. new |-> list[i]]
    BY <2>2
  <2>4. QED
    BY <2>3 DEF list
<1>10. \A i \in 1 .. new : Relations'[i] = Append(Relations, r)[i]
  BY <1>1, <1>4, <1>5, <1>6
<1>11. QED
  BY <1>7, <1>9, <1>10

LEMMA RelationOf ==
  ASSUME NEW i \in DOMAIN m_list
  PROVE  /\ Relations[i].scope = owner[i].scope /\ Relations[i].left = owner[i].left
         /\ Relations[i].right = m_list[i].related /\ Relations[i].value = m_list[i].value
         /\ Relations[i].tag = m_list[i].tag /\ Relations[i].weight = m_list[i].weight
         /\ DOMAIN Relations = DOMAIN m_list
BY DEF Relations

(* The relations on the chain are those with the same key.                 *)
LEMMA SameRelationIs ==
  ASSUME IInv, NEW scope \in Scopes, NEW call \in Calls, call.fromType \in Types,
         Heads!Nested(call.fromType)
  PROVE  SameRelation(scope, call.fromType, call.toType, call.tag) =
           {i \in DOMAIN Relations : Abstract!SameKey(Relations[i], Asked(scope, call))}
<1> DEFINE r == Asked(scope, call)
<1>1. r.scope = scope /\ r.left = call.fromType /\ r.right = call.toType /\ r.tag = call.tag
  BY DEF Asked
<1>2. DOMAIN Relations = DOMAIN m_list
  BY DEF Relations
<1> HIDE DEF r
<1>3. \A i \in DOMAIN m_list :
        Abstract!SameKey(Relations[i], r) <=>
          i \in Own(call.fromType, scope) /\ m_list[i].related = call.toType /\ m_list[i].tag = call.tag
  BY <1>1, RelationOf DEF Abstract!SameKey, Own
<1>4. ChainOf(call.fromType, scope) = Own(call.fromType, scope)
  BY ChainOfIs
<1>5. Own(call.fromType, scope) \subseteq DOMAIN m_list
  BY DEF Own
<1>6. QED
  BY <1>2, <1>3, <1>4, <1>5 DEF SameRelation, r

LEMMA StepImplements ==
  ASSUME IInv, Heads!AllNested, TableStep
  PROVE  [Abstract!Next]_(Abstract!vars)
<1>1. ASSUME UNCHANGED <<headVars, m_list, owner>> PROVE Relations' = Relations
  BY <1>1 DEF Relations
<1>2. CASE UNCHANGED <<headVars, m_list, owner>> /\ reply' \in {reply, "none"}
  BY <1>1, <1>2 DEF Abstract!Next, Abstract!Query, Abstract!vars
<1>3. ASSUME NEW scope \in Scopes, NEW call \in Calls, def_reduction(scope, call)
      PROVE  Abstract!Next
  <2> DEFINE valid == ValidRelation(call.toType, call.fromType, call.constructor, call.tag, call.weight)
             same == SameRelation(scope, call.fromType, call.toType, call.tag)
             r == Asked(scope, call)
  <2>1. CASE reply' = "rejected" /\ UNCHANGED <<headVars, m_list, owner>>
    BY <1>1, <2>1 DEF Abstract!Next, Abstract!Reject
  <2>2. CASE valid /\ set(scope, call.fromType, call.toType, call.constructor, call.tag, call.weight)
    <3>1. r \in Abstract!Relation /\ call.fromType \in Types
      BY <2>2, AskedTyped, ValidCall
    <3>2. same = {i \in DOMAIN Relations : Abstract!SameKey(Relations[i], r)}
      BY <3>1, SameRelationIs DEF Heads!AllNested
    <3>3. r.value = call.constructor /\ \A i \in same : Relations[i].value = m_list[i].value
      BY <3>2, RelationOf DEF Asked, Relations
    <3>4. CASE /\ same = {}
               /\ Pushed(scope, call.fromType, Element(call))
               /\ owner' = Append(owner, [left |-> call.fromType, scope |-> scope])
               /\ reply' = "defined"
      <4>1. PICK tail : IsPushed(call.fromType, scope, Element(call), tail)
        BY <2>2, <3>1, <3>4, ElementTyped, PushedIs DEF IInv
      <4>2. Relations' = Append(Relations, r)
        BY <4>1, RelationsPushed
      <4>3. Abstract!Define(r)
        BY <3>2, <3>4, <4>2 DEF Abstract!Define
      <4>4. QED
        BY <3>1, <4>3 DEF Abstract!Next
    <3>5. CASE /\ \E i \in same : m_list[i].value = call.constructor
               /\ reply' = "ignored" /\ UNCHANGED <<headVars, m_list, owner>>
      <4> HIDE DEF r, same
      <4>1. Abstract!Ignore(r)
        BY <1>1, <3>2, <3>3, <3>5 DEF Abstract!Ignore
      <4>2. QED
        BY <3>1, <4>1 DEF Abstract!Next
    <3>6. CASE /\ \E i \in same : m_list[i].value # call.constructor
               /\ reply' = "duplicate" /\ UNCHANGED <<headVars, m_list, owner>>
      <4> HIDE DEF r, same
      <4>1. Abstract!Conflict(r)
        BY <1>1, <3>2, <3>3, <3>6 DEF Abstract!Conflict
      <4>2. QED
        BY <3>1, <4>1 DEF Abstract!Next
    <3>7. QED
      BY <2>2, <3>4, <3>5, <3>6 DEF set, Element
  <2>3. QED
    BY <1>3, <2>1, <2>2 DEF def_reduction, defineReduction
<1>4. QED
  BY <1>2, <1>3 DEF TableStep

(* While reductions are defined and types derived, and as long as the      *)
(* scopes of every left type nest, the chains and the table of their heads *)
(* are an implementation of the list of relations without duplicates: a    *)
(* definition changes none that is there, and a call is reported as        *)
(* ignored or as a duplicate exactly if there is one with the same key and *)
(* the same, or a different, constructor.                                  *)
THEOREM ChainsImplementRelations == DSpec /\ []Heads!AllNested => ImplementsRelations
<1>1. Init => Abstract!Init
  BY DEF Init, Abstract!Init, Relations
<1>2. IInv /\ Heads!AllNested /\ TableStep => [Abstract!Next]_(Abstract!vars)
  BY StepImplements
<1>3. [DNext]_<<vars, searchVars>> => TableStep
  BY DEF DNext, Define, deriveType, Turn, Next, vars, TableStep
<1>4. DInit => Init
  BY DEF DInit
<1>5. QED
  BY <1>1, <1>2, <1>3, <1>4, AlwaysInductive, PTL DEF DSpec, ImplementsRelations, Abstract!Spec

-----------------------------------------------------------------------------
(* The queries.                                                            *)
Inside(s, t) == t.start <= s.start /\ s.end <= t.end

LEMMA MatchingIs ==
  ASSUME IInv, NEW left \in Types, Heads!Nested(left), NEW e \in Heads!Elements(left), NEW right, NEW tags
  PROVE  /\ Matching(e, right, tags) =
              {i \in DOMAIN m_list : /\ owner[i].left = left /\ owner[i].scope = m_invtree[e].scope
                                     /\ m_list[i].related = right /\ m_list[i].tag \in tags}
         /\ \A i, k \in Matching(e, right, tags) : k \in Chain(i) <=> i <= k
<1>1. m_invtree[e].scope \in Scopes /\ m_invtree[e].value \in DOMAIN m_list
  BY ElementsTyped DEF IInv, Heads!Elements
<1>2. HeadOf(left, m_invtree[e].scope) = m_invtree[e].value
  BY NestedHeads DEF HeadsExact, IInv
<1>3. m_invtree[e].value # NoLink
  BY <1>1, OwnersTyped DEF IInv, Typed
<1>4. /\ Chain(m_invtree[e].value) = Own(left, m_invtree[e].scope)
      /\ \A i, j \in Own(left, m_invtree[e].scope) : j \in Chain(i) <=> i <= j
  BY <1>1, <1>2, <1>3, ChainOfIs
<1>5. QED
  BY <1>4 DEF Matching, Own

(* The relations selected, from the side of the relations: those between   *)
(* the types with one of the tags whose scope covers the step, of them     *)
(* those of the smallest scope, and the first of these.                    *)
SelectedOf(step, left, right, tags) ==
  {i \in DOMAIN m_list : /\ owner[i].left = left /\ m_list[i].related = right
                         /\ m_list[i].tag \in tags /\ Heads!Covers(owner[i].scope, step)}

InnermostOf(S) == {i \in S : \A j \in S : Inside(owner[i].scope, owner[j].scope)}

Earliest(S) == {i \in S : \A k \in S : i <= k}

LEMMA FirstMatchIs ==
  ASSUME IInv, NEW step \in Nat, NEW left \in Types, Heads!Nested(left), NEW right \in Types, NEW tags
  PROVE  FirstMatch(step, left, right, tags) = Earliest(InnermostOf(SelectedOf(step, left, right, tags)))
<1> DEFINE S == SelectedOf(step, left, right, tags)
           M == Matches(step, left, right, tags)
           N(e) == Matching(e, right, tags)
           scope(e) == m_invtree[e].scope
<1>1. \A i \in DOMAIN m_list : i \in Nat /\ owner[i].scope \in Scopes
  BY OwnersTyped DEF IInv, Typed
<1>2. /\ M = {e \in Heads!Elements(left) : Heads!Covers(scope(e), step) /\ N(e) # {}}
      /\ \A e \in Heads!Elements(left) :
           Heads!Walk(m_invtree, e, {}) = {f \in Heads!Elements(left) : Inside(scope(e), scope(f))}
      /\ \A s \in Scopes : HeadOf(left, s) # NoLink => \E e \in Heads!Elements(left) : scope(e) = s
  <2>1. HeadsExact
    BY NestedHeads DEF IInv
  <2>2. /\ Heads!Matched(left, step) = {e \in Heads!Elements(left) : Heads!Covers(scope(e), step)}
        /\ \A e \in Heads!Elements(left) :
             Heads!Walk(m_invtree, e, {}) = {f \in Heads!Elements(left) : Heads!Contains(scope(f), scope(e))}
        /\ \A s \in Scopes : HeadOf(left, s) # NoLink => \E e \in Heads!Elements(left) : scope(e) = s
    BY <2>1 DEF HeadsExact
  <2>3. QED
    BY <2>2 DEF Matches, Heads!Contains, Inside
<1>3. \A e \in Heads!Elements(left) :
        /\ N(e) = {i \in DOMAIN m_list : /\ owner[i].left = left /\ owner[i].scope = scope(e)
                                          /\ m_list[i].related = right /\ m_list[i].tag \in tags}
        /\ \A i, k \in N(e) : k \in Chain(i) <=> i <= k
  BY MatchingIs
<1>4. FirstMatch(step, left, right, tags)
        = UNION {FirstOf(N(e)) : e \in {f \in M : M \subseteq Heads!Walk(m_invtree, f, {})}}
  BY DEF FirstMatch
<1>5. S = {i \in DOMAIN m_list : /\ owner[i].left = left /\ m_list[i].related = right
                                 /\ m_list[i].tag \in tags /\ Heads!Covers(owner[i].scope, step)}
  BY DEF SelectedOf
<1> HIDE DEF S, M, N, scope
<1>6. ASSUME NEW i \in S PROVE \E e \in M : scope(e) = owner[i].scope /\ i \in N(e)
  <2>1. i \in Own(left, owner[i].scope) /\ owner[i].scope \in Scopes
    BY <1>1, <1>5 DEF Own
  <2>2. HeadOf(left, owner[i].scope) # NoLink
    <3>1. HeadsFirst(left)
      BY DEF IInv, InChains
    <3>2. NoLink \notin Own(left, owner[i].scope)
      BY OwnersTyped DEF Own, IInv, Typed
    <3>3. QED
      BY <2>1, <3>1, <3>2 DEF HeadsFirst
  <2>3. PICK e \in Heads!Elements(left) : scope(e) = owner[i].scope
    BY <1>2, <2>1, <2>2
  <2>4. i \in N(e)
    BY <1>3, <1>5, <2>3
  <2>5. QED
    BY <1>2, <1>5, <2>3, <2>4
<1>7. ASSUME NEW e \in M, NEW i \in N(e)
      PROVE  i \in S /\ i \in DOMAIN m_list /\ owner[i].left = left /\ owner[i].scope = scope(e)
  BY <1>2, <1>3, <1>5, <1>7
<1>8. ASSUME NEW i \in FirstMatch(step, left, right, tags) PROVE i \in Earliest(InnermostOf(S))
  <2>1. PICK e \in M : M \subseteq Heads!Walk(m_invtree, e, {}) /\ i \in FirstOf(N(e))
    BY <1>4, <1>8
  <2>2. i \in N(e) /\ N(e) \subseteq Chain(i) /\ e \in Heads!Elements(left)
    BY <1>2, <2>1 DEF FirstOf
  <2>3. i \in S /\ owner[i].scope = scope(e)
    BY <1>7, <2>2
  <2>4. ASSUME NEW j \in S PROVE Inside(owner[i].scope, owner[j].scope)
    <3>1. PICK f \in M : scope(f) = owner[j].scope
      BY <1>6
    <3>2. f \in Heads!Walk(m_invtree, e, {})
      BY <2>1
    <3>3. QED
      BY <1>2, <2>2, <2>3, <3>1, <3>2
  <2>5. ASSUME NEW k \in InnermostOf(S) PROVE i <= k
    <3>1. k \in S /\ Inside(owner[k].scope, owner[i].scope) /\ Inside(owner[i].scope, owner[k].scope)
      BY <2>3, <2>4 DEF InnermostOf
    <3>2. owner[k].scope = owner[i].scope
      <4>1. i \in DOMAIN m_list /\ k \in DOMAIN m_list
        BY <1>5, <2>3, <3>1
      <4>2. owner[k].scope \in Scopes /\ owner[i].scope \in Scopes
        BY <1>1, <4>1
      <4>3. \A s \in Scopes : s = [start |-> s.start, end |-> s.end] /\ s.start \in Nat /\ s.end \in Nat
        BY ScopesAssumption
      <4>4. owner[k].scope.start = owner[i].scope.start /\ owner[k].scope.end = owner[i].scope.end
        BY <3>1, <4>2, <4>3 DEF Inside
      <4>5. QED
        BY <4>2, <4>3, <4>4
    <3>3. k \in N(e)
      BY <1>3, <1>5, <2>2, <2>3, <3>1, <3>2
    <3>4. QED
      BY <1>3, <2>2, <3>3
  <2>6. i \in InnermostOf(S)
    BY <2>3, <2>4 DEF InnermostOf
  <2>7. QED
    BY <2>5, <2>6 DEF Earliest
<1>9. ASSUME NEW i \in Earliest(InnermostOf(S)) PROVE i \in FirstMatch(step, left, right, tags)
  <2>1. /\ i \in S /\ \A j \in S : Inside(owner[i].scope, owner[j].scope)
        /\ \A k \in InnermostOf(S) : i <= k
    BY DEF Earliest, InnermostOf
  <2>2. PICK e \in M : scope(e) = owner[i].scope /\ i \in N(e)
    BY <1>6, <2>1
  <2>3. e \in Heads!Elements(left)
    BY <1>2
  <2>4. ASSUME NEW f \in M PROVE f \in Heads!Walk(m_invtree, e, {})
    <3>1. PICK j : j \in N(f)
      BY <1>2
    <3>2. j \in S /\ owner[j].scope = scope(f) /\ f \in Heads!Elements(left)
      BY <1>2, <1>7, <3>1
    <3>3. Inside(scope(e), scope(f))
      BY <2>1, <2>2, <3>2
    <3>4. QED
      BY <1>2, <2>3, <3>2, <3>3
  <2>5. ASSUME NEW k \in N(e) PROVE k \in Chain(i)
    <3>1. k \in S /\ owner[k].scope = owner[i].scope
      BY <1>7, <2>2
    <3>2. k \in InnermostOf(S)
      BY <2>1, <3>1 DEF InnermostOf
    <3>3. QED
      BY <1>3, <2>1, <2>2, <2>3, <3>2
  <2>6. i \in FirstOf(N(e))
    BY <2>2, <2>5 DEF FirstOf
  <2>7. QED
    BY <1>4, <2>4, <2>6
<1>10. QED
  BY <1>8, <1>9 DEF S

LEMMA FoundIs ==
  ASSUME NEW step, NEW left, NEW right, NEW tags
  PROVE  Abstract!Found(step, left, right, tags) =
           {Relations[i] : i \in Earliest(InnermostOf(SelectedOf(step, left, right, tags)))}
<1> DEFINE S == SelectedOf(step, left, right, tags)
<1>1. DOMAIN Relations = DOMAIN m_list
  BY DEF Relations
<1>2. Abstract!Selected(step, left, right, tags) = S
  BY <1>1, RelationOf DEF Abstract!Selected, SelectedOf, Abstract!Rules!Covers, Heads!Covers
<1>3. \A i \in S : i \in DOMAIN m_list /\ Relations[i].scope = owner[i].scope
  BY RelationOf DEF SelectedOf
<1> HIDE DEF S
<1>4. Abstract!Unshadowed(S) = InnermostOf(S)
  BY <1>3 DEF Abstract!Unshadowed, InnermostOf, Abstract!Rules!Contains, Inside
<1>5. QED
  BY <1>2, <1>4 DEF Abstract!Found, Earliest, S

Answer(r) == [right |-> r.right, value |-> r.value, weight |-> r.weight, tag |-> r.tag]

(* At most one relation answers for a target type.                         *)
LEMMA QueryAnswers ==
  ASSUME IInv, NEW step \in Nat, NEW left \in Types, Heads!Nested(left), NEW tags
  PROVE  LET found == Abstract!Lookup(step, left, tags)
         IN  /\ get(step, left, tags) = {Answer(r) : r \in found}
             /\ \A right \in Types :
                  getReduction(step, right, left, tags) =
                    IF \E r \in found : r.right = right THEN "found" ELSE "undefined"
<1> DEFINE F(right) == FirstMatch(step, left, right, tags)
           found == Abstract!Lookup(step, left, tags)
           row(i) == [right |-> m_list[i].related, value |-> m_list[i].value,
                      weight |-> m_list[i].weight, tag |-> m_list[i].tag]
<1>1. \A right \in Types : \A i \in F(right) : i \in DOMAIN m_list /\ m_list[i].related = right /\ i \in Nat
  <2> SUFFICES ASSUME NEW right \in Types, NEW i \in F(right)
               PROVE  i \in DOMAIN m_list /\ m_list[i].related = right /\ i \in Nat
    OBVIOUS
  <2>1. i \in SelectedOf(step, left, right, tags)
    BY FirstMatchIs DEF Earliest, InnermostOf
  <2>2. QED
    BY <2>1, OwnersTyped DEF SelectedOf, IInv, Typed
<1>2. \A right \in Types : \A i, j \in F(right) : i = j
  <2> SUFFICES ASSUME NEW right \in Types, NEW i \in F(right), NEW j \in F(right) PROVE i = j
    OBVIOUS
  <2>1. i <= j /\ j <= i
    BY FirstMatchIs DEF Earliest
  <2>2. i \in Nat /\ j \in Nat
    BY <1>1
  <2>3. QED
    BY <2>1, <2>2
<1>3. \A right \in Types : Abstract!Found(step, left, right, tags) = {Relations[i] : i \in F(right)}
  BY FirstMatchIs, FoundIs
<1> HIDE DEF F
<1>4. found = UNION {{Relations[i] : i \in F(right)} : right \in Types}
  BY <1>3 DEF Abstract!Lookup
<1>5. \A i \in DOMAIN m_list : Answer(Relations[i]) = row(i) /\ Relations[i].right = m_list[i].related
                               /\ row(i).right = m_list[i].related
  BY RelationOf DEF Answer
<1>6. get(step, left, tags) = {row(i) : i \in UNION {F(right) : right \in Types}}
  BY DEF get, F
<1> HIDE DEF row, found
<1>7. get(step, left, tags) = {Answer(r) : r \in found}
  <2>1. \A x \in get(step, left, tags) : \E r \in found : x = Answer(r)
    <3> SUFFICES ASSUME NEW right \in Types, NEW i \in F(right)
                 PROVE  \E r \in found : row(i) = Answer(r)
      BY <1>6
    <3>1. Relations[i] \in found /\ row(i) = Answer(Relations[i])
      BY <1>1, <1>4, <1>5
    <3>2. QED
      BY <3>1
  <2>2. \A r \in found : Answer(r) \in get(step, left, tags)
    <3> SUFFICES ASSUME NEW right \in Types, NEW i \in F(right)
                 PROVE  Answer(Relations[i]) \in get(step, left, tags)
      BY <1>4
    <3>1. row(i) \in get(step, left, tags) /\ row(i) = Answer(Relations[i])
      BY <1>1, <1>5, <1>6
    <3>2. QED
      BY <3>1
  <2>3. QED
    BY <2>1, <2>2
<1>8. ASSUME NEW right \in Types
      PROVE  getReduction(step, right, left, tags) =
               IF \E r \in found : r.right = right THEN "found" ELSE "undefined"
  <2> DEFINE rows == {r \in get(step, left, tags) : r.right = right}
             best == {r \in rows : \A q \in rows : r.weight <= q.weight}
  <2>1. rows = {row(i) : i \in F(right)}
    BY <1>1, <1>5, <1>6
  <2>2. \A r, q \in rows : r = q
    BY <1>2, <2>1
  <2>3. rows = {} <=> ~\E r \in found : r.right = right
    <3>1. \A r \in found : r.right = right => \E i \in F(right) : r = Relations[i]
      BY <1>1, <1>4, <1>5
    <3>2. \A i \in F(right) : Relations[i] \in found /\ Relations[i].right = right
      BY <1>1, <1>4, <1>5
    <3>3. QED
      BY <2>1, <3>1, <3>2
  <2>4. getReduction(step, right, left, tags) =
          IF rows = {} THEN "undefined" ELSE IF \E r, q \in best : r # q THEN "ambiguous" ELSE "found"
    BY DEF getReduction
  <2>5. ~\E r, q \in best : r # q
    BY <2>2
  <2> HIDE DEF rows, best
  <2>6. QED
    BY <2>3, <2>4, <2>5
<1>9. QED
  BY <1>7, <1>8 DEF found

(* As long as the scopes of a left type nest, a query finds for every      *)
(* target type the reduction of the innermost scope around the step, the   *)
(* first defined of those with a tag selected, and getReduction never has  *)
(* two to choose from.                                                     *)
THEOREM AnswersRight == DSpec => []AnswersAsRelations
<1>1. IInv => AnswersAsRelations
  <2> SUFFICES ASSUME IInv PROVE AnswersAsRelations
    OBVIOUS
  <2>1. Steps \subseteq Nat
    BY ScopesAssumption
  <2>2. QED
    BY <2>1, QueryAnswers DEF AnswersAsRelations, Answer
<1>2. QED
  BY <1>1, AlwaysInductive, PTL

-----------------------------------------------------------------------------
(* The search of deriveType, which TypeSearchProofs is about.              *)
Dijkstra == INSTANCE TypeSearchProofs

LEMMA TypesFinite == MaxStack \in Nat /\ Dijkstra!IsFiniteSet(Types)
<1>1. IsFiniteSet(Types)
  BY NofTypesAssumption, FS_Interval DEF Types
<1>2. QED
  BY <1>1, MaxStackAssumption DEF IsFiniteSet, Dijkstra!IsFiniteSet

LEMMA SameOrder == \A S : Search!InOrder(S) = Dijkstra!InOrder(S)
<1>1. \A S : Search!Cardinality(S) = Dijkstra!Cardinality(S)
  BY DEF Search!Cardinality, Dijkstra!Cardinality
<1>2. QED
  BY <1>1 DEF Search!InOrder, Dijkstra!InOrder

LEMMA SameBegin == Search!Begin <=> Dijkstra!Begin
BY SameOrder
   DEF Search!Begin, Dijkstra!Begin, Search!Starts, Dijkstra!Starts,
       Search!NoResult, Dijkstra!NoResult, Search!NoIndex, Dijkstra!NoIndex

LEMMA SameExpand == ASSUME NEW q PROVE Search!Expand(q) <=> Dijkstra!Expand(q)
<1>1. \A i : Search!Path(i) = Dijkstra!Path(i)
  BY DEF Search!Path, Dijkstra!Path, Search!NoIndex, Dijkstra!NoIndex
<1>2. \A i, r : Search!IsNew(i, r) <=> Dijkstra!IsNew(i, r)
  BY <1>1 DEF Search!IsNew, Dijkstra!IsNew
<1>3. \A i, r : Search!Pathlen(i, r) = Dijkstra!Pathlen(i, r)
  BY DEF Search!Pathlen, Dijkstra!Pathlen
<1>4. Search!Pushed(q) = Dijkstra!Pushed(q)
  BY <1>2, <1>3, SameOrder DEF Search!Pushed, Dijkstra!Pushed
<1>5. QED
  BY <1>3, <1>4 DEF Search!Expand, Dijkstra!Expand

LEMMA SameTurn == Search!Turn <=> Dijkstra!Turn
<1>1. (Search!Found <=> Dijkstra!Found) /\ \A q : Search!IsGoal(q) <=> Dijkstra!IsGoal(q)
  BY DEF Search!Found, Dijkstra!Found, Search!IsGoal, Dijkstra!IsGoal, Search!NoIndex, Dijkstra!NoIndex
<1>2. \A q : Search!IsTop(q) <=> Dijkstra!IsTop(q)
  BY DEF Search!IsTop, Dijkstra!IsTop, Search!Before, Dijkstra!Before
<1>3. \A q : Search!PopHeavier(q) <=> Dijkstra!PopHeavier(q)
  BY <1>1 DEF Search!PopHeavier, Dijkstra!PopHeavier, Search!call, Dijkstra!call
<1>4. \A q : Search!PopResult(q) <=> Dijkstra!PopResult(q)
  BY <1>1, SameExpand DEF Search!PopResult, Dijkstra!PopResult, Search!call, Dijkstra!call
<1>5. \A q : Search!PopConflict(q) <=> Dijkstra!PopConflict(q)
  BY <1>1 DEF Search!PopConflict, Dijkstra!PopConflict, Search!call, Dijkstra!call
<1>6. \A q : Search!PopOther(q) <=> Dijkstra!PopOther(q)
  BY <1>1, SameExpand DEF Search!PopOther, Dijkstra!PopOther, Search!call, Dijkstra!call
<1>7. Search!Exhausted <=> Dijkstra!Exhausted
  BY DEF Search!Exhausted, Dijkstra!Exhausted, Search!call, Dijkstra!call
<1>8. QED
  BY <1>2, <1>3, <1>4, <1>5, <1>6, <1>7 DEF Search!Turn, Dijkstra!Turn

LEMMA SearchBegins ==
  Dijkstra!InputOK /\ Dijkstra!Begin => Dijkstra!IInv /\ \E P : Dijkstra!Searching(P)
BY TypesFinite, Dijkstra!BeginInv, Dijkstra!BeginSearching

(* What the table answers is of the types the search expects.              *)
LEMMA AnswersTyped ==
  ASSUME TypeOK, NEW step, NEW left, NEW tags, NEW r \in get(step, left, tags)
  PROVE  r.right \in Types /\ r.weight \in Nat
<1> DEFINE firsts == UNION {FirstMatch(step, left, right, tags) : right \in Types}
<1>1. PICK i \in firsts :
        r = [right |-> m_list[i].related, value |-> m_list[i].value,
             weight |-> m_list[i].weight, tag |-> m_list[i].tag]
  BY DEF get
<1>2. PICK right, e : i \in Matching(e, right, tags)
  BY DEF FirstMatch, FirstOf
<1>3. i \in DOMAIN m_list
  BY <1>2 DEF Matching, Chain
<1>4. m_list[i] \in ListElement
  BY <1>3, ElementOfSeq DEF TypeOK
<1>5. QED
  BY <1>1, <1>4 DEF ListElement

LEMMA RedulistIs ==
  ASSUME TypeOK, NEW step, NEW left, NEW tags
  PROVE  /\ Redulist(step, left, tags) \in Seq(Dijkstra!Redu)
         /\ \A i, j \in DOMAIN Redulist(step, left, tags) :
              Redulist(step, left, tags)[i].right = Redulist(step, left, tags)[j].right => i = j
         /\ \A i \in DOMAIN Redulist(step, left, tags) : \E r \in get(step, left, tags) :
              Redulist(step, left, tags)[i] =
                [right |-> r.right, weight |-> r.weight, counted |-> r.tag \in TagsCount]
         /\ \A r \in get(step, left, tags) : \E i \in DOMAIN Redulist(step, left, tags) :
              Redulist(step, left, tags)[i].right = r.right
<1> DEFINE found == get(step, left, tags)
           rights == {r.right : r \in found}
           k == Dijkstra!Cardinality(rights)
           f == Search!InOrder(rights)
           redu(right) == CHOOSE r \in found : r.right = right
           elem(n) == [right |-> f[n], weight |-> redu(f[n]).weight, counted |-> redu(f[n]).tag \in TagsCount]
           list == Redulist(step, left, tags)
<1>1. list = [n \in DOMAIN f |-> elem(n)]
  BY DEF Redulist
<1>2. \A r \in found : r.right \in Types /\ r.weight \in Nat
  BY AnswersTyped
<1> HIDE DEF found
<1>3. rights \in SUBSET (0 .. NofTypes) /\ NofTypes \in Nat
  BY <1>2, NofTypesAssumption DEF Types
<1>4. \A right \in rights : redu(right) \in found /\ redu(right).right = right
  OBVIOUS
<1>5. \A r \in found : r.right \in rights
  OBVIOUS
<1> HIDE DEF rights, redu
<1>6. f = Dijkstra!InOrder(rights)
  BY SameOrder
<1>7. /\ k \in Nat /\ f \in [1 .. k -> rights]
      /\ \A m, n \in 1 .. k : f[m] = f[n] => m = n
      /\ \A i \in rights : \E n \in 1 .. k : f[n] = i
  BY <1>3, <1>6, TypesFinite, Dijkstra!InOrderOrders
<1> HIDE DEF f, k, list
<1>8. DOMAIN list = 1 .. k /\ \A n \in 1 .. k : list[n] = elem(n) /\ list[n].right = f[n] /\ f[n] \in rights
  BY <1>1, <1>7
<1>9. \A n \in 1 .. k : list[n] \in Dijkstra!Redu
  <2> TAKE n \in 1 .. k
  <2>1. f[n] \in rights /\ f[n] \in Types /\ list[n] = elem(n)
    BY <1>3, <1>8 DEF Types
  <2>2. redu(f[n]).weight \in Nat
    BY <1>2, <1>4, <2>1
  <2>3. QED
    BY <2>1, <2>2 DEF Dijkstra!Redu
<1>10. list \in Seq(Dijkstra!Redu)
  <2>1. list \in [1 .. k -> Dijkstra!Redu]
    BY <1>1, <1>7, <1>8, <1>9
  <2>2. QED
    BY <1>7, <2>1, SeqDef
<1>11. \A i, j \in DOMAIN list : list[i].right = list[j].right => i = j
  BY <1>7, <1>8
<1>12. \A i \in DOMAIN list : \E r \in found :
         list[i] = [right |-> r.right, weight |-> r.weight, counted |-> r.tag \in TagsCount]
  <2> TAKE i \in DOMAIN list
  <2>1. redu(f[i]) \in found /\ redu(f[i]).right = f[i] /\ list[i] = elem(i)
    BY <1>4, <1>8
  <2>2. QED
    BY <2>1
<1>13. \A r \in found : \E i \in DOMAIN list : list[i].right = r.right
  BY <1>5, <1>7, <1>8
<1>14. QED
  BY <1>10, <1>11, <1>12, <1>13 DEF list, found

LEMMA SameAnswers ==
  ASSUME UNCHANGED <<headVars, m_list, owner>>, NEW CONSTANT step, NEW CONSTANT left, NEW CONSTANT tags
  PROVE  Redulist(step, left, tags)' = Redulist(step, left, tags)
<1>0. m_invtree' = m_invtree /\ m_map' = m_map /\ leftOf' = leftOf /\ m_list' = m_list
  BY DEF headVars
<1>1. \A e, r, t : Matching(e, r, t)' = Matching(e, r, t)
  BY <1>0 DEF Matching, Chain
<1>2. \A s, l, r, t : Matches(s, l, r, t)' = Matches(s, l, r, t)
  <2>1. \A l, s : Heads!Matched(l, s)' = Heads!Matched(l, s)
    BY <1>0 DEF Heads!Matched, Heads!match_range, Heads!first, Heads!StopsAt, Heads!Walk,
                Heads!Closed, Heads!NoLink
  <2>2. QED
    BY <1>1, <2>1 DEF Matches
<1>3. \A i : Chain(i)' = Chain(i)
  BY <1>0 DEF Chain
<1>4. \A s, l, r, t : FirstMatch(s, l, r, t)' = FirstMatch(s, l, r, t)
  BY <1>0, <1>1, <1>2, <1>3 DEF FirstMatch, FirstOf, Heads!Walk, Heads!Closed, Heads!NoLink
<1>5. get(step, left, tags)' = get(step, left, tags)
  BY <1>0, <1>4 DEF get
<1>6. QED
  BY <1>5 DEF Redulist

-----------------------------------------------------------------------------
(* What the search of a query works on.                                    *)
Answering ==
  /\ query.step \in Nat /\ query.toType \in Types /\ query.fromType \in Types
  /\ redus = [t \in Types |-> Redulist(query.step, t, query.tags)]
  /\ goals = {query.toType} /\ starts = <<query.fromType>>

SearchInv ==
  query # NoQuery => /\ Answering /\ Dijkstra!IInv
                     /\ \E P : Dijkstra!Searching(P)

LEMMA QueryStarts ==
  ASSUME IInv, NEW q \in Queries, deriveType(q)
  PROVE  SearchInv'
<1>1. /\ query' = q /\ UNCHANGED <<headVars, m_list, owner>>
      /\ redus' = [t \in Types |-> Redulist(q.step, t, q.tags)]
      /\ goals' = {q.toType} /\ starts' = <<q.fromType>>
      /\ maxCount' = IF q.count = -1 THEN Unlimited ELSE q.count
  BY DEF deriveType, Search!Start
<1>2. /\ q.step \in Nat /\ q.toType \in Types /\ q.fromType \in Types
      /\ q.count \in Int /\ q.count >= -1
  <2>1. q.step \in Nat /\ q.toType \in Int /\ q.fromType \in Int /\ q.count \in Int
    BY QueriesAssumption
  <2>2. QED
    BY <2>1, NofTypesAssumption DEF deriveType, ValidTypes, Types
<1>3. Answering'
  <2>1. \A t \in Types : Redulist(q.step, t, q.tags)' = Redulist(q.step, t, q.tags)
    BY <1>1, SameAnswers
  <2>2. QED
    BY <1>1, <1>2, <2>1 DEF Answering
<1>4. Dijkstra!InputOK'
  <2>1. redus' \in [Types -> Seq(Dijkstra!Redu)]
    BY <1>1, RedulistIs DEF IInv, Typed
  <2>2. \A t \in Types : \A i, j \in DOMAIN redus'[t] : redus'[t][i].right = redus'[t][j].right => i = j
    BY <1>1, RedulistIs DEF IInv, Typed
  <2>3. starts' \in Seq(Types) /\ goals' \subseteq Types /\ maxCount' \in Nat
    BY <1>1, <1>2 DEF Unlimited
  <2>4. QED
    BY <2>1, <2>2, <2>3 DEF Dijkstra!InputOK
<1>5. Search!Begin'
  BY DEF deriveType, Search!Start, Search!Begin
<1>6. Dijkstra!Begin'
  BY <1>5, SameBegin, PTL
<1>7. (Dijkstra!IInv /\ \E P : Dijkstra!Searching(P))'
  BY <1>4, <1>6, SearchBegins, PTL
<1>8. QED
  BY <1>3, <1>7 DEF SearchInv

LEMMA AnsweringStays ==
  ASSUME Answering, UNCHANGED <<headVars, m_list, owner>>, UNCHANGED <<query, redus, starts, goals>>
  PROVE  Answering'
<1>1. PICK q : q = query
  OBVIOUS
<1>2. \A t \in Types : Redulist(q.step, t, q.tags)' = Redulist(q.step, t, q.tags)
  BY SameAnswers
<1>3. QED
  BY <1>1, <1>2 DEF Answering

LEMMA SearchGoesOn ==
  ASSUME SearchInv, Turn
  PROVE  SearchInv'
<1>1. query # NoQuery /\ Search!Turn /\ UNCHANGED <<vars, query>>
  BY DEF Turn
<1>2. Answering /\ Dijkstra!IInv /\ \E P : Dijkstra!Searching(P)
  BY <1>1 DEF SearchInv
<1>3. Dijkstra!Turn
  BY <1>1, SameTurn
<1>4. UNCHANGED <<redus, starts, goals, maxCount>>
  BY <1>3 DEF Dijkstra!Turn, Dijkstra!PopHeavier, Dijkstra!PopResult, Dijkstra!PopConflict,
                Dijkstra!PopOther, Dijkstra!Exhausted, Dijkstra!call
<1>5. Answering'
  BY <1>1, <1>2, <1>4, AnsweringStays DEF vars
<1>6. Dijkstra!IInv'
  BY <1>2, <1>3, TypesFinite, Dijkstra!TurnInv
<1>7. (\E P : Dijkstra!Searching(P))'
  <2>1. PICK P : Dijkstra!Searching(P)
    BY <1>2
  <2>2. QED
    BY <1>2, <1>3, <2>1, TypesFinite, Dijkstra!TurnSearching
<1>8. QED
  BY <1>5, <1>6, <1>7 DEF SearchInv

-----------------------------------------------------------------------------
(* The edges of the graph searched are the reductions visible and not      *)
(* shadowed, if there is one at most between two types.                    *)
LEMMA ReductionsAre ==
  ASSUME NEW from, NEW to
  PROVE  /\ Reductions(from, to) =
              {Relations[i] : i \in InnermostOf(SelectedOf(query.step, from, to, query.tags))}
         /\ \A r \in Reductions(from, to) : r.left = from /\ r.right = to
<1> DEFINE S == SelectedOf(query.step, from, to, query.tags)
<1>1. DOMAIN Relations = DOMAIN m_list
  BY DEF Relations
<1>2. Abstract!Selected(query.step, from, to, query.tags) = S
  BY <1>1, RelationOf DEF Abstract!Selected, SelectedOf, Abstract!Rules!Covers, Heads!Covers
<1>3. \A i \in S : /\ i \in DOMAIN m_list /\ Relations[i].scope = owner[i].scope
                   /\ Relations[i].left = from /\ Relations[i].right = to
  BY RelationOf DEF SelectedOf
<1> HIDE DEF S
<1>4. Abstract!Unshadowed(S) = InnermostOf(S)
  BY <1>3 DEF Abstract!Unshadowed, InnermostOf, Abstract!Rules!Contains, Inside
<1>5. Reductions(from, to) = {Relations[i] : i \in InnermostOf(S)}
  BY <1>2, <1>4 DEF Reductions
<1>6. \A i \in InnermostOf(S) : i \in S
  BY DEF InnermostOf
<1>7. QED
  BY <1>3, <1>5, <1>6 DEF S

LEMMA OnlyAnswer ==
  ASSUME IInv, ~Parallel, NEW from \in Types, NEW to \in Types
  PROVE  Abstract!Found(query.step, from, to, query.tags) = Reductions(from, to)
<1> DEFINE N == InnermostOf(SelectedOf(query.step, from, to, query.tags))
<1>1. Reductions(from, to) = {Relations[i] : i \in N}
  BY ReductionsAre
<1>2. Abstract!Found(query.step, from, to, query.tags) = {Relations[i] : i \in Earliest(N)}
  BY FoundIs
<1>3. \A r, s \in Reductions(from, to) : r = s
  BY DEF Parallel
<1>4. N \in SUBSET Nat
  <2>1. \A i \in DOMAIN m_list : i \in Nat
    BY OwnersTyped DEF IInv, Typed
  <2>2. QED
    BY <2>1 DEF InnermostOf, SelectedOf
<1> HIDE DEF N
<1>5. Earliest(N) \subseteq N
  BY DEF Earliest
<1>6. ASSUME N # {} PROVE Earliest(N) # {}
  BY <1>4, <1>6, Nodes!NatMin DEF Earliest
<1>7. QED
  BY <1>1, <1>2, <1>3, <1>5, <1>6

ReduOf(r) == [right |-> r.right, weight |-> r.weight, counted |-> r.tag \in TagsCount]

LEMMA AnswerOf ==
  ASSUME IInv, Heads!AllNested, ~Parallel, query.step \in Nat, NEW from \in Types
  PROVE  /\ \A x \in get(query.step, from, query.tags) :
              x.right \in Types /\ \E r \in Reductions(from, x.right) : x = Answer(r)
         /\ \A to \in Types : \A r \in Reductions(from, to) : Answer(r) \in get(query.step, from, query.tags)
<1> DEFINE found == Abstract!Lookup(query.step, from, query.tags)
           rows == get(query.step, from, query.tags)
<1>1. rows = {Answer(r) : r \in found}
  BY QueryAnswers DEF Heads!AllNested
<1>2. \A to \in Types : Abstract!Found(query.step, from, to, query.tags) = Reductions(from, to)
  BY OnlyAnswer
<1>3. found = UNION {Reductions(from, to) : to \in Types}
  BY <1>2 DEF Abstract!Lookup
<1> HIDE DEF rows, found
<1>4. \A to \in Types : \A r \in Reductions(from, to) : Answer(r).right = to
  BY ReductionsAre DEF Answer
<1>5. ASSUME NEW x \in rows
      PROVE  x.right \in Types /\ \E r \in Reductions(from, x.right) : x = Answer(r)
  <2>1. PICK to \in Types : \E r \in Reductions(from, to) : x = Answer(r)
    BY <1>1, <1>3
  <2>2. x.right = to
    BY <1>4, <2>1
  <2>3. QED
    BY <2>1, <2>2
<1>6. \A to \in Types : \A r \in Reductions(from, to) : Answer(r) \in rows
  BY <1>1, <1>3
<1>7. QED
  BY <1>5, <1>6 DEF rows

LEMMA EdgesAre ==
  ASSUME IInv, Heads!AllNested, ~Parallel, Answering, Dijkstra!InputOK, NEW from \in Types, NEW to \in Types
  PROVE  /\ Dijkstra!IsReducible(from, to) => Reductions(from, to) # {}
         /\ \A r \in Reductions(from, to) :
              Dijkstra!IsReducible(from, to) /\ Dijkstra!Reduction(from, to) = ReduOf(r)
<1> DEFINE list == redus[from]
           rows == get(query.step, from, query.tags)
<1>1. list = Redulist(query.step, from, query.tags) /\ query.step \in Nat
  BY DEF Answering
<1>2. /\ \A x \in rows : x.right \in Types /\ \E r \in Reductions(from, x.right) : x = Answer(r)
      /\ \A r \in Reductions(from, to) : Answer(r) \in rows
  BY <1>1, AnswerOf
<1>3. /\ \A i \in DOMAIN list : \E x \in rows : list[i] = ReduOf(x)
      /\ \A x \in rows : \E i \in DOMAIN list : list[i].right = x.right
  <2>1. TypeOK
    BY DEF IInv, Typed
  <2> DEFINE answers == Redulist(query.step, from, query.tags)
  <2>2. \A i \in DOMAIN answers : \E x \in rows :
          answers[i] = [right |-> x.right, weight |-> x.weight, counted |-> x.tag \in TagsCount]
    BY <2>1, RedulistIs
  <2>3. \A x \in rows : \E i \in DOMAIN answers : answers[i].right = x.right
    BY <2>1, RedulistIs
  <2>4. list = answers
    BY <1>1
  <2> HIDE DEF rows, list, answers
  <2>5. QED
    BY <2>2, <2>3, <2>4 DEF ReduOf
<1>4. \A i \in DOMAIN list : /\ Dijkstra!IsReducible(from, list[i].right)
                             /\ Dijkstra!Reduction(from, list[i].right) = list[i]
  BY TypesFinite, Dijkstra!ReductionOf
<1> HIDE DEF rows
<1>5. \A i \in DOMAIN list : \E r \in Reductions(from, list[i].right) : list[i] = ReduOf(r)
  <2> TAKE i \in DOMAIN list
  <2>1. PICK x \in rows : list[i] = ReduOf(x)
    BY <1>3
  <2>2. PICK r \in Reductions(from, x.right) : x = Answer(r)
    BY <1>2
  <2>3. list[i].right = x.right /\ ReduOf(x) = ReduOf(r)
    BY <2>1, <2>2 DEF ReduOf, Answer
  <2>4. QED
    BY <2>1, <2>2, <2>3
<1>6. ASSUME Dijkstra!IsReducible(from, to) PROVE Reductions(from, to) # {}
  <2>1. PICK i \in DOMAIN list : list[i].right = to
    BY <1>6 DEF Dijkstra!IsReducible
  <2>2. QED
    BY <1>5, <2>1
<1>7. ASSUME NEW r \in Reductions(from, to)
      PROVE  Dijkstra!IsReducible(from, to) /\ Dijkstra!Reduction(from, to) = ReduOf(r)
  <2>1. Answer(r) \in rows /\ Answer(r).right = to
    BY <1>2, ReductionsAre DEF Answer
  <2>2. PICK i \in DOMAIN list : list[i].right = to
    BY <1>3, <2>1
  <2>3. PICK s \in Reductions(from, to) : list[i] = ReduOf(s)
    BY <1>5, <2>2
  <2>4. s = r
    BY DEF Parallel
  <2>5. QED
    BY <1>4, <2>2, <2>3, <2>4
<1>8. QED
  BY <1>6, <1>7

-----------------------------------------------------------------------------
(* A sequence of reductions costs what the path of its types costs in the  *)
(* search.                                                                 *)
LEMMA SameCost ==
  ASSUME IInv, Heads!AllNested, ~Parallel, Answering, Dijkstra!InputOK,
         NEW p \in Seq(Types), Len(p) >= 1, NEW d \in Along(p)
  PROVE  Dijkstra!Weight(p) = Cost(d) /\ Dijkstra!Count(p) = Counted(d)
<1> DEFINE n == Len(p) - 1
           costs == [i \in DOMAIN d |-> d[i].weight]
           counts == [i \in DOMAIN d |-> IF d[i].tag \in TagsCount THEN 1 ELSE 0]
<1>1. n \in Nat /\ \A i \in 1 .. n : p[i] \in Types /\ p[i + 1] \in Types
  <2>1. Len(p) \in Nat /\ \A i \in 1 .. Len(p) : p[i] \in Types
    BY LenProperties, ElementOfSeq
  <2>2. QED
    BY <2>1
<1>2. DOMAIN d = 1 .. n /\ \A i \in 1 .. n : d[i] \in Reductions(p[i], p[i + 1])
  BY DEF Along
<1>3. Len(d) = n
  <2>1. d \in Seq({Relations[i] : i \in DOMAIN m_list})
    BY <1>1, SeqDef DEF Along
  <2>2. QED
    BY <1>1, <1>2, <2>1, LenProperties
<1> HIDE DEF n
<1>4. \A i \in 1 .. n : Dijkstra!Reduction(p[i], p[i + 1]) = ReduOf(d[i])
  BY <1>1, <1>2, EdgesAre
<1>5. Dijkstra!Agree(Dijkstra!Weights(p), costs, n)
  <2> SUFFICES ASSUME NEW i \in 1 .. n PROVE Dijkstra!Weights(p)[i] = costs[i]
    BY DEF Dijkstra!Agree
  <2>1. Dijkstra!Weights(p)[i] = Dijkstra!Reduction(p[i], p[i + 1]).weight
    BY DEF Dijkstra!Weights, n
  <2>2. costs[i] = d[i].weight
    BY <1>2
  <2>3. ReduOf(d[i]).weight = d[i].weight /\ Dijkstra!Reduction(p[i], p[i + 1]) = ReduOf(d[i])
    BY <1>4 DEF ReduOf
  <2>4. QED
    BY <2>1, <2>2, <2>3
<1>6. Dijkstra!Agree(Dijkstra!Counts(p), counts, n)
  <2> SUFFICES ASSUME NEW i \in 1 .. n PROVE Dijkstra!Counts(p)[i] = counts[i]
    BY DEF Dijkstra!Agree
  <2>1. Dijkstra!Counts(p)[i] = IF Dijkstra!Reduction(p[i], p[i + 1]).counted THEN 1 ELSE 0
    BY DEF Dijkstra!Counts, n
  <2>2. counts[i] = IF d[i].tag \in TagsCount THEN 1 ELSE 0
    BY <1>2
  <2>3. ReduOf(d[i]).counted <=> d[i].tag \in TagsCount
    BY DEF ReduOf
  <2>4. Dijkstra!Reduction(p[i], p[i + 1]) = ReduOf(d[i])
    BY <1>4
  <2>5. QED
    BY <2>1, <2>2, <2>3, <2>4
<1>7. \A c, m : Search!Total(c, m) = Dijkstra!Total(c, m)
  BY DEF Search!Total, Dijkstra!Total
<1>8. Cost(d) = Dijkstra!Total(costs, n) /\ Counted(d) = Dijkstra!Total(counts, n)
  BY <1>3, <1>7 DEF Cost, Counted
<1>9. Dijkstra!Weight(p) = Dijkstra!Total(Dijkstra!Weights(p), n) /\ Dijkstra!Count(p) = Dijkstra!Total(Dijkstra!Counts(p), n)
  BY TypesFinite, Dijkstra!SumsOfPath DEF n
<1> HIDE DEF costs, counts
<1>10. /\ Dijkstra!Total(Dijkstra!Weights(p), n) = Dijkstra!Total(costs, n)
       /\ Dijkstra!Total(Dijkstra!Counts(p), n) = Dijkstra!Total(counts, n)
  BY <1>1, <1>5, <1>6, TypesFinite, Dijkstra!TotalOfSame
<1>11. QED
  BY <1>8, <1>9, <1>10

LEMMA NofPathTypes == Dijkstra!Cardinality(Types) = NofTypes + 1
<1>1. Cardinality(Types) = NofTypes + 1
  BY NofTypesAssumption, FS_Interval DEF Types
<1>2. Cardinality(Types) = Dijkstra!Cardinality(Types)
  BY DEF Cardinality, Dijkstra!Cardinality
<1>3. QED
  BY <1>1, <1>2

LEMMA AllowedIsSolution ==
  ASSUME IInv, Heads!AllNested, ~Parallel, Answering, Dijkstra!InputOK, NEW d \in Allowed
  PROVE  \E p \in Dijkstra!Solutions : Dijkstra!Weight(p) = Cost(d)
<1>1. PICK p \in TypePaths : d \in Along(p)
  BY DEF Allowed
<1>2. PICK n \in 1 .. NofTypes + 1 : p \in [1 .. n -> Types]
  BY DEF TypePaths
<1>3. p \in Seq(Types) /\ Len(p) = n /\ n \in Nat /\ n >= 1
  <2>1. n \in Nat /\ n >= 1
    BY NofTypesAssumption
  <2>2. p \in Seq(Types)
    BY <1>2, <2>1, SeqDef
  <2>3. QED
    BY <1>2, <2>1, <2>2, LenProperties
<1>4. p[1] = query.fromType /\ p[Len(p)] = query.toType /\ \A i, j \in DOMAIN p : p[i] = p[j] => i = j
  BY DEF TypePaths
<1>5. Dijkstra!Weight(p) = Cost(d) /\ Dijkstra!Count(p) = Counted(d)
  BY <1>1, <1>3, SameCost
<1>6. \A i \in 1 .. Len(p) - 1 : Dijkstra!IsReducible(p[i], p[i + 1])
  <2> TAKE i \in 1 .. Len(p) - 1
  <2>1. p[i] \in Types /\ p[i + 1] \in Types
    BY <1>2, <1>3
  <2>2. d[i] \in Reductions(p[i], p[i + 1])
    BY <1>1 DEF Along
  <2>3. QED
    BY <2>1, <2>2, EdgesAre
<1>7. \E i \in DOMAIN starts : starts[i] = p[1]
  BY <1>4 DEF Answering
<1>8. Dijkstra!IsPath(p)
  BY <1>4, <1>6, <1>7 DEF Dijkstra!IsPath
<1>9. Dijkstra!Count(p) <= maxCount
  BY <1>5 DEF Allowed
<1>10. p[Len(p)] \in goals
  BY <1>4 DEF Answering
<1>11. Dijkstra!Solved(p)
  BY <1>3, <1>8, <1>9, <1>10 DEF Dijkstra!Solved, Dijkstra!Admissible
<1>12. p \in Dijkstra!Solutions
  BY <1>3, <1>11, TypesFinite, Dijkstra!SolutionsAreSolved
<1>13. QED
  BY <1>5, <1>12

LEMMA SolutionIsAllowed ==
  ASSUME IInv, Heads!AllNested, ~Parallel, Answering, Dijkstra!InputOK, NEW p \in Dijkstra!Solutions
  PROVE  \E d \in Allowed : Cost(d) = Dijkstra!Weight(p)
<1>1. p \in Seq(Types) /\ Dijkstra!Solved(p)
  BY TypesFinite, Dijkstra!SolutionsAreSolved
<1>2. /\ Len(p) >= 1 /\ Dijkstra!IsPath(p) /\ Dijkstra!Count(p) <= maxCount /\ p[Len(p)] \in goals
      /\ Len(p) \in Nat /\ \A i \in 1 .. Len(p) : p[i] \in Types
  BY <1>1, LenProperties, ElementOfSeq DEF Dijkstra!Solved, Dijkstra!Admissible
<1>3. PICK n \in 1 .. NofTypes + 1 : p \in [1 .. n -> Types]
  BY NofPathTypes DEF Dijkstra!Solutions, Dijkstra!Paths
<1>4. p \in TypePaths
  <2>1. \A i, j \in DOMAIN p : p[i] = p[j] => i = j
    BY <1>2 DEF Dijkstra!IsPath
  <2>2. p[1] = query.fromType
    BY <1>2 DEF Dijkstra!IsPath, Answering
  <2>3. p[Len(p)] = query.toType
    BY <1>2 DEF Answering
  <2>4. QED
    BY <1>3, <2>1, <2>2, <2>3 DEF TypePaths
<1> DEFINE d == [i \in 1 .. Len(p) - 1 |-> CHOOSE r \in Reductions(p[i], p[i + 1]) : TRUE]
<1>5. \A i \in 1 .. Len(p) - 1 : d[i] \in Reductions(p[i], p[i + 1])
  <2> TAKE i \in 1 .. Len(p) - 1
  <2>1. p[i] \in Types /\ p[i + 1] \in Types
    BY <1>2
  <2>2. Dijkstra!IsReducible(p[i], p[i + 1])
    BY <1>2 DEF Dijkstra!IsPath
  <2>3. Reductions(p[i], p[i + 1]) # {}
    BY <2>1, <2>2, EdgesAre
  <2>4. QED
    BY <2>3
<1>6. DOMAIN d = 1 .. Len(p) - 1 /\ d = [i \in 1 .. Len(p) - 1 |-> d[i]]
  OBVIOUS
<1> HIDE DEF d
<1>7. d \in Along(p)
  <2>1. \A from, to : Reductions(from, to) \subseteq {Relations[i] : i \in DOMAIN m_list}
    BY ReductionsAre DEF InnermostOf, SelectedOf
  <2>2. \A i \in 1 .. Len(p) - 1 : d[i] \in {Relations[j] : j \in DOMAIN m_list}
    BY <1>5, <2>1
  <2> DEFINE all == {Relations[j] : j \in DOMAIN m_list}
  <2> HIDE DEF all
  <2>3. d \in [1 .. Len(p) - 1 -> all]
    BY <1>6, <2>2 DEF all
  <2>4. QED
    BY <1>5, <1>6, <2>3 DEF Along, all
<1>8. Dijkstra!Weight(p) = Cost(d) /\ Dijkstra!Count(p) = Counted(d)
  BY <1>1, <1>2, <1>7, SameCost
<1>9. d \in Allowed
  BY <1>2, <1>4, <1>7, <1>8 DEF Allowed
<1>10. QED
  BY <1>8, <1>9

LEMMA SearchDerives ==
  ASSUME IInv, SearchInv
  PROVE  DerivesMinimal
<1> SUFFICES ASSUME query # NoQuery, done, Heads!AllNested, ~Parallel
             PROVE  /\ Search!Found <=> Allowed # {}
                    /\ Search!Found => /\ \A d \in Allowed : result.weight <= Cost(d)
                                       /\ \E d \in Allowed : result.weight = Cost(d)
  BY DEF DerivesMinimal
<1>1. Answering /\ Dijkstra!IInv /\ Dijkstra!InputOK
  BY DEF SearchInv, Dijkstra!IInv, Dijkstra!TypeOK
<1>2. PICK P : Dijkstra!Searching(P)
  BY DEF SearchInv
<1>3. Search!Found <=> Dijkstra!Found
  BY DEF Search!Found, Dijkstra!Found, Search!NoIndex, Dijkstra!NoIndex
<1>4. ~Dijkstra!Found => Dijkstra!Solutions = {}
  BY <1>1, <1>2, TypesFinite, Dijkstra!SearchedPaths
<1>5. Dijkstra!Found => /\ P[result.index] \in Dijkstra!Solutions
                        /\ result.weight = Dijkstra!Weight(P[result.index])
  BY <1>1, <1>2, TypesFinite, Dijkstra!SearchedPaths
<1>6. Dijkstra!Found => \A p \in Dijkstra!Solutions : result.weight <= Dijkstra!Weight(p)
  BY <1>1, <1>2, TypesFinite, Dijkstra!SearchedPaths
<1>7. \A d \in Allowed : \E p \in Dijkstra!Solutions : Dijkstra!Weight(p) = Cost(d)
  BY <1>1, AllowedIsSolution
<1>8. \A p \in Dijkstra!Solutions : \E d \in Allowed : Cost(d) = Dijkstra!Weight(p)
  BY <1>1, SolutionIsAllowed
<1>9. ASSUME Search!Found PROVE \E d \in Allowed : result.weight = Cost(d)
  <2>1. PICK d \in Allowed : Cost(d) = Dijkstra!Weight(P[result.index])
    BY <1>3, <1>5, <1>8, <1>9
  <2>2. QED
    BY <1>3, <1>5, <1>9, <2>1
<1>10. ASSUME Search!Found, NEW d \in Allowed PROVE result.weight <= Cost(d)
  <2>1. PICK p \in Dijkstra!Solutions : Dijkstra!Weight(p) = Cost(d)
    BY <1>7
  <2>2. result.weight <= Dijkstra!Weight(p)
    BY <1>3, <1>6, <1>10
  <2>3. QED
    BY <2>1, <2>2
<1>11. ~Search!Found => Allowed = {}
  BY <1>3, <1>4, <1>7
<1>12. QED
  BY <1>9, <1>10, <1>11

LEMMA SearchStays ==
  ASSUME SearchInv, UNCHANGED <<headVars, m_list, owner>>, UNCHANGED searchVars
  PROVE  SearchInv'
<1> SUFFICES ASSUME query # NoQuery PROVE SearchInv'
  BY DEF SearchInv, searchVars
<1>1. Answering /\ Dijkstra!IInv /\ \E P : Dijkstra!Searching(P)
  BY DEF SearchInv
<1>2. UNCHANGED Dijkstra!vars /\ UNCHANGED <<query, redus, starts, goals>>
  BY DEF searchVars, Dijkstra!vars, Dijkstra!call
<1>3. Answering'
  BY <1>1, <1>2, AnsweringStays
<1>4. Dijkstra!IInv'
  BY <1>1, <1>2, TypesFinite, Dijkstra!TurnInv
<1>5. (\E P : Dijkstra!Searching(P))'
  <2>1. PICK P : Dijkstra!Searching(P)
    BY <1>1
  <2>2. QED
    BY <1>1, <1>2, <2>1, TypesFinite, Dijkstra!TurnSearching
<1>6. QED
  BY <1>3, <1>4, <1>5 DEF SearchInv

LEMMA AlwaysSearched == DSpec => []SearchInv
<1>1. DInit => SearchInv
  BY DEF DInit, SearchInv
<1>2. IInv /\ SearchInv /\ [DNext]_<<vars, searchVars>> => SearchInv'
  <2> SUFFICES ASSUME IInv, SearchInv, [DNext]_<<vars, searchVars>> PROVE SearchInv'
    OBVIOUS
  <2>1. CASE Define
    BY <2>1 DEF Define, SearchInv, searchVars
  <2>2. ASSUME NEW q \in Queries, deriveType(q) PROVE SearchInv'
    BY <2>2, QueryStarts
  <2>3. CASE Turn
    BY <2>3, SearchGoesOn
  <2>4. CASE UNCHANGED <<vars, searchVars>>
    <3>1. UNCHANGED <<headVars, m_list, owner>> /\ UNCHANGED searchVars
      BY <2>4 DEF vars
    <3>2. QED
      BY <3>1, SearchStays
  <2>5. QED
    BY <2>1, <2>2, <2>3, <2>4 DEF DNext
<1>3. QED
  BY <1>1, <1>2, AlwaysInductive, PTL DEF DSpec

(* As long as the scopes of the reductions of every type nest, derive_type *)
(* has found a cheapest sequence of the reductions visible, if there is    *)
(* one, or says that there is none.                                        *)
THEOREM DerivesAlwaysMinimal == DSpec => []DerivesMinimal
<1>1. IInv /\ SearchInv => DerivesMinimal
  BY SearchDerives
<1>2. QED
  BY <1>1, AlwaysInductive, AlwaysSearched, PTL

-----------------------------------------------------------------------------
(* The tree of reductions.  The heads of the chains of a scope and the     *)
(* relations that are to be shown for it.                                  *)
HeadSets == SUBSET [key : Types, value : Nat]

OwnedScopes == {owner[i].scope : i \in DOMAIN owner}

RelationsAt(s) == {Relation(owner[i].left, i) : i \in {j \in DOMAIN owner : owner[j].scope = s}}

OwnedNest == \A s, t \in OwnedScopes : ~Heads!Crossing(s, t)

LEMMA OwnedAllNested ==
  ASSUME IInv, OwnedNest
  PROVE  Heads!AllNested
<1>1. \A e \in DOMAIN m_invtree : m_invtree[e].scope \in OwnedScopes
  <2> TAKE e \in DOMAIN m_invtree
  <2>1. m_invtree[e].value \in DOMAIN m_list
    BY ElementsTyped DEF IInv
  <2>2. m_invtree[e].value \in DOMAIN owner
    BY <2>1, OwnersTyped DEF IInv, Typed
  <2>3. owner[m_invtree[e].value].scope = m_invtree[e].scope
    <3>1. owner[m_invtree[e].value] = [left |-> leftOf[e], scope |-> m_invtree[e].scope]
      BY DEF IInv, Typed, HeadsOwned
    <3>2. QED
      BY <3>1
  <2>4. QED
    BY <2>2, <2>3 DEF OwnedScopes
<1>2. QED
  BY <1>1 DEF OwnedNest, Heads!AllNested, Heads!Nested, Heads!Elements

(* The table of the heads lists the heads of the scopes.                   *)
LEMMA ListedHeads ==
  ASSUME IInv, OwnedNest, NEW s \in Scopes
  PROVE  /\ \A h : h \in Heads!ListedIn(s) <=>
                \E k \in Types : HeadOf(k, s) # NoLink /\ h = [key |-> k, value |-> HeadOf(k, s)]
         /\ s \in Heads!ListedScopes <=> \E k \in Types : HeadOf(k, s) # NoLink
         /\ \A k \in Types : /\ HeadOf(k, s) # NoLink <=> Own(k, s) # {}
                             /\ HeadOf(k, s) # NoLink => /\ Chain(HeadOf(k, s)) = Own(k, s)
                                                         /\ HeadOf(k, s) \in DOMAIN m_list
<1>1. \A k \in Types : Heads!Nested(k)
  BY OwnedAllNested DEF Heads!AllNested
<1>2. \A k \in Types :
        /\ \A e \in Heads!Elements(k) : HeadOf(k, m_invtree[e].scope) = m_invtree[e].value
        /\ \A scope \in Scopes : HeadOf(k, scope) # NoLink =>
             \E e \in Heads!Elements(k) : m_invtree[e].scope = scope
        /\ Heads!Listed(k) = Heads!Elements(k)
  BY <1>1, NestedHeads DEF HeadsExact, IInv
<1>3. \A k \in Types : \A e \in Heads!Elements(k) :
        m_invtree[e].value \in DOMAIN m_list /\ m_invtree[e].value # NoLink
  BY ElementsTyped, OwnersTyped DEF IInv, Typed, Heads!Elements
<1>4. \A k \in Types : HeadOf(k, s) # NoLink <=> \E e \in Heads!Listed(k) : m_invtree[e].scope = s
  BY <1>2, <1>3
<1>5. \A k \in Types : \A e \in Heads!Listed(k) : m_invtree[e].scope = s => m_invtree[e].value = HeadOf(k, s)
  BY <1>2
<1>6. \A h : h \in Heads!ListedIn(s) <=>
        \E k \in Types : HeadOf(k, s) # NoLink /\ h = [key |-> k, value |-> HeadOf(k, s)]
  BY <1>4, <1>5 DEF Heads!ListedIn
<1>7. s \in Heads!ListedScopes <=> \E k \in Types : HeadOf(k, s) # NoLink
  BY <1>4 DEF Heads!ListedScopes
<1>8. ASSUME NEW k \in Types
      PROVE  /\ HeadOf(k, s) # NoLink <=> Own(k, s) # {}
             /\ HeadOf(k, s) # NoLink => /\ Chain(HeadOf(k, s)) = Own(k, s)
                                         /\ HeadOf(k, s) \in DOMAIN m_list
  <2>1. HeadsFirst(k)
    BY <1>1 DEF IInv, InChains
  <2>2. NoLink \notin DOMAIN m_list
    BY OwnersTyped DEF IInv, Typed
  <2>3. HeadOf(k, s) # NoLink <=> Own(k, s) # {}
    BY <2>1, <2>2 DEF HeadsFirst, Own
  <2>4. HeadOf(k, s) # NoLink => Chain(HeadOf(k, s)) = Own(k, s)
    BY <1>1, ChainOfIs
  <2>5. HeadOf(k, s) # NoLink => HeadOf(k, s) \in DOMAIN m_list
    BY <2>1 DEF HeadsFirst, Own
  <2>6. QED
    BY <2>3, <2>4, <2>5
<1>9. QED
  BY <1>6, <1>7, <1>8

LEMMA HeadScopes ==
  ASSUME IInv, OwnedNest
  PROVE  /\ DOMAIN HeadsAt = OwnedScopes /\ OwnedScopes \subseteq Scopes
         /\ HeadsAt = [s \in DOMAIN HeadsAt |-> HeadsAt[s]]
         /\ \A s \in DOMAIN HeadsAt : HeadsAt[s] = Heads!ListedIn(s) /\ HeadsAt[s] \in HeadSets
<1>1. /\ DOMAIN owner = DOMAIN m_list
      /\ \A i \in DOMAIN m_list : i \in Nat /\ owner[i].left \in Types /\ owner[i].scope \in Scopes
  BY OwnersTyped DEF IInv, Typed
<1>2. OwnedScopes \subseteq Scopes
  BY <1>1 DEF OwnedScopes
<1>3. /\ DOMAIN HeadsAt = Heads!ListedScopes
      /\ HeadsAt = [s \in DOMAIN HeadsAt |-> HeadsAt[s]]
      /\ \A s \in DOMAIN HeadsAt : HeadsAt[s] = Heads!ListedIn(s)
  BY DEF HeadsAt
<1>4. Heads!ListedScopes \subseteq Scopes
  <2>1. \A k \in Types : Heads!Listed(k) \subseteq DOMAIN m_invtree
    BY DEF Heads!Listed, Heads!Walk
  <2>2. \A e \in DOMAIN m_invtree : m_invtree[e].scope \in Scopes
    BY ElementsTyped DEF IInv
  <2>3. QED
    BY <2>1, <2>2 DEF Heads!ListedScopes
<1>5. ASSUME NEW s \in Scopes PROVE s \in Heads!ListedScopes <=> s \in OwnedScopes
  <2>1. s \in Heads!ListedScopes <=> \E k \in Types : Own(k, s) # {}
    BY ListedHeads
  <2>2. s \in OwnedScopes <=> \E k \in Types : Own(k, s) # {}
    BY <1>1 DEF OwnedScopes, Own
  <2>3. QED
    BY <2>1, <2>2
<1>6. ASSUME NEW s \in Scopes PROVE Heads!ListedIn(s) \in HeadSets
  <2>1. \A k \in Types : HeadOf(k, s) # NoLink => HeadOf(k, s) \in Nat
    BY <1>1, ListedHeads
  <2>2. \A h \in Heads!ListedIn(s) : h \in [key : Types, value : Nat]
    BY <2>1, ListedHeads
  <2>3. QED
    BY <2>2 DEF HeadSets
<1>7. QED
  BY <1>2, <1>3, <1>4, <1>5, <1>6

LEMMA HeadsDefinable ==
  ASSUME IInv, OwnedNest
  PROVE  Nodes!Definable(HeadsAt, HeadSets)
<1>1. /\ DOMAIN HeadsAt = OwnedScopes /\ OwnedScopes \subseteq Scopes
      /\ HeadsAt = [s \in DOMAIN HeadsAt |-> HeadsAt[s]]
      /\ \A s \in DOMAIN HeadsAt : HeadsAt[s] \in HeadSets
  BY HeadScopes
<1>2. Nodes!Bounded(OwnedScopes)
  BY <1>1, ScopesAssumption, BoundsAssumption DEF Nodes!Bounded, Nodes!ProperScopes
<1>3. Nodes!Nesting(OwnedScopes)
  BY DEF Nodes!Nesting, OwnedNest, Nodes!Crossing, Nodes!Contains, Heads!Crossing, Heads!Contains
<1>4. {} \in HeadSets
  BY DEF HeadSets
<1>5. QED
  BY <1>1, <1>2, <1>3, <1>4 DEF Nodes!Definable

(* The chains of the heads have the relations of the scope.                *)
LEMMA HeadsLead ==
  ASSUME IInv, OwnedNest, NEW s \in OwnedScopes
  PROVE  RelationsOf(HeadsAt[s]) = RelationsAt(s)
<1>1. s \in Scopes /\ HeadsAt[s] = Heads!ListedIn(s)
  BY HeadScopes
<1>2. /\ DOMAIN owner = DOMAIN m_list
      /\ \A i \in DOMAIN m_list : owner[i].left \in Types
  BY OwnersTyped DEF IInv, Typed
<1>3. /\ \A h : h \in HeadsAt[s] <=>
                \E k \in Types : HeadOf(k, s) # NoLink /\ h = [key |-> k, value |-> HeadOf(k, s)]
      /\ \A k \in Types : /\ HeadOf(k, s) # NoLink <=> Own(k, s) # {}
                          /\ HeadOf(k, s) # NoLink => Chain(HeadOf(k, s)) = Own(k, s)
  BY <1>1, ListedHeads
<1>4. ASSUME NEW r \in RelationsOf(HeadsAt[s]) PROVE r \in RelationsAt(s)
  <2>1. PICK h \in HeadsAt[s] : \E i \in Chain(h.value) : r = Relation(h.key, i)
    BY <1>4 DEF RelationsOf
  <2>2. PICK i \in Chain(h.value) : r = Relation(h.key, i)
    BY <2>1
  <2>3. PICK k \in Types : HeadOf(k, s) # NoLink /\ h = [key |-> k, value |-> HeadOf(k, s)]
    BY <1>3, <2>1
  <2>4. i \in Own(k, s) /\ r = Relation(k, i)
    BY <1>3, <2>2, <2>3
  <2>5. i \in DOMAIN owner /\ owner[i].left = k /\ owner[i].scope = s
    BY <1>2, <2>4 DEF Own
  <2>6. QED
    BY <2>4, <2>5 DEF RelationsAt
<1>5. ASSUME NEW r \in RelationsAt(s) PROVE r \in RelationsOf(HeadsAt[s])
  <2>1. PICK i \in DOMAIN owner : owner[i].scope = s /\ r = Relation(owner[i].left, i)
    BY <1>5 DEF RelationsAt
  <2> DEFINE left == owner[i].left
             h == [key |-> left, value |-> HeadOf(left, s)]
  <2>2. left \in Types /\ i \in Own(left, s)
    BY <1>2, <2>1 DEF Own
  <2>3. h \in HeadsAt[s] /\ Chain(HeadOf(left, s)) = Own(left, s)
    BY <1>3, <2>2
  <2>4. h.key = left /\ i \in Chain(h.value)
    BY <2>2, <2>3
  <2> HIDE DEF h
  <2>5. r = Relation(h.key, i)
    BY <2>1, <2>4
  <2>6. QED
    BY <2>3, <2>4, <2>5 DEF RelationsOf
<1>6. QED
  BY <1>4, <1>5

(* The operators of the tree of nodes are those the lemmas are about.      *)
LEMMA SameTranslate ==
  ASSUME NEW tree
  PROVE  Trees!translate(tree) = Nodes!translate(tree)
BY DEF Trees!translate, Trees!NewTree, Trees!Node, Trees!Root, Trees!NoNode, Trees!CopyChildren,
       Trees!Children, Trees!Siblings, Trees!addChild, Trees!addSibling,
       Nodes!translate, Nodes!NewTree, Nodes!Node, Nodes!Root, Nodes!NoNode, Nodes!CopyChildren,
       Nodes!Children, Nodes!Siblings, Nodes!addChild, Nodes!addSibling

LEMMA SameAll ==
  ASSUME NEW defined
  PROVE  Trees!SetAll(defined) = Nodes!SetAll(defined)
BY DEF Trees!SetAll, Trees!ScopeCompare, Trees!EmptyTable, Trees!IsRefusedIn, Trees!HierarchyError,
       Trees!Stored, Trees!IsKnownIn, Trees!Known, Trees!Meets, Trees!Inserted, Trees!linkLeftNeighbours,
       Trees!Innerlast, Trees!LastPassed, Trees!Walk, Trees!Closed, Trees!StopsAt, Trees!NotInside,
       Trees!Contains, Trees!NewPrev, Trees!Uplink, Trees!EndsAfter, Trees!upper_bound,
       Trees!rightNeighborUpLink, Trees!NewEnds, Trees!NoLink,
       Nodes!SetAll, Nodes!ScopeCompare, Nodes!EmptyTable, Nodes!IsRefusedIn, Nodes!HierarchyError,
       Nodes!Stored, Nodes!IsKnownIn, Nodes!Known, Nodes!Meets, Nodes!Inserted, Nodes!linkLeftNeighbours,
       Nodes!Innerlast, Nodes!LastPassed, Nodes!Walk, Nodes!Closed, Nodes!StopsAt, Nodes!NotInside,
       Nodes!Contains, Nodes!NewPrev, Nodes!Uplink, Nodes!EndsAfter, Nodes!upper_bound,
       Nodes!rightNeighborUpLink, Nodes!NewEnds, Nodes!NoLink

LEMMA SameTree ==
  ASSUME NEW table
  PROVE  Trees!getTree(table) = Nodes!getTree(table)
BY DEF Trees!getTree, Trees!NewBuilder, Trees!NewTree, Trees!Node, Trees!Root, Trees!NoNode,
       Trees!BuilderInsert, Trees!AddBelow, Trees!addChild, Trees!addSibling, Trees!Passed, Trees!NoLink,
       Nodes!getTree, Nodes!NewBuilder, Nodes!NewTree, Nodes!Node, Nodes!Root, Nodes!NoNode,
       Nodes!BuilderInsert, Nodes!AddBelow, Nodes!addChild, Nodes!addSibling, Nodes!Passed, Nodes!NoLink

LEMMA SameTreeOfAll ==
  ASSUME NEW defined
  PROVE  Trees!TreeOfAll(defined) = Nodes!TreeOfAll(defined)
<1>1. Trees!SetAll(defined) = Nodes!SetAll(defined)
  BY SameAll
<1>2. \A table : Trees!getTree(table) = Nodes!getTree(table)
  BY SameTree
<1>3. \A tree : Trees!translate(tree) = Nodes!translate(tree)
  BY SameTranslate
<1>4. QED
  BY <1>1, <1>2, <1>3 DEF Trees!TreeOfAll, Nodes!TreeOfAll

LEMMA SameShows ==
  ASSUME NEW shown, NEW defined
  PROVE  Trees!Shows(shown, defined) = Nodes!Shows(shown, defined)
BY DEF Trees!Shows, Trees!NodesOf, Trees!DepthFirst, Trees!Skip, Trees!Begin, Trees!Contains, Trees!Root,
       Trees!NoNode, Trees!Children, Trees!Siblings,
       Nodes!Shows, Nodes!NodesOf, Nodes!DepthFirst, Nodes!Skip, Nodes!Begin, Nodes!Contains, Nodes!Root,
       Nodes!NoNode, Nodes!Children, Nodes!Siblings

(* As long as the scopes of all reductions nest, typedb:reduction_tree     *)
(* shows every scope once, as a child of the smallest scope around it,     *)
(* with all reductions defined in it, whatever their types: the chains the *)
(* heads lead to, which were put into one inverse tree, made a tree of     *)
(* nodes, and copied.                                                      *)
THEOREM ReductionTreesAlwaysShow == DSpec => []ReductionTreeShows
<1>1. ASSUME IInv, OwnedNest
      PROVE  Nodes!Shows(getReductionDefinitionTree, [s \in OwnedScopes |-> RelationsAt(s)])
  <2> DEFINE heads == Trees!TreeOfAll(HeadsAt)
             twice == Trees!translate(heads.tree)
             shown == [tree |-> twice, failed |-> heads.failed]
             copy  == getReductionDefinitionTree
             ar    == [n \in DOMAIN twice.ar |-> WithRelations(twice.ar[n])]
             other == [s \in OwnedScopes |-> RelationsAt(s)]
             Shown == {RelationsOf(v) : v \in HeadSets}
  <2>1. heads = Nodes!TreeOfAll(HeadsAt)
    BY SameTreeOfAll
  <2>2. twice = Nodes!translate(Nodes!TreeOfAll(HeadsAt).tree)
    BY <2>1, SameTranslate
  <2>3. shown.tree = twice /\ shown.failed = heads.failed
    OBVIOUS
  <2>4. copy.tree = [twice EXCEPT !.ar = ar] /\ copy.failed = heads.failed
    <3>1. copy = [tree |-> [twice EXCEPT !.ar = ar], failed |-> heads.failed]
      BY Zenon DEF getReductionDefinitionTree
    <3> HIDE DEF copy, twice, ar, heads
    <3>2. QED
      BY <3>1
  <2>5. DOMAIN other = OwnedScopes /\ \A s \in OwnedScopes : other[s] = RelationsAt(s)
    OBVIOUS
  <2>6. \A v \in HeadSets : RelationsOf(v) \in Shown
    OBVIOUS
  <2> HIDE DEF heads, twice, shown, copy, other, Shown, ar
  <2>7. Nodes!IsTree(shown.tree, Nodes!Spans, HeadSets) /\ Nodes!Shows(shown, HeadsAt)
    BY <1>1, <2>1, <2>2, <2>3, HeadsDefinable, Nodes!AgainTranslated
  <2>8. twice \in Nodes!NodeTrees(Nodes!Spans, HeadSets)
    BY <2>3, <2>7 DEF Nodes!IsTree
  <2>9. PICK parent : Nodes!Shape(twice, parent)
    BY <2>3, <2>7 DEF Nodes!IsTree
  <2>10. ~heads.failed /\ Nodes!ShowsNodes(twice, HeadsAt, DOMAIN HeadsAt \cup {Nodes!Root})
    BY <2>3, <2>7, Nodes!ShowsIs
  <2>11. Nodes!ValuesOf(twice, HeadsAt)
    BY <2>8, <2>9, <2>10, Nodes!ShownValues
  <2>12. twice = [ar |-> twice.ar, last |-> twice.last] /\ twice.last \in Seq(Nat)
         /\ twice.ar \in Seq(Nodes!Records(Nodes!Spans, HeadSets))
    BY <2>8 DEF Nodes!NodeTrees
  <2>13. copy.tree = [ar |-> ar, last |-> twice.last]
    <3>1. \A a, b, c : [[ar |-> a, last |-> b] EXCEPT !.ar = c] = [ar |-> c, last |-> b]
      OBVIOUS
    <3>2. QED
      BY <2>4, <2>12, <3>1
  <2>14. Len(twice.ar) \in Nat /\ DOMAIN twice.ar = 1 .. Len(twice.ar)
    BY <2>12
  <2>15. ASSUME NEW n \in 1 .. Len(twice.ar)
         PROVE  /\ ar[n] \in Nodes!Records(Nodes!Spans, Shown)
                /\ ar[n].scope = twice.ar[n].scope /\ ar[n].next = twice.ar[n].next
                /\ ar[n].chld = twice.ar[n].chld /\ ar[n].value = RelationsOf(twice.ar[n].value)
    <3>1. twice.ar[n] \in Nodes!Records(Nodes!Spans, HeadSets)
      BY <2>12, <2>14
    <3> DEFINE a == twice.ar[n]
    <3>2. /\ a = [scope |-> a.scope, value |-> a.value, next |-> a.next, chld |-> a.chld]
          /\ a.scope \in Nodes!Spans /\ a.value \in HeadSets /\ a.next \in Nat /\ a.chld \in Nat
      BY <3>1 DEF Nodes!Records
    <3>3. ar[n] = [a EXCEPT !.value = RelationsOf(@)]
      BY <2>14 DEF ar, WithRelations
    <3> HIDE DEF a
    <3>4. ar[n] = [scope |-> a.scope, value |-> RelationsOf(a.value), next |-> a.next, chld |-> a.chld]
      BY <3>2, <3>3
    <3>5. RelationsOf(a.value) \in Shown
      BY <2>6, <3>2
    <3>6. QED
      BY <3>2, <3>4, <3>5 DEF a, Nodes!Records
  <2>16. DOMAIN ar = 1 .. Len(twice.ar) /\ ar = [n \in 1 .. Len(twice.ar) |-> ar[n]]
    BY <2>14 DEF ar
  <2>17. ar \in Seq(Nodes!Records(Nodes!Spans, Shown)) /\ Len(ar) = Len(twice.ar)
    <3>1. ar \in [1 .. Len(twice.ar) -> Nodes!Records(Nodes!Spans, Shown)]
      BY <2>15, <2>16
    <3>2. ar \in Seq(Nodes!Records(Nodes!Spans, Shown))
      BY <2>14, <3>1
    <3>3. QED
      BY <2>14, <2>16, <3>2
  <2>18. copy.tree.ar = ar /\ copy.tree.last = twice.last
    BY <2>13
  <2>19. copy.tree \in Nodes!NodeTrees(Nodes!Spans, Shown)
    BY <2>12, <2>13, <2>17 DEF Nodes!NodeTrees
  <2>20. Nodes!Revalued(copy.tree, shown.tree)
    BY <2>3, <2>15, <2>17, <2>18 DEF Nodes!Revalued, Nodes!Size
  <2>21. ~copy.failed
    BY <2>4, <2>10
  <2>22. DOMAIN HeadsAt = OwnedScopes /\ DOMAIN other = DOMAIN HeadsAt
    BY <1>1, <2>5, HeadScopes
  <2>23. Nodes!ValuesOf(copy.tree, other)
    <3>1. ASSUME NEW j \in 1 .. Len(twice.ar)
          PROVE  ar[j].value = IF ar[j].scope \in DOMAIN other THEN other[ar[j].scope] ELSE {}
      <4>1. twice.ar[j].value = IF twice.ar[j].scope \in DOMAIN HeadsAt THEN HeadsAt[twice.ar[j].scope] ELSE {}
        BY <2>11 DEF Nodes!ValuesOf, Nodes!Size
      <4>2. RelationsOf({}) = {}
        BY DEF RelationsOf
      <4>3. \A s \in OwnedScopes : RelationsOf(HeadsAt[s]) = other[s]
        BY <1>1, <2>5, HeadsLead
      <4>4. ar[j].scope = twice.ar[j].scope /\ ar[j].value = RelationsOf(twice.ar[j].value)
        BY <2>15
      <4>5. QED
        BY <2>22, <4>1, <4>2, <4>3, <4>4
    <3>2. QED
      BY <2>17, <2>18, <3>1 DEF Nodes!ValuesOf, Nodes!Size
  <2>24. Nodes!Shows(copy, other)
    BY <2>7, <2>19, <2>20, <2>21, <2>22, <2>23, Nodes!RevaluedShows
  <2>25. QED
    BY <2>24 DEF copy, other
<1>2. IInv => ReductionTreeShows
  <2> SUFFICES ASSUME IInv, OwnedNest
               PROVE  Trees!Shows(getReductionDefinitionTree, [s \in OwnedScopes |-> RelationsAt(s)])
    BY DEF ReductionTreeShows, OwnedNest, OwnedScopes, RelationsAt
  <2>1. QED
    BY <1>1, SameShows
<1>3. QED
  BY <1>2, AlwaysInductive, PTL
=============================================================================
