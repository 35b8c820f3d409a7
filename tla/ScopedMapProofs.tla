--------------------------- MODULE ScopedMapProofs ---------------------------
(***************************************************************************)
(* The theorems about ScopedMap, for all keys, values, steps and bounds:   *)
(* as long as the scopes of a key nest its lists stay well linked, the     *)
(* queries answer as the scoped dictionary does and the updates are those  *)
(* of the dictionary, and only overlapping scopes are refused.             *)
(***************************************************************************)
EXTENDS ScopedMap, InvTreeProofs

(* Of a step only an insertion changes the table.                          *)
LEMMA OnlyInsertions ==
  ASSUME [Next]_vars
  PROVE  \/ UNCHANGED <<m_invtree, m_map, owner>>
         \/ \E key \in Keys, scope \in Scopes, value \in Values : Insert(key, scope, value)
BY DEF Next, Set, GetOrSet, Refuse, vars

LEMMA InsertTyped ==
  ASSUME TypeOK, NEW key \in Keys, NEW scope \in Scopes, NEW value \in Values,
         Insert(key, scope, value)
  PROVE  TypeOK'
<1>2. m_invtree \in Seq(Element) /\ Len(m_invtree) \in Nat
  BY DEF TypeOK
<1>3. /\ m_invtree' \in Seq(Element) /\ Len(m_invtree') = Len(m_invtree) + 1
      /\ DOMAIN m_invtree' = DOMAIN m_invtree \cup {Len(m_invtree) + 1}
  <2>1. m_invtree' \in Seq(Element) /\ Len(m_invtree') = Len(m_invtree) + 1
    <3>1. m_invtree' = Inserted(m_invtree, m_map[key], scope, value)
      BY DEF Insert
    <3>2. QED
      BY <1>2, <3>1, InsertedType DEF Element
  <2>2. DOMAIN m_invtree' = 1 .. Len(m_invtree') /\ DOMAIN m_invtree = 1 .. Len(m_invtree)
    BY <1>2, <2>1
  <2>3. QED
    BY <1>2, <2>1, <2>2
<1>4. owner' \in Seq(Keys) /\ Len(owner') = Len(m_invtree')
  BY <1>3 DEF Insert, TypeOK
<1>5. /\ DOMAIN m_map' = Keys
      /\ \A k \in Keys : m_map'[k] = IF k = key THEN NewEnds(m_invtree, m_map[key], scope) ELSE m_map[k]
  BY DEF Insert, TypeOK
<1>6. /\ DOMAIN NewEnds(m_invtree, m_map[key], scope) \subseteq Nat
      /\ \A e \in DOMAIN NewEnds(m_invtree, m_map[key], scope) :
           NewEnds(m_invtree, m_map[key], scope)[e] \in DOMAIN m_invtree'
  <2>1. scope.end \in Nat
    BY ScopesAssumption
  <2>2. /\ DOMAIN m_map[key] \subseteq Nat
        /\ \A e \in DOMAIN m_map[key] : m_map[key][e] \in DOMAIN m_invtree
    BY DEF TypeOK
  <2>3. QED
    BY <1>3, <2>1, <2>2 DEF NewEnds
<1>7. \A k \in Keys : /\ DOMAIN m_map'[k] \subseteq Nat
                      /\ \A e \in DOMAIN m_map'[k] : m_map'[k][e] \in DOMAIN m_invtree'
  BY <1>3, <1>5, <1>6 DEF TypeOK
<1>8. Len(m_invtree') <= MaxElements
  BY <1>2, <1>3, MaxElementsAssumption DEF Insert
<1>9. QED
  BY <1>3, <1>4, <1>5, <1>7, <1>8 DEF TypeOK

LEMMA TypeInductive ==
  /\ Init => TypeOK
  /\ TypeOK /\ [Next]_vars => TypeOK'
<1>1. Init => TypeOK
  BY MaxElementsAssumption DEF Init, TypeOK
<1>2. ASSUME TypeOK, [Next]_vars PROVE TypeOK'
  <2>1. CASE UNCHANGED <<m_invtree, m_map, owner>>
    BY <1>2, <2>1 DEF TypeOK
  <2>2. QED
    BY <1>2, <2>1, OnlyInsertions, InsertTyped
<1>3. QED
  BY <1>1, <1>2

(* The types hold in every state, for all scopes: the indices a table      *)
(* keeps are those of elements of the array.                               *)
THEOREM TypeCorrect == Spec => []TypeOK
BY TypeInductive, PTL DEF Spec

-----------------------------------------------------------------------------
(* The inductive invariant.  Whatever scopes a key has, its lists stay     *)
(* within the key and lead to bigger and bigger scopes: an insertion for   *)
(* one key leaves the others alone.  As long as the scopes of a key nest   *)
(* its lists are complete as well.                                         *)
Ordered == \A key \in Keys : Ascending(m_invtree, m_map[key], Elements(key))

IInv == TypeOK /\ Ordered /\ UplinksSound

LEMMA Items ==
  ASSUME TypeOK
  PROVE  /\ m_invtree \in Seq(Item(Values)) /\ m_invtree \in Seq(Element)
         /\ \A key : \A i \in Elements(key) : m_invtree[i].scope \in Scopes
<1>1. m_invtree \in Seq(Element) /\ DOMAIN m_invtree = 1 .. Len(m_invtree) /\ Len(m_invtree) \in Nat
  BY DEF TypeOK
<1>2. \A i \in 1 .. Len(m_invtree) : m_invtree[i] \in Element
  BY <1>1
<1>3. \A i \in 1 .. Len(m_invtree) : m_invtree[i] \in Item(Values)
  BY <1>2, ScopesAssumption DEF Element, Item, ProperScopes
<1>4. m_invtree \in Seq(Item(Values))
  BY <1>1, <1>3
<1>5. QED
  BY <1>1, <1>2, <1>4 DEF Elements, Element

LEMMA KeyLinked ==
  ASSUME IInv, NEW key \in Keys, Nested(key)
  PROVE  /\ WellLinked(m_invtree, m_map[key], Elements(key))
         /\ NestedElements(m_invtree, Elements(key))
         /\ Linked(m_invtree, Elements(key))
         /\ EndsLeadToInnermost(m_invtree, m_map[key], Elements(key))
<1>1. WellLinked(m_invtree, m_map[key], Elements(key))
  BY DEF IInv, UplinksSound
<1>2. NestedElements(m_invtree, Elements(key))
  BY Items, NestedItems DEF IInv, Nested, Elements
<1>3. QED
  BY <1>1, <1>2 DEF WellLinked, Linked

(* How an insertion changes the elements of the keys.                      *)
LEMMA InsertElements ==
  ASSUME IInv, NEW key \in Keys, NEW scope \in Scopes, NEW value \in Values,
         Insert(key, scope, value)
  PROVE  LET n == Len(m_invtree) + 1
         IN  /\ Elements(key)' = Elements(key) \cup {n} /\ n \notin DOMAIN m_invtree
             /\ \A k \in Keys : k # key => Elements(k)' = Elements(k)
             /\ IsExtension(m_invtree, Elements(key), m_map[key], scope, value, m_invtree')
             /\ \A k \in Keys : m_map'[k] = IF k = key THEN NewEnds(m_invtree, m_map[key], scope)
                                                      ELSE m_map[k]
<1> DEFINE n == Len(m_invtree) + 1
<1>1. scope \in ProperScopes
  BY ScopesAssumption DEF ProperScopes
<1>2. IsExtension(m_invtree, Elements(key), m_map[key], scope, value, m_invtree')
  <2>1. m_invtree' = Inserted(m_invtree, m_map[key], scope, value)
    BY DEF Insert
  <2>2. m_invtree \in Seq(Item(Values)) /\ Ascending(m_invtree, m_map[key], Elements(key))
    BY Items DEF IInv, Ordered
  <2>3. QED
    BY <1>1, <2>1, <2>2, InsertedExtends
<1>3. DOMAIN m_invtree' = DOMAIN m_invtree \cup {n} /\ n \notin DOMAIN m_invtree
  BY <1>2 DEF IsExtension
<1>4. /\ owner' = Append(owner, key) /\ owner \in Seq(Keys) /\ Len(owner) = Len(m_invtree)
      /\ m_invtree \in Seq(Element)
  BY DEF Insert, IInv, TypeOK
<1>5. owner'[n] = key /\ \A i \in DOMAIN m_invtree : owner'[i] = owner[i]
  BY <1>4
<1>6. \A k \in Keys : Elements(k)' = {i \in DOMAIN m_invtree \cup {n} : owner'[i] = k}
  BY <1>3 DEF Elements
<1>7. \A k \in Keys : m_map'[k] = IF k = key THEN NewEnds(m_invtree, m_map[key], scope) ELSE m_map[k]
  BY DEF Insert, IInv, TypeOK
<1>8. QED
  BY <1>2, <1>3, <1>5, <1>6, <1>7 DEF Elements

(* The elements of the other keys stay as they are.                        *)
LEMMA InsertElsewhere ==
  ASSUME IInv, NEW key \in Keys, NEW scope \in Scopes, NEW value \in Values,
         Insert(key, scope, value), NEW k \in Keys, k # key
  PROVE  /\ Elements(k)' = Elements(k) /\ m_map'[k] = m_map[k]
         /\ \A i \in Elements(k) : /\ m_invtree'[i].scope = m_invtree[i].scope
                                   /\ m_invtree'[i].value = m_invtree[i].value
                                   /\ m_invtree'[i].prev = m_invtree[i].prev
<1>1. /\ Elements(k)' = Elements(k) /\ m_map'[k] = m_map[k]
      /\ IsExtension(m_invtree, Elements(key), m_map[key], scope, value, m_invtree')
  BY InsertElements
<1>2. \A i \in Elements(k) : i \in DOMAIN m_invtree /\ i \notin Elements(key)
  BY DEF Elements
<1>3. QED
  BY <1>1, <1>2 DEF IsExtension

LEMMA StaysOrdered ==
  ASSUME IInv, NEW key \in Keys, NEW scope \in Scopes, NEW value \in Values,
         Insert(key, scope, value)
  PROVE  Ordered'
<1> DEFINE n == Len(m_invtree) + 1
<1>1. /\ Elements(key)' = Elements(key) \cup {n}
      /\ IsExtension(m_invtree, Elements(key), m_map[key], scope, value, m_invtree')
      /\ m_map'[key] = NewEnds(m_invtree, m_map[key], scope)
  BY InsertElements
<1>2. Ascending(m_invtree', m_map'[key], Elements(key)')
  <2>1. scope \in ProperScopes
    BY ScopesAssumption DEF ProperScopes
  <2>2. /\ ~Known(m_invtree, m_map[key], scope) /\ ~HierarchyError(m_invtree, m_map[key], scope)
        /\ m_invtree' = Inserted(m_invtree, m_map[key], scope, value)
    BY DEF Insert, IsKnown, IsRefused
  <2>3. m_invtree \in Seq(Item(Values)) /\ Ascending(m_invtree, m_map[key], Elements(key))
    BY Items DEF IInv, Ordered
  <2>4. Ascending(Inserted(m_invtree, m_map[key], scope, value),
                  NewEnds(m_invtree, m_map[key], scope), Elements(key) \cup {n})
    BY <2>1, <2>2, <2>3, InsertedAscending
  <2>5. QED
    BY <1>1, <2>2, <2>4
<1>3. ASSUME NEW k \in Keys, k # key PROVE Ascending(m_invtree', m_map'[k], Elements(k)')
  <2>1. NoLink \notin DOMAIN m_invtree' /\ DOMAIN m_invtree \subseteq DOMAIN m_invtree'
    BY <1>1, <1>2 DEF Ascending, IsExtension
  <2>2. Ascending(m_invtree, m_map[k], Elements(k))
    BY DEF IInv, Ordered
  <2>3. /\ Elements(k)' = Elements(k) /\ m_map'[k] = m_map[k]
        /\ \A i \in Elements(k) : /\ m_invtree'[i].scope = m_invtree[i].scope
                                  /\ m_invtree'[i].prev = m_invtree[i].prev
    BY <1>3, InsertElsewhere
  <2>4. Ascending(m_invtree', m_map[k], Elements(k))
    BY <2>1, <2>2, <2>3, AscendingElsewhere
  <2>5. QED
    BY <2>3, <2>4
<1>4. \A k \in Keys : Ascending(m_invtree', m_map'[k], Elements(k)')
  BY <1>2, <1>3
<1>5. QED
  BY <1>4 DEF Ordered, Ascending, StrictlyInside, Contains, NoLink

(* A key whose scopes nest after an insertion had nested scopes before, as *)
(* no element is lost and none gets another scope.                         *)
LEMMA NestedBefore ==
  ASSUME IInv, NEW key \in Keys, NEW scope \in Scopes, NEW value \in Values,
         Insert(key, scope, value), NEW k \in Keys, Nested(k)'
  PROVE  Nested(k)
<1>1. \A i, j \in Elements(k)' : ~Crossing(m_invtree'[i].scope, m_invtree'[j].scope)
  BY DEF Nested, Crossing, Contains
<1>2. /\ Elements(k) \subseteq Elements(k)'
      /\ \A i \in Elements(k) : m_invtree'[i].scope = m_invtree[i].scope
  <2>1. CASE k = key
    <3>1. /\ Elements(key)' = Elements(key) \cup {Len(m_invtree) + 1}
          /\ IsExtension(m_invtree, Elements(key), m_map[key], scope, value, m_invtree')
      BY InsertElements
    <3>2. \A i \in Elements(key) : i \in DOMAIN m_invtree
      BY DEF Elements
    <3>3. QED
      BY <2>1, <3>1, <3>2 DEF IsExtension
  <2>2. CASE k # key
    BY <2>2, InsertElsewhere
  <2>3. QED
    BY <2>1, <2>2
<1>3. QED
  BY <1>1, <1>2 DEF Nested

LEMMA KeyFresh ==
  ASSUME IInv, NEW key \in Keys, NEW scope \in Scopes, NEW value \in Values,
         Insert(key, scope, value), Nested(key)'
  PROVE  Fresh(m_invtree, Elements(key), scope)
<1> DEFINE n == Len(m_invtree) + 1
<1>1. scope \in ProperScopes
  BY ScopesAssumption DEF ProperScopes
<1>2. \A i \in Elements(key) : m_invtree[i].scope # scope
  BY <1>1, NestedBefore, KeyLinked, KnownIff DEF IsKnown, Insert
<1>3. \A i, j \in Elements(key)' : ~Crossing(m_invtree'[i].scope, m_invtree'[j].scope)
  BY DEF Nested, Crossing, Contains
<1>4. /\ Elements(key)' = Elements(key) \cup {n} /\ m_invtree'[n].scope = scope
      /\ \A i \in Elements(key) : m_invtree'[i].scope = m_invtree[i].scope
  <2>1. /\ Elements(key)' = Elements(key) \cup {n}
        /\ IsExtension(m_invtree, Elements(key), m_map[key], scope, value, m_invtree')
    BY InsertElements
  <2>2. \A i \in Elements(key) : i \in DOMAIN m_invtree
    BY DEF Elements
  <2>3. QED
    BY <2>1, <2>2 DEF IsExtension
<1>5. \A i \in Elements(key) : ~Crossing(m_invtree[i].scope, scope)
  BY <1>3, <1>4
<1>6. QED
  BY <1>1, <1>2, <1>5 DEF Fresh

LEMMA UplinksStaySound ==
  ASSUME IInv, NEW key \in Keys, NEW scope \in Scopes, NEW value \in Values,
         Insert(key, scope, value)
  PROVE  UplinksSound'
<1> DEFINE n == Len(m_invtree) + 1
<1>1. ASSUME NEW k \in Keys, Nested(k)'
      PROVE  WellLinked(m_invtree', m_map'[k], Elements(k)')
  <2>1. Nested(k)
    BY <1>1, NestedBefore
  <2>2. WellLinked(m_invtree, m_map[k], Elements(k)) /\ NestedElements(m_invtree, Elements(k))
    BY <2>1, KeyLinked
  <2>3. CASE k = key
    <3>1. Fresh(m_invtree, Elements(key), scope)
      BY <1>1, <2>3, KeyFresh
    <3>2. m_invtree \in Seq(Item(Values))
      BY Items DEF IInv
    <3>3. WellLinked(Inserted(m_invtree, m_map[key], scope, value),
                     NewEnds(m_invtree, m_map[key], scope), Elements(key) \cup {n})
      BY <2>2, <2>3, <3>1, <3>2, InsertedWellLinked
    <3>4. /\ m_invtree' = Inserted(m_invtree, m_map[key], scope, value)
          /\ m_map'[k] = NewEnds(m_invtree, m_map[key], scope)
          /\ Elements(k)' = Elements(key) \cup {n}
      BY <2>3, InsertElements DEF Insert
    <3>5. QED
      BY <3>3, <3>4
  <2>4. CASE k # key
    <3>1. /\ Elements(k)' = Elements(k) /\ m_map'[k] = m_map[k]
          /\ \A i \in Elements(k) : /\ m_invtree'[i].scope = m_invtree[i].scope
                                    /\ m_invtree'[i].prev = m_invtree[i].prev
      BY <2>4, InsertElsewhere
    <3>2. WellLinked(m_invtree', m_map[k], Elements(k))
      BY <2>2, <3>1, WellLinkedElsewhere
    <3>3. QED
      BY <3>1, <3>2
  <2>5. QED
    BY <2>3, <2>4
<1>2. QED
  BY <1>1 DEF UplinksSound, WellLinked, EndsLeadToInnermost, LeadsToEncloser, Enclosing, NoLink, Contains

(* The invariant of a table that is part of another module: only the       *)
(* insertions count, whatever call they come from.                         *)
LEMMA InsertInductive ==
  ASSUME IInv,
         \/ UNCHANGED <<m_invtree, m_map, owner>>
         \/ \E key \in Keys, scope \in Scopes, value \in Values : Insert(key, scope, value)
  PROVE  IInv'
<1>1. CASE UNCHANGED <<m_invtree, m_map, owner>>
  <2>1. Ordered'
    BY <1>1 DEF IInv, Ordered, Ascending, StrictlyInside, Elements
  <2>2. UplinksSound'
    BY <1>1 DEF IInv, UplinksSound, WellLinked, EndsLeadToInnermost, LeadsToEncloser,
                Enclosing, Elements, Nested
  <2>3. TypeOK'
    BY <1>1 DEF IInv, TypeOK
  <2>4. QED
    BY <2>1, <2>2, <2>3 DEF IInv
<1>2. CASE \E key \in Keys, scope \in Scopes, value \in Values : Insert(key, scope, value)
  <2>1. Ordered' /\ UplinksSound'
    BY <1>2, StaysOrdered, UplinksStaySound
  <2>2. TypeOK'
    BY <1>2, InsertTyped DEF IInv
  <2>3. QED
    BY <2>1, <2>2 DEF IInv
<1>3. QED
  BY <1>1, <1>2

LEMMA Inductive ==
  /\ Init => IInv
  /\ IInv /\ [Next]_vars => IInv'
<1>1. Init => Ordered /\ UplinksSound
  BY DEF Init, Ordered, Ascending, UplinksSound, WellLinked, EndsLeadToInnermost, Elements
<1>2. IInv /\ [Next]_vars => IInv'
  BY OnlyInsertions, InsertInductive
<1>3. QED
  BY <1>1, <1>2, TypeInductive DEF IInv

(* As long as the scopes of a key nest its lists are well linked, after    *)
(* any order of definitions and whatever scopes other keys have in the     *)
(* same array: insertUpValue, rightNeighborUpLink and linkLeftNeighbours   *)
(* lose no element and shadow none.                                        *)
THEOREM ListsWellLinked == Spec => []UplinksSound
<1>1. IInv => UplinksSound
  BY DEF IInv
<1>2. (Init => IInv) /\ (IInv /\ [Next]_vars => IInv')
  BY Inductive
<1>3. QED
  BY <1>1, <1>2, PTL DEF Spec

-----------------------------------------------------------------------------
(* Lists whose scopes may overlap: what insertUpValue meets, getDef finds, *)
(* and what is stored is found as long as nothing is stored after it.      *)

(* A loop stops at one element only.                                       *)
LEMMA StopsOnce ==
  ASSUME NEW ar, NEW ends, NEW own, Ascending(ar, ends, own), NEW x \in own, NEW Stop,
         NEW a \in Walk(ar, x, Stop) \cap Stop
  PROVE  StopsAt(ar, x, Stop) = a
<1> DEFINE P == {j \in own : a \in Walk(ar, j, Stop)}
<1>1. P \subseteq DOMAIN ar /\ x \in P
  BY DEF Ascending
<1>2. ASSUME NEW m \in P \ Stop, ar[m].prev # NoLink PROVE ar[m].prev \in P
  <2> DEFINE p == ar[m].prev
             C == {m} \cup Walk(ar, p, Stop)
  <2>1. m \in own /\ p \in own /\ own \subseteq DOMAIN ar
    BY <1>2 DEF Ascending
  <2>2. p \in Walk(ar, p, Stop) /\ Walk(ar, p, Stop) \subseteq own
    <3>1. p \in Walk(ar, p, Stop)
      BY <2>1 DEF Walk, Closed
    <3>2. Walk(ar, p, Stop) \subseteq own
      BY <2>1, AscendingWalk DEF Above
    <3>3. QED
      BY <3>1, <3>2
  <2>3. ASSUME NEW i \in C \ Stop, ar[i].prev # NoLink PROVE ar[i].prev \in C
    <3>1. CASE i = m
      BY <2>2, <3>1
    <3>2. CASE i \in Walk(ar, p, Stop)
      <4>1. ar[i].prev \in DOMAIN ar
        BY <2>1, <2>2, <2>3, <3>2 DEF Ascending
      <4>2. ar[i].prev \in Walk(ar, p, Stop)
        BY <2>3, <3>2, <4>1 DEF Walk, Closed
      <4>3. QED
        BY <4>2
    <3>3. QED
      BY <2>3, <3>1, <3>2
  <2>4. Walk(ar, m, Stop) \subseteq C
    <3>1. C \subseteq DOMAIN ar /\ m \in C
      BY <2>1, <2>2
    <3> HIDE DEF C
    <3>2. QED
      BY <2>3, <3>1, WalkWithin
  <2>5. a # m
    BY <1>2
  <2>6. QED
    BY <1>2, <2>1, <2>4, <2>5
<1>3. Walk(ar, x, Stop) \subseteq P
  <2> HIDE DEF P
  <2>1. QED
    BY <1>1, <1>2, WalkWithin
<1>4. ASSUME NEW b \in Walk(ar, x, Stop) \cap Stop PROVE b = a
  <2>1. a \in Walk(ar, b, Stop) /\ b \in DOMAIN ar
    BY <1>3 DEF Ascending
  <2>2. Walk(ar, b, Stop) \subseteq {b}
    <3> DEFINE C == {b}
    <3>1. C \subseteq DOMAIN ar /\ b \in C /\ \A i \in C \ Stop : ar[i].prev # NoLink => ar[i].prev \in C
      BY <2>1
    <3> HIDE DEF C
    <3>2. Walk(ar, b, Stop) \subseteq C
      BY <3>1, WalkWithin
    <3>3. QED
      BY <3>2 DEF C
  <2>3. QED
    BY <2>1, <2>2
<1>5. Walk(ar, x, Stop) \cap Stop = {a}
  BY <1>4
<1>6. QED
  BY <1>5 DEF StopsAt

(* Two loops that stop at the same elements above x are the same.          *)
LEMMA SameStops ==
  ASSUME NEW ar, NEW ends, NEW own, Ascending(ar, ends, own), NEW x \in own, NEW S, NEW T,
         \A j \in Above(ar, own, x) : j \in S <=> j \in T
  PROVE  Walk(ar, x, S) \subseteq Walk(ar, x, T)
<1> DEFINE P == Above(ar, own, x) \cap Walk(ar, x, T)
<1>1. x \in Above(ar, own, x) /\ x \in DOMAIN ar /\ own \subseteq DOMAIN ar
  BY ContainsReflexive DEF Above, Ascending
<1>2. x \in P /\ P \subseteq DOMAIN ar
  BY <1>1 DEF Walk, Closed, Above
<1>3. ASSUME NEW i \in P \ S, ar[i].prev # NoLink PROVE ar[i].prev \in P
  <2>1. i \in own /\ ar[i].prev \in own /\ Contains(ar[ar[i].prev].scope, ar[i].scope)
    BY <1>3 DEF Above, Ascending, StrictlyInside
  <2>2. ar[i].prev \in Above(ar, own, x)
    BY <1>3, <2>1, ContainsTransitive DEF Above, Ascending
  <2>3. i \notin T
    BY <1>3
  <2>4. ar[i].prev \in Walk(ar, x, T)
    BY <1>1, <1>3, <2>1, <2>3 DEF Walk, Closed
  <2>5. QED
    BY <2>2, <2>4
<1>4. Walk(ar, x, S) \subseteq P
  <2> HIDE DEF P
  <2>1. QED
    BY <1>2, <1>3, WalkWithin
<1>5. QED
  BY <1>4

(* getDef returns the value of the element insertUpValue meets.            *)
LEMMA GetDefMeets ==
  ASSUME NEW ar, NEW ends, NEW own, Ascending(ar, ends, own), NEW s \in ProperScopes
  PROVE  /\ getDef(ar, ends, s)
              = IF Known(ar, ends, s) THEN ar[Meets(ar, ends[s.end], s)].value ELSE NullVal
         /\ Known(ar, ends, s) => /\ Meets(ar, ends[s.end], s) \in own
                                  /\ ar[Meets(ar, ends[s.end], s)].scope = s
<1>1. CASE s.end \notin DOMAIN ends
  BY <1>1 DEF getDef, Known
<1>2. CASE s.end \in DOMAIN ends
  <2> DEFINE x == ends[s.end]
             S == NotInside(ar, s)
             T == {j \in DOMAIN ar : \/ ar[j].scope.end # s.end
                                     \/ ar[j].scope.start <= s.start}
  <2>1. x \in own /\ ar[x].scope.end = s.end /\ \A j \in own : ar[j].scope \in ProperScopes /\ j \in DOMAIN ar
    BY <1>2 DEF Ascending
  <2>2. ASSUME NEW j \in Above(ar, own, x) PROVE j \in S <=> j \in T
    <3>1. j \in own /\ ar[j].scope \in ProperScopes /\ ar[x].scope \in ProperScopes
      BY <2>1 DEF Above
    <3>2. s.end <= ar[j].scope.end
      BY <2>1 DEF Above, Contains
    <3>3. \A t \in ProperScopes : t.start \in Nat /\ t.end \in Nat /\ t = [start |-> t.start, end |-> t.end]
      BY DEF ProperScopes
    <3>4. j \in S <=> (ar[j].scope = s \/ ~Contains(s, ar[j].scope))
      BY <2>1, <3>1 DEF NotInside
    <3>5. j \in T <=> (ar[j].scope.end # s.end \/ ar[j].scope.start <= s.start)
      BY <2>1, <3>1
    <3> DEFINE t == ar[j].scope
    <3>6. (t = s \/ ~Contains(s, t)) <=> (t.end # s.end \/ t.start <= s.start)
      <4>1. t \in ProperScopes /\ s.end <= t.end
        BY <3>1, <3>2
      <4> HIDE DEF t
      <4>2. /\ t.start \in Nat /\ t.end \in Nat /\ s.start \in Nat /\ s.end \in Nat
            /\ (t = s <=> t.start = s.start /\ t.end = s.end)
        BY <3>3, <4>1
      <4>3. QED
        BY <4>1, <4>2 DEF Contains
    <3>7. QED
      BY <3>4, <3>5, <3>6
  <2>3. Walk(ar, x, S) = Walk(ar, x, T)
    <3> HIDE DEF x, S, T
    <3>1. Walk(ar, x, S) \subseteq Walk(ar, x, T) /\ Walk(ar, x, T) \subseteq Walk(ar, x, S)
      BY <2>1, <2>2, SameStops
    <3>2. QED
      BY <3>1
  <2>4. Walk(ar, x, S) \subseteq Above(ar, own, x)
    BY <2>1, AscendingWalk
  <2>5. Walk(ar, x, S) \cap S = Walk(ar, x, T) \cap T
    BY <2>2, <2>3, <2>4
  <2>6. StopsAt(ar, x, S) = StopsAt(ar, x, T)
    <3> DEFINE Any(A) == IF A = {} THEN NoLink ELSE CHOOSE j \in A : TRUE
    <3>1. StopsAt(ar, x, S) = Any(Walk(ar, x, S) \cap S) /\ StopsAt(ar, x, T) = Any(Walk(ar, x, T) \cap T)
      BY DEF StopsAt
    <3> HIDE DEF x, S, T, Any
    <3>2. QED
      BY <2>5, <3>1
  <2>7. getDef(ar, ends, s)
          = IF StopsAt(ar, x, T) # NoLink /\ ar[StopsAt(ar, x, T)].scope = s
            THEN ar[StopsAt(ar, x, T)].value ELSE NullVal
    BY <1>2 DEF getDef, findUpValue
  <2>8. Known(ar, ends, s) <=> StopsAt(ar, x, S) # NoLink /\ ar[StopsAt(ar, x, S)].scope = s
    BY <1>2 DEF Known, Meets
  <2>9. Meets(ar, ends[s.end], s) = StopsAt(ar, x, S)
    BY DEF Meets
  <2>10. StopsAt(ar, x, S) # NoLink => StopsAt(ar, x, S) \in own
    BY <2>1, AscendingWalk DEF Above
  <2> HIDE DEF x, S, T
  <2>11. QED
    BY <2>6, <2>7, <2>8, <2>9, <2>10
<1>3. QED
  BY <1>1, <1>2

(* The element just stored is the one met for its scope.                   *)
LEMMA InsertedIsMet ==
  ASSUME NEW V, NEW ar \in Seq(Item(V)), NEW ends, NEW own, Ascending(ar, ends, own),
         NEW s \in ProperScopes, NEW v, ~Known(ar, ends, s), ~HierarchyError(ar, ends, s)
  PROVE  /\ Known(Inserted(ar, ends, s, v), NewEnds(ar, ends, s), s)
         /\ Meets(Inserted(ar, ends, s, v), NewEnds(ar, ends, s)[s.end], s) = Len(ar) + 1
<1> DEFINE n == Len(ar) + 1
           new == Inserted(ar, ends, s, v)
           more == NewEnds(ar, ends, s)
           all == own \cup {n}
           Stop == NotInside(new, s)
<1>1. IsExtension(ar, own, ends, s, v, new) /\ Ascending(new, more, all)
  BY InsertedExtends, InsertedAscending
<1>2. /\ DOMAIN new = DOMAIN ar \cup {n} /\ n \notin DOMAIN ar /\ new[n].scope = s
      /\ \A i \in DOMAIN ar : new[i].scope = ar[i].scope /\ new[i].prev \in {ar[i].prev, n}
  BY <1>1 DEF IsExtension
<1>3. n \in Stop /\ \A i \in DOMAIN ar : i \in Stop <=> i \in NotInside(ar, s)
  BY <1>2 DEF NotInside
<1>4. s.end \in DOMAIN more /\ more[s.end] \in all
  BY <1>1 DEF NewEnds, Ascending
<1>5. n \in Walk(new, more[s.end], Stop)
  <2>1. CASE more[s.end] = n
    BY <1>2, <2>1 DEF Walk, Closed
  <2>2. CASE more[s.end] # n
    <3> DEFINE x == ends[s.end]
               last == Innerlast(ar, x, s)
    <3>1. s.end \in DOMAIN ends /\ more[s.end] = x /\ last # NoLink
      BY <2>2 DEF NewEnds
    <3>2. x \in own
      BY <3>1 DEF Ascending
    <3>3. last \in own /\ last \in Walk(ar, x, NotInside(ar, s)) \ NotInside(ar, s)
      BY <3>1, <3>2, AscendingInnerlast
    <3>4. last \in DOMAIN ar /\ own \subseteq DOMAIN ar
      BY <3>3 DEF Ascending
    <3>5. new[last].prev = n
      <4> DEFINE lists == {ends[e] : e \in {f \in DOMAIN ends : s.start < f /\ f <= s.end}}
                 linked == linkLeftNeighbours(ar, lists, s, n)
      <4>1. x \in lists
        <5>1. s.start < s.end /\ s.end <= s.end
          BY DEF ProperScopes
        <5>2. QED
          BY <3>1, <5>1
      <4>2. Meets(ar, x, s) = NoLink \/ ar[Meets(ar, x, s)].scope # s
        BY <3>1 DEF Known
      <4>3. linked[last] = [ar[last] EXCEPT !.prev = n]
        BY <3>4, <4>1, <4>2 DEF linkLeftNeighbours
      <4>4. new = Append(linked, [scope |-> s, value |-> v, prev |-> NewPrev(ar, ends, s)])
        BY DEF Inserted
      <4>5. DOMAIN linked = DOMAIN ar /\ DOMAIN ar = 1 .. Len(ar) /\ Len(ar) \in Nat
        BY DEF linkLeftNeighbours
      <4>6. ar[last] \in Item(V)
        BY <3>4, <4>5
      <4>7. linked[last].prev = n
        BY <4>3, <4>6 DEF Item
      <4>8. linked = [i \in 1 .. Len(ar) |-> linked[i]]
        BY <4>5 DEF linkLeftNeighbours
      <4> HIDE DEF linked
      <4>9. linked \in Seq({linked[i] : i \in 1 .. Len(ar)}) /\ Len(linked) = Len(ar)
        BY <4>5, <4>8
      <4>10. new[last] = linked[last]
        <5> HIDE DEF new, last
        <5>1. QED
          BY <3>4, <4>4, <4>5, <4>9
      <4>11. QED
        BY <4>7, <4>10
    <3> HIDE DEF last, new
    <3>6. ASSUME NEW C \in Closed(new, more[s.end], Stop), n \notin C PROVE FALSE
      <4>1. C \subseteq DOMAIN ar /\ x \in C
        BY <1>2, <3>1, <3>6 DEF Closed
      <4>2. ASSUME NEW i \in C \ NotInside(ar, s), ar[i].prev # NoLink PROVE ar[i].prev \in C
        <5>1. i \in DOMAIN ar /\ i \notin Stop
          BY <1>3, <4>1, <4>2
        <5>2. n # NoLink
          BY DEF NoLink
        <5>3. new[i].prev # NoLink
          BY <1>2, <4>2, <5>1, <5>2
        <5>4. new[i].prev \in C
          BY <4>2, <5>1, <5>3 DEF Closed
        <5>5. QED
          BY <1>2, <3>6, <5>1, <5>4
      <4>3. Walk(ar, x, NotInside(ar, s)) \subseteq C
        BY <4>1, <4>2, WalkWithin
      <4>4. last \in C /\ last \notin Stop
        BY <1>3, <3>3, <3>4, <4>3
      <4>5. n # NoLink
        BY DEF NoLink
      <4>6. new[last].prev \in C
        BY <3>5, <4>4, <4>5 DEF Closed
      <4>7. QED
        BY <3>5, <3>6, <4>6
    <3>7. QED
      BY <1>2, <3>6 DEF Walk
  <2>3. QED
    BY <2>1, <2>2
<1>6. StopsAt(new, more[s.end], Stop) = n
  <2> HIDE DEF new, more, all, Stop
  <2>1. QED
    BY <1>1, <1>3, <1>4, <1>5, StopsOnce
<1>7. n # NoLink
  BY DEF NoLink
<1>8. QED
  BY <1>2, <1>4, <1>6, <1>7 DEF Known, Meets

(* A change elsewhere leaves what is found as it is.                       *)
LEMMA GetDefElsewhere ==
  ASSUME NEW ar, NEW new, NEW ends, NEW own, Ascending(ar, ends, own), NEW s \in ProperScopes,
         DOMAIN ar \subseteq DOMAIN new,
         \A i \in own : /\ new[i].scope = ar[i].scope /\ new[i].value = ar[i].value
                        /\ new[i].prev = ar[i].prev
  PROVE  getDef(new, ends, s) = getDef(ar, ends, s)
<1>1. CASE s.end \notin DOMAIN ends
  BY <1>1 DEF getDef
<1>2. CASE s.end \in DOMAIN ends
  <2> DEFINE x == ends[s.end]
             Found(a) == {j \in DOMAIN a : \/ a[j].scope.end # s.end
                                           \/ a[j].scope.start <= s.start}
  <2>1. x \in own /\ own \subseteq DOMAIN ar /\ own \subseteq DOMAIN new
    BY <1>2 DEF Ascending
  <2>2. Walk(ar, x, Found(ar)) \subseteq own
    BY <2>1, AscendingWalk DEF Above
  <2>3. \A i \in own : i \in Found(ar) <=> i \in Found(new)
    BY <2>1
  <2>4. \A i \in own : ar[i].prev # NoLink => ar[i].prev \in own
    BY DEF Ascending
  <2>5. Walk(new, x, Found(new)) = Walk(ar, x, Found(ar))
    <3> HIDE DEF Found, x
    <3>1. Walk(ar, x, Found(ar)) \subseteq Walk(new, x, Found(new))
      <4> SUFFICES ASSUME NEW C \in Closed(new, x, Found(new)) PROVE Walk(ar, x, Found(ar)) \subseteq C \cap own
        BY <2>1, <2>2 DEF Walk
      <4> DEFINE P == C \cap own
      <4>1. P \subseteq DOMAIN ar /\ x \in P
        BY <2>1 DEF Closed
      <4>2. \A i \in P \ Found(ar) : ar[i].prev # NoLink => ar[i].prev \in P
        BY <2>3, <2>4 DEF Closed
      <4> HIDE DEF P
      <4>3. QED
        BY <4>1, <4>2, WalkWithin DEF P
    <3>2. Walk(new, x, Found(new)) \subseteq Walk(ar, x, Found(ar))
      <4> SUFFICES ASSUME NEW C \in Closed(ar, x, Found(ar)) PROVE Walk(new, x, Found(new)) \subseteq C \cap own
        <5>1. Walk(new, x, Found(new)) \subseteq own
          <6>1. \A i \in own \ Found(new) : new[i].prev # NoLink => new[i].prev \in own
            BY <2>4
          <6>2. QED
            BY <2>1, <6>1, WalkWithin
        <5>2. QED
          BY <2>1, <5>1 DEF Walk
      <4> DEFINE P == C \cap own
      <4>1. P \subseteq DOMAIN new /\ x \in P
        BY <2>1 DEF Closed
      <4>2. \A i \in P \ Found(new) : new[i].prev # NoLink => new[i].prev \in P
        BY <2>3, <2>4 DEF Closed
      <4> HIDE DEF P
      <4>3. QED
        BY <4>1, <4>2, WalkWithin DEF P
    <3>3. QED
      BY <3>1, <3>2
  <2>6. Walk(new, x, Found(new)) \cap Found(new) = Walk(ar, x, Found(ar)) \cap Found(ar)
    BY <2>2, <2>3, <2>5
  <2>7. StopsAt(new, x, Found(new)) = StopsAt(ar, x, Found(ar))
    <3> DEFINE Any(A) == IF A = {} THEN NoLink ELSE CHOOSE j \in A : TRUE
    <3>1. /\ StopsAt(new, x, Found(new)) = Any(Walk(new, x, Found(new)) \cap Found(new))
          /\ StopsAt(ar, x, Found(ar)) = Any(Walk(ar, x, Found(ar)) \cap Found(ar))
      BY DEF StopsAt
    <3> HIDE DEF Found, x, Any
    <3>2. QED
      BY <2>6, <3>1
  <2>8. StopsAt(ar, x, Found(ar)) # NoLink => StopsAt(ar, x, Found(ar)) \in own
    <3> HIDE DEF Found, x
    <3>1. QED
      BY <2>2 DEF StopsAt
  <2>9. \A a : getDef(a, ends, s)
                 = IF StopsAt(a, x, Found(a)) # NoLink /\ a[StopsAt(a, x, Found(a))].scope = s
                   THEN a[StopsAt(a, x, Found(a))].value ELSE NullVal
    BY <1>2 DEF getDef, findUpValue
  <2> HIDE DEF Found, x
  <2>10. QED
    BY <2>7, <2>8, <2>9
<1>3. QED
  BY <1>1, <1>2

OverlapsDefined(key, scope) == \E i \in Elements(key) : Crossing(m_invtree[i].scope, scope)

LEMMA RefusedOverlaps ==
  ASSUME IInv, NEW key \in Keys, NEW scope \in Scopes, IsRefused(key, scope)
  PROVE  OverlapsDefined(key, scope)
<1>1. scope \in ProperScopes
  BY ScopesAssumption DEF ProperScopes
<1>2. Ascending(m_invtree, m_map[key], Elements(key)) /\ HierarchyError(m_invtree, m_map[key], scope)
  BY DEF IInv, Ordered, IsRefused
<1>3. QED
  BY <1>1, <1>2, RefusedCrosses DEF OverlapsDefined

(* set and getOrSet throw a ScopeHierarchyError only for a scope that      *)
(* overlaps one the same key has a definition for, whatever scopes were    *)
(* accepted before.                                                        *)
THEOREM OnlyOverlapRefused ==
  Spec => [][\A key \in Keys, scope \in Scopes : Refuse(key, scope) => OverlapsDefined(key, scope)]_vars
<1>1. IInv /\ [Next]_vars =>
        [\A key \in Keys, scope \in Scopes : Refuse(key, scope) => OverlapsDefined(key, scope)]_vars
  BY RefusedOverlaps DEF Refuse
<1>2. (Init => IInv) /\ (IInv /\ [Next]_vars => IInv')
  BY Inductive
<1>3. QED
  BY <1>1, <1>2, PTL DEF Spec

-----------------------------------------------------------------------------
(* getDef, whatever scopes the keys have.                                  *)

(* A scope is known if getDef finds it, with the value of an element.      *)
DefIsOfElement ==
  \A key \in Keys, scope \in Scopes :
    /\ IsKnown(key, scope) <=> Def(key, scope) # NullVal
    /\ IsKnown(key, scope) => /\ OldValue(key, scope) = Def(key, scope)
                              /\ \E i \in Elements(key) : /\ m_invtree[i].scope = scope
                                                          /\ m_invtree[i].value = Def(key, scope)

LEMMA KnownFound == IInv => DefIsOfElement
<1> SUFFICES ASSUME IInv, NEW key \in Keys, NEW scope \in Scopes
    PROVE  /\ IsKnown(key, scope) <=> Def(key, scope) # NullVal
           /\ IsKnown(key, scope) => /\ OldValue(key, scope) = Def(key, scope)
                                     /\ \E i \in Elements(key) : /\ m_invtree[i].scope = scope
                                                                 /\ m_invtree[i].value = Def(key, scope)
  BY DEF DefIsOfElement
<1>1. scope \in ProperScopes /\ Ascending(m_invtree, m_map[key], Elements(key))
  BY ScopesAssumption DEF ProperScopes, IInv, Ordered
<1>2. /\ Def(key, scope) = IF IsKnown(key, scope) THEN OldValue(key, scope) ELSE NullVal
      /\ IsKnown(key, scope) => /\ Meets(m_invtree, m_map[key][scope.end], scope) \in Elements(key)
                                /\ m_invtree[Meets(m_invtree, m_map[key][scope.end], scope)].scope = scope
  BY <1>1, GetDefMeets DEF Def, IsKnown, OldValue
<1>3. \A i \in Elements(key) : m_invtree[i].value \in Values
  <2>1. m_invtree \in Seq(Element) /\ \A i \in Elements(key) : i \in DOMAIN m_invtree
    BY DEF IInv, TypeOK, Elements
  <2>2. \A i \in Elements(key) : m_invtree[i] \in Element
    BY <2>1
  <2>3. QED
    BY <2>2 DEF Element
<1>4. QED
  BY <1>2, <1>3, ValuesAssumption DEF OldValue

(* What is stored is found next, and the other keys are not affected.      *)
LEMMA InsertDef ==
  ASSUME IInv, NEW key \in Keys, NEW scope \in Scopes, NEW value \in Values,
         Insert(key, scope, value)
  PROVE  /\ Def(key, scope)' = value
         /\ \A k \in Keys, s \in Scopes : k # key => Def(k, s)' = Def(k, s)
<1> DEFINE n == Len(m_invtree) + 1
<1>1. scope \in ProperScopes /\ Scopes \subseteq ProperScopes
  BY ScopesAssumption DEF ProperScopes
<1>2. /\ Elements(key)' = Elements(key) \cup {n}
      /\ IsExtension(m_invtree, Elements(key), m_map[key], scope, value, m_invtree')
      /\ m_map'[key] = NewEnds(m_invtree, m_map[key], scope)
      /\ m_invtree' = Inserted(m_invtree, m_map[key], scope, value)
  BY InsertElements DEF Insert
<1>3. IInv'
  BY InsertInductive
<1>4. \A k \in Keys : Ascending(m_invtree', m_map'[k], Elements(k)')
  BY <1>3 DEF IInv, Ordered, Ascending, StrictlyInside, Contains, NoLink
<1>5. Known(m_invtree', m_map'[key], scope) /\ Meets(m_invtree', m_map'[key][scope.end], scope) = n
  <2>1. ~Known(m_invtree, m_map[key], scope) /\ ~HierarchyError(m_invtree, m_map[key], scope)
    BY DEF Insert, IsKnown, IsRefused
  <2>2. m_invtree \in Seq(Item(Values)) /\ Ascending(m_invtree, m_map[key], Elements(key))
    BY Items DEF IInv, Ordered
  <2>3. QED
    BY <1>1, <1>2, <2>1, <2>2, InsertedIsMet
<1>6. Def(key, scope)' = getDef(m_invtree', m_map'[key], scope)
  BY DEF Def, getDef, findUpValue, StopsAt, Walk, Closed, NoLink
<1>7. Def(key, scope)' = m_invtree'[n].value
  BY <1>1, <1>4, <1>5, <1>6, GetDefMeets
<1>8. m_invtree'[n].value = value
  BY <1>2 DEF IsExtension
<1>9. ASSUME NEW k \in Keys, NEW s \in Scopes, k # key PROVE Def(k, s)' = Def(k, s)
  <2>1. /\ Elements(k)' = Elements(k) /\ m_map'[k] = m_map[k]
        /\ \A i \in Elements(k) : /\ m_invtree'[i].scope = m_invtree[i].scope
                                  /\ m_invtree'[i].value = m_invtree[i].value
                                  /\ m_invtree'[i].prev = m_invtree[i].prev
    BY <1>9, InsertElsewhere
  <2>2. DOMAIN m_invtree \subseteq DOMAIN m_invtree'
    BY <1>2 DEF IsExtension
  <2>3. Ascending(m_invtree, m_map[k], Elements(k))
    BY DEF IInv, Ordered
  <2>4. getDef(m_invtree', m_map[k], s) = getDef(m_invtree, m_map[k], s)
    BY <1>1, <2>1, <2>2, <2>3, GetDefElsewhere
  <2>5. Def(k, s)' = getDef(m_invtree', m_map'[k], s)
    BY DEF Def, getDef, findUpValue, StopsAt, Walk, Closed, NoLink
  <2>6. QED
    BY <2>1, <2>4, <2>5 DEF Def
<1>10. QED
  BY <1>7, <1>8, <1>9

(* As long as the scopes of a key nest getDef finds the element of exactly *)
(* the scope, if there is one, and getTree lists all elements.             *)
DefIsExact ==
  \A key \in Keys : Nested(key) =>
    /\ \A scope \in Scopes :
         \/ (\A i \in Elements(key) : m_invtree[i].scope # scope) /\ Def(key, scope) = NullVal
         \/ \E i \in Elements(key) : m_invtree[i].scope = scope /\ Def(key, scope) = m_invtree[i].value
    /\ \A i, j \in Elements(key) : m_invtree[i].scope = m_invtree[j].scope => i = j
    /\ Listed(key) = Elements(key)

LEMMA NestedExact == IInv => DefIsExact
<1> SUFFICES ASSUME IInv, NEW key \in Keys, Nested(key)
    PROVE  /\ \A scope \in Scopes :
                \/ (\A i \in Elements(key) : m_invtree[i].scope # scope) /\ Def(key, scope) = NullVal
                \/ \E i \in Elements(key) : m_invtree[i].scope = scope /\ Def(key, scope) = m_invtree[i].value
           /\ \A i, j \in Elements(key) : m_invtree[i].scope = m_invtree[j].scope => i = j
           /\ Listed(key) = Elements(key)
  BY DEF DefIsExact
<1>1. Linked(m_invtree, Elements(key)) /\ EndsLeadToInnermost(m_invtree, m_map[key], Elements(key))
  BY KeyLinked
<1>2. \A scope \in Scopes : scope \in ProperScopes
  BY ScopesAssumption DEF ProperScopes
<1>3. ASSUME NEW scope \in Scopes
      PROVE  \/ (\A i \in Elements(key) : m_invtree[i].scope # scope) /\ Def(key, scope) = NullVal
             \/ \E i \in Elements(key) : m_invtree[i].scope = scope /\ Def(key, scope) = m_invtree[i].value
  BY <1>1, <1>2, GetDefExact DEF Def
<1>4. Listed(key) = Elements(key)
  <2>1. \A e \in DOMAIN m_map[key] : m_map[key][e] \in Elements(key)
    BY <1>1 DEF EndsLeadToInnermost
  <2>2. \A e \in DOMAIN m_map[key] : Walk(m_invtree, m_map[key][e], {}) \subseteq Elements(key)
    BY <1>1, <2>1, WalkAbove DEF Above
  <2>3. ASSUME NEW i \in Elements(key)
        PROVE  \E e \in DOMAIN m_map[key] : i \in Walk(m_invtree, m_map[key][e], {})
    <3> DEFINE e == m_invtree[i].scope.end
               x == m_map[key][e]
    <3>1. e \in DOMAIN m_map[key] /\ x \in Elements(key)
      BY <1>1 DEF EndsLeadToInnermost
    <3>2. m_invtree[x].scope.end = e /\ m_invtree[i].scope.start <= m_invtree[x].scope.start
      BY <1>1, <3>1 DEF EndsLeadToInnermost
    <3>3. m_invtree[i].scope \in ProperScopes /\ m_invtree[x].scope \in ProperScopes
      BY <1>1, <3>1 DEF Linked, NestedElements
    <3>4. i \in Above(m_invtree, Elements(key), x)
      <4>1. \A s \in ProperScopes : s.start \in Nat /\ s.end \in Nat
        BY DEF ProperScopes
      <4>2. m_invtree[x].scope.end = m_invtree[i].scope.end
        BY <3>2
      <4> HIDE DEF x
      <4>3. Contains(m_invtree[i].scope, m_invtree[x].scope)
        BY <3>2, <3>3, <4>1, <4>2 DEF Contains
      <4>4. QED
        BY <4>3 DEF Above
    <3> HIDE DEF e, x
    <3>5. i \in Walk(m_invtree, x, {})
      BY <1>1, <3>1, <3>4, WalkArrives
    <3>6. QED
      BY <3>1, <3>5 DEF x
  <2>4. QED
    BY <2>2, <2>3 DEF Listed
<1>5. QED
  BY <1>1, <1>3, <1>4 DEF Linked

(* As long as they nest a definition hides no other one.                   *)
LEMMA InsertKeeps ==
  ASSUME IInv, NEW key \in Keys, NEW scope \in Scopes, NEW value \in Values,
         Insert(key, scope, value), Nested(key)', NEW s \in Scopes, s # scope
  PROVE  Def(key, s)' = Def(key, s)
<1> DEFINE n == Len(m_invtree) + 1
<1>1. DefIsExact /\ DefIsExact'
  <2>1. IInv'
    BY InsertInductive
  <2>2. (IInv => DefIsExact) /\ (IInv => DefIsExact)'
    BY NestedExact, PTL
  <2>3. QED
    BY <2>1, <2>2
<1>2. /\ Elements(key)' = Elements(key) \cup {n}
      /\ IsExtension(m_invtree, Elements(key), m_map[key], scope, value, m_invtree')
  BY InsertElements
<1>3. /\ m_invtree'[n].scope = scope /\ n \notin Elements(key)
      /\ \A i \in Elements(key) : /\ m_invtree'[i].scope = m_invtree[i].scope
                                  /\ m_invtree'[i].value = m_invtree[i].value
  BY <1>2 DEF IsExtension, Elements
<1>4. Nested(key)
  BY NestedBefore
<1>5. \/ (\A i \in Elements(key) : m_invtree[i].scope # s) /\ Def(key, s) = NullVal
      \/ \E i \in Elements(key) : m_invtree[i].scope = s /\ Def(key, s) = m_invtree[i].value
  BY <1>1, <1>4 DEF DefIsExact
<1>6. /\ \/ (\A i \in Elements(key)' : m_invtree'[i].scope # s) /\ Def(key, s)' = NullVal
         \/ \E i \in Elements(key)' : m_invtree'[i].scope = s /\ Def(key, s)' = m_invtree'[i].value
      /\ \A i, j \in Elements(key) : m_invtree[i].scope = m_invtree[j].scope => i = j
  BY <1>1, <1>4 DEF DefIsExact
<1>7. QED
  BY <1>2, <1>3, <1>5, <1>6

(* The queries pass the elements whose scope covers the step, and a loop   *)
(* over a list those whose scope includes that of the first one.           *)
QueriesPass ==
  \A key \in Keys : Nested(key) =>
    /\ \A step \in Nat : Matched(key, step) = VisibleElements(m_invtree, Elements(key), step)
    /\ \A i \in Elements(key) : Walk(m_invtree, i, {}) = Above(m_invtree, Elements(key), i)

LEMMA NestedPass == IInv => QueriesPass
<1> SUFFICES ASSUME IInv, NEW key \in Keys, Nested(key)
    PROVE  /\ \A step \in Nat : Matched(key, step) = VisibleElements(m_invtree, Elements(key), step)
           /\ \A i \in Elements(key) : Walk(m_invtree, i, {}) = Above(m_invtree, Elements(key), i)
  BY DEF QueriesPass
<1>1. Linked(m_invtree, Elements(key)) /\ EndsLeadToInnermost(m_invtree, m_map[key], Elements(key))
  BY KeyLinked
<1>2. \A step \in Nat : Matched(key, step) = VisibleElements(m_invtree, Elements(key), step)
  BY <1>1, MatchRangeVisible DEF Matched
<1>3. ASSUME NEW i \in Elements(key)
      PROVE  Walk(m_invtree, i, {}) = Above(m_invtree, Elements(key), i)
  <2>1. Walk(m_invtree, i, {}) \subseteq Above(m_invtree, Elements(key), i)
    BY <1>1, WalkAbove
  <2>2. \A j \in Above(m_invtree, Elements(key), i) : j \in Walk(m_invtree, i, {})
    BY <1>1, WalkArrives
  <2>3. QED
    BY <2>1, <2>2
<1>4. QED
  BY <1>2, <1>3

-----------------------------------------------------------------------------
(* The abstract dictionary.                                                *)

LEMMA ScopesOf ==
  ASSUME IInv, NEW key \in Keys, Nested(key)
  PROVE  /\ DOMAIN Definitions[key] = {m_invtree[i].scope : i \in Elements(key)}
         /\ \A i \in Elements(key) : Definitions[key][m_invtree[i].scope] = m_invtree[i].value
<1>1. \A i, j \in Elements(key) : m_invtree[i].scope = m_invtree[j].scope => i = j
  BY KeyLinked DEF WellLinked
<1>2. QED
  BY <1>1, ContentsOf DEF Definitions

(* Every query answers as the dictionary does.                             *)
LEMMA Answers ==
  ASSUME IInv
  PROVE  AnswersAsDict
<1> SUFFICES ASSUME NEW key \in Keys, Nested(key)
    PROVE  /\ \A step \in Steps :
                /\ get(m_invtree, m_map[key], step) = Dict!Lookup(key, step)
                /\ {m_invtree[i].scope : i \in match_range(m_invtree, m_map[key], step)}
                     = Dict!Visible(key, step)
           /\ \A scope \in Scopes :
                getDef(m_invtree, m_map[key], scope) = Dict!LookupDef(key, scope)
  BY DEF AnswersAsDict, Matched, Def
<1> DEFINE own == Elements(key)
           defs == Contents(m_invtree, own)
<1>1. Linked(m_invtree, own) /\ EndsLeadToInnermost(m_invtree, m_map[key], own)
  BY KeyLinked
<1>2. Definitions[key] = defs
  BY DEF Definitions
<1>3. ASSUME NEW step \in Steps
      PROVE  /\ Dict!Visible(key, step) = VisibleIn(defs, step)
             /\ Dict!Lookup(key, step) = LookupIn(defs, step)
  BY <1>2 DEF Dict!Visible, Dict!Lookup, Dict!Innermost, Dict!Rules!Covers, Dict!Rules!Contains,
              VisibleIn, LookupIn, Covers, Contains
<1>4. ASSUME NEW step \in Steps
      PROVE  /\ get(m_invtree, m_map[key], step) = LookupIn(defs, step)
             /\ {m_invtree[i].scope : i \in match_range(m_invtree, m_map[key], step)}
                  = VisibleIn(defs, step)
  BY <1>1, StepsAssumption, GetInnermost, MatchRangeScopes
<1>5. ASSUME NEW scope \in Scopes
      PROVE  getDef(m_invtree, m_map[key], scope) = Dict!LookupDef(key, scope)
  <2>1. scope \in ProperScopes
    BY ScopesAssumption DEF ProperScopes
  <2>2. getDef(m_invtree, m_map[key], scope) = IF scope \in DOMAIN defs THEN defs[scope] ELSE NullVal
    BY <1>1, <2>1, GetDefOfScope
  <2>3. QED
    BY <1>2, <2>2 DEF Dict!LookupDef
<1>6. QED
  BY <1>3, <1>4, <1>5

(* As long as the scopes of a key nest get, getDef and match_range answer  *)
(* as the scoped dictionary does, for every step.                          *)
THEOREM AnswersRight == Spec => []AnswersAsDict
<1>1. IInv => AnswersAsDict
  BY Answers
<1>2. (Init => IInv) /\ (IInv /\ [Next]_vars => IInv')
  BY Inductive
<1>3. QED
  BY <1>1, <1>2, PTL DEF Spec

-----------------------------------------------------------------------------
(* The updates, as long as the scopes of the keys nest.                    *)
LEMMA KnownIsDefined ==
  ASSUME IInv, NEW key \in Keys, NEW scope \in Scopes, Nested(key)
  PROVE  /\ IsKnown(key, scope) <=> scope \in DOMAIN Definitions[key]
         /\ IsKnown(key, scope) => OldValue(key, scope) = Dict!LookupDef(key, scope)
<1>1. scope \in ProperScopes
  BY ScopesAssumption DEF ProperScopes
<1>2. /\ IsKnown(key, scope) <=> \E i \in Elements(key) : m_invtree[i].scope = scope
      /\ \A i \in Elements(key) :
           m_invtree[i].scope = scope => Meets(m_invtree, m_map[key][scope.end], scope) = i
  BY <1>1, KeyLinked, KnownIff DEF IsKnown
<1>3. QED
  BY <1>2, ScopesOf DEF Dict!LookupDef, OldValue

LEMMA InsertPuts ==
  ASSUME IInv, AllNested, AllNested', NEW key \in Keys, NEW scope \in Scopes, NEW value \in Values,
         Insert(key, scope, value)
  PROVE  scope \notin DOMAIN Definitions[key] /\ Dict!Put(key, scope, value)
<1> DEFINE n == Len(m_invtree) + 1
           put == Plus(Definitions[key], scope, value)
<1>1. scope \notin DOMAIN Definitions[key]
  BY KnownIsDefined DEF Insert, AllNested
<1>2. Fresh(m_invtree, Elements(key), scope)
  BY KeyFresh DEF AllNested
<1>3. \A k \in Keys : \A i, j \in Elements(k) : m_invtree[i].scope = m_invtree[j].scope => i = j
  BY KeyLinked DEF AllNested, WellLinked
<1>4. Contents(m_invtree', Elements(key)') = put
  <2>1. Elements(key) \subseteq DOMAIN m_invtree
    BY DEF Elements
  <2>2. Definitions[key] = Contents(m_invtree, Elements(key))
    BY DEF Definitions
  <2>3. \A i, j \in Elements(key) : m_invtree[i].scope = m_invtree[j].scope => i = j
    BY <1>3
  <2>4. IsInsertion(m_invtree, Elements(key), m_map[key], scope, value, m_invtree')
    BY <1>2, Items, KeyLinked, InsertedItems DEF IInv, AllNested, Insert
  <2>5. \A i \in Elements(key) : m_invtree[i].scope # scope
    BY <1>2 DEF Fresh
  <2>6. Contents(m_invtree', Elements(key) \cup {Len(m_invtree) + 1})
          = Plus(Contents(m_invtree, Elements(key)), scope, value)
    BY <2>1, <2>3, <2>4, <2>5, ContentsInserted
  <2>7. QED
    BY <2>2, <2>6, InsertElements
<1>5. ASSUME NEW k \in Keys, k # key
      PROVE  Contents(m_invtree', Elements(k)') = Definitions[k]
  <2>1. /\ Elements(k)' = Elements(k)
        /\ \A i \in Elements(k) : m_invtree'[i].scope = m_invtree[i].scope
                                  /\ m_invtree'[i].value = m_invtree[i].value
    BY <1>5, InsertElsewhere
  <2>2. Contents(m_invtree', Elements(k)) = Contents(m_invtree, Elements(k))
    BY <1>3, <2>1, ContentsElsewhere
  <2>3. QED
    BY <2>1, <2>2 DEF Definitions
<1>6. Definitions' = [k \in Keys |-> Contents(m_invtree', Elements(k)')]
  BY DEF Definitions, Contents
<1>7. Definitions' = [Definitions EXCEPT ![key] = put]
  <2> HIDE DEF put
  <2>1. DOMAIN Definitions = Keys
    BY DEF Definitions
  <2>2. \A k \in Keys : Definitions'[k] = IF k = key THEN put ELSE Definitions[k]
    BY <1>4, <1>5, <1>6
  <2>3. DOMAIN Definitions' = Keys /\ Definitions' = [k \in Keys |-> Definitions'[k]]
    BY <1>6
  <2>4. QED
    BY <2>1, <2>2, <2>3
<1>8. QED
  BY <1>1, <1>7 DEF Dict!Put, Plus

LEMMA StepImplements ==
  ASSUME IInv, AllNested, AllNested', [Next]_vars
  PROVE  [Dict!Next]_(Dict!vars)
<1>1. ASSUME UNCHANGED <<m_invtree, owner>> PROVE UNCHANGED Definitions
  BY <1>1 DEF Definitions, Elements, Contents
<1>2. ASSUME NEW key \in Keys, NEW scope \in Scopes, NEW value \in Values, Set(key, scope, value)
      PROVE  Dict!Set(key, scope, value)
  <2>1. CASE Insert(key, scope, value) /\ reply' = [op |-> "set", result |-> TRUE]
    BY <2>1, InsertPuts DEF Dict!Set
  <2>2. CASE /\ IsKnown(key, scope)
             /\ reply' = [op |-> "set", result |-> FALSE]
             /\ UNCHANGED <<m_invtree, m_map, owner>>
    BY <1>1, <2>2, KnownIsDefined DEF Dict!Set, AllNested
  <2>3. QED
    BY <1>2, <2>1, <2>2 DEF Set
<1>3. ASSUME NEW key \in Keys, NEW scope \in Scopes, NEW value \in Values, GetOrSet(key, scope, value)
      PROVE  Dict!GetOrSet(key, scope, value)
  <2>1. CASE Insert(key, scope, value) /\ reply' = [op |-> "getOrSet", result |-> NullVal]
    BY <2>1, InsertPuts DEF Dict!GetOrSet
  <2>2. CASE /\ IsKnown(key, scope)
             /\ reply' = [op |-> "getOrSet",
                          result |-> OldValue(key, scope)]
             /\ UNCHANGED <<m_invtree, m_map, owner>>
    BY <1>1, <2>2, KnownIsDefined DEF Dict!GetOrSet, AllNested
  <2>3. QED
    BY <1>3, <2>1, <2>2 DEF GetOrSet
<1>4. ASSUME NEW key \in Keys, NEW scope \in Scopes, Refuse(key, scope)
      PROVE  Dict!Refuse(key, scope)
  <2>1. PICK i \in Elements(key) : Crossing(m_invtree[i].scope, scope)
    BY <1>4, RefusedOverlaps DEF OverlapsDefined, Refuse
  <2>2. m_invtree[i].scope \in DOMAIN Definitions[key]
    BY ScopesOf DEF AllNested
  <2>3. Dict!Rules!Crossing(m_invtree[i].scope, scope)
    BY <2>1 DEF Crossing, Contains, Dict!Rules!Crossing, Dict!Rules!Contains
  <2>4. reply' = [op |-> "refuse", result |-> FALSE] /\ UNCHANGED Definitions
    BY <1>1, <1>4 DEF Refuse
  <2>5. QED
    BY <2>2, <2>3, <2>4 DEF Dict!Refuse
<1>5. CASE UNCHANGED vars
  BY <1>1, <1>5 DEF vars, Dict!vars
<1>6. QED
  BY <1>2, <1>3, <1>4, <1>5 DEF Next, Dict!Next

(* As long as the scopes of every key nest ScopedMap implements the        *)
(* dictionary, refused calls included.                                     *)
THEOREM MapImplementsDict == Spec /\ []AllNested => ImplementsDict
<1>1. Init => Dict!Init
  BY DEF Init, Dict!Init, Definitions, Elements, Contents
<1>2. IInv /\ AllNested /\ AllNested' /\ [Next]_vars => [Dict!Next]_(Dict!vars)
  BY StepImplements
<1>3. (Init => IInv) /\ (IInv /\ [Next]_vars => IInv')
  BY Inductive
<1>4. QED
  BY <1>1, <1>2, <1>3, PTL DEF Spec, ImplementsDict, Dict!Spec

(* No two scopes overlap without one including the other.                  *)
Laminar == \A s, t \in Scopes : ~Crossing(s, t)

NothingRefused == reply.op # "refuse"

(* With nested scopes, as the parser makes them, this is so always, and no *)
(* definition is refused.                                                  *)
COROLLARY LaminarImplementsDict ==
  ASSUME Laminar
  PROVE  Spec => ImplementsDict /\ []NothingRefused
<1>1. IInv => AllNested
  BY Items DEF IInv, AllNested, Nested, Laminar
<1>2. Init => NothingRefused
  BY DEF Init, NothingRefused
<1>3. ASSUME IInv, NothingRefused, [Next]_vars PROVE NothingRefused'
  <2>1. ASSUME NEW key \in Keys, NEW scope \in Scopes PROVE ~Refuse(key, scope)
    BY <1>3, RefusedOverlaps, Items DEF IInv, Laminar, OverlapsDefined, Refuse
  <2>2. CASE UNCHANGED vars
    BY <1>3, <2>2 DEF vars, NothingRefused
  <2>3. CASE \E key \in Keys, scope \in Scopes, value \in Values :
               Set(key, scope, value) \/ GetOrSet(key, scope, value)
    BY <2>3 DEF Set, GetOrSet, NothingRefused
  <2>4. QED
    BY <1>3, <2>1, <2>2, <2>3 DEF Next
<1>4. (Init => IInv) /\ (IInv /\ [Next]_vars => IInv')
  BY Inductive
<1>5. QED
  BY <1>1, <1>2, <1>3, <1>4, MapImplementsDict, PTL DEF Spec
=============================================================================
